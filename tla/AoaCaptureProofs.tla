-------------------------- MODULE AoaCaptureProofs --------------------------
(***************************************************************************)
(* Proofs about AoaCapture, for every number of tolerated failures, queue  *)
(* length and read size.                                                   *)
(*                                                                         *)
(* The properties of AoaCapture are not inductive: that a worker's         *)
(* descriptor is open depends on where the main thread is when the worker  *)
(* runs, and that a closed output is reported depends on when it can be    *)
(* found closed.  Placement below says both.                               *)
(***************************************************************************)
EXTENDS AoaCapture, TLAPS

-----------------------------------------------------------------------------
\* A data worker exists only while the main thread is in the block that
\* declares it, event_loop() only until run_capture() returns.
WorkersInScope ==
    /\ wpc["sender"] # "none" =>
          pc \in {"spawnReceiver", "watch", "stopReceiver", "stopSender"}
    /\ wpc["receiver"] # "none" => pc \in {"watch", "stopReceiver"}
    /\ wpc["events"] # "none" => pc \in LoopPc \cup {"stopEvents"}

\* The scopes of the descriptors enclose those of the workers.
DescriptorsInScope ==
    /\ pc \in SessionPc => epOpen
    /\ pc \in LoopPc \cup {"stopEvents"} => ep0Open
    /\ pc # "exited" => sinkOpen

\* A closed output is found by a receiver that runs, so the session's
\* verdict is still to come; the exit code is decided with the verdict.
ClosedOutputInScope ==
    /\ sinkClosed =>
          pc \notin {"start", "idle", "settle", "spawnSender", "spawnReceiver"}
    /\ rc # NoCode <=> pc \in ExitPc
    /\ ClosedOutputIsAnError

\* What keeps the counters within their types.
CountersInRange ==
    /\ pc \in {"start"} \cup LoopPc => failures < MaxFailures
    /\ wpc["receiver"] = "write" => todo >= 1

Placement ==
    /\ WorkersInScope
    /\ DescriptorsInScope
    /\ ClosedOutputInScope
    /\ CountersInRange

IInv == TypeOK /\ Placement


-----------------------------------------------------------------------------
\* The worker names, spelled out.
LEMMA WorkerCases ==
    /\ Workers = {"sender", "receiver", "events"}
    /\ Data \subseteq Workers
    BY DEF Workers, Data

\* Posting an event keeps ep0's queue a queue of events within its bound.
LEMMA PostType ==
    ASSUME TypeOK, NEW e \in Events, Post(e)
    PROVE  queue' \in Seq(Events) /\ Len(queue') <= MaxQueue
<1> USE CaptureAssumption DEF TypeOK
<1>1. CASE queue' = <<e>>
  <2>1. <<e>> \in Seq(Events) /\ Len(<<e>>) = 1
    OBVIOUS
  <2> QED
    BY <1>1, <2>1
<1>2. CASE Len(queue) < MaxQueue /\ queue' = Append(queue, e)
  <2>1. Append(queue, e) \in Seq(Events) /\ Len(Append(queue, e)) = Len(queue) + 1
    OBVIOUS
  <2> QED
    BY <1>2, <2>1
<1> QED
    BY <1>1, <1>2 DEF Post

\* Every step keeps every variable in its type.
LEMMA TypeStep ==
    ASSUME IInv, [Next]_vars
    PROVE  TypeOK'
<1> USE CaptureAssumption, WorkerCases
    DEF IInv, TypeOK, Placement, CountersInRange, NoCode, LoopPc, SessionPc, ExitPc,
        WorkerPc, Events, Goto, Spawn, Step, StopPc, AfterStop,
        mainVars, workVars, sessionVars, fdVars, usbVars
<1>1. CASE GadgetUp
    BY <1>1 DEF GadgetUp
<1>2. CASE GadgetFails
    BY <1>2 DEF GadgetFails
<1>3. CASE LeaveLoop
    BY <1>3 DEF LeaveLoop
<1>4. CASE SeeEnabled
    BY <1>4 DEF SeeEnabled
<1>5. CASE OpenEndpoints
    BY <1>5 DEF OpenEndpoints
<1>6. CASE OpenFails
    BY <1>6 DEF OpenFails
<1>7. CASE SpawnSender
    BY <1>7 DEF SpawnSender
<1>8. CASE SpawnReceiver
    BY <1>8 DEF SpawnReceiver
<1>9. CASE EndWatch
    BY <1>9 DEF EndWatch
<1>10. CASE CloseEndpoints
  <2>1. epOpen' \in BOOLEAN
    BY <1>10 DEF CloseEndpoints
  <2> QED
    BY <1>10, <2>1 DEF CloseEndpoints
<1>11. CASE Verdict
    BY <1>11 DEF Verdict
<1>12. CASE Teardown
  <2>1. ep0Open' \in BOOLEAN /\ host' \in BOOLEAN
    BY <1>12 DEF Teardown
  <2>2. queue' \in Seq(Events) /\ Len(queue') <= MaxQueue
    BY <1>12 DEF Teardown
  <2> QED
    BY <1>12, <2>1, <2>2 DEF Teardown
<1>13. CASE DropSink
  <2>1. sinkOpen' \in BOOLEAN
    BY <1>13 DEF DropSink
  <2> QED
    BY <1>13, <2>1 DEF DropSink
<1>14. CASE CommandSent
    BY <1>14 DEF CommandSent
<1>15. CASE VideoRead
    BY <1>15 DEF VideoRead
<1>16. CASE PayloadWritten
    BY <1>16 DEF PayloadWritten
<1>17. CASE OutputClosed
    BY <1>17 DEF OutputClosed
<1>18. CASE PollTimeout
    BY <1>18 DEF PollTimeout
<1>19. CASE EventsRead
    BY <1>19 DEF EventsRead
<1>20. CASE EventsLost
    BY <1>20 DEF EventsLost
<1>21. CASE HandleEvent
  <2>1. batch' \in Seq(Events)
    BY <1>21 DEF HandleEvent
  <2>2. enabled' \in BOOLEAN
    BY <1>21 DEF HandleEvent
  <2>3. wpc' \in [Workers -> WorkerPc]
    BY <1>21 DEF HandleEvent
  <2>4. UNCHANGED <<mainVars, gstop, quit, todo, sessionVars, fdVars, usbVars,
                    consumer>>
    BY <1>21 DEF HandleEvent
  <2> QED
    BY <2>1, <2>2, <2>3, <2>4
<1>22. CASE StopSignal
    BY <1>22 DEF StopSignal
<1>23. CASE HostEnables
  <2>1. queue' \in Seq(Events) /\ Len(queue') <= MaxQueue
    BY <1>23, PostType DEF HostEnables
  <2>2. host' \in BOOLEAN
    BY <1>23 DEF HostEnables
  <2> QED
    BY <1>23, <2>1, <2>2 DEF HostEnables
<1>24. CASE HostDisables
  <2>1. queue' \in Seq(Events) /\ Len(queue') <= MaxQueue
    BY <1>24, PostType DEF HostDisables
  <2>2. host' \in BOOLEAN /\ cut' \in BOOLEAN
    BY <1>24 DEF HostDisables
  <2> QED
    BY <1>24, <2>1, <2>2 DEF HostDisables
<1>25. CASE VendorRequest
    BY <1>25 DEF VendorRequest
<1>26. CASE ConsumerLeaves
  <2>1. consumer' \in BOOLEAN
    BY <1>26 DEF ConsumerLeaves
  <2> QED
    BY <1>26, <2>1 DEF ConsumerLeaves
<1>27. CASE \E w \in Workers : RaiseQuit(w)
    BY <1>27 DEF RaiseQuit
<1>28. CASE \E w \in Workers : Kick(w)
    BY <1>28 DEF Kick
<1>29. CASE \E w \in Workers : Join(w)
    BY <1>29 DEF Join
<1>30. CASE \E w \in Workers : CheckQuit(w)
    BY <1>30 DEF CheckQuit
<1>31. CASE \E w \in Workers : EnterCall(w)
    BY <1>31 DEF EnterCall
<1>32. CASE \E w \in Data : EndpointGone(w)
    BY <1>32 DEF EndpointGone
<1>33. CASE \E w \in Data : EndpointFails(w)
    BY <1>33 DEF EndpointFails
<1>34. CASE UNCHANGED vars
    BY <1>34 DEF vars
<1> QED
    BY <1>1, <1>2, <1>3, <1>4, <1>5, <1>6, <1>7, <1>8, <1>9, <1>10, <1>11, <1>12, <1>13, <1>14, <1>15, <1>16, <1>17, <1>18, <1>19, <1>20, <1>21, <1>22, <1>23, <1>24, <1>25, <1>26, <1>27, <1>28, <1>29, <1>30, <1>31, <1>32, <1>33, <1>34
    DEF Next, Main, WorkerStep, Environment

\* Every step keeps workers, descriptors and reports within their scopes.
LEMMA PlacementStep ==
    ASSUME IInv, [Next]_vars
    PROVE  Placement'
<1> USE CaptureAssumption, WorkerCases
    DEF IInv, TypeOK, Placement, WorkersInScope, DescriptorsInScope,
        ClosedOutputInScope, ClosedOutputIsAnError, CountersInRange, NoCode,
        LoopPc, SessionPc, ExitPc, WorkerPc, Goto, Spawn, Step, StopPc,
        AfterStop, mainVars, workVars, sessionVars, fdVars, usbVars
<1>1. CASE GadgetUp
    BY <1>1 DEF GadgetUp
<1>2. CASE GadgetFails
    BY <1>2 DEF GadgetFails
<1>3. CASE LeaveLoop
    BY <1>3 DEF LeaveLoop
<1>4. CASE SeeEnabled
    BY <1>4 DEF SeeEnabled
<1>5. CASE OpenEndpoints
    BY <1>5 DEF OpenEndpoints
<1>6. CASE OpenFails
    BY <1>6 DEF OpenFails
<1>7. CASE SpawnSender
    BY <1>7 DEF SpawnSender
<1>8. CASE SpawnReceiver
    BY <1>8 DEF SpawnReceiver
<1>9. CASE EndWatch
    BY <1>9 DEF EndWatch
<1>10. CASE CloseEndpoints
    BY <1>10 DEF CloseEndpoints
<1>11. CASE Verdict
    BY <1>11 DEF Verdict
<1>12. CASE Teardown
    BY <1>12 DEF Teardown
<1>13. CASE DropSink
    BY <1>13 DEF DropSink
<1>14. CASE CommandSent
    BY <1>14 DEF CommandSent
<1>15. CASE VideoRead
    BY <1>15 DEF VideoRead
<1>16. CASE PayloadWritten
    BY <1>16 DEF PayloadWritten
<1>17. CASE OutputClosed
    BY <1>17 DEF OutputClosed
<1>18. CASE PollTimeout
    BY <1>18 DEF PollTimeout
<1>19. CASE EventsRead
    BY <1>19 DEF EventsRead
<1>20. CASE EventsLost
    BY <1>20 DEF EventsLost
<1>21. CASE HandleEvent
    BY <1>21 DEF HandleEvent
<1>22. CASE StopSignal
    BY <1>22 DEF StopSignal
<1>23. CASE HostEnables
    BY <1>23 DEF HostEnables
<1>24. CASE HostDisables
    BY <1>24 DEF HostDisables
<1>25. CASE VendorRequest
    BY <1>25 DEF VendorRequest
<1>26. CASE ConsumerLeaves
    BY <1>26 DEF ConsumerLeaves
<1>27. CASE \E w \in Workers : RaiseQuit(w)
    BY <1>27 DEF RaiseQuit
<1>28. CASE \E w \in Workers : Kick(w)
    BY <1>28 DEF Kick
<1>29. CASE \E w \in Workers : Join(w)
    BY <1>29 DEF Join
<1>30. CASE \E w \in Workers : CheckQuit(w)
    BY <1>30 DEF CheckQuit
<1>31. CASE \E w \in Workers : EnterCall(w)
    BY <1>31 DEF EnterCall
<1>32. CASE \E w \in Data : EndpointGone(w)
    BY <1>32 DEF EndpointGone
<1>33. CASE \E w \in Data : EndpointFails(w)
    BY <1>33 DEF EndpointFails
<1>34. CASE UNCHANGED vars
    BY <1>34 DEF vars
<1> QED
    BY <1>1, <1>2, <1>3, <1>4, <1>5, <1>6, <1>7, <1>8, <1>9, <1>10, <1>11, <1>12, <1>13, <1>14, <1>15, <1>16, <1>17, <1>18, <1>19, <1>20, <1>21, <1>22, <1>23, <1>24, <1>25, <1>26, <1>27, <1>28, <1>29, <1>30, <1>31, <1>32, <1>33, <1>34
    DEF Next, Main, WorkerStep, Environment

-----------------------------------------------------------------------------
\* run_capture() starts and stays within the invariant.
THEOREM Invariance == SafeSpec => []IInv
<1>1. Init => IInv
  <2> SUFFICES ASSUME Init PROVE IInv
    OBVIOUS
  <2> USE CaptureAssumption, WorkerCases DEF Init
  <2>1. TypeOK
    <3>1. wpc \in [Workers -> WorkerPc] /\ quit \in [Workers -> BOOLEAN]
      BY DEF WorkerPc
    <3>2. batch \in Seq(Events) /\ queue \in Seq(Events) /\ Len(queue) <= MaxQueue
      OBVIOUS
    <3>3. failures \in 0 .. MaxFailures /\ todo \in 0 .. MaxFrames
      OBVIOUS
    <3> QED
      BY <3>1, <3>2, <3>3 DEF TypeOK, NoCode
  <2>2. WorkersInScope /\ CountersInRange
    BY DEF WorkersInScope, CountersInRange
  <2>3. DescriptorsInScope /\ ClosedOutputInScope
    BY DEF DescriptorsInScope, ClosedOutputInScope, ClosedOutputIsAnError,
           LoopPc, SessionPc, ExitPc
  <2> QED
    BY <2>1, <2>2, <2>3 DEF IInv, Placement
<1>2. IInv /\ [Next]_vars => IInv'
  BY TypeStep, PlacementStep DEF IInv
<1> QED
  BY <1>1, <1>2, PTL DEF SafeSpec

\* Every variable of run_capture() and its workers keeps its type; in
\* particular the failure count never passes MAX_CONSECUTIVE_FAILURES.
THEOREM TypeCorrect == SafeSpec => []TypeOK
<1>1. IInv => TypeOK
  BY DEF IInv
<1> QED
  BY <1>1, Invariance, PTL

\* No worker ever uses a descriptor number that has been closed: in-flight
\* transfers end before their endpoint, the sink or ep0 closes.
THEOREM DescriptorsSafe == SafeSpec => []DescriptorsOutliveWorkers
<1>1. IInv => DescriptorsOutliveWorkers
  BY DEF IInv, TypeOK, Placement, WorkersInScope, DescriptorsInScope,
         DescriptorsOutliveWorkers, Running, Data, Workers, SessionPc, LoopPc,
         ExitPc
<1> QED
  BY <1>1, Invariance, PTL

\* A run that found its output closed never reports success.
THEOREM ClosedOutputReported == SafeSpec => []ClosedOutputIsAnError
<1>1. IInv => ClosedOutputIsAnError
  BY DEF IInv, Placement, ClosedOutputInScope
<1> QED
  BY <1>1, Invariance, PTL

\* No session is opened after one whose output was found closed.
THEOREM ClosedOutputKept == SafeSpec => ClosedOutputIsFinal
<1>1. ASSUME IInv, Next, sinkClosed PROVE sinkClosed'
  <2> USE <1>1 DEF sessionVars
  <2>1. ~OpenEndpoints /\ ~OpenFails
    BY DEF IInv, Placement, ClosedOutputInScope, OpenEndpoints, OpenFails, Goto
  <2>2. CASE OutputClosed
    BY <2>2 DEF OutputClosed
  <2>3. CASE Main
    BY <2>1, <2>3
    DEF Main, GadgetUp, GadgetFails, LeaveLoop, SeeEnabled, SpawnSender,
        SpawnReceiver, EndWatch, RaiseQuit, Join, CloseEndpoints, Verdict,
        Teardown, DropSink
  <2>4. CASE \E w \in Workers : Kick(w)
    BY <2>4 DEF Kick
  <2>5. CASE WorkerStep /\ ~OutputClosed
    BY <2>5
    DEF WorkerStep, CheckQuit, EnterCall, EndpointGone, EndpointFails,
        CommandSent, VideoRead, PayloadWritten, PollTimeout, EventsRead,
        EventsLost, HandleEvent
  <2>6. CASE Environment
    BY <2>6
    DEF Environment, StopSignal, HostEnables, HostDisables, VendorRequest,
        ConsumerLeaves
  <2> QED
    BY <2>2, <2>3, <2>4, <2>5, <2>6 DEF Next
<1>2. IInv /\ [Next]_vars => [sinkClosed => sinkClosed']_vars
  BY <1>1
<1> QED
  BY <1>2, Invariance, PTL DEF SafeSpec, ClosedOutputIsFinal

-----------------------------------------------------------------------------
(* The contract of a mode's run.                                           *)

\* A step of the capture is a step of the contract, or none of it.
LEMMA ContractStep ==
    ASSUME IInv, [Next]_vars
    PROVE  [Contract!Next]_(Contract!vars)
<1> USE DEF NoCode, mainVars, fdVars, sessionVars, Goto, Contract!Next, Contract!vars
<1>1. CASE OutputClosed
  <2>1. sinkOpen /\ rc = NoCode
    BY <1>1, WorkerCases
    DEF OutputClosed, Step, IInv, TypeOK, Placement, WorkersInScope, DescriptorsInScope,
        ClosedOutputInScope, ExitPc
  <2> QED
    BY <1>1, <2>1 DEF OutputClosed, Contract!LoseOutput
<1>2. CASE DropSink
  <2>1. rc # NoCode
    BY <1>2 DEF DropSink, IInv, Placement, ClosedOutputInScope, ExitPc
  <2> QED
    BY <1>2, <2>1 DEF DropSink, Contract!Return
<1>3. CASE GadgetFails \/ LeaveLoop \/ Verdict
  <2>1. rc = NoCode /\ (rc' # NoCode => rc' \in {0, 1})
    BY <1>3
    DEF GadgetFails, LeaveLoop, Verdict, IInv, TypeOK, Placement,
        ClosedOutputInScope, ExitPc
  <2>2. sinkClosed /\ rc' # rc => rc' = 1
    BY <1>3 DEF GadgetFails, LeaveLoop, Verdict, IInv, Placement, ClosedOutputInScope
  <2>3. UNCHANGED <<sinkClosed, sinkOpen>> /\ pc # "exited" /\ pc' # "exited"
    BY <1>3 DEF GadgetFails, LeaveLoop, Verdict
  <2> QED
    BY <2>1, <2>2, <2>3 DEF Contract!Decide
<1>4. CASE OpenEndpoints \/ OpenFails
  <2>1. ~sinkClosed /\ sinkClosed \in BOOLEAN
    BY <1>4 DEF OpenEndpoints, OpenFails, IInv, TypeOK, Placement, ClosedOutputInScope
  <2>2. sinkClosed' = FALSE /\ UNCHANGED <<rc, sinkOpen>> /\ pc # "exited" /\ pc' # "exited"
    BY <1>4 DEF OpenEndpoints, OpenFails
  <2>3. sinkClosed' = sinkClosed
    BY <2>1, <2>2
  <2> QED
    BY <2>2, <2>3
<1>5. CASE \/ GadgetUp \/ SeeEnabled \/ SpawnSender \/ SpawnReceiver \/ EndWatch
           \/ CloseEndpoints \/ Teardown
  BY <1>5
  DEF GadgetUp, SeeEnabled, SpawnSender, SpawnReceiver, EndWatch, CloseEndpoints, Teardown
<1>6. CASE \E w \in Workers : RaiseQuit(w) \/ Kick(w)
  BY <1>6 DEF RaiseQuit, Kick
<1>7. CASE \E w \in Workers : Join(w)
  <2>1. UNCHANGED <<rc, sinkClosed, sinkOpen>> /\ pc # "exited" /\ pc' # "exited"
    BY <1>7, WorkerCases DEF Join, StopPc, AfterStop
  <2> QED
    BY <2>1
<1>8. CASE WorkerStep /\ ~OutputClosed
  BY <1>8
  DEF WorkerStep, CheckQuit, EnterCall, EndpointGone, EndpointFails, CommandSent,
      VideoRead, PayloadWritten, PollTimeout, EventsRead, EventsLost, HandleEvent
<1>9. CASE Environment
  BY <1>9
  DEF Environment, StopSignal, HostEnables, HostDisables, VendorRequest, ConsumerLeaves
<1>10. CASE UNCHANGED vars
  BY <1>10 DEF vars
<1> QED
  BY <1>1, <1>2, <1>3, <1>4, <1>5, <1>6, <1>7, <1>8, <1>9, <1>10 DEF Next, Main

\* run_capture() keeps the contract of a mode's run: the sink is dropped when
\* it returns and not before its exit code is decided, and an output found
\* closed is never forgotten and makes that code 1.
THEOREM ContractKept == SafeSpec => KeepsContract
<1>1. Init => Contract!Init
  BY DEF Init, Contract!Init
<1>2. IInv /\ [Next]_vars => [Contract!Next]_(Contract!vars)
  BY ContractStep
<1> QED
  BY <1>1, <1>2, Invariance, PTL DEF SafeSpec, KeepsContract, Contract!Spec
=============================================================================
