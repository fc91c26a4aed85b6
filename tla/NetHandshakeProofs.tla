------------------------- MODULE NetHandshakeProofs -------------------------
(***************************************************************************)
(* Proofs about NetHandshake, for every read timeout, every deadline and   *)
(* any amount of other traffic.                                            *)
(*                                                                         *)
(* None of the properties is inductive by itself.  What a session that is  *)
(* open says of the goggles was already true of the ACK in the socket      *)
(* (InboxIsHonest); how far apart two openers are is decided while the     *)
(* code waits for the answer to the first (WaitIsCounted).                 *)
(***************************************************************************)
EXTENDS NetHandshake, SequenceTheorems, TLAPS

-----------------------------------------------------------------------------
\* What waits in the socket has its history.
InboxIsHonest ==
    \A i \in 1 .. Len(inbox) :
        /\ inbox[i] = OpenerAck => answered
        /\ inbox[i] # OpenerAck => foreign

\* The wait for an answer: no shorter than `waited' says, and, as long as
\* nothing else came in, no longer either; an opener is sent before the
\* deadline only.
WaitIsCounted ==
    /\ pc = "recv" => /\ sentAt # <<>>
                      /\ now >= LastSent + waited
                      /\ ~foreign => now = LastSent + waited
    /\ pc = "send" /\ sentAt # <<>> => /\ now >= LastSent + Retry
                                       /\ ~foreign => now = LastSent + Retry
    /\ pc = "send" /\ sentAt = <<>> => now = 0
    /\ sentAt # <<>> => LastSent < Timeout /\ LastSent <= now

Inv ==
    /\ TypeOK
    /\ InboxIsHonest /\ WaitIsCounted
    /\ OpenMeansAnswered /\ OpenersAreSpaced
    /\ pc = "timedOut" => now >= Timeout

-----------------------------------------------------------------------------
\* The last of the openers, and the one after it.
LEMMA LastIsSent ==
    ASSUME TypeOK, sentAt # <<>>
    PROVE  /\ Len(sentAt) \in Nat \ {0} /\ LastSent \in 0 .. MaxClock
           /\ \A i \in 1 .. Len(sentAt) : sentAt[i] \in 0 .. MaxClock
<1> DEFINE S == 0 .. MaxClock
<1>1. sentAt \in Seq(S) /\ sentAt # <<>>
  BY DEF TypeOK
<1>2. /\ Len(sentAt) \in Nat \ {0}
      /\ \A i \in 1 .. Len(sentAt) : sentAt[i] \in S
  <2> HIDE DEF S
  <2> QED
    BY <1>1, EmptySeq, ElementOfSeq
<1>3. Len(sentAt) \in 1 .. Len(sentAt)
  BY <1>2
<1> QED
  BY <1>2, <1>3 DEF LastSent

LEMMA InboxTail ==
    ASSUME TypeOK, InboxIsHonest, inbox # <<>>
    PROVE  /\ Tail(inbox) \in Seq(Datagrams)
           /\ Len(Tail(inbox)) = Len(inbox) - 1
           /\ Head(inbox) = inbox[1] /\ Len(inbox) \in Nat \ {0}
           /\ \A i \in 1 .. Len(Tail(inbox)) : Tail(inbox)[i] = inbox[i + 1]
           /\ Head(inbox) \in Datagrams
<1>1. inbox \in Seq(Datagrams)
  BY DEF TypeOK
<1> QED
  BY <1>1

LEMMA InboxAppend ==
    ASSUME TypeOK, NEW d \in Datagrams, Len(inbox) < MaxInbox
    PROVE  /\ Append(inbox, d) \in Seq(Datagrams)
           /\ Len(Append(inbox, d)) = Len(inbox) + 1 /\ Len(inbox) \in Nat
           /\ Append(inbox, d)[Len(inbox) + 1] = d
           /\ \A i \in 1 .. Len(inbox) : Append(inbox, d)[i] = inbox[i]
<1>1. inbox \in Seq(Datagrams)
  BY DEF TypeOK
<1> QED
  BY <1>1

\* A datagram that opens the session is the ACK of an opener of ours.
LEMMA AckIsOurs ==
    ASSUME NEW d \in Datagrams
    PROVE  IsOpenerAck(d) <=> d = OpenerAck
  BY DEF Datagrams, IsOpenerAck, OpenerAck

LEMMA InvInit == Init => Inv
<1> SUFFICES ASSUME Init PROVE Inv
  OBVIOUS
<1> USE HandshakeAssumption DEF Init
<1>1. TypeOK
  <2>1. inbox \in Seq(Datagrams) /\ Len(inbox) <= MaxInbox /\ sentAt \in Seq(0 .. MaxClock)
    OBVIOUS
  <2>2. now \in 0 .. MaxClock /\ waited \in 0 .. Retry
    OBVIOUS
  <2> QED
    BY <2>1, <2>2 DEF TypeOK
<1>2. InboxIsHonest /\ WaitIsCounted
  BY DEF InboxIsHonest, WaitIsCounted
<1>3. OpenMeansAnswered /\ OpenersAreSpaced
  BY DEF OpenMeansAnswered, OpenersAreSpaced
<1> QED
  BY <1>1, <1>2, <1>3 DEF Inv

LEMMA SendStep ==
    ASSUME Inv, SendOpener
    PROVE  Inv'
<1> USE HandshakeAssumption
<1>1. TypeOK /\ now \in 0 .. MaxClock /\ sentAt \in Seq(0 .. MaxClock) /\ Len(sentAt) \in Nat
  BY DEF Inv, TypeOK
<1>2. /\ pc = "send" /\ now < Timeout /\ pc' = "recv" /\ waited' = 0
      /\ sentAt' = Append(sentAt, now) /\ UNCHANGED <<now, inbox, answered, foreign>>
  BY DEF SendOpener
<1>3. /\ sentAt' \in Seq(0 .. MaxClock) /\ sentAt' # <<>>
      /\ Len(sentAt') = Len(sentAt) + 1 /\ sentAt'[Len(sentAt) + 1] = now
      /\ \A i \in 1 .. Len(sentAt) : sentAt'[i] = sentAt[i]
  BY <1>1, <1>2
<1>4. TypeOK'
  BY <1>1, <1>2, <1>3 DEF TypeOK
<1>5. LastSent' = now
  BY <1>3 DEF LastSent
<1>6. InboxIsHonest' /\ WaitIsCounted'
  BY <1>1, <1>2, <1>3, <1>5 DEF Inv, InboxIsHonest, WaitIsCounted
<1>7. OpenersAreSpaced'
  <2> SUFFICES ASSUME NEW i \in 1 .. Len(sentAt) PROVE sentAt'[i + 1] >= sentAt'[i] + Retry
    BY <1>1, <1>3 DEF OpenersAreSpaced
  <2>1. CASE i = Len(sentAt)
    BY <1>1, <1>2, <1>3, <2>1 DEF Inv, WaitIsCounted, LastSent
  <2>2. CASE i < Len(sentAt)
    <3>1. i \in 1 .. Len(sentAt) - 1 /\ i + 1 \in 1 .. Len(sentAt)
      BY <1>1, <2>2
    <3>2. sentAt[i + 1] >= sentAt[i] + Retry
      BY <3>1 DEF Inv, OpenersAreSpaced
    <3> QED
      BY <1>3, <3>1, <3>2
  <2> QED
    BY <1>1, <2>1, <2>2
<1>8. OpenMeansAnswered' /\ pc' # "timedOut"
  BY <1>2 DEF OpenMeansAnswered
<1> QED
  BY <1>4, <1>6, <1>7, <1>8 DEF Inv

LEMMA ReceiveStep ==
    ASSUME Inv, Receive
    PROVE  Inv'
<1> USE HandshakeAssumption
<1>1. TypeOK /\ InboxIsHonest /\ WaitIsCounted /\ OpenersAreSpaced /\ inbox # <<>>
  BY DEF Inv, Receive
<1>2. /\ pc = "recv" /\ inbox' = Tail(inbox) /\ waited' = 0
      /\ pc' = IF IsOpenerAck(Head(inbox)) THEN "open" ELSE "recv"
      /\ UNCHANGED <<now, sentAt, answered, foreign>>
  BY DEF Receive
<1>3. TypeOK'
  <2>1. inbox' \in Seq(Datagrams) /\ Len(inbox') <= MaxInbox
    BY <1>1, <1>2, InboxTail DEF TypeOK
  <2> QED
    BY <1>1, <1>2, <2>1 DEF TypeOK, Returned
<1>4. InboxIsHonest'
  BY <1>1, <1>2, InboxTail DEF InboxIsHonest
<1>5. pc' = "open" => answered
  BY <1>1, <1>2, InboxTail, AckIsOurs DEF InboxIsHonest
<1>6. pc' = "recv" => foreign
  BY <1>1, <1>2, InboxTail, AckIsOurs DEF InboxIsHonest
<1>7. WaitIsCounted'
  <2>1. LastSent' = LastSent
    BY <1>2 DEF LastSent
  <2> QED
    BY <1>1, <1>2, <1>6, <2>1, LastIsSent DEF WaitIsCounted, TypeOK
<1>8. OpenersAreSpaced' /\ OpenMeansAnswered' /\ pc' # "timedOut"
  BY <1>1, <1>2, <1>5 DEF OpenersAreSpaced, OpenMeansAnswered
<1> QED
  BY <1>3, <1>4, <1>7, <1>8 DEF Inv

\* The environment adds to the socket, and to the history with it.
LEMMA ArrivalStep ==
    ASSUME Inv, Answer \/ OtherTraffic
    PROVE  Inv'
<1> USE HandshakeAssumption
<1>1. TypeOK /\ InboxIsHonest /\ WaitIsCounted /\ OpenersAreSpaced
      /\ Len(inbox) < MaxInbox /\ pc \in {"send", "recv"}
      /\ UNCHANGED <<pc, now, waited, sentAt>>
  BY DEF Inv, Answer, OtherTraffic
<1>2. PICK d \in Datagrams :
         /\ inbox' = Append(inbox, d)
         /\ d = OpenerAck => answered'
         /\ d # OpenerAck => foreign'
  <2>1. OpenerAck \in Datagrams
    BY DEF OpenerAck, Datagrams
  <2> QED
    BY <2>1 DEF Answer, OtherTraffic
<1>3. (answered => answered') /\ (foreign => foreign')
      /\ answered' \in BOOLEAN /\ foreign' \in BOOLEAN
  BY <1>1 DEF Answer, OtherTraffic, TypeOK
<1>4. TypeOK'
  <2>1. inbox' \in Seq(Datagrams) /\ Len(inbox') <= MaxInbox
    BY <1>1, <1>2, InboxAppend
  <2> QED
    BY <1>1, <1>3, <2>1 DEF TypeOK
<1>5. InboxIsHonest'
  <2> SUFFICES ASSUME NEW i \in 1 .. Len(inbox')
               PROVE  /\ inbox'[i] = OpenerAck => answered'
                      /\ inbox'[i] # OpenerAck => foreign'
    BY DEF InboxIsHonest
  <2>1. CASE i \in 1 .. Len(inbox)
    BY <1>1, <1>2, <1>3, <2>1, InboxAppend DEF InboxIsHonest
  <2>2. CASE i = Len(inbox) + 1
    BY <1>1, <1>2, <2>2, InboxAppend
  <2> QED
    BY <1>1, <1>2, <2>1, <2>2, InboxAppend
<1>6. WaitIsCounted'
  BY <1>1, <1>3 DEF WaitIsCounted, LastSent
<1>7. OpenersAreSpaced' /\ OpenMeansAnswered' /\ pc' # "timedOut"
  BY <1>1 DEF OpenersAreSpaced, OpenMeansAnswered
<1> QED
  BY <1>4, <1>5, <1>6, <1>7 DEF Inv

LEMMA InvStep ==
    ASSUME Inv, [Next]_vars
    PROVE  Inv'
<1> USE HandshakeAssumption
<1>1. CASE SendOpener
  BY <1>1, SendStep
<1>2. CASE Receive
  BY <1>2, ReceiveStep
<1>3. CASE Answer \/ OtherTraffic
  BY <1>3, ArrivalStep
<1>4. CASE Tick
  <2>1. LastSent' = LastSent
    BY <1>4 DEF Tick, LastSent
  <2>2. WaitIsCounted'
    <3>1. /\ pc = "recv" /\ now' = now + 1 /\ waited' = waited + 1
          /\ UNCHANGED <<pc, sentAt, foreign>>
      BY <1>4 DEF Tick
    <3>2. WaitIsCounted /\ TypeOK /\ now \in Nat /\ waited \in Nat
      BY DEF Inv, TypeOK
    <3>3. LastSent \in Nat
      BY <3>1, <3>2, LastIsSent DEF WaitIsCounted
    <3> QED
      BY <2>1, <3>1, <3>2, <3>3 DEF WaitIsCounted
  <2>3. TypeOK'
    BY <1>4 DEF Tick, Inv, TypeOK
  <2> QED
    BY <1>4, <2>2, <2>3
    DEF Tick, Inv, InboxIsHonest, OpenMeansAnswered, OpenersAreSpaced
<1>5. CASE ReadTimeout
  <2>1. LastSent' = LastSent
    BY <1>5 DEF ReadTimeout, LastSent
  <2>2. WaitIsCounted'
    BY <1>5, <2>1 DEF ReadTimeout, Inv, WaitIsCounted
  <2> QED
    BY <1>5, <2>2
    DEF ReadTimeout, Inv, TypeOK, InboxIsHonest, OpenMeansAnswered, OpenersAreSpaced
<1>6. CASE GiveUp \/ SocketError
  <2>1. LastSent' = LastSent
    BY <1>6 DEF GiveUp, SocketError, LastSent
  <2>2. WaitIsCounted'
    BY <1>6, <2>1 DEF GiveUp, SocketError, Inv, WaitIsCounted
  <2> QED
    BY <1>6, <2>2
    DEF GiveUp, SocketError, Inv, TypeOK, Returned, InboxIsHonest, OpenMeansAnswered,
        OpenersAreSpaced
<1>7. CASE UNCHANGED vars
  BY <1>7
  DEF vars, Inv, TypeOK, InboxIsHonest, WaitIsCounted, LastSent, OpenMeansAnswered,
      OpenersAreSpaced
<1> QED
  BY <1>1, <1>2, <1>3, <1>4, <1>5, <1>6, <1>7 DEF Next, Open

\* open() keeps the invariant.
THEOREM Invariance == Spec => []Inv
  BY InvInit, InvStep, PTL DEF Spec

\* The clock, the wait and what waits in the socket keep their types; in
\* particular no wait is longer than the read timeout.
THEOREM TypeCorrect == Spec => []TypeOK
<1>1. Inv => TypeOK
  BY DEF Inv
<1> QED
  BY <1>1, Invariance, PTL

\* The ACK of an earlier run's session never opens this one's.
THEOREM AckBelongs == Spec => []OpenMeansAnswered
<1>1. Inv => OpenMeansAnswered
  BY DEF Inv
<1> QED
  BY <1>1, Invariance, PTL

\* However much other traffic comes in, two openers are at least one read
\* timeout apart.
THEOREM NoFlood == Spec => []OpenersAreSpaced
<1>1. Inv => OpenersAreSpaced
  BY DEF Inv
<1> QED
  BY <1>1, Invariance, PTL

\* Silent goggles are asked again every read timeout and given up at the
\* first retry past the deadline, for every deadline.
THEOREM SilenceBounded == Spec => []SilenceIsBounded
<1>1. Inv => SilenceIsBounded
  <2> SUFFICES ASSUME Inv, ~foreign, pc \in {"send", "recv"}
               PROVE  /\ now < Timeout + Retry
                      /\ sentAt # <<>> => now <= LastSent + Retry
    BY DEF Inv, SilenceIsBounded
  <2>1. CASE sentAt = <<>>
    BY <2>1, HandshakeAssumption DEF Inv, WaitIsCounted
  <2>2. CASE sentAt # <<>>
    BY <2>2, LastIsSent, HandshakeAssumption DEF Inv, TypeOK, WaitIsCounted
  <2> QED
    BY <2>1, <2>2
<1> QED
  BY <1>1, Invariance, PTL
=============================================================================
