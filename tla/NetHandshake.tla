---------------------------- MODULE NetHandshake ----------------------------
(***************************************************************************)
(* Opening a goggles-net session: handshake::open() of                     *)
(* src/goggles_net/handshake.rs, against goggles that answer, stay silent, *)
(* or are still sending to a session an earlier run had opened.            *)
(*                                                                         *)
(* Time is counted in ticks.  It passes only while the socket is empty:    *)
(* the code's own steps are instantaneous.                                 *)
(***************************************************************************)
EXTENDS Naturals, Sequences

CONSTANTS
    Retry,      \* the socket's read timeout, 250 ms
    Timeout,    \* --handshake-ms, 5000 by default
    MaxClock,   \* bound: the last tick
    MaxInbox    \* bound: datagrams waiting in the socket

ASSUME HandshakeAssumption ==
    /\ Retry \in Nat \ {0} /\ Timeout \in Nat
    /\ MaxClock \in Nat /\ MaxInbox \in Nat \ {0}

VARIABLES
    pc,        \* "send": at the head of the outer loop; "recv": in recv();
               \* "open", "timedOut", "failed": returned
    now,       \* the clock
    waited,    \* ticks this recv() has been waiting
    sentAt,    \* when each opener was sent, oldest first
    inbox,     \* datagrams in the socket
    answered,  \* history: the goggles answered an opener of ours
    foreign    \* history: a datagram that is no ACK of ours has come

vars == <<pc, now, waited, sentAt, inbox, answered, foreign>>

\* A datagram, as far as is_opener_ack() looks at it: ACK-sized or not, for
\* our session or for another.
Datagrams == [ackSized : BOOLEAN, ours : BOOLEAN]
OpenerAck == [ackSized |-> TRUE, ours |-> TRUE]

\* A bug: the session id is not compared.
IsOpenerAckBug(d) == d.ackSized
IsOpenerAck(d) == d.ackSized /\ d.ours

Returned == {"open", "timedOut", "failed"}

Init ==
    /\ pc = "send" /\ now = 0 /\ waited = 0
    /\ sentAt = <<>> /\ inbox = <<>>
    /\ answered = FALSE /\ foreign = FALSE

-----------------------------------------------------------------------------
\* The outer loop: past the deadline give up, else send the opener.
SendOpener ==
    /\ pc = "send" /\ now < Timeout
    /\ sentAt' = Append(sentAt, now)
    /\ pc' = "recv" /\ waited' = 0
    /\ UNCHANGED <<now, inbox, answered, foreign>>

GiveUp ==
    /\ pc = "send" /\ now >= Timeout
    /\ pc' = "timedOut"
    /\ UNCHANGED <<now, waited, sentAt, inbox, answered, foreign>>

\* A bug: any other datagram ends the inner loop as well.
ReceiveBug ==
    /\ pc = "recv" /\ inbox # <<>>
    /\ inbox' = Tail(inbox)
    /\ pc' = IF IsOpenerAck(Head(inbox)) THEN "open" ELSE "send"
    /\ waited' = 0
    /\ UNCHANGED <<now, sentAt, answered, foreign>>

\* The inner loop: a matching ACK opens the session, anything else is read
\* and forgotten, and the next recv() waits for its full timeout again.
Receive ==
    /\ pc = "recv" /\ inbox # <<>>
    /\ inbox' = Tail(inbox)
    /\ pc' = IF IsOpenerAck(Head(inbox)) THEN "open" ELSE "recv"
    /\ waited' = 0
    /\ UNCHANGED <<now, sentAt, answered, foreign>>

\* Bugs: the read timeout is taken for an interruption, and the wait goes on
\* -- or starts again -- without another opener.
ReadTimeoutWaitsBug ==
    /\ pc = "recv" /\ inbox = <<>> /\ waited >= Retry
    /\ waited' = waited + 1
    /\ UNCHANGED <<pc, now, sentAt, inbox, answered, foreign>>

ReadTimeoutBug ==
    /\ pc = "recv" /\ inbox = <<>> /\ waited = Retry
    /\ waited' = 0
    /\ UNCHANGED <<pc, now, sentAt, inbox, answered, foreign>>

ReadTimeout ==
    /\ pc = "recv" /\ inbox = <<>> /\ waited = Retry
    /\ pc' = "send"
    /\ UNCHANGED <<now, waited, sentAt, inbox, answered, foreign>>

\* send() or recv() failed: nothing listens at the peer, the link went down,
\* or a signal interrupted the wait.
SocketError ==
    /\ pc \in {"send", "recv"}
    /\ pc' = "failed"
    /\ UNCHANGED <<now, waited, sentAt, inbox, answered, foreign>>

Open == SendOpener \/ GiveUp \/ Receive \/ ReadTimeout \/ SocketError

-----------------------------------------------------------------------------
\* The goggles answer an opener they got; an ACK may take any time.
Answer ==
    /\ pc \in {"send", "recv"} /\ sentAt # <<>> /\ Len(inbox) < MaxInbox
    /\ inbox' = Append(inbox, OpenerAck)
    /\ answered' = TRUE
    /\ UNCHANGED <<pc, now, waited, sentAt, foreign>>

\* Anything else: the stream or a late ACK of an earlier run's session, or
\* the first packets of ours when its ACK was lost.
OtherTraffic ==
    /\ pc \in {"send", "recv"} /\ Len(inbox) < MaxInbox
    /\ \E d \in Datagrams \ {OpenerAck} : inbox' = Append(inbox, d)
    /\ foreign' = TRUE
    /\ UNCHANGED <<pc, now, waited, sentAt, answered>>

Tick ==
    /\ pc = "recv" /\ inbox = <<>> /\ waited < Retry /\ now < MaxClock
    /\ now' = now + 1 /\ waited' = waited + 1
    /\ UNCHANGED <<pc, sentAt, inbox, answered, foreign>>

Next == Open \/ Answer \/ OtherTraffic \/ Tick

Spec == Init /\ [][Next]_vars

-----------------------------------------------------------------------------
TypeOK ==
    /\ pc \in {"send", "recv"} \cup Returned
    /\ now \in 0 .. MaxClock /\ waited \in 0 .. Retry
    /\ sentAt \in Seq(0 .. MaxClock)
    /\ inbox \in Seq(Datagrams) /\ Len(inbox) <= MaxInbox
    /\ answered \in BOOLEAN /\ foreign \in BOOLEAN

LastSent == sentAt[Len(sentAt)]

\* A session is opened only by goggles that answered this run's opener: the
\* ACK of an earlier run, still on its way, opens nothing.
OpenMeansAnswered == pc = "open" => answered

\* However much other traffic there is, it does not make us flood the
\* goggles: a retry is a full read timeout after the opener before it.
OpenersAreSpaced ==
    \A i \in 1 .. Len(sentAt) - 1 : sentAt[i + 1] >= sentAt[i] + Retry

\* Against silent goggles the opener is repeated every Retry ticks, and the
\* attempt is given up at the first retry past the timeout -- not before.
SilenceIsBounded ==
    /\ pc = "timedOut" => now >= Timeout
    /\ ~foreign /\ pc \in {"send", "recv"} =>
          /\ now < Timeout + Retry \/ Timeout = 0
          /\ sentAt # <<>> => now <= LastSent + Retry
=============================================================================
