---------------------------- MODULE FrameStream ----------------------------
(***************************************************************************)
(* What the receiver does with the bytes it reads: receive_video() of      *)
(* src/capture.rs with next_frame() of src/common.rs and find_sps().  The  *)
(* goggles wrap everything in 55 CC frames; the stream reaches us cut into *)
(* reads at any point, and a session may begin in the middle of a frame.   *)
(*                                                                         *)
(* `wire' is all the goggles send, chosen at the start; rx counts the      *)
(* bytes of it that were read.  How a read blocks, and how a write fails,  *)
(* is in AoaCapture.                                                       *)
(***************************************************************************)
EXTENDS Integers, SequencesExt

CONSTANTS
    Streams,   \* set of [junk, frames]: bytes before the first frame, frames
    MaxRead    \* bytes one read may return (16384)

VARIABLES
    stream,    \* the member of Streams that the goggles send
    rx,        \* bytes of it read so far
    pc,        \* "read", or "parse": in the loop over next_frame()
    buf, pos,
    started,   \* the first SPS of this session was seen
    from,      \* history: where in the wire this session's reading began
    found,     \* history: where in the wire its frames began
    out        \* what this session wrote to the sink

vars == <<stream, rx, pc, buf, pos, started, from, found, out>>

FRAME_HEADER == 8
VIDEO_CHANNEL == 74    \* 0x4A
MAX_PAYLOAD == 65535   \* what the header's length field holds

\* One frame as the goggles send it.
Encode(f) == <<85, 204, f.channel, 0, Len(f.payload) % 256,
               Len(f.payload) \div 256, 0, 0>> \o f.payload

WireOf(s) == s.junk \o FlattenSeq([i \in DOMAIN s.frames |-> Encode(s.frames[i])])
Wire == WireOf(stream)

\* All of it is bytes.
Byte == 0 .. 255
Frames == [channel : Byte, payload : Seq(Byte)]

ASSUME FrameStreamAssumption ==
    /\ \A s \in Streams :
          /\ s \in [junk : Seq(Byte), frames : Seq(Frames)]
          /\ \A i \in DOMAIN s.frames : Len(s.frames[i].payload) <= MAX_PAYLOAD
    /\ MaxRead \in Nat

Init ==
    /\ stream \in Streams
    /\ rx = 0 /\ pc = "read"
    /\ buf = <<>> /\ pos = 0 /\ started = FALSE
    /\ from = 0 /\ found = <<>> /\ out = <<>>

-----------------------------------------------------------------------------
(* next_frame(): offsets count from 0, as in the code.                     *)

SyncAt(b, p) == b[p + 1] = 85 /\ b[p + 2] = 204
LengthAt(b, p) == b[p + 5] + 256 * b[p + 6]
EndAt(b, p) == p + FRAME_HEADER + LengthAt(b, p)

\* Where a frame may begin, at or after `start': a whole header is there.
Syncs(b, start) == {p \in start .. Len(b) - FRAME_HEADER : SyncAt(b, p)}

\* A bug: garbage is skipped to the end of the buffer.
SkipToBug(b, start) == IF Syncs(b, start) = {} THEN Len(b) ELSE Min(Syncs(b, start))

\* Garbage is skipped up to a frame, or until less than a header is left.
SkipTo(b, start) ==
    IF Syncs(b, start) # {} THEN Min(Syncs(b, start))
                            ELSE Max({start, Len(b) - FRAME_HEADER + 1})

FrameAt(b, p) == p \in Syncs(b, p) /\ EndAt(b, p) <= Len(b)

-----------------------------------------------------------------------------
(* find_sps() and the loop of receive_video().                             *)

IsSps(p, i) == SubSeq(p, i + 1, i + 4) = <<0, 0, 0, 1>> /\ p[i + 5] % 32 = 7

\* A bug: one offset too few.
SpsOffsetsBug(p) == {i \in 0 .. Len(p) - 6 : IsSps(p, i)}
SpsOffsets(p) == {i \in 0 .. Len(p) - 5 : IsSps(p, i)}

FromSps(p) == SubSeq(p, Min(SpsOffsets(p)) + 1, Len(p))

Read ==
    /\ pc = "read"
    /\ \E n \in 1 .. MaxRead :
          /\ rx + n <= Len(Wire)
          /\ rx' = rx + n
          /\ buf' = buf \o SubSeq(Wire, rx + 1, rx + n)
    /\ pc' = "parse" /\ pos' = 0
    /\ UNCHANGED <<stream, started, from, found, out>>

\* next_frame() found one: write it if it is video of a stream that started.
TakeFrame ==
    LET p == SkipTo(buf, pos)
        payload == SubSeq(buf, p + FRAME_HEADER + 1, EndAt(buf, p))
    IN  /\ pc = "parse" /\ FrameAt(buf, p)
        /\ pos' = EndAt(buf, p)
        /\ found' = Append(found, rx - Len(buf) + p)
        /\ \/ /\ buf[p + 3] # VIDEO_CHANNEL \/ payload = <<>>
              /\ UNCHANGED <<started, out>>
           \/ /\ buf[p + 3] = VIDEO_CHANNEL /\ payload # <<>>
              /\ started' = (started \/ SpsOffsets(payload) # {})
              /\ out' = CASE started -> out \o payload
                          [] ~started /\ started' -> out \o FromSps(payload)
                          [] OTHER -> out
        /\ UNCHANGED <<stream, rx, pc, buf, from>>

\* Bugs: the buffer is drained but `pos' is kept; or only when a frame ended.
DrainKeepsPosBug ==
    LET p == SkipTo(buf, pos)
    IN  /\ pc = "parse" /\ ~FrameAt(buf, p)
        /\ pc' = "read" /\ pos' = p
        /\ buf' = SubSeq(buf, p + 1, Len(buf))
        /\ UNCHANGED <<stream, rx, started, from, found, out>>

DrainFramesBug ==
    /\ pc = "parse" /\ ~FrameAt(buf, SkipTo(buf, pos))
    /\ pc' = "read" /\ pos' = 0
    /\ buf' = SubSeq(buf, pos + 1, Len(buf))
    /\ UNCHANGED <<stream, rx, started, from, found, out>>

\* It found none: buf.drain(..pos), and the next read.
Drain ==
    LET p == SkipTo(buf, pos)
    IN  /\ pc = "parse" /\ ~FrameAt(buf, p)
        /\ pc' = "read" /\ pos' = 0
        /\ buf' = SubSeq(buf, p + 1, Len(buf))
        /\ UNCHANGED <<stream, rx, started, from, found, out>>

\* A bug: the next session takes the stream for started.
NextSessionBug ==
    /\ rx' \in rx .. Len(Wire) /\ from' = rx'
    /\ pc' = "read" /\ buf' = <<>> /\ pos' = 0 /\ found' = <<>> /\ out' = <<>>
    /\ UNCHANGED <<stream, started>>

\* The session ends, at any point, and another begins further down the wire.
NextSession ==
    /\ rx' \in rx .. Len(Wire) /\ from' = rx'
    /\ pc' = "read" /\ buf' = <<>> /\ pos' = 0
    /\ started' = FALSE
    /\ found' = <<>> /\ out' = <<>>
    /\ UNCHANGED stream

Next == Read \/ TakeFrame \/ Drain \/ NextSession

Spec == Init /\ [][Next]_vars

-----------------------------------------------------------------------------
\* The buffer is the end of what was read, and `pos' stays inside it.
TypeOK ==
    /\ stream \in Streams
    /\ rx \in 0 .. Len(Wire) /\ from \in 0 .. rx
    /\ pc \in {"read", "parse"} /\ started \in BOOLEAN
    /\ Len(buf) <= rx - from /\ buf = SubSeq(Wire, rx - Len(buf) + 1, rx)
    /\ pos \in 0 .. Len(buf) /\ (pc = "read" => pos = 0)

\* A framing of the wire between two offsets, said of the wire alone: frames
\* do not overlap, none begins in a gap, and none that is whole is left over.
IsFraming(starts, first, last) ==
    LET bytes == SubSeq(Wire, 1, last)
        resume(i) == IF i = 0 THEN first ELSE EndAt(bytes, starts[i])
    IN  /\ \A i \in 1 .. Len(starts) :
              /\ FrameAt(bytes, starts[i]) /\ starts[i] >= resume(i - 1)
              /\ \A p \in resume(i - 1) .. starts[i] - 1 : ~SyncAt(bytes, p)
        /\ LET rest == Syncs(bytes, resume(Len(starts)))
           IN  rest # {} => ~FrameAt(bytes, Min(rest))

\* Whatever the reads, the frames found are those of the wire: how the stream
\* is cut neither loses, adds nor moves a frame (common.rs:183-203).
CutsDoNotMatter == pc = "read" => IsFraming(found, from, rx)

\* Between two reads the buffer holds less than a header, or one frame that
\* is not whole: it never grows past 8 + 65535 bytes and one read, whatever
\* garbage comes in (capture.rs:360).
HeldIsOneFrame ==
    pc = "read" /\ Len(buf) >= FRAME_HEADER =>
        SyncAt(buf, 0) /\ Len(buf) < EndAt(buf, 0)

\* What each session writes begins with an SPS, also after a replug into the
\* middle of a picture (capture.rs:290-291).
BeginsWithSps == out # <<>> => Len(out) >= 5 /\ IsSps(out, 0)

\* The first n of some pieces, joined.
Joined(pieces, n) == FlattenSeq([i \in 1 .. n |-> pieces[i]])

\* What a frame adds to the video.
VideoIn(frame) == IF frame.channel = VIDEO_CHANNEL THEN frame.payload ELSE <<>>

\* The payloads of a stream's video frames, joined from the first SPS in one on.
VideoOf(frames) ==
    LET video == [i \in DOMAIN frames |-> VideoIn(frames[i])]
        all   == Joined(video, Len(frames))
        first == {k \in DOMAIN all : \E i \in DOMAIN frames :
                     /\ Len(Joined(video, i - 1)) < k /\ k + 4 <= Len(Joined(video, i))
                     /\ IsSps(all, k - 1)}
    IN  IF first = {} THEN <<>> ELSE SubSeq(all, Min(first), Len(all))

\* ... and a session that begins where a frame does writes the video that was
\* sent, whatever its payloads look like: all of it, once all was read.
VideoIsKept ==
    from = 0 /\ stream.junk = <<>> =>
        /\ IsPrefix(out, VideoOf(stream.frames))
        /\ pc = "read" /\ rx = Len(Wire) => out = VideoOf(stream.frames)

StreamIsClean == BeginsWithSps /\ VideoIsKept
=============================================================================
