--------------------------- MODULE VideoAssembler ---------------------------
(***************************************************************************)
(* Reassembly of video units in goggles-net mode: parse_fragment() and     *)
(* Assembler::feed() of src/goggles_net/video.rs, fed by a UDP link that   *)
(* loses fragments and, on some links, duplicates and reorders them.       *)
(*                                                                         *)
(* A fragment is named by the unit and the part it was cut from.  The wire *)
(* carries less: the unit number is an 8-bit counter, the number of parts  *)
(* a 7-bit field and the part's index a 6-bit one; the moduli are          *)
(* constants.  The payload of a fragment is the fragment itself, and the   *)
(* bytes of a unit the function from part index to payload.                *)
(*                                                                         *)
(* An Option is the set of its value: {} is None.                          *)
(***************************************************************************)
EXTENDS Integers, Sequences, FiniteSets

CONSTANTS
    LastUnit,   \* bound: the air unit makes units 0 .. LastUnit
    Parts,      \* Parts[u]: the number of fragments unit u is cut into
    IdMod,      \* 2^8: width of unit_id
    TotalMod,   \* 2^7: width of total_parts
    IndexMod,   \* 2^6: width of part_index
    Links,      \* the links there may be: whether datagrams keep their
                \* order, and how often one is delivered at most
    Flight,     \* bound: datagrams on the wire at once
    Span        \* fragments that arrive one after the other are fewer than
                \* this many units apart: how much is lost in one go

Units == 0 .. LastUnit

ASSUME AssemblerAssumption ==
    /\ LastUnit \in Nat
    /\ IdMod \in Nat \ {0} /\ TotalMod \in Nat \ {0} /\ IndexMod \in Nat \ {0}
    /\ Parts \in [Units -> Nat \ {0}]
    /\ Links \subseteq [inOrder : BOOLEAN, copies : Nat \ {0}]
    /\ Flight \in Nat \ {0}
    /\ Span \in Nat \ {0}

VARIABLES
    link,        \* the link this run has
    next,        \* the fragment the goggles send next
    net,         \* fragments on the wire, with the copy's number
    arrived,     \* history: the fragments that reached us
    last,        \* history: the unit of the fragment that arrived last
    unit_id,     \* Assembler: the unit being put together, if any
    total_parts, \* Assembler
    parts,       \* Assembler: the payload held for each part index, if any
    have,        \* Assembler
    dropped,     \* Assembler::dropped_partial > 0 (only the first is logged)
    out          \* what feed() returned, in order

assembler == <<unit_id, total_parts, parts, have, dropped, out>>
vars == <<link, next, net, arrived, last, assembler>>

-----------------------------------------------------------------------------
\* The fragments of unit u, and the fragment after f.
Fragment(u, i) == [unit |-> u, part |-> i]
Fragments == UNION {[unit : {u}, part : 0 .. Parts[u] - 1] : u \in Units}
After(f) == IF f.part + 1 < Parts[f.unit] THEN Fragment(f.unit, f.part + 1)
                                          ELSE Fragment(f.unit + 1, 0)

\* A bug: the bit of part_index that lies in byte 17 is left out.
HeaderBug(f) == [unit_id     |-> f.unit % IdMod,
                 total_parts |-> Parts[f.unit] % TotalMod,
                 part_index  |-> (2 * (f.part \div 2)) % IndexMod]

\* What parse_fragment() reads out of fragment f's header.
Header(f) == [unit_id     |-> f.unit % IdMod,
              total_parts |-> Parts[f.unit] % TotalMod,
              part_index  |-> f.part % IndexMod]

\* A unit put back together without a gap.
Whole(u) == [i \in 0 .. Parts[u] - 1 |-> {Fragment(u, i)}]

Init ==
    /\ link \in Links
    /\ next = Fragment(0, 0) /\ net = {}
    /\ arrived = {} /\ last = {}
    /\ unit_id = {} /\ total_parts = 0 /\ have = 0
    /\ parts = [i \in 0 .. -1 |-> {}]
    /\ dropped = FALSE
    /\ out = <<>>

-----------------------------------------------------------------------------
(* Assembler::feed().                                                      *)

\* A bug: the count of the unit before is not reset.
OpenedBug(h) ==
    IF unit_id = {h.unit_id}
    THEN [total |-> total_parts, parts |-> parts, have |-> have]
    ELSE [total |-> h.total_parts,
          parts |-> [i \in 0 .. h.total_parts - 1 |-> {}], have |-> have]

\* The assembler once it knows which unit the fragment belongs to: the one
\* it was on, or a new one that supersedes it.
Opened(h) ==
    IF unit_id = {h.unit_id}
    THEN [total |-> total_parts, parts |-> parts, have |-> have]
    ELSE [total |-> h.total_parts,
          parts |-> [i \in 0 .. h.total_parts - 1 |-> {}], have |-> 0]

\* A bug: a repeated part is counted again.
PlacedBug(o, h, payload) ==
    [o EXCEPT !.parts[h.part_index] = {payload}, !.have = @ + 1]

\* ... and once the payload is in its place; a part that is already there is
\* not replaced.
Placed(o, h, payload) ==
    IF o.parts[h.part_index] # {} THEN o
    ELSE [o EXCEPT !.parts[h.part_index] = {payload}, !.have = @ + 1]

\* A bug: every change of unit counts as a drop.
SupersededBug(h) == unit_id # {h.unit_id} /\ arrived # {}

Superseded(h) == unit_id # {} /\ unit_id # {h.unit_id} /\ have < total_parts

Feed(f) ==
    LET h == Header(f)
        o == Opened(h)
        p == Placed(o, h, f)
    IN  /\ dropped' = (dropped \/ Superseded(h))
        /\ \/ /\ h.total_parts = 0 \/ h.part_index >= o.total
              /\ unit_id' = {h.unit_id}
              /\ total_parts' = o.total /\ parts' = o.parts /\ have' = o.have
              /\ UNCHANGED out
           \/ /\ h.total_parts # 0 /\ h.part_index < o.total
              /\ total_parts' = p.total /\ parts' = p.parts /\ have' = p.have
              /\ IF p.have < p.total
                 THEN unit_id' = {h.unit_id} /\ UNCHANGED out
                 ELSE unit_id' = {} /\ out' = Append(out, p.parts)

-----------------------------------------------------------------------------
(* The goggles and the link.                                               *)

\* The goggles send the next fragment; the network carries some copies.
Send ==
    /\ next.unit <= LastUnit
    /\ \E n \in 1 .. link.copies :
          /\ Cardinality(net) + n <= Flight
          /\ net' = net \cup {[frag |-> next, copy |-> c] : c \in 1 .. n}
    /\ next' = After(next)
    /\ UNCHANGED <<link, arrived, last, assembler>>

Lose(d) ==
    /\ net' = net \ {d}
    /\ UNCHANGED <<link, next, arrived, last, assembler>>

Before(f, g) == f.unit < g.unit \/ (f.unit = g.unit /\ f.part < g.part)

\* A datagram arrives and is fed to the assembler.
Receive(d) ==
    /\ link.inOrder => \A e \in net : ~Before(e.frag, d.frag)
    /\ \A u \in last : d.frag.unit - u < Span /\ u - d.frag.unit < Span
    /\ net' = net \ {d}
    /\ arrived' = arrived \cup {d.frag}
    /\ last' = {d.frag.unit}
    /\ Feed(d.frag)
    /\ UNCHANGED <<link, next>>

Next == Send \/ \E d \in net : Lose(d) \/ Receive(d)

Spec == Init /\ [][Next]_vars

-----------------------------------------------------------------------------
\* Whatever the link does, the Assembler's fields agree: `parts' has the
\* length `total_parts' says, so that no index leaves it, `have' counts the
\* parts held, and a unit that is still open is not complete.
TypeOK ==
    /\ link \in Links
    /\ next \in Fragments \cup {Fragment(LastUnit + 1, 0)}
    /\ net \subseteq [frag : Fragments, copy : 1 .. link.copies]
    /\ arrived \subseteq Fragments
    /\ last \in SUBSET Units
    /\ unit_id \in SUBSET (0 .. IdMod - 1)
    /\ total_parts \in 0 .. TotalMod - 1
    /\ parts \in [0 .. total_parts - 1 -> SUBSET Fragments]
    /\ have = Cardinality({i \in 0 .. total_parts - 1 : parts[i] # {}})
    /\ unit_id # {} => have < total_parts \/ total_parts = 0
    /\ dropped \in BOOLEAN

\* A unit few enough fragments to be counted in the header, and a link that
\* does not fall silent for as long as unit_id takes to come round.
CountsFit == \A u \in Units : Parts[u] < TotalMod
NoWrap == Span <= IdMod

\* What is emitted is one unit's fragments, all of them, each in its place
\* and nothing else (video.rs:47-50): no mixture of two units, no gap.
EmittedUnitsAreWhole ==
    \A i \in 1 .. Len(out) : \E u \in Units : out[i] = Whole(u)

\* A link that may lose datagrams, and nothing worse.
Orderly == link.inOrder /\ link.copies = 1

\* On such a link the Assembler implements UnitStream: what it emits is a
\* stream of whole units, in order and each at most once.
Stream == INSTANCE UnitStream
          WITH LastUnit <- LastUnit, Whole <- Whole,
               out <- IF Orderly THEN out ELSE <<>>
StreamKept == Stream!Spec

\* Every unit all of whose fragments arrive is emitted: loss elsewhere in the
\* stream never costs a unit that came through.  (A unit of more parts than
\* the part index can tell apart is never complete.)
ArrivedUnitsAreEmitted ==
    Orderly => \A u \in Units :
        Parts[u] <= IndexMod /\ (\A i \in 0 .. Parts[u] - 1 : Fragment(u, i) \in arrived)
        => \E i \in 1 .. Len(out) : out[i] = Whole(u)

Lost(f) == Before(f, next) /\ f \notin arrived /\ \A d \in net : d.frag # f

\* video.rs:47-49: "A `unit_id` change before the previous unit completed
\* means a fragment was lost somewhere" -- or a unit was never to complete.
DropMeansLoss ==
    Orderly /\ dropped =>
        \/ \E f \in Fragments : Lost(f)
        \/ \E f \in arrived : Parts[f.unit] > IndexMod
=============================================================================
