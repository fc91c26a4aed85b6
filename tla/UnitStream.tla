----------------------------- MODULE UnitStream -----------------------------
(***************************************************************************)
(* What the goggles-net reassembly promises its sink: a stream of whole    *)
(* video units, each at most once and in the order the air unit made them. *)
(* Units may be missing; a broken, repeated or displaced one may not       *)
(* appear.                                                                 *)
(***************************************************************************)
EXTENDS Naturals, Sequences

CONSTANTS
    LastUnit,   \* the units are 0 .. LastUnit, in the order they were made
    Whole(_)    \* the complete, ordered bytes of a unit

VARIABLE out    \* what was handed to the sink, oldest first

Units == 0 .. LastUnit

Init == out = <<>>

Later(u) == \A i \in 1 .. Len(out) : \E v \in Units : v < u /\ out[i] = Whole(v)

Hand(u) == Later(u) /\ out' = Append(out, Whole(u))

Next == \E u \in Units : Hand(u)

Spec == Init /\ [][Next]_out
=============================================================================
