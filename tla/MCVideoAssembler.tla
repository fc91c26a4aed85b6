-------------------------- MODULE MCVideoAssembler --------------------------
(* VideoAssembler for TLC: units of one to three parts under a unit number *)
(* that wraps after two units; unit 2 is cut into more parts than a        *)
(* part_index below 2 can number.  Two links: one that only loses, and one *)
(* that also repeats and displaces.                                        *)
EXTENDS VideoAssembler

UnitSizes == <<1, 2, 3, 2>>
MCParts == [u \in Units |-> UnitSizes[u + 1]]
MCLinks == { [inOrder |-> TRUE, copies |-> 1], [inOrder |-> FALSE, copies |-> 2] }
=============================================================================
