--------------------------- MODULE MCFrameStream ---------------------------
(* FrameStream for TLC: three short streams.  Payloads hold what looks like *)
(* a header, an SPS is split from its stream by other channels, garbage     *)
(* ends in half a header, and one frame is never sent to its end.           *)
EXTENDS FrameStream

Sps == <<0, 0, 0, 1, 103>>
Video(p) == [channel |-> VIDEO_CHANNEL, payload |-> p]
Other(p) == [channel |-> 1, payload |-> p]

MCStreams ==
    { [junk |-> <<>>,
       frames |-> <<Other(<<9>>), Video(<<5>> \o Sps), Video(<<>>),
                    Video(<<85, 204, 74, 0, 1, 0, 0, 0>>), Other(Sps),
                    Video(<<7>>)>>],
      [junk |-> <<85, 85, 204, 1, 2, 2, 0, 0, 0, 85>>,
       frames |-> <<Video(<<85>>), Video(Sps), Video(<<6, 85>>)>>],
      [junk |-> <<>>,
       frames |-> <<Video(<<0, 0, 0>>), Video(<<1, 103, 4>>), Video(Sps),
                    Video(<<85, 204, 74, 0, 200, 0, 0, 0>>)>>] }
=============================================================================
