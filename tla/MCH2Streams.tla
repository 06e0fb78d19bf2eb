---------------------------- MODULE MCH2Streams ----------------------------
(***************************************************************************)
(* H2Streams for TLC: two streams of small frames, and one that begins with*)
(* a frame that no buffer holds (the client's connection preface reads as  *)
(* one).  Frames are <<length, type, payload...>>; payload bytes are       *)
(* plausible lengths, so that a parser that lost its place goes on.        *)
(***************************************************************************)
EXTENDS H2Streams

CONSTANTS a, b, big

MCFrames ==
    [c \in Streams |->
        CASE c = a   -> << <<1, 4, 0>>, <<0, 4>> >>
          [] c = b   -> << <<1, 0, 1>> >>
          [] c = big -> << <<5, 0, 0, 1, 1, 0, 1>>, <<0, 4>> >>]

=============================================================================
