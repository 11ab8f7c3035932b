----------------------------- MODULE MCPlayout ------------------------------
(* Playout on a show of two segments: the Parts 1 and 2, then 3.             *)
EXTENDS Playout

MCSegmentOf == <<"a", "a", "b">>
MCRank == <<0, 1, 0>>
MCSegments == <<"a", "b">>
Content(parts, playable, loop) ==
    [parts |-> parts, playable |-> playable, loop |-> loop]

(* Each Part but 3 can be removed, Part 2 can become unplayable, and the      *)
(* loop can be switched off.                                                 *)
MCShows ==
    {Content(<<1, 2, 3>>, {1, 2, 3}, TRUE), Content(<<1, 2, 3>>, {1, 3}, TRUE),
     Content(<<2, 3>>, {2, 3}, FALSE), Content(<<1, 3>>, {1}, TRUE)}
=============================================================================
