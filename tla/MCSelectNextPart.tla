-------------------------- MODULE MCSelectNextPart --------------------------
(* The Parts 1 to 5 of the three segments "a", "b" and "c".                  *)
EXTENDS NextPartChoice

MCSegmentOf == <<"a", "a", "b", "b", "c">>
MCRank == <<0, 1, 0, 1, 0>>
MCSegments == <<"a", "b", "c">>
=============================================================================
