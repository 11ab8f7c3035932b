--------------------------- MODULE SelectNextPart ---------------------------
(* The choice of the Part that follows: playout/selectNextPart.ts.  A take,  *)
(* an autonext, a change of the rundown by ingest, an activation and a reset *)
(* all end in this function, with the Parts as they are at that moment: the  *)
(* Part it continues from may have become unplayable, or be gone.            *)
(*                                                                           *)
(* The rundowns of the playlist are one sequence of Parts, sorted by segment *)
(* and, in a segment, by rank.  Positions are those of TLA+ sequences: the   *)
(* code's index k is k + 1 here.                                             *)
EXTENDS Integers, Sequences, FiniteSets

CONSTANTS
    Part,       \* the Parts that ingest may put in the playlist
    Segment,
    SegmentOf,  \* [Part -> Segment]
    Rank,       \* [Part -> Int]: its _rank in the segment
    Segments,   \* the segments in order: a sequence
    None

ASSUME PartAssumption ==
    /\ SegmentOf \in [Part -> Segment]
    /\ Rank \in [Part -> Int]
    /\ Segments \in Seq(Segment)
    /\ None \notin Part /\ None \notin Segment

IsFirst(i, S) == i \in S /\ \A j \in S : i <= j

First(S) == CHOOSE i \in S : IsFirst(i, S)

Last(S) == CHOOSE i \in S : \A j \in S : j <= i

(* findFirstPlayablePart: the first playable Part from a position up to, and *)
(* including, another.                                                       *)
FirstPlayable(parts, ok, from, to, wanted) ==
    LET found == {i \in DOMAIN parts : /\ from <= i /\ i <= to
                                       /\ parts[i] \in ok
                                       /\ parts[i] \in wanted}
    IN  IF found = {} THEN None ELSE parts[First(found)]

PositionsOf(parts, s) == {i \in DOMAIN parts : SegmentOf[parts[i]] = s}

(* Fault: the rank of the Part that is gone is not looked at.                *)
PlaceAtSegmentStart(parts, p) == First(PositionsOf(parts, SegmentOf[p]))

(* Where to search when the Part itself is gone but not its segment: behind  *)
(* the last Part in the first run of the segment with a rank that is not     *)
(* higher, or at the start of the segment.                                   *)
PlaceInSegment(parts, p) ==
    LET start  == First(PositionsOf(parts, SegmentOf[p]))
        before == {i \in DOMAIN parts :
                     /\ start <= i
                     /\ \A j \in start .. i : SegmentOf[parts[j]] = SegmentOf[p]
                     /\ Rank[parts[i]] <= Rank[p]}
    IN  IF before = {} THEN start ELSE Last(before) + 1

(* ... and when the segment has no Parts left: at the first of the segments  *)
(* behind it that has, or beyond the end.  A segment that is not in the      *)
(* playlist any more gives no place: the search starts at the top.           *)
PlaceOfSegment(parts, s) ==
    LET places == {k \in DOMAIN Segments : Segments[k] = s}
        later  == {k \in DOMAIN Segments :
                     /\ k > First(places)
                     /\ PositionsOf(parts, Segments[k]) # {}}
    IN  CASE places = {} -> 1
          [] places # {} /\ later # {} ->
                First(PositionsOf(parts, Segments[First(later)]))
          [] OTHER -> Len(parts) + 2

SearchFrom(parts, previous) ==
    LET here == {i \in DOMAIN parts : parts[i] = previous}
    IN  CASE previous = None -> 1
          [] previous # None /\ here # {} -> First(here) + 1
          [] previous # None /\ here = {} /\ PositionsOf(parts, SegmentOf[previous]) # {} ->
                PlaceInSegment(parts, previous)
          [] OTHER -> PlaceOfSegment(parts, SegmentOf[previous])

(* Fault: the queued segment interrupts the current one.                     *)
QueueCountsAlways(following, previous, queued) == queued # None

(* The queued segment counts without a previous Part, or when what follows   *)
(* is in another segment than the previous Part.                             *)
QueueCounts(following, previous, queued) ==
    /\ queued # None
    /\ \/ previous = None
       \/ /\ following # None
          /\ SegmentOf[following] # SegmentOf[previous]

(* The loop limit is an exclusive index; 0 is falsy, and means no limit.     *)
LoopLimit(parts, from) == IF from = 2 THEN Len(parts) ELSE from - 2

Choice(p, consumes) == [part |-> p, consumes |-> consumes]

(* selectNextPart: the Part, and whether it consumes the queued segment.     *)
SelectNextPart(parts, ok, previous, queued, loop) ==
    LET from      == SearchFrom(parts, previous)
        following == FirstPlayable(parts, ok, from, Len(parts), Part)
        inQueued  == FirstPlayable(parts, ok, 1, Len(parts),
                                   {p \in Part : SegmentOf[p] = queued})
    IN  IF QueueCounts(following, previous, queued) /\ inQueued # None
        THEN Choice(inQueued, TRUE)
        ELSE IF loop /\ following = None /\ previous # None
        THEN Choice(FirstPlayable(parts, ok, 1, LoopLimit(parts, from), Part), FALSE)
        ELSE Choice(following, FALSE)
=============================================================================
