--------------------------- MODULE NextPartChoice ---------------------------
(* What the choice of the next Part promises, asked of every playlist made   *)
(* of the Parts of a show in their order: each subset of the Parts, each set *)
(* of playable Parts, each Part to continue from (in the playlist or not),   *)
(* each queued segment, with the loop and without.  A behaviour asks once.   *)
EXTENDS SelectNextPart

(* Parts are numbered in the order of the show, which is that of the         *)
(* segments and, in a segment, of the ranks, which ingest keeps unique.      *)
ASSUME ShowAssumption ==
    /\ Part \subseteq Nat /\ IsFiniteSet(Part)
    /\ \A p \in Part : \E k \in DOMAIN Segments : Segments[k] = SegmentOf[p]
    /\ \A k, l \in DOMAIN Segments : Segments[k] = Segments[l] => k = l
    /\ \A p, q \in Part : p < q =>
         \/ SegmentOf[p] = SegmentOf[q] /\ Rank[p] < Rank[q]
         \/ \E k, l \in DOMAIN Segments :
               k < l /\ Segments[k] = SegmentOf[p] /\ Segments[l] = SegmentOf[q]

InOrder(s) == \A i, j \in DOMAIN s : i < j => s[i] < s[j]

Playlists == {s \in UNION {[1 .. n -> Part] : n \in 0 .. Cardinality(Part)} : InOrder(s)}

PartsOf(s) == {s[i] : i \in DOMAIN s}

VARIABLES parts, playable, previous, queued, loop, selected
vars == <<parts, playable, previous, queued, loop, selected>>

Init ==
    /\ parts \in Playlists
    /\ playable \in SUBSET PartsOf(parts)
    /\ previous \in Part \cup {None}
    /\ queued \in Segment \cup {None}
    /\ loop \in BOOLEAN
    /\ selected = None

Select ==
    /\ selected = None
    /\ selected' = SelectNextPart(parts, playable, previous, queued, loop)
    /\ UNCHANGED <<parts, playable, previous, queued, loop>>

Spec == Init /\ [][Select]_vars

-----------------------------------------------------------------------------
(* Reference definitions: the place of a Part in the show is its number, also *)
(* for one that is not in the playlist any more.                             *)

InShow == PartsOf(parts)

Behind(p) == {q \in InShow \cap playable : p = None \/ q > p}

Before(p) == {q \in InShow \cap playable : q < p}

Earliest(S) == IF S = {} THEN None ELSE CHOOSE p \in S : \A q \in S : p <= q

Natural == Earliest(Behind(previous))

InQueue == {q \in InShow \cap playable : SegmentOf[q] = queued}

LeavesTheSegment ==
    previous = None \/ (Natural # None /\ SegmentOf[Natural] # SegmentOf[previous])

Answered == selected # None

(* Without a queued segment to go to, the answer is the first playable Part  *)
(* behind the previous one, wherever that was: nothing playable is skipped   *)
(* and nothing is played twice, also when the previous Part, or its whole    *)
(* segment, has been removed while it was on air.  At the end of a playlist  *)
(* that loops, the first playable Part before the previous one is next, when *)
(* the previous Part is still in the playlist; at the end of one that does   *)
(* not, nothing is.                                                          *)
ContinuesWhereItWas ==
    /\ Answered /\ Natural # None /\ (InQueue = {} \/ ~LeavesTheSegment)
        => selected = Choice(Natural, FALSE)
    /\ Answered /\ previous # None /\ Natural = None =>
        /\ loop /\ previous \in InShow /\ Before(previous) # {}
              => selected.part = Earliest(Before(previous))
        /\ ~loop => selected.part = None

(* When the playhead leaves its segment and the queued segment has a         *)
(* playable Part, the first of those is next, and it is the choice that      *)
(* clears the queue; nothing else may claim to consume the queue.            *)
QueueIsHonoured ==
    Answered =>
        /\ LeavesTheSegment /\ InQueue # {} => selected = Choice(Earliest(InQueue), TRUE)
        /\ selected.consumes => LeavesTheSegment /\ selected.part \in InQueue
=============================================================================
