------------------------------ MODULE Playhead ------------------------------
(* What the playout of a playlist promises to those who watch it.  There is  *)
(* a Part on air, one before it and one that comes next.  A Part comes on    *)
(* air by having been next, and what was on air is then what was before; who *)
(* chooses the next Part, and however often, moves nothing else.  A hold is  *)
(* asked for, goes on with the take, is completed, and is over with the next *)
(* take.  How the next Part is found, what is kept of each Part that was     *)
(* played, and whether a user, an ingest or a gateway caused the step, is    *)
(* left out.                                                                 *)
CONSTANTS Part, None, SegmentOf, HoldFrom, HoldTo, AllowResetOnAir

VARIABLES mode,      \* "inactive", "rehearsal" or "on air"
          previous,  \* the Parts, or None
          current,
          next,
          hold       \* "none", "pending", "active" or "complete"

playheadVars == <<mode, previous, current, next, hold>>

ActiveModes == {"rehearsal", "on air"}

PartOrNone == Part \cup {None}

PlayheadInit ==
    /\ mode = "inactive"
    /\ previous = None /\ current = None /\ next = None
    /\ hold = "none"

(* A show on air is not started over, unless the studio allows it or nothing *)
(* is on air yet.                                                            *)
Start ==
    /\ mode = "on air" => AllowResetOnAir \/ current = None
    /\ mode' \in ActiveModes
    /\ previous' = None /\ current' = None /\ next' \in PartOrNone
    /\ hold' = "none"

Stop ==
    /\ mode' = "inactive"
    /\ previous' = None /\ current' = None /\ next' = None
    /\ hold' = "none"

(* From rehearsal to on air, or back: what is on air stays.                  *)
ChangeMode ==
    /\ mode # "inactive" /\ current # None
    /\ mode' \in ActiveModes
    /\ UNCHANGED <<previous, current, next, hold>>

ChooseNext ==
    /\ mode # "inactive"
    /\ next' \in PartOrNone
    /\ UNCHANGED <<mode, previous, current, hold>>

(* What was chosen to come next comes, and something else is next.           *)
Advance ==
    /\ mode # "inactive" /\ next # None
    /\ previous' = current /\ current' = next /\ next' \in PartOrNone
    /\ UNCHANGED mode

(* A take: it is what starts a hold, and it moves nothing while one goes on. *)
TakeNext ==
    /\ Advance
    /\ \/ hold \in {"none", "complete"} /\ hold' = "none"
       \/ hold = "pending" /\ current # None /\ hold' = "active"

(* The current Part has come to its end: there is no hold to be had any more. *)
RunIntoNext == Advance /\ hold' = "none"

MayHold ==
    /\ current \in HoldFrom /\ next \in HoldTo
    /\ SegmentOf[current] = SegmentOf[next]

ChangeHold ==
    /\ mode # "inactive"
    /\ \/ hold = "none" /\ hold' = "pending" /\ MayHold
       \/ hold = "pending" /\ hold' = "none"
       \/ hold = "active" /\ hold' = "complete"
       \/ hold = "complete" /\ hold' = "none"
    /\ UNCHANGED <<mode, previous, current, next>>

PlayheadNext ==
    \/ Start \/ Stop \/ ChangeMode \/ ChooseNext
    \/ TakeNext \/ RunIntoNext \/ ChangeHold

PlayheadSpec == PlayheadInit /\ [][PlayheadNext]_playheadVars
=============================================================================
