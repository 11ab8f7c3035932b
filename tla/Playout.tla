------------------------------ MODULE Playout -------------------------------
(* The playhead of one rundown playlist: which PartInstance is on air, which *)
(* was before it and which comes next; the hold; the queued segment; and the *)
(* PartInstances behind them (playout/, and of ingest/ what touches these).  *)
(*                                                                           *)
(* Every job runs under the playlist lock: it loads a PlayoutModel from the  *)
(* database, changes it and saves it.  So a job is one action here, an       *)
(* operator from the model that was loaded to the model that is saved, put   *)
(* together from operators for the functions that the job calls, in their    *)
(* order.  A job that throws saves nothing and is no step.  The hard part is *)
(* the order of the jobs: users, ingest and the playout gateways queue them  *)
(* independently, and a gateway reports what it played from the timeline it  *)
(* had, which may not be the last one.                                       *)
(*                                                                           *)
(* Times are left out: a guard that compares times (the minimum take span,   *)
(* blockTakeUntil, a running transition, an autonext that is too close) may  *)
(* refuse a job at any moment, which is no step.                             *)
EXTENDS SelectNextPart

CONSTANTS
    Shows,             \* the contents that ingest may give the playlist:
                       \* the Parts in order, which of them are playable, and
                       \* whether the playlist loops
    HoldFrom, HoldTo,  \* the Parts with holdMode FROM, and TO
    AutoNext,          \* the Parts with autoNext
    AllowResetOnAir    \* studio.settings.allowRundownResetOnAir

(* The segments do not come and go: each has a Part in every list.           *)
ASSUME PlayoutAssumption ==
    /\ Shows \subseteq [parts : Seq(Part), playable : SUBSET Part, loop : BOOLEAN]
    /\ \A show \in Shows : \A s \in Segment : PositionsOf(show.parts, s) # {}
    /\ HoldFrom \subseteq Part /\ HoldTo \subseteq Part /\ AutoNext \subseteq Part
    /\ AllowResetOnAir \in BOOLEAN
    /\ None \notin Nat     \* an instance is told from none

VARIABLES
    model,     \* the DBRundownPlaylist and its PartInstances
    show,      \* the content of the playlist: a member of Shows
    timeline   \* the instances that a gateway may still report as started

vars == <<model, show, timeline>>

Modes == {"inactive", "rehearsal", "on air"}

Nowhere == 0

HoldStates == {"none", "pending", "active", "complete"}

PartInstanceRecord ==
    [part : Part, playable : BOOLEAN, taken : BOOLEAN, reset : BOOLEAN,
     deleted : BOOLEAN]

Fresh ==
    [mode |-> "inactive", prev |-> None, cur |-> None, nxt |-> None,
     manual |-> FALSE, consumes |-> FALSE, hold |-> "none", queued |-> None,
     started |-> FALSE, inst |-> [i \in {} |-> None], loaded |-> {}]

-----------------------------------------------------------------------------
(* PlayoutModelImpl: instances and the selected three.                       *)

Existing(m) == DOMAIN m.inst

Selected(m) == {m.prev, m.cur, m.nxt} \ {None}

(* currentPartInstance, nextPartInstance and previousPartInstance are null   *)
(* for an id without an instance.                                            *)
Found(m, i) == IF i \in Existing(m) THEN i ELSE None

PartOf(m, i) == m.inst[i].part

SegmentAt(m, i) == SegmentOf[PartOf(m, i)]

RankAt(m, i) == Rank[PartOf(m, i)]

OlderInstances(m) == m.loaded \ Selected(m)

Only(m, keep) ==
    [m EXCEPT !.inst = [i \in Existing(m) \cap keep |-> m.inst[i]],
              !.loaded = m.loaded \cap keep]

Without(m, gone) == Only(m, Existing(m) \ gone)

MarkReset(m, S) ==
    [m EXCEPT !.inst = [i \in Existing(m) |->
        IF i \in S THEN [m.inst[i] EXCEPT !.reset = TRUE] ELSE m.inst[i]]]

(* loadPartInstances: the selected instances, and those of their segments    *)
(* that are not reset.                                                       *)
Load(m) ==
    LET selected == Selected(m) \cap Existing(m)
    IN  [m EXCEPT !.loaded =
            {i \in Existing(m) :
                \/ i \in selected
                \/ /\ ~m.inst[i].reset
                   /\ \E j \in selected : SegmentAt(m, i) = SegmentAt(m, j)}]

(* The instances are numbered in the order of their creation.                *)
NewId(m) == IF Existing(m) = {} THEN 1 ELSE Last(Existing(m)) + 1

(* Only playable Parts are made next.                                        *)
CreateInstanceForPart(m, i, p) ==
    LET new == [part |-> p, playable |-> TRUE, taken |-> FALSE, reset |-> FALSE,
                deleted |-> FALSE]
    IN  [m EXCEPT !.inst = [j \in Existing(m) \cup {i} |->
                               IF j = i THEN new ELSE m.inst[j]],
                  !.loaded = m.loaded \cup {i}]

(* Fault: what was on air before is not remembered.                          *)
CycleForgetsPrevious(m) == [m EXCEPT !.cur = m.nxt, !.nxt = None, !.started = FALSE]

(* started stands for the reportedStartedPlayback of the current instance.   *)
CycleSelectedPartInstances(m) ==
    [m EXCEPT !.prev = m.cur, !.cur = m.nxt, !.nxt = None, !.started = FALSE]

(* Fault: nothing is removed.                                                *)
RemoveNothing(m) == m

(* Both the fields of clearSelectedPartInstances and those of resetPlaylist. *)
ClearSelectedPartInstances(m) ==
    [m EXCEPT !.prev = None, !.cur = None, !.nxt = None, !.manual = FALSE,
              !.consumes = FALSE, !.hold = "none", !.queued = None,
              !.started = FALSE]

RemoveUntakenPartInstances(m) ==
    Without(m, {i \in OlderInstances(m) : ~m.inst[i].taken})

SetPartInstanceAsNext(m, i, manual, consumes) ==
    [m EXCEPT !.nxt = i, !.manual = manual \/ m.inst[i].deleted, !.consumes = consumes]

SetNothingAsNext(m) == [m EXCEPT !.nxt = None, !.manual = FALSE, !.consumes = FALSE]

-----------------------------------------------------------------------------
(* setNext.ts.                                                               *)

(* Anything behind the current instance in its segment ...                   *)
TrailingInOldSegment(m) ==
    IF Found(m, m.cur) = None THEN {}
    ELSE {i \in m.loaded \ {m.cur, m.nxt} :
            /\ SegmentAt(m, i) = SegmentAt(m, m.cur)
            /\ RankAt(m, i) > RankAt(m, m.cur)}

(* ... and all of the next segment when it is entered, or moved back in.     *)
NewSegmentParts(m) ==
    IF \/ Found(m, m.cur) = None
       \/ SegmentAt(m, m.nxt) # SegmentAt(m, m.cur)
       \/ RankAt(m, m.nxt) < RankAt(m, m.cur)
    THEN {i \in m.loaded \ {m.cur, m.nxt} : SegmentAt(m, i) = SegmentAt(m, m.nxt)}
    ELSE {}

ResetPartInstancesWhenChangingSegment(m) ==
    IF Found(m, m.nxt) = None THEN m
    ELSE MarkReset(m, TrailingInOldSegment(m) \cup NewSegmentParts(m))

CleanupOrphanedItems(m) ==
    MarkReset(m, {i \in m.loaded \ {m.cur, m.nxt} : m.inst[i].deleted})

(* Fault: what is on air is not spared.                                      *)
AllInstancesOfPart(m, i) == {j \in Existing(m) \ {i} : PartOf(m, j) = PartOf(m, i)}

(* The instance is the next one, if that is of the same Part, or a new one.  *)
NextInstance(m, p) ==
    IF Found(m, m.nxt) # None /\ PartOf(m, m.nxt) = p THEN m.nxt ELSE NewId(m)

PreviousInstancesOfPart(m, i) ==
    {j \in Existing(m) \ {i, m.cur, m.prev} : PartOf(m, j) = PartOf(m, i)}

ChooseNext(m, choice, manual) ==
    IF choice.part = None THEN SetNothingAsNext(m)
    ELSE LET i    == NextInstance(m, choice.part)
             with == IF i \in Existing(m) THEN m ELSE CreateInstanceForPart(m, i, choice.part)
         IN  SetPartInstanceAsNext(MarkReset(with, PreviousInstancesOfPart(with, i)),
                                   i, manual, choice.consumes)

SetNextPart(m, choice, manual) ==
    CleanupOrphanedItems(
        ResetPartInstancesWhenChangingSegment(
            RemoveUntakenPartInstances(ChooseNext(m, choice, manual))))

-----------------------------------------------------------------------------
(* Parts of take.ts, lib.ts and activePlaylistActions.ts.                    *)

(* What follows a Part, with the queue as the model has it now.              *)
SelectAfter(m, p) == SelectNextPart(show.parts, show.playable, p, m.queued, show.loop)

ClearQueuedSegmentId(m, i, consumes) ==
    IF consumes /\ m.queued = SegmentAt(m, i) THEN [m EXCEPT !.queued = None] ELSE m

(* On leaving a segment of a looping playlist, all that is loaded of it.     *)
ResetPreviousSegment(m) ==
    IF /\ show.loop /\ Found(m, m.prev) # None
       /\ Found(m, m.cur) = None \/ SegmentAt(m, m.cur) # SegmentAt(m, m.prev)
    THEN MarkReset(m, {i \in m.loaded : SegmentAt(m, i) = SegmentAt(m, m.prev)})
    ELSE m

(* updatePartInstanceOnTake and setTaken.                                    *)
SetTaken(m, i) == [m EXCEPT !.inst[i].taken = TRUE]

SetStarted(m) == [m EXCEPT !.started = TRUE]

SelectFirst(m) == SelectAfter(m, None)

ResetRundownPlaylist(m) ==
    LET cleared == MarkReset(ClearSelectedPartInstances(m), Existing(m))
    IN  IF m.mode = "inactive" THEN SetNextPart(cleared, Choice(None, FALSE), FALSE)
        ELSE SetNextPart(cleared, SelectFirst(cleared), FALSE)

(* Without a current instance the first Part is made next; with one the      *)
(* selected instances are kept, and the mode may change under them.          *)
ActivateRundownPlaylist(m, mode) ==
    LET start == IF m.mode = "inactive" THEN ResetRundownPlaylist(m) ELSE m
        on    == [start EXCEPT !.mode = mode]
        clear == ClearSelectedPartInstances(on)
    IN  IF Found(on, on.cur) = None \/ on.inst[on.cur].reset
        THEN SetNextPart(clear, SelectFirst(clear), FALSE)
        ELSE on

DeactivateRundownPlaylist(m) ==
    SetNextPart([ClearSelectedPartInstances(m) EXCEPT !.mode = "inactive"],
                Choice(None, FALSE), FALSE)

(* performTakeToNextedPart, after its guards.                                *)
PerformTake(m) ==
    LET i      == m.nxt
        clear  == ClearQueuedSegmentId([m EXCEPT !.hold = IF @ = "complete" THEN "none" ELSE @],
                                       i, m.consumes)
        choice == SelectAfter(clear, PartOf(m, i))
        taken  == SetTaken(CycleSelectedPartInstances(clear), i)
        next   == SetNextPart(ResetPreviousSegment(taken), choice, FALSE)
    IN  [next EXCEPT !.hold = IF @ = "pending" THEN "active" ELSE @]

(* onPartPlaybackStarted for the next instance: an autonext has taken place. *)
(* The selected instances are cycled first, so nextPartInfo is null when it  *)
(* is asked whether it consumes the queued segment.                          *)
PerformAutonext(m) ==
    LET i      == m.nxt
        cycled == [CycleSelectedPartInstances(m) EXCEPT !.hold = "none"]
        taken  == SetTaken(SetStarted(cycled), i)
        clear  == ClearQueuedSegmentId(taken, i, FALSE)
        reset  == ResetPreviousSegment(clear)
    IN  SetNextPart(reset, SelectAfter(reset, PartOf(m, i)), FALSE)

-----------------------------------------------------------------------------
(* updateTimeline: the current instance and, if it has an autonext, the next *)
(* one.  A gateway may go on with an older timeline for a while, so what is  *)
(* on that may be reported too.  A report about an instance that is gone, or *)
(* is not the current or the next one, is refused and is no step.            *)
OnTimeline(m) ==
    IF m.mode = "inactive" THEN {}
    ELSE {m.cur} \cup (IF Found(m, m.cur) # None /\ PartOf(m, m.cur) \in AutoNext
                       THEN {m.nxt} ELSE {})

(* Fault: a report about an instance that has gone is accepted.              *)
GatewayReportsAll(m, late) == OnTimeline(m) \cup (IF late THEN timeline ELSE {})

Reportable(m) == {m.cur, m.nxt} \cap Existing(m)

GatewayHas(m, late) ==
    (OnTimeline(m) \cup (IF late THEN timeline ELSE {})) \cap Reportable(m)

(* An instance that is reset and not selected is never loaded again: it is   *)
(* forgotten when the job ends.  Ids tell instances apart and nothing else,  *)
(* so they are numbered anew; an id that leads nowhere stays one.            *)
Kept(m) == {i \in Existing(m) : i \in Selected(m) \/ ~m.inst[i].reset}

Number(m, i) ==
    CASE i = None -> None
      [] i \in Kept(m) -> Cardinality({j \in Kept(m) : j <= i})
      [] OTHER -> Nowhere

Numbered(m, S) == {Number(m, i) : i \in S}

Save(m) ==
    model' = [m EXCEPT !.prev = Number(m, @), !.cur = Number(m, @), !.nxt = Number(m, @),
                       !.inst = [k \in Numbered(m, Kept(m)) |->
                                    m.inst[CHOOSE i \in Kept(m) : Number(m, i) = k]],
                       !.loaded = {}]

SaveAndUpdateTimeline(m) ==
    /\ Save(m)
    /\ \E late \in BOOLEAN : timeline' = Numbered(m, GatewayHas(m, late))

SaveOnly(m) ==
    /\ Save(m)
    /\ timeline' = Numbered(m, timeline \cap Reportable(m))

RundownUnchanged == UNCHANGED show

-----------------------------------------------------------------------------
Init ==
    /\ model = Fresh
    /\ show \in Shows
    /\ timeline = {}

Active == model.mode # "inactive"

HoldAllowsNext == model.hold \in {"none", "complete"}

(* handlePrepareRundownPlaylistForBroadcast.  That no other playlist of the  *)
(* studio is active is a check that may refuse the job.                      *)
Prepare ==
    LET m == Load(model)
    IN  /\ ~Active /\ SaveAndUpdateTimeline(ActivateRundownPlaylist(ResetRundownPlaylist(m), "rehearsal"))
        /\ RundownUnchanged

(* handleResetRundownPlaylist: mode is the one to activate in, if any.       *)
Reset(mode) ==
    LET m     == Load(model)
        reset == ResetRundownPlaylist(m)
    IN  /\ model.mode # "on air" \/ AllowResetOnAir
        /\ IF mode # "inactive"
           THEN SaveAndUpdateTimeline(ActivateRundownPlaylist(reset, mode))
           ELSE IF Active THEN SaveAndUpdateTimeline(reset)
           ELSE SaveOnly(reset)
        /\ RundownUnchanged

(* handleActivateRundownPlaylist, also to go from rehearsal to on air.       *)
Activate(mode) ==
    /\ SaveAndUpdateTimeline(ActivateRundownPlaylist(Load(model), mode))
    /\ RundownUnchanged

(* handleDeactivateRundownPlaylist.                                          *)
Deactivate ==
    /\ SaveAndUpdateTimeline(DeactivateRundownPlaylist(Load(model)))
    /\ RundownUnchanged

(* The guards of handleTakeNextPart.  A take from a user who saw another     *)
(* instance on air is refused.                                               *)
MayTake ==
    /\ Active
    /\ model.nxt # None \/ model.hold = "active"

(* A take during an active hold completes the hold, and moves nothing.       *)
TakeCompletesHold ==
    /\ MayTake
    /\ model.hold = "active"
    /\ Found(model, model.cur) # None \/ Found(model, model.nxt) # None
    /\ SaveAndUpdateTimeline([Load(model) EXCEPT !.hold = "complete"])
    /\ RundownUnchanged

(* attached: whether a playout gateway is; without one the take reports the  *)
(* start of the Part itself.                                                 *)
Take(attached) ==
    LET after == PerformTake(Load(model))
    IN  /\ MayTake
        /\ model.hold # "active"
        /\ Found(model, model.nxt) # None
        /\ model.hold = "pending" => Found(model, model.cur) # None
        /\ SaveAndUpdateTimeline(IF attached THEN after ELSE SetStarted(after))
        /\ RundownUnchanged

(* The blueprint's onTake aborts: a completed hold has already been cleared. *)
TakeAborted ==
    /\ MayTake
    /\ model.hold # "active"
    /\ Found(model, model.nxt) # None
    /\ SaveAndUpdateTimeline([Load(model) EXCEPT !.hold = IF @ = "complete" THEN "none" ELSE @])
    /\ RundownUnchanged

(* handleOnPlayoutPlaybackChanged: a gateway reports that an instance has    *)
(* started.  Only the first report counts.                                   *)
PlaybackStarted(i) ==
    LET m == Load(model)
    IN  /\ i \in timeline \cap m.loaded
        /\ \/ i = m.cur /\ ~m.started /\ SaveAndUpdateTimeline(SetStarted(m))
           \/ i = m.nxt /\ SaveAndUpdateTimeline(PerformAutonext(m))
        /\ RundownUnchanged

-----------------------------------------------------------------------------
(* doesPartConsumeQueuedSegmentId.                                           *)
ConsumesQueue(m, p) ==
    /\ Found(m, m.cur) # None
    /\ SegmentAt(m, m.cur) # SegmentOf[p]
    /\ m.queued = SegmentOf[p]

(* setNextPartFromPart.                                                      *)
SetNextPartFromPart(m, p, manual) ==
    SetNextPart(m, Choice(p, ConsumesQueue(m, p)), manual)

PartsIn(list) == {list[k] : k \in DOMAIN list}

(* handleSetNextPart; also handleMoveNextPart, which only picks the Part.    *)
SetNext(p, manual) ==
    /\ Active /\ HoldAllowsNext
    /\ p \in PartsIn(show.parts) \cap show.playable
    /\ SaveAndUpdateTimeline(SetNextPartFromPart(Load(model), p, manual))
    /\ RundownUnchanged

FirstPlayableOf(s) ==
    FirstPlayable(show.parts, show.playable, 1, Len(show.parts), {p \in Part : SegmentOf[p] = s})

(* setNextSegment: it throws away the queued segment.                        *)
NextSegment(m, s) ==
    SetNextPart([m EXCEPT !.queued = None], Choice(FirstPlayableOf(s), FALSE), TRUE)

(* handleSetNextSegment.                                                     *)
SetNextSegment(s) ==
    /\ Active /\ HoldAllowsNext
    /\ FirstPlayableOf(s) # None
    /\ SaveAndUpdateTimeline(NextSegment(Load(model), s))
    /\ RundownUnchanged

(* handleQueueNextSegment.  When the segment is left by the next take anyway *)
(* (or nothing is on air), the segment is made next; else it is queued.      *)
QueueNextSegment(s) ==
    LET m     == Load(model)
        stays == /\ Found(m, m.cur) # None /\ Found(m, m.nxt) # None
                 /\ SegmentAt(m, m.cur) = SegmentAt(m, m.nxt)
    IN  /\ Active /\ HoldAllowsNext
        /\ FirstPlayableOf(s) # None
        /\ SaveAndUpdateTimeline(IF stays THEN [m EXCEPT !.queued = s] ELSE NextSegment(m, s))
        /\ RundownUnchanged

ClearQueue ==
    /\ Active /\ HoldAllowsNext
    /\ SaveAndUpdateTimeline([Load(model) EXCEPT !.queued = None])
    /\ RundownUnchanged

(* handleActivateHold and handleDeactivateHold.                              *)
Compatible(m, i, j) ==
    /\ PartOf(m, i) \in HoldFrom /\ PartOf(m, j) \in HoldTo
    /\ SegmentAt(m, i) = SegmentAt(m, j)

ActivateHold ==
    /\ Active /\ model.hold = "none"
    /\ Found(model, model.cur) # None /\ Found(model, model.nxt) # None
    /\ Compatible(model, model.cur, model.nxt)
    /\ SaveAndUpdateTimeline([Load(model) EXCEPT !.hold = "pending"])
    /\ RundownUnchanged

DeactivateHold ==
    /\ Active /\ model.hold = "pending"
    /\ SaveAndUpdateTimeline([Load(model) EXCEPT !.hold = "none"])
    /\ RundownUnchanged

-----------------------------------------------------------------------------
(* updatePartInstancesBasicProperties and ...OrphanedState: an instance of a *)
(* Part that is gone is marked, if it is on air or next, and is else reset;  *)
(* an instance of a Part that is back is as it was.                          *)
WithOrphans(m, new) ==
    [m EXCEPT !.inst = [i \in Existing(m) |->
        LET r == m.inst[i]
        IN  IF r.reset THEN r
            ELSE IF r.part \in PartsIn(new.parts) THEN [r EXCEPT !.deleted = FALSE]
            ELSE IF i \in {m.cur, m.nxt} THEN [r EXCEPT !.deleted = TRUE]
            ELSE IF r.deleted THEN r
            ELSE [r EXCEPT !.reset = TRUE]]]

(* syncChangesToPartInstances, for the blueprints that have it.              *)
WithSynced(m, new) ==
    [m EXCEPT !.inst = [i \in Existing(m) |->
        IF i \in {m.cur, m.nxt} /\ m.mode # "inactive" /\ PartOf(m, i) \in PartsIn(new.parts)
        THEN [m.inst[i] EXCEPT !.playable = PartOf(m, i) \in new.playable]
        ELSE m.inst[i]]]

(* The nexted instance stands in for its Part in the search.                 *)
PlayableWith(m, new) ==
    IF Found(m, m.nxt) = None THEN new.playable
    ELSE IF m.inst[m.nxt].playable THEN new.playable \cup {PartOf(m, m.nxt)}
    ELSE new.playable \ {PartOf(m, m.nxt)}

(* Fault: the user's choice stays when its Part is gone.                     *)
ManualNextStays(m) == m.manual /\ Found(m, m.nxt) # None

FollowingCurrent(m, new) ==
    SelectNextPart(new.parts, PlayableWith(m, new),
                   IF Found(m, m.cur) = None THEN None ELSE PartOf(m, m.cur),
                   m.queued, new.loop)

ManualNextIsValid(m) ==
    /\ m.manual /\ Found(m, m.nxt) # None
    /\ m.inst[m.nxt].playable /\ ~m.inst[m.nxt].deleted

(* isTooCloseToAutonext may say so of a current Part with an autonext.       *)
LeftForAutonext(m, close) ==
    /\ close /\ Found(m, m.nxt) # None
    /\ Found(m, m.cur) # None /\ PartOf(m, m.cur) \in AutoNext

(* ensureNextPartIsValid: nothing is done about a next instance that exists  *)
(* while nothing is on air, unless its Part is gone.                         *)
NextIsInvalid(m, choice) ==
    \/ Found(m, m.nxt) = None /\ (choice.part # None \/ m.nxt # None)
    \/ Found(m, m.nxt) # None /\ m.inst[m.nxt].deleted
    \/ /\ Found(m, m.nxt) # None /\ Found(m, m.cur) # None
       /\ \/ choice.part = None
          \/ choice.part # PartOf(m, m.nxt)
          \/ ~m.inst[m.nxt].playable

EnsureNextPartIsValid(m, new, close) ==
    LET choice == FollowingCurrent(m, new)
    IN  IF /\ m.mode # "inactive"
           /\ ~ManualNextIsValid(m) /\ ~LeftForAutonext(m, close)
           /\ NextIsInvalid(m, choice)
        THEN SetNextPart(m, choice, FALSE)
        ELSE m

(* CommitIngestOperation: the playlist has other Parts now, other ones are   *)
(* playable, or the blueprint has it loop or not any more.  The timeline is  *)
(* updated by a job of its own.                                              *)
Ingest(new, synced, close) ==
    LET orphan == WithOrphans(model, new)
        m      == Load(IF synced THEN WithSynced(orphan, new) ELSE orphan)
    IN  /\ show' = new
        /\ SaveOnly(EnsureNextPartIsValid(m, new, close))

(* handleUpdateTimelineAfterIngest, in a studio with one gateway: it is      *)
(* skipped while the start of the current instance is yet to be reported.    *)
UpdateTimelineAfterIngest ==
    /\ Active /\ {model.cur, model.nxt} # {None}
    /\ Found(model, model.cur) # None => model.started
    /\ SaveAndUpdateTimeline(Load(model))
    /\ RundownUnchanged

Next ==
    \/ Prepare \/ Deactivate \/ ClearQueue \/ ActivateHold \/ DeactivateHold
    \/ UpdateTimelineAfterIngest
    \/ \E mode \in Modes : Reset(mode)
    \/ \E mode \in Modes \ {"inactive"} : Activate(mode)
    \/ TakeCompletesHold \/ TakeAborted
    \/ \E attached \in BOOLEAN : Take(attached)
    \/ \E i \in timeline : PlaybackStarted(i)
    \/ \E p \in Part, manual \in BOOLEAN : SetNext(p, manual)
    \/ \E s \in Segment : SetNextSegment(s) \/ QueueNextSegment(s)
    \/ \E new \in Shows, synced, close \in BOOLEAN : Ingest(new, synced, close)

Spec == Init /\ [][Next]_vars

-----------------------------------------------------------------------------
TypeOK ==
    /\ model.mode \in Modes /\ model.hold \in HoldStates
    /\ Selected(model) \subseteq Nat
    /\ model.manual \in BOOLEAN /\ model.consumes \in BOOLEAN
    /\ model.queued \in Segment \cup {None}
    /\ Existing(model) \subseteq Nat
    /\ \A i \in Existing(model) : model.inst[i] \in PartInstanceRecord
    /\ show \in Shows
    /\ timeline \subseteq Reportable(model)
    /\ model.started \in BOOLEAN

(* What is selected is there: the instances on air, next and before are      *)
(* three different ones, none has been removed by a cleanup, and what is on  *)
(* air or next is not marked as reset (a reset instance is not loaded again  *)
(* once it is not selected, and the history of the show leaves it out).  A   *)
(* hold has something on air, and of a show that is off nothing is left:     *)
(* neither playhead nor hold nor queued segment.                             *)
PlayheadIsIntact ==
    /\ Selected(model) \subseteq Existing(model)
    /\ \A i \in {model.cur, model.nxt} \ {None} : ~model.inst[i].reset
    /\ model.cur # None => model.cur # model.nxt /\ model.cur # model.prev
    /\ model.nxt # None => model.nxt # model.prev
    /\ model.hold # "none" => model.cur # None
    /\ ~Active => Selected(model) = {} /\ model.hold = "none" /\ model.queued = None

(* What was taken is told from what was only next: what is on air and what   *)
(* was before it has been taken, the next one has not, and of the instances  *)
(* that are no longer selected only those stay that were on air.             *)
TakenIsWhatWasOnAir ==
    /\ \A i \in Existing(model) \ {model.nxt} : model.inst[i].taken
    /\ model.nxt # None => ~model.inst[model.nxt].taken

(* When the Parts change under a show on air, what is next afterwards can be *)
(* played, and it is the user's choice or what follows the current Part now; *)
(* nothing is next only if nothing follows.  A current Part with an autonext *)
(* is left out: close to its end the next Part is left as it is.  So is the  *)
(* jump to the queued segment: it is decided while the old next instance,    *)
(* that was not synced, still counts as what would follow.                   *)
IngestLeavesTheRightNext ==
    [][/\ show' # show /\ Active /\ model.cur # None
       /\ PartOf(model, model.cur) \notin AutoNext
       => LET i == model'.nxt
          IN  /\ i = None \/ ~(model'.manual \/ model'.consumes) =>
                    FollowingCurrent(model', show').part =
                        (IF i = None THEN None ELSE PartOf(model', i))
              /\ i # None => model'.inst[i].playable /\ ~model'.inst[i].deleted]_vars

(* RundownPlaylist.ts:128, of a next instance that was selected because of   *)
(* the queued segment: "This will cause it to clear that property as part of *)
(* the take operation", whether the take is the user's or an autonext.       *)
TakeOfTheQueueClearsIt ==
    [][\A i \in timeline :
          PlaybackStarted(i) /\ i = model.nxt /\ model.consumes
              => model'.queued # SegmentAt(model, model.nxt)]_vars
-----------------------------------------------------------------------------
(* The Part of a selected instance.                                          *)
PartAt(m, i) == IF Found(m, i) = None THEN None ELSE PartOf(m, i)

Promise == INSTANCE Playhead WITH
    mode     <- model.mode,
    previous <- PartAt(model, model.prev),
    current  <- PartAt(model, model.cur),
    next     <- PartAt(model, model.nxt),
    hold     <- model.hold

(* The jobs, in any order, move the playhead as Playhead says: whatever a    *)
(* job cleans up, numbers anew or finds changed by ingest, a Part comes on   *)
(* air only by having been next, what was on air is what was before it then, *)
(* and a hold goes through its states in order.                              *)
ImplementsPlayhead == Promise!PlayheadSpec
=============================================================================
