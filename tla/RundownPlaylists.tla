-------------------------- MODULE RundownPlaylists --------------------------
(***************************************************************************)
(* Which rundown is in which playlist of a studio.  The ingest thread      *)
(* creates, updates and removes rundowns as the newsroom says; the studio  *)
(* thread activates playlists, plays them, and does what the user asks:    *)
(* rundowns are moved, playlists removed.  Each thread runs one job at a   *)
(* time.  A job owns a rundown or a playlist while it has its lock, and    *)
(* takes the locks of several, one after the other, so what it has read    *)
(* under the first may have changed when it gets the second; and it may    *)
(* fail after each of its writes to the database.                          *)
(***************************************************************************)
EXTENDS Naturals, FiniteSets

CONSTANTS Rundown,    \* ids of rundowns
          Playlist,   \* ids of playlists
          External,   \* those of them that the newsroom knows (hashed external ids)
          Tmp,        \* the id '__TMP__', which belongs to no playlist
          None,       \* null or undefined
          MaxFaults   \* bound on failing jobs and crashing threads

Thread == {"studio", "ingest"}
PlaylistId == Playlist \cup {Tmp}
Resource == Rundown \cup PlaylistId

RundownDoc == [playlist : PlaylistId, setInSofie : BOOLEAN, orphaned : BOOLEAN]
PlaylistDoc == [active : BOOLEAN, current : Rundown \cup {None}, next : Rundown \cup {None},
                listed : SUBSET Rundown]

PlayoutOp == {"activate", "forceActivate", "deactivate", "take", "setNext"}
Op == PlayoutOp \cup {"none", "update", "remove", "move", "removePlaylist", "removeEmpty"}
Step == {"idle", "free", "regenerate", "adopt", "save", "playout", "discard",
         "into", "order", "insert", "assign", "force", "write", "find", "cleanup"}
Job == [op : Op, at : Step,
        r : Rundown \cup {None}, p : PlaylistId \cup {None},   \* what the job is about
        from : PlaylistId \cup {None}, user : BOOLEAN,         \* playlistId and playlistIdIsSetInSofie
                                                               \* of the rundown when it was read
        list : PlaylistDoc \cup {None},                        \* its copy of the playlist
        todo : SUBSET Resource]

ASSUME RundownsAssumption ==
  /\ External \subseteq Playlist /\ Tmp \notin Playlist
  /\ Rundown \cap PlaylistId = {}
  /\ None \notin Rundown \cup PlaylistId \cup Thread \cup RundownDoc \cup PlaylistDoc
  /\ MaxFaults \in Nat

VARIABLES rundown,    \* the Rundowns collection
          playlist,   \* the RundownPlaylists collection
          stale,      \* a rundown does not show what the newsroom last sent
          lock,       \* who has the lock of each rundown and playlist
          job,        \* the job of each thread
          faults,     \* counts the failures
          abandoned   \* history: rundowns that a job has left behind half-moved

vars == <<rundown, playlist, stale, lock, job, faults, abandoned>>

NoJob == [op |-> "none", at |-> "idle", r |-> None, p |-> None,
          from |-> None, user |-> FALSE, list |-> None, todo |-> {}]

Init == /\ rundown = [r \in Rundown |-> None]
        /\ playlist = [p \in Playlist |-> None]
        /\ stale = {}
        /\ lock = [x \in Resource |-> None]
        /\ job = [t \in Thread |-> NoJob]
        /\ faults = 0
        /\ abandoned = {}

-----------------------------------------------------------------------------
(* Reading the database, and locks. *)

RundownsIn(p) == {r \in Rundown : rundown[r] # None /\ rundown[r].playlist = p}
IsActive(p) == playlist[p] # None /\ playlist[p].active
OthersActive(p) == {q \in Playlist \ {p} : IsActive(q)}
ReadPlaylist(p) == IF p = Tmp THEN None ELSE playlist[p]

Held(t) == {x \in Resource : lock[x] = t}
Give(t, S) == lock' = [x \in Resource |-> IF x \in S /\ lock[x] = t THEN None ELSE lock[x]]

\* Fault: what is only next may go.
AllowMoveOfNext(pl, r) ==
  ~pl.active \/ (Cardinality(pl.listed) # 1 /\ pl.current # r)
\* allowedToMoveRundownOutOfPlaylist()
MayLeave(pl, r) ==
  ~pl.active \/ (Cardinality(pl.listed) # 1 /\ pl.current # r /\ pl.next # r)

\* Fault: the playlist is made anew each time, without what playout keeps in it.
ProducedAnew(old, rds) == [active |-> FALSE, listed |-> rds]
\* produceRundownPlaylistInfoFromRundown(): a playlist that did not exist is empty and off.
Produced(old, rds) ==
  IF old = None THEN [active |-> FALSE, current |-> None, next |-> None, listed |-> rds]
  ELSE [old EXCEPT !.listed = rds]

\* What ensureNextPartIsValid() may leave: the Part that is next is of a rundown of the playlist.
WithValidNext(pl, rds) ==
  IF pl.active THEN {[pl EXCEPT !.next = n] : n \in rds \cup {None}} ELSE {pl}

Homeless(r) == rundown[r] # None /\ ReadPlaylist(rundown[r].playlist) = None

\* The rundowns that job t leaves in no playlist if it ends here.
LeftBehind(t) ==
  {r \in Rundown : /\ Homeless(r)
                   /\ \/ r = job[t].r
                      \/ job[t].op = "removePlaylist" /\ rundown[r].playlist = job[t].p}

Ends(t) == job' = [job EXCEPT ![t] = NoJob]
GoesTo(t, step) == job' = [job EXCEPT ![t].at = step]

\* A job throws: its locks are released, what it has written stays.
Throws(t) ==
  /\ Ends(t)
  /\ Give(t, Held(t))
  /\ abandoned' = abandoned \cup LeftBehind(t)
  /\ UNCHANGED <<rundown, playlist, stale>>

-----------------------------------------------------------------------------
(* The ingest thread: runIngestJob() and CommitIngestOperation().            *)

\* Fault: the choice of the user is not asked for.
TargetOfNewsroom(doc, p) == p
\* targetPlaylistId of the commit
Target(doc, p) == IF doc # None /\ doc.setInSofie THEN doc.playlist ELSE p

\* The rundown lock is taken, the ingest data are changed and saved, whatever comes of the rest.
\* Waiting for the first lock is the same as not having begun.
IngestLoads(r, t) ==
  /\ job["ingest"] = NoJob
  /\ lock[r] = None
  /\ lock' = [lock EXCEPT ![r] = t]
  /\ UNCHANGED <<rundown, playlist, faults, abandoned>>

\* canRundownBeUpdated()
Synced(r) == ~rundown[r].orphaned

\* An update with data for playlist p; only a create action may create a rundown or sync it again.
Update(r, p) ==
  LET d == rundown[r]
      target == Target(d, p)
      moves == IF d = None THEN FALSE ELSE d.playlist # target
  IN /\ IngestLoads(r, "ingest")
     /\ stale' = stale \cup {r}
     /\ job' = [job EXCEPT !["ingest"] =
          [NoJob EXCEPT !.op = "update", !.at = IF moves THEN "free" ELSE "adopt",
                        !.r = r, !.p = target,
                        !.from = IF moves THEN d.playlist ELSE None,
                        !.user = IF d = None THEN FALSE ELSE d.setInSofie]]

\* handleRemovedRundown(): forced, or the rundown is synced.
Remove(r) ==
  /\ rundown[r] # None
  /\ IngestLoads(r, "ingest")
  /\ stale' = stale \cup {r}
  /\ job' = [job EXCEPT !["ingest"] =
       [NoJob EXCEPT !.op = "remove", !.at = "free", !.r = r,
                     !.from = rundown[r].playlist, !.user = rundown[r].setInSofie]]

\* The data for a rundown that is not synced are kept, and that is all.
Refuse(r) ==
  /\ rundown[r] # None /\ ~Synced(r)
  /\ IngestLoads(r, None)
  /\ stale' = stale \cup {r}
  /\ UNCHANGED job

\* handleUserUnsyncRundown(): in one piece, under the lock of the rundown.
Unsync(r) ==
  /\ job["ingest"] = NoJob
  /\ lock[r] = None
  /\ rundown[r] # None /\ Synced(r)
  /\ rundown' = [rundown EXCEPT ![r].orphaned = TRUE]
  /\ UNCHANGED <<playlist, stale, lock, job, faults, abandoned>>

(* Both threads: the rundown is freed from its old playlist, the lock of     *)
(* which is held until the playlist has been written without it              *)
(* (removeRundownFromPlaylistAndUpdatePlaylist).                             *)

AfterLeaving(t) == CASE job[t].op = "update" -> "adopt"
                     [] job[t].op = "remove" -> "discard"
                     [] job[t].op = "move" -> IF job[t].p = None THEN "insert" ELSE "into"

LeaveOldPlaylist(t) ==
  LET j == job[t]
      old == j.from
      pl == ReadPlaylist(old)
      trapped == IF pl = None THEN FALSE ELSE ~MayLeave(pl, j.r)
  IN /\ j.at = "free"
     /\ lock[old] = None
     /\ \/ /\ ~trapped /\ (pl # None \/ t = "ingest")
           /\ rundown' = [rundown EXCEPT ![j.r].playlist = Tmp]
           /\ IF pl = None
              THEN GoesTo(t, AfterLeaving(t)) /\ UNCHANGED lock
              ELSE /\ lock' = [lock EXCEPT ![old] = t]
                   /\ job' = [job EXCEPT ![t] = [@ EXCEPT !.at = "regenerate", !.list = pl]]
           /\ UNCHANGED <<playlist, stale, abandoned>>
        \* setRundownAsTrappedInPlaylist(): it stays, and is orphaned if it was to be removed
        \/ /\ trapped /\ t = "ingest" /\ ~j.user
           /\ job' = [job EXCEPT ![t] = [@ EXCEPT !.at = "adopt", !.p = old]]
           /\ UNCHANGED <<rundown, playlist, stale, lock, abandoned>>
        \* a move is refused; setRundownPlaylistId() throws when the user has set it
        \/ /\ \/ t = "ingest" /\ trapped /\ j.user
              \/ t = "studio" /\ (trapped \/ pl = None)
           /\ Throws(t)
     /\ UNCHANGED faults

\* regeneratePlaylistAndRundownOrder(): an empty playlist is removed.
Regenerated(pl, rds) == IF rds = {} THEN {None} ELSE WithValidNext(Produced(pl, rds), rds)

RegenerateOldPlaylist(t) ==
  LET j == job[t] IN
  /\ j.at = "regenerate"
  /\ \E new \in Regenerated(j.list, RundownsIn(j.from)) :
       playlist' = [playlist EXCEPT ![j.from] = new]
  /\ Give(t, {j.from})
  /\ job' = [job EXCEPT ![t] = [@ EXCEPT !.at = AfterLeaving(t), !.from = None, !.list = None]]
  /\ UNCHANGED <<rundown, stale, faults, abandoned>>

\* removeRundownFromDb(), at the end of a removal.
Discard ==
  LET j == job["ingest"] IN
  /\ j.at = "discard"
  /\ rundown' = [rundown EXCEPT ![j.r] = None]
  /\ stale' = stale \ {j.r}
  /\ abandoned' = abandoned \ {j.r}
  /\ Give("ingest", {j.r})
  /\ Ends("ingest")
  /\ UNCHANGED <<playlist, faults>>

\* The new playlist is written with the rundown in it, before the rundown itself.
Adopt ==
  LET j == job["ingest"]
      pl == ReadPlaylist(j.p)
      new == Produced(pl, (RundownsIn(j.p) \ {j.r}) \cup {j.r})
  IN /\ j.at = "adopt"
     /\ lock[j.p] = None
     /\ IF j.user      \* setRundownPlaylistId() throws
        THEN Throws("ingest")
        ELSE /\ lock' = [lock EXCEPT ![j.p] = "ingest"]
             /\ playlist' = [playlist EXCEPT ![j.p] = new]
             /\ job' = [job EXCEPT !["ingest"] = [@ EXCEPT !.at = "save", !.list = new]]
             /\ UNCHANGED <<rundown, stale, abandoned>>
     /\ UNCHANGED faults

\* Fault: only a new playlist counts as a change of the rundown.
SaveRundownIfMoved ==
  LET j == job["ingest"] IN
  /\ j.at = "save"
  /\ IF rundown[j.r] # None /\ j.from = None
     THEN UNCHANGED <<rundown, stale, abandoned>>
     ELSE /\ rundown' = [rundown EXCEPT ![j.r] =
              [playlist |-> j.p, setInSofie |-> FALSE, orphaned |-> j.op = "remove"]]
          /\ stale' = stale \ {j.r}
          /\ abandoned' = abandoned \ {j.r}
  /\ GoesTo("ingest", "playout")
  /\ UNCHANGED <<playlist, lock, faults>>

\* saveAllToDatabase() of the ingest model.
SaveRundown ==
  LET j == job["ingest"] IN
  /\ j.at = "save"
  /\ rundown' = [rundown EXCEPT ![j.r] =
       [playlist |-> j.p, setInSofie |-> FALSE, orphaned |-> j.op = "remove"]]
  /\ stale' = stale \ {j.r}
  /\ abandoned' = abandoned \ {j.r}
  /\ GoesTo("ingest", "playout")
  /\ UNCHANGED <<playlist, lock, faults>>

\* ensureNextPartIsValid(), and the save of the playout model if it has changed.
SavePlayout ==
  LET j == job["ingest"] IN
  /\ j.at = "playout"
  /\ \E new \in WithValidNext(j.list, j.list.listed) :
       IF new = j.list THEN UNCHANGED playlist
       ELSE playlist' = [playlist EXCEPT ![j.p] = new]
  /\ Give("ingest", {j.p, j.r})
  /\ Ends("ingest")
  /\ UNCHANGED <<rundown, stale, faults, abandoned>>

-----------------------------------------------------------------------------
(* The studio thread: moves and removals.                                    *)

\* A random id.
IsFresh(p) == /\ p \notin External /\ playlist[p] = None
              /\ RundownsIn(p) = {}
              /\ \A t \in Thread : job[t].p # p

\* handleMoveRundownIntoPlaylist(): the lock of the rundown is held to the end.
Move(r, p) ==
  LET d == rundown[r] IN
  /\ job["studio"] = NoJob
  /\ IF p = None THEN \E q \in Playlist : IsFresh(q) ELSE playlist[p] # None
  /\ d # None /\ lock[r] = None
  /\ lock' = [lock EXCEPT ![r] = "studio"]
  /\ job' = [job EXCEPT !["studio"] =
       [NoJob EXCEPT !.op = "move", !.at = IF p = d.playlist THEN "into" ELSE "free",
                     !.r = r, !.p = p, !.from = d.playlist]]
  /\ UNCHANGED <<rundown, playlist, stale, faults, abandoned>>

\* Into another playlist: it may have gone since the job began.
MoveInto ==
  LET j == job["studio"]
      pl == ReadPlaylist(j.p)
  IN /\ j.at = "into"
     /\ lock[j.p] = None
     /\ IF pl = None
        THEN Throws("studio")
        ELSE /\ lock' = [lock EXCEPT ![j.p] = "studio"]
             /\ rundown' = IF j.from = j.p THEN rundown
                           ELSE [rundown EXCEPT ![j.r].playlist = j.p, ![j.r].setInSofie = TRUE]
             /\ abandoned' = abandoned \ {j.r}
             /\ job' = [job EXCEPT !["studio"] = [@ EXCEPT !.at = "order", !.list = pl]]
             /\ UNCHANGED <<playlist, stale>>
     /\ UNCHANGED faults

MoveOrders ==
  LET j == job["studio"] IN
  /\ j.at = "order"
  /\ \E new \in Regenerated(j.list, RundownsIn(j.p)) : playlist' = [playlist EXCEPT ![j.p] = new]
  /\ Give("studio", {j.p, j.r})
  /\ Ends("studio")
  /\ UNCHANGED <<rundown, stale, faults, abandoned>>

\* Into a new playlist, which nobody else knows yet: no lock is taken.
MoveInserts ==
  LET j == job["studio"] IN
  /\ j.at = "insert"
  /\ \E p \in Playlist :
       /\ IsFresh(p)
       /\ playlist' = [playlist EXCEPT ![p] = Produced(None, {j.r})]
       /\ job' = [job EXCEPT !["studio"] = [@ EXCEPT !.at = "assign", !.p = p]]
  /\ UNCHANGED <<rundown, stale, lock, faults, abandoned>>

MoveAssigns ==
  LET j == job["studio"] IN
  /\ j.at = "assign"
  /\ rundown' = [rundown EXCEPT ![j.r].playlist = j.p, ![j.r].setInSofie = TRUE]
  /\ abandoned' = abandoned \ {j.r}
  /\ Give("studio", {j.r})
  /\ Ends("studio")
  /\ UNCHANGED <<playlist, stale, faults>>

\* Fault: the rundowns are removed inside the lock of the playlist.
RemovePlaylistLocked(p) ==
  /\ job["studio"] = NoJob
  /\ lock[p] = None /\ playlist[p] # None
  /\ lock' = [lock EXCEPT ![p] = "studio"]
  /\ playlist' = [playlist EXCEPT ![p] = None]
  /\ job' = [job EXCEPT !["studio"] =
       [NoJob EXCEPT !.op = "removePlaylist", !.at = "find", !.p = p]]
  /\ UNCHANGED <<rundown, stale, faults, abandoned>>

\* handleRemoveRundownPlaylist(): the lock is released before the rundowns are removed.
RemovePlaylist(p) ==
  /\ job["studio"] = NoJob
  /\ lock[p] = None /\ playlist[p] # None
  /\ playlist' = [playlist EXCEPT ![p] = None]
  /\ job' = [job EXCEPT !["studio"] =
       [NoJob EXCEPT !.op = "removePlaylist", !.at = "find", !.p = p]]
  /\ UNCHANGED <<rundown, stale, lock, faults, abandoned>>

FindRundowns ==
  /\ job["studio"].at = "find"
  /\ job' = [job EXCEPT !["studio"] = [@ EXCEPT !.at = "cleanup", !.todo = RundownsIn(job["studio"].p)]]
  /\ UNCHANGED <<rundown, playlist, stale, lock, faults, abandoned>>

\* cleanupRundownsForRemovedPlaylist(): each under its own lock, if it is still in there.
CleanupRundown ==
  LET j == job["studio"] IN
  /\ j.op = "removePlaylist" /\ j.at = "cleanup"
  /\ \E r \in j.todo :
       /\ lock[r] = None
       /\ job' = [job EXCEPT !["studio"].todo = @ \ {r}]
       /\ IF rundown[r] # None /\ rundown[r].playlist = j.p
          THEN /\ rundown' = [rundown EXCEPT ![r] = None]
               /\ stale' = stale \ {r}
               /\ abandoned' = abandoned \ {r}
          ELSE UNCHANGED <<rundown, stale, abandoned>>
  /\ UNCHANGED <<playlist, lock, faults>>

\* handleRemoveEmptyPlaylists(): those that are not active, each under its own lock.
RemoveEmptyPlaylists ==
  /\ job["studio"] = NoJob
  /\ job' = [job EXCEPT !["studio"] =
       [NoJob EXCEPT !.op = "removeEmpty", !.at = "cleanup",
                     !.todo = {p \in Playlist : playlist[p] # None /\ ~playlist[p].active}]]
  /\ UNCHANGED <<rundown, playlist, stale, lock, faults, abandoned>>

\* Fault: without the lock.
CleanupPlaylistUnlocked ==
  LET j == job["studio"] IN
  /\ j.op = "removeEmpty"
  /\ \E p \in j.todo :
       /\ job' = [job EXCEPT !["studio"].todo = @ \ {p}]
       /\ IF RundownsIn(p) = {} THEN playlist' = [playlist EXCEPT ![p] = None]
          ELSE UNCHANGED playlist
  /\ UNCHANGED <<rundown, stale, lock, faults, abandoned>>

CleanupPlaylist ==
  LET j == job["studio"] IN
  /\ j.op = "removeEmpty"
  /\ \E p \in j.todo :
       /\ lock[p] = None
       /\ job' = [job EXCEPT !["studio"].todo = @ \ {p}]
       /\ IF RundownsIn(p) = {} THEN playlist' = [playlist EXCEPT ![p] = None]
          ELSE UNCHANGED playlist
  /\ UNCHANGED <<rundown, stale, lock, faults, abandoned>>

CleanupEnds ==
  /\ job["studio"].at = "cleanup" /\ job["studio"].todo = {}
  /\ Ends("studio")
  /\ UNCHANGED <<rundown, playlist, stale, lock, faults, abandoned>>

-----------------------------------------------------------------------------
(* The studio thread: jobs that play a playlist, runJobWithPlayoutModel().   *)
(* What a job will write follows from what it has loaded.                    *)

Played(op, pl, rds) ==
  CASE op = "activate" ->
         IF pl.active /\ pl.current # None THEN {pl}
         ELSE {[pl EXCEPT !.active = TRUE, !.current = None, !.next = n] : n \in rds \cup {None}}
    [] op = "forceActivate" ->      \* it is reset first
         {[pl EXCEPT !.active = TRUE, !.current = None, !.next = n] : n \in rds \cup {None}}
    [] op = "deactivate" -> {[pl EXCEPT !.active = FALSE, !.current = None, !.next = None]}
    [] op = "take" -> {[pl EXCEPT !.current = pl.next, !.next = n] : n \in rds \cup {None}}
    [] op = "setNext" -> {[pl EXCEPT !.next = n] : n \in rds}

\* Fault: whether another playlist is active is left to the user interface.
RefusedUnchecked(op, p, pl) ==
  CASE op = "take" -> ~pl.active \/ pl.next = None
    [] op = "setNext" -> ~pl.active
    [] OTHER -> FALSE

Refused(op, p, pl) ==
  CASE op = "activate" -> OthersActive(p) # {}
    [] op = "take" -> ~pl.active \/ pl.next = None
    [] op = "setNext" -> ~pl.active
    [] OTHER -> FALSE

LoadPlaylist(p, o) ==
  /\ job["studio"] = NoJob
  /\ lock[p] = None /\ playlist[p] # None
  /\ ~Refused(o, p, playlist[p])
  /\ lock' = [lock EXCEPT ![p] = "studio"]
  /\ \E new \in Played(o, playlist[p], RundownsIn(p)) :
       job' = [job EXCEPT !["studio"] =
         [NoJob EXCEPT !.op = o, !.p = p, !.list = new,
                       !.at = IF o = "forceActivate" THEN "force" ELSE "write",
                       !.todo = IF o = "forceActivate" THEN OthersActive(p) ELSE {}]]
  /\ UNCHANGED <<rundown, playlist, stale, faults, abandoned>>

\* handleResetRundownPlaylist(): the others are deactivated, each under its own lock.
ForceDeactivate ==
  LET j == job["studio"] IN
  /\ j.at = "force"
  /\ \E q \in j.todo :
       /\ lock[q] = None
       /\ job' = [job EXCEPT !["studio"].todo = @ \ {q}]
       /\ IF playlist[q] = None THEN UNCHANGED playlist
          ELSE \E new \in Played("deactivate", playlist[q], {}) :
                 playlist' = [playlist EXCEPT ![q] = new]
  /\ UNCHANGED <<rundown, stale, lock, faults, abandoned>>

\* activateRundownPlaylist() looks again.
ForceActivate ==
  LET j == job["studio"] IN
  /\ j.at = "force" /\ j.todo = {}
  /\ IF OthersActive(j.p) # {}
     THEN Throws("studio")
     ELSE GoesTo("studio", "write") /\ UNCHANGED <<rundown, playlist, stale, lock, abandoned>>
  /\ UNCHANGED faults

WritePlaylist ==
  LET j == job["studio"] IN
  /\ j.at = "write"
  /\ playlist' = [playlist EXCEPT ![j.p] = j.list]
  /\ Give("studio", {j.p})
  /\ Ends("studio")
  /\ UNCHANGED <<rundown, stale, faults, abandoned>>

-----------------------------------------------------------------------------

\* A step of a job fails, or its thread crashes and is restarted.
JobFails(t) ==
  /\ job[t] # NoJob
  /\ faults < MaxFaults
  /\ faults' = faults + 1
  /\ Throws(t)

IngestStep == \/ LeaveOldPlaylist("ingest") \/ RegenerateOldPlaylist("ingest")
              \/ Discard \/ Adopt \/ SaveRundown \/ SavePlayout

StudioStep == \/ LeaveOldPlaylist("studio") \/ RegenerateOldPlaylist("studio")
              \/ MoveInto \/ MoveOrders \/ MoveInserts \/ MoveAssigns
              \/ FindRundowns \/ CleanupRundown \/ CleanupPlaylist \/ CleanupEnds
              \/ ForceDeactivate \/ ForceActivate \/ WritePlaylist

Next == \/ \E r \in Rundown : Remove(r) \/ Refuse(r) \/ Unsync(r)
        \/ \E r \in Rundown, p \in External : Update(r, p)
        \/ \E r \in Rundown, p \in Playlist \cup {None} : Move(r, p)
        \/ \E p \in Playlist : RemovePlaylist(p)
        \/ \E p \in Playlist, o \in PlayoutOp : LoadPlaylist(p, o)
        \/ RemoveEmptyPlaylists
        \/ IngestStep \/ StudioStep
        \/ \E t \in Thread : JobFails(t)

Spec == Init /\ [][Next]_vars

-----------------------------------------------------------------------------

TypeOK == /\ rundown \in [Rundown -> RundownDoc \cup {None}]
          /\ playlist \in [Playlist -> PlaylistDoc \cup {None}]
          /\ stale \subseteq Rundown
          /\ lock \in [Resource -> Thread \cup {None}]
          /\ job \in [Thread -> Job]
          /\ faults \in 0 .. MaxFaults
          /\ abandoned \subseteq Rundown

\* Only one playlist of a studio is active (checkNoOtherPlaylistsActive, activateRundownPlaylist),
\* although the check and the activation are under the lock of that playlist only.
OneActivePlaylist ==
  \A p, q \in Playlist : IsActive(p) /\ IsActive(q) => p = q

\* The rundowns of the Parts that are on air and next stay in their playlist, whatever the
\* newsroom and the users do with them meanwhile.
OnAirRundownsStay ==
  \A p \in Playlist : playlist[p] # None =>
    \A r \in {playlist[p].current, playlist[p].next} \ {None} :
      rundown[r] # None /\ rundown[r].playlist = p

\* What thread t waits for.
Wants(t) == LET j == job[t] IN
  CASE j.at = "free" -> {j.from}
    [] j.at \in {"adopt", "into"} -> {j.p}
    [] j.at \in {"force", "cleanup"} -> j.todo
    [] OTHER -> {}

\* The threads never wait for each other's locks: no job asks for the lock of a rundown while it
\* has the lock of a playlist.
NoCircularWait ==
  ~ /\ \E x \in Wants("studio") : lock[x] = "ingest"
    /\ \E x \in Wants("ingest") : lock[x] = "studio"

\* A rundown that no job is working on is in a playlist that exists, unless a job has failed when
\* it had taken the rundown out of one playlist and not yet put it into the other.
EveryRundownHasAPlaylist ==
  \A r \in Rundown : Homeless(r) =>
    \/ lock[r] # None
    \/ r \in abandoned
    \/ LET j == job["studio"] IN    \* it is about to be removed with its playlist
         /\ j.op = "removePlaylist" /\ rundown[r].playlist = j.p
         /\ j.at = "find" \/ (j.at = "cleanup" /\ r \in j.todo)

\* When nothing has failed, a rundown that does not show what the newsroom last sent is unsynced,
\* or it is in a playlist that the user has chosen.
StaleRundownsAreKnown ==
  \A r \in stale : lock[r] = None /\ faults = 0 /\ rundown[r] # None =>
    rundown[r].orphaned \/ rundown[r].setInSofie

\* Once the user has chosen a playlist for a rundown, only the user moves it; the newsroom may
\* only remove it.
UserChoiceIsKept ==
  [][\A r \in Rundown :
       /\ rundown[r] # None /\ rundown[r].setInSofie
       /\ rundown'[r] # None /\ rundown'[r].playlist # rundown[r].playlist
       => \/ job["studio"].op = "move" /\ job["studio"].r = r
          \/ job["ingest"].op = "remove" /\ job["ingest"].r = r]_vars

\* What an update of the newsroom says reaches the rundown, unless the rundown is unsynced
\* (the code refuses any update of a rundown that a user has moved: a violation).
UpdatesReachTheRundown ==
  \A r \in stale : lock[r] = None /\ faults = 0 /\ rundown[r] # None => rundown[r].orphaned
=============================================================================
