------------------------ MODULE RundownPlaylistsProofs ------------------------
(***************************************************************************)
(* Proofs about RundownPlaylists, for any number of rundowns and           *)
(* playlists.  The invariant IInv says what each job knows to be so at     *)
(* each of its steps.  Every action is first reduced to its effect, point  *)
(* by point (NextHasEffect), and each part of IInv is shown to be kept by  *)
(* any effect.                                                             *)
(***************************************************************************)
EXTENDS RundownPlaylists, TLAPS

InPlaylist(r, p) == rundown[r] # None /\ rundown[r].playlist = p

\* The copy of a playlist that a job works on is what the database has, under its lock.
HasCopy(t, p) ==
  /\ p \in Playlist /\ lock[p] = t
  /\ playlist[p] # None /\ playlist[p] = job[t].list

\* Where the jobs of the two threads can be, and what they have locked for themselves.
IngestShape ==
  LET j == job["ingest"] IN
  \/ j = NoJob
  \/ /\ j.op \in {"update", "remove"}
     /\ j.at \in {"free", "regenerate", "adopt", "save", "playout", "discard"}
     /\ j.r \in Rundown /\ lock[j.r] = "ingest"
     /\ j.at = "discard" => j.op = "remove"
     /\ j.at \in {"save", "playout"} => j.p \in Playlist
     /\ j.op = "update" \/ j.at = "adopt" => j.p \in PlaylistId /\ (j.user \/ j.p # Tmp)

StudioShape ==
  LET j == job["studio"] IN
  \/ j = NoJob
  \/ /\ j.op = "move"
     /\ j.at \in {"free", "regenerate", "into", "order", "insert", "assign"}
     /\ j.r \in Rundown /\ lock[j.r] = "studio"
     /\ j.at \in {"into", "order", "assign"} => j.p \in Playlist
     /\ j.p \in Playlist \cup {None}
  \/ /\ j.op = "removePlaylist" /\ j.at \in {"find", "cleanup"}
     /\ j.r = None /\ j.p \in Playlist /\ ~IsActive(j.p) /\ j.todo \subseteq Rundown
  \/ /\ j.op = "removeEmpty" /\ j.at = "cleanup" /\ j.r = None /\ j.todo \subseteq Playlist
  \/ /\ j.op \in PlayoutOp /\ j.at \in {"force", "write"}
     /\ j.r = None /\ j.p \in Playlist /\ lock[j.p] = "studio" /\ playlist[j.p] # None
     /\ j.list \in PlaylistDoc /\ j.todo \subseteq Playlist

\* A lock is held by the job that works on what it locks.
LocksMatch ==
  /\ \A x \in Resource : lock[x] = "ingest" =>
       LET j == job["ingest"] IN
       \/ x = j.r
       \/ j.at = "regenerate" /\ x = j.from
       \/ j.at \in {"save", "playout"} /\ x = j.p
  /\ \A x \in Resource : lock[x] = "studio" =>
       LET j == job["studio"] IN
       \/ x = j.r
       \/ j.at = "regenerate" /\ x = j.from
       \/ j.at \in {"order", "force", "write"} /\ x = j.p

Copies ==
  \A t \in Thread :
    /\ job[t].at = "regenerate" => HasCopy(t, job[t].from)
    /\ job[t].at \in {"save", "playout", "order"} => HasCopy(t, job[t].p)

\* Where the rundown of a job is.
Whereabouts ==
  \A t \in Thread : LET j == job[t] IN
    /\ j.at = "free" => InPlaylist(j.r, j.from)
    /\ j.at \in {"regenerate", "discard", "insert", "assign"} => InPlaylist(j.r, Tmp)
    /\ j.at \in {"adopt", "save"} => rundown[j.r] = None \/ rundown[j.r].playlist \in {Tmp, j.p}
    /\ j.at = "into" => InPlaylist(j.r, IF j.from = j.p THEN j.p ELSE Tmp)
    /\ j.at \in {"playout", "order"} => InPlaylist(j.r, j.p)

\* The rundowns in the ingest thread's copy of an active playlist are in it.
ListedArePresent ==
  LET j == job["ingest"] IN
  j.at \in {"save", "playout"} /\ j.list.active =>
    \A r \in j.list.listed : r = j.r \/ InPlaylist(r, j.p)

\* What a playout job is about to write is right.
WillWrite ==
  LET j == job["studio"] IN
  j.at \in {"force", "write"} =>
    /\ \A r \in {j.list.current, j.list.next} \ {None} : InPlaylist(r, j.p)
    /\ ~j.list.active => j.list.current = None /\ j.list.next = None
    /\ j.at = "write" /\ j.list.active => OthersActive(j.p) = {}

InactiveIsOff ==
  \A p \in Playlist : playlist[p] # None /\ ~playlist[p].active =>
    playlist[p].current = None /\ playlist[p].next = None

\* Nobody else knows of the playlist that was made for a moved rundown.
FreshStaysUnknown ==
  LET j == job["studio"]
      i == job["ingest"] IN
  j.at = "assign" =>
    /\ playlist[j.p] # None /\ RundownsIn(j.p) = {} /\ j.p \notin External
    /\ i.p # j.p /\ (i.at \in {"free", "regenerate"} => i.from # j.p)

\* What the ingest job knows of the choice of the user is still so.
UserIsKnown ==
  LET j == job["ingest"] IN
  /\ j.at \in {"free", "regenerate", "adopt"} /\ rundown[j.r] # None => j.user = rundown[j.r].setInSofie
  /\ j.at = "free" /\ j.op = "update" => ~j.user
  /\ j.at = "save" /\ rundown[j.r] # None => ~rundown[j.r].setInSofie
  /\ j.at = "playout" => j.r \notin stale

\* As StaleRundownsAreKnown, also while the studio thread has the rundown.
StaleAreKnown ==
  \A r \in stale : lock[r] # "ingest" /\ faults = 0 /\ rundown[r] # None =>
    rundown[r].orphaned \/ rundown[r].setInSofie

\* The parts of TypeOK.
JobsOK == job \in [Thread -> Job]
RundownsOK == rundown \in [Rundown -> RundownDoc \cup {None}]
PlaylistsOK == playlist \in [Playlist -> PlaylistDoc \cup {None}]
OthersOK == /\ stale \subseteq Rundown
            /\ lock \in [Resource -> Thread \cup {None}]
            /\ faults \in 0 .. MaxFaults
            /\ abandoned \subseteq Rundown

IInv == /\ JobsOK /\ RundownsOK /\ PlaylistsOK /\ OthersOK
        /\ IngestShape /\ StudioShape /\ LocksMatch /\ Copies /\ Whereabouts
        /\ ListedArePresent /\ WillWrite /\ InactiveIsOff /\ FreshStaysUnknown /\ UserIsKnown
        /\ OneActivePlaylist /\ OnAirRundownsStay /\ EveryRundownHasAPlaylist /\ StaleAreKnown

-----------------------------------------------------------------------------
(* Effects. *)

\* What an action does to one thread's job, to the locks and to the documents, point by point.
OthersStay(t) == \A u \in Thread : u # t => job'[u] = job[u]
JobIs(t, op, at, r, p, from, user) ==
  /\ OthersStay(t)
  /\ job'[t].op = op /\ job'[t].at = at /\ job'[t].r = r /\ job'[t].p = p
  /\ job'[t].from = from /\ job'[t].user = user
JobEnds(t) == OthersStay(t) /\ job'[t] = NoJob
JobGoes(t, at) ==
  LET j == job[t] IN
  JobIs(t, j.op, at, j.r, j.p, j.from, j.user) /\ job'[t].list = j.list /\ job'[t].todo = j.todo
Locks(t, x) == \A y \in Resource : lock'[y] = IF y = x THEN t ELSE lock[y]
Frees(t, S) == \A y \in Resource : lock'[y] = IF y \in S /\ lock[y] = t THEN None ELSE lock[y]
RundownIs(r, p, user) ==
  /\ rundown'[r] # None /\ rundown'[r].playlist = p /\ rundown'[r].setInSofie = user
  /\ \A x \in Rundown : x # r => rundown'[x] = rundown[x]
RundownGoes(r) == rundown'[r] = None /\ \A x \in Rundown : x # r => rundown'[x] = rundown[x]
PlaylistIs(p, new) == \A q \in Playlist : playlist'[q] = IF q = p THEN new ELSE playlist[q]

\* What playout or a new order may leave of a playlist.
Kept(old, new, rds) ==
  /\ new \in PlaylistDoc /\ new.listed = rds
  /\ old = None => ~new.active /\ new.current = None /\ new.next = None
  /\ old # None => /\ new.active = old.active /\ new.current = old.current
                   /\ new.next = old.next \/ (new.active /\ new.next \in rds \cup {None})

Thrown(t) ==
  /\ JobEnds(t) /\ Frees(t, Resource)
  /\ abandoned' = abandoned \cup LeftBehind(t)
  /\ UNCHANGED <<rundown, playlist, stale>>

UpdateEffect(r) ==
  /\ job["ingest"] = NoJob /\ lock[r] = None /\ Locks("ingest", r)
  /\ stale' = stale \cup {r}
  /\ \E target \in PlaylistId, from \in PlaylistId \cup {None}, user \in BOOLEAN, at \in {"free", "adopt"} :
       /\ JobIs("ingest", "update", at, r, target, from, user)
       /\ user => rundown[r] # None /\ rundown[r].setInSofie /\ target = rundown[r].playlist
       /\ ~user => target \in External /\ (rundown[r] # None => ~rundown[r].setInSofie)
       /\ rundown[r] # None => user = rundown[r].setInSofie
       /\ at = "free" => rundown[r] # None /\ rundown[r].playlist = from /\ ~user
       /\ at = "adopt" => rundown[r] = None \/ rundown[r].playlist = target
  /\ UNCHANGED <<rundown, playlist, faults, abandoned>>

RemoveEffect(r) ==
  /\ job["ingest"] = NoJob /\ lock[r] = None /\ Locks("ingest", r)
  /\ rundown[r] # None
  /\ stale' = stale \cup {r}
  /\ JobIs("ingest", "remove", "free", r, None, rundown[r].playlist, rundown[r].setInSofie)
  /\ UNCHANGED <<rundown, playlist, faults, abandoned>>

RefuseEffect(r) ==
  /\ lock[r] = None
  /\ rundown[r] # None /\ rundown[r].orphaned
  /\ stale' = stale \cup {r}
  /\ UNCHANGED <<rundown, playlist, lock, job, faults, abandoned>>

UnsyncEffect(r) ==
  /\ rundown[r] # None
  /\ RundownIs(r, rundown[r].playlist, rundown[r].setInSofie) /\ rundown'[r].orphaned
  /\ UNCHANGED <<playlist, stale, lock, job, faults, abandoned>>

MoveEffect(r, p) ==
  /\ job["studio"] = NoJob /\ rundown[r] # None /\ lock[r] = None /\ Locks("studio", r)
  /\ JobIs("studio", "move", IF p = rundown[r].playlist THEN "into" ELSE "free",
           r, p, rundown[r].playlist, FALSE)
  /\ UNCHANGED <<rundown, playlist, stale, faults, abandoned>>

RemovePlaylistEffect(p) ==
  /\ job["studio"] = NoJob /\ lock[p] = None /\ playlist[p] # None
  /\ PlaylistIs(p, None)
  /\ JobIs("studio", "removePlaylist", "find", None, p, None, FALSE) /\ job'["studio"].todo = {}
  /\ UNCHANGED <<rundown, stale, lock, faults, abandoned>>

RemoveEmptyEffect ==
  /\ job["studio"] = NoJob
  /\ JobIs("studio", "removeEmpty", "cleanup", None, None, None, FALSE)
  /\ job'["studio"].todo \subseteq Playlist
  /\ UNCHANGED <<rundown, playlist, stale, lock, faults, abandoned>>

LoadEffect(p, o) ==
  /\ job["studio"] = NoJob /\ lock[p] = None /\ playlist[p] # None /\ Locks("studio", p)
  /\ \E at \in {"force", "write"}, new \in PlaylistDoc :
       /\ JobIs("studio", o, at, None, p, None, FALSE)
       /\ job'["studio"].list = new /\ job'["studio"].todo \subseteq Playlist
       /\ \A r \in {new.current, new.next} \ {None} :
            r \in RundownsIn(p) \/ r \in {playlist[p].current, playlist[p].next}
       /\ ~new.active => new.current = None /\ new.next = None
       /\ at = "write" /\ new.active => playlist[p].active \/ OthersActive(p) = {}
  /\ UNCHANGED <<rundown, playlist, stale, faults, abandoned>>

LeaveEffect(t) ==
  LET j == job[t] IN
  /\ j.at = "free" /\ lock[j.from] = None
  /\ \/ /\ j.from \in Playlist /\ playlist[j.from] # None /\ MayLeave(playlist[j.from], j.r)
        /\ Locks(t, j.from) /\ RundownIs(j.r, Tmp, rundown[j.r].setInSofie)
        /\ rundown'[j.r].orphaned = rundown[j.r].orphaned
        /\ JobIs(t, j.op, "regenerate", j.r, j.p, j.from, j.user) /\ job'[t].list = playlist[j.from]
        /\ UNCHANGED <<playlist, stale, abandoned>>
     \/ /\ t = "ingest" /\ ReadPlaylist(j.from) = None
        /\ RundownIs(j.r, Tmp, rundown[j.r].setInSofie)
        /\ rundown'[j.r].orphaned = rundown[j.r].orphaned
        /\ JobIs(t, j.op, AfterLeaving(t), j.r, j.p, j.from, j.user)
        /\ UNCHANGED <<playlist, stale, abandoned, lock>>
     \/ /\ t = "ingest" /\ ~j.user /\ ReadPlaylist(j.from) # None
        /\ JobIs(t, j.op, "adopt", j.r, j.from, j.from, j.user)
        /\ UNCHANGED <<rundown, playlist, stale, lock, abandoned>>
     \/ Thrown(t) /\ (t = "ingest" => j.user)
  /\ UNCHANGED faults

RegenerateEffect(t) ==
  LET j == job[t] IN
  /\ j.at = "regenerate"
  /\ \E new \in PlaylistDoc \cup {None} :
       /\ PlaylistIs(j.from, new)
       /\ IF RundownsIn(j.from) = {} THEN new = None ELSE Kept(playlist[j.from], new, RundownsIn(j.from))
  /\ Frees(t, {j.from})
  /\ JobIs(t, j.op, AfterLeaving(t), j.r, j.p, None, j.user)
  /\ UNCHANGED <<rundown, stale, faults, abandoned>>

DiscardEffect ==
  LET j == job["ingest"] IN
  /\ j.at = "discard" /\ RundownGoes(j.r)
  /\ stale' = stale \ {j.r} /\ abandoned' = abandoned \ {j.r}
  /\ Frees("ingest", {j.r}) /\ JobEnds("ingest")
  /\ UNCHANGED <<playlist, faults>>

AdoptEffect ==
  LET j == job["ingest"] IN
  /\ j.at = "adopt"
  /\ \/ Thrown("ingest") /\ j.user
     \/ /\ ~j.user /\ j.p \in Playlist /\ lock[j.p] = None /\ Locks("ingest", j.p)
        /\ \E new \in PlaylistDoc :
             /\ PlaylistIs(j.p, new) /\ Kept(playlist[j.p], new, RundownsIn(j.p) \cup {j.r})
             /\ playlist[j.p] # None => new.next = playlist[j.p].next
             /\ job'["ingest"].list = new
        /\ JobIs("ingest", j.op, "save", j.r, j.p, j.from, j.user)
        /\ UNCHANGED <<rundown, stale, abandoned>>
  /\ UNCHANGED faults

SaveRundownEffect ==
  LET j == job["ingest"] IN
  /\ j.at = "save"
  /\ RundownIs(j.r, j.p, FALSE)
  /\ stale' = stale \ {j.r} /\ abandoned' = abandoned \ {j.r}
  /\ JobGoes("ingest", "playout")
  /\ UNCHANGED <<playlist, lock, faults>>

SavePlayoutEffect ==
  LET j == job["ingest"] IN
  /\ j.at = "playout"
  /\ \E new \in PlaylistDoc : PlaylistIs(j.p, new) /\ Kept(playlist[j.p], new, j.list.listed)
  /\ Frees("ingest", {j.p, j.r}) /\ JobEnds("ingest")
  /\ UNCHANGED <<rundown, stale, faults, abandoned>>

MoveIntoEffect ==
  LET j == job["studio"] IN
  /\ j.at = "into" /\ j.p \in Playlist
  /\ \/ Thrown("studio")
     \/ /\ playlist[j.p] # None /\ lock[j.p] = None /\ Locks("studio", j.p)
        /\ IF j.from = j.p THEN rundown' = rundown ELSE RundownIs(j.r, j.p, TRUE)
        /\ abandoned' = abandoned \ {j.r}
        /\ JobIs("studio", j.op, "order", j.r, j.p, j.from, j.user)
        /\ job'["studio"].list = playlist[j.p]
        /\ UNCHANGED <<playlist, stale>>
  /\ UNCHANGED faults

MoveOrdersEffect ==
  LET j == job["studio"] IN
  /\ j.at = "order"
  /\ \E new \in PlaylistDoc : PlaylistIs(j.p, new) /\ Kept(playlist[j.p], new, RundownsIn(j.p))
  /\ Frees("studio", {j.p, j.r}) /\ JobEnds("studio")
  /\ UNCHANGED <<rundown, stale, faults, abandoned>>

MoveInsertsEffect ==
  LET j == job["studio"] IN
  /\ j.at = "insert"
  /\ \E p \in Playlist, new \in PlaylistDoc :
       /\ p \notin External /\ playlist[p] = None /\ RundownsIn(p) = {} /\ job["ingest"].p # p
       /\ PlaylistIs(p, new) /\ ~new.active /\ new.current = None /\ new.next = None
       /\ JobIs("studio", j.op, "assign", j.r, p, j.from, j.user)
  /\ UNCHANGED <<rundown, stale, lock, faults, abandoned>>

MoveAssignsEffect ==
  LET j == job["studio"] IN
  /\ j.at = "assign" /\ RundownIs(j.r, j.p, TRUE)
  /\ abandoned' = abandoned \ {j.r}
  /\ Frees("studio", {j.r}) /\ JobEnds("studio")
  /\ UNCHANGED <<playlist, stale, faults>>

FindEffect ==
  LET j == job["studio"] IN
  /\ j.at = "find"
  /\ JobIs("studio", j.op, "cleanup", j.r, j.p, j.from, j.user)
  /\ job'["studio"].todo = RundownsIn(j.p)
  /\ UNCHANGED <<rundown, playlist, stale, lock, faults, abandoned>>

CleanupRundownEffect ==
  LET j == job["studio"] IN
  /\ j.op = "removePlaylist" /\ j.at = "cleanup"
  /\ \E r \in j.todo :
       /\ lock[r] = None
       /\ JobIs("studio", j.op, j.at, j.r, j.p, j.from, j.user) /\ job'["studio"].todo = j.todo \ {r}
       /\ \/ /\ InPlaylist(r, j.p) /\ RundownGoes(r)
             /\ stale' = stale \ {r} /\ abandoned' = abandoned \ {r}
          \/ ~InPlaylist(r, j.p) /\ UNCHANGED <<rundown, stale, abandoned>>
  /\ UNCHANGED <<playlist, lock, faults>>

CleanupPlaylistEffect ==
  LET j == job["studio"] IN
  /\ j.op = "removeEmpty"
  /\ \E p \in j.todo :
       /\ lock[p] = None
       /\ JobIs("studio", j.op, j.at, j.r, j.p, j.from, j.user) /\ job'["studio"].todo = j.todo \ {p}
       /\ \/ RundownsIn(p) = {} /\ PlaylistIs(p, None)
          \/ UNCHANGED playlist
  /\ UNCHANGED <<rundown, stale, lock, faults, abandoned>>

CleanupEndsEffect ==
  /\ job["studio"].at = "cleanup" /\ job["studio"].todo = {} /\ JobEnds("studio")
  /\ UNCHANGED <<rundown, playlist, stale, lock, faults, abandoned>>

ForceDeactivateEffect ==
  LET j == job["studio"] IN
  /\ j.at = "force"
  /\ \E q \in j.todo :
       /\ lock[q] = None
       /\ JobIs("studio", j.op, j.at, j.r, j.p, j.from, j.user)
       /\ job'["studio"].todo = j.todo \ {q} /\ job'["studio"].list = j.list
       /\ \/ UNCHANGED playlist
          \/ \E new \in PlaylistDoc : /\ playlist[q] # None /\ PlaylistIs(q, new)
                                      /\ ~new.active /\ new.current = None /\ new.next = None
  /\ UNCHANGED <<rundown, stale, lock, faults, abandoned>>

ForceActivateEffect ==
  LET j == job["studio"] IN
  /\ j.at = "force"
  /\ \/ Thrown("studio")
     \/ /\ OthersActive(j.p) = {} /\ JobGoes("studio", "write")
        /\ UNCHANGED <<rundown, playlist, stale, lock, abandoned>>
  /\ UNCHANGED faults

WriteEffect ==
  LET j == job["studio"] IN
  /\ j.at = "write" /\ PlaylistIs(j.p, j.list)
  /\ Frees("studio", {j.p}) /\ JobEnds("studio")
  /\ UNCHANGED <<rundown, stale, faults, abandoned>>

FailEffect(t) ==
  /\ job[t] # NoJob /\ Thrown(t) /\ faults' = faults + 1

\* What a step does.
StepEffect ==
  \/ \E r \in Rundown : UpdateEffect(r) \/ RemoveEffect(r) \/ RefuseEffect(r) \/ UnsyncEffect(r)
  \/ \E r \in Rundown, p \in Playlist \cup {None} : MoveEffect(r, p)
  \/ \E p \in Playlist : RemovePlaylistEffect(p)
  \/ \E p \in Playlist, o \in PlayoutOp : LoadEffect(p, o)
  \/ \E t \in Thread : LeaveEffect(t) \/ RegenerateEffect(t) \/ FailEffect(t)
  \/ DiscardEffect \/ AdoptEffect \/ SaveRundownEffect \/ SavePlayoutEffect
  \/ MoveIntoEffect \/ MoveOrdersEffect \/ MoveInsertsEffect \/ MoveAssignsEffect
  \/ RemoveEmptyEffect \/ FindEffect \/ CleanupRundownEffect \/ CleanupPlaylistEffect
  \/ CleanupEndsEffect \/ ForceDeactivateEffect \/ ForceActivateEffect \/ WriteEffect

\* The effects that leave the playlists as they are.
KeepsPlaylists ==
  \/ \E r \in Rundown : UpdateEffect(r) \/ RemoveEffect(r) \/ RefuseEffect(r) \/ UnsyncEffect(r)
  \/ \E r \in Rundown, p \in Playlist \cup {None} : MoveEffect(r, p)
  \/ \E p \in Playlist, o \in PlayoutOp : LoadEffect(p, o)
  \/ \E t \in Thread : LeaveEffect(t) \/ FailEffect(t)
  \/ DiscardEffect \/ SaveRundownEffect \/ MoveIntoEffect \/ MoveAssignsEffect
  \/ RemoveEmptyEffect \/ FindEffect \/ CleanupRundownEffect \/ CleanupEndsEffect \/ ForceActivateEffect

LEMMA PlaylistsUntouched == ASSUME KeepsPlaylists PROVE playlist' = playlist
  BY DEF KeepsPlaylists, UpdateEffect, RemoveEffect, RefuseEffect, UnsyncEffect, MoveEffect, LoadEffect,
         LeaveEffect, FailEffect, Thrown, DiscardEffect, SaveRundownEffect, MoveIntoEffect,
         MoveAssignsEffect, RemoveEmptyEffect, FindEffect, CleanupRundownEffect, CleanupEndsEffect,
         ForceActivateEffect

-----------------------------------------------------------------------------
(* Every action has its effect. *)

\* Documents of rundowns.
LEMMA DocFields ==
  ASSUME RundownsOK, NEW r \in Rundown, rundown[r] # None
  PROVE  rundown[r].playlist \in PlaylistId /\ rundown[r].setInSofie \in BOOLEAN /\ rundown[r].orphaned \in BOOLEAN
  BY DEF RundownsOK, RundownDoc

LEMMA Unsynced ==
  ASSUME RundownsOK, NEW r \in Rundown, rundown[r] # None, rundown' = [rundown EXCEPT ![r].orphaned = TRUE]
  PROVE  RundownIs(r, rundown[r].playlist, rundown[r].setInSofie) /\ rundown'[r] \in RundownDoc /\ rundown'[r].orphaned
<1>1. rundown[r] \in RundownDoc
  BY DEF RundownsOK
<1>2. /\ rundown'[r].playlist = rundown[r].playlist /\ rundown'[r].setInSofie = rundown[r].setInSofie
      /\ rundown'[r].orphaned
      /\ \A x \in Rundown : x # r => rundown'[x] = rundown[x]
  BY <1>1 DEF RundownsOK, RundownDoc
<1>3. rundown'[r] \in RundownDoc
  BY <1>1 DEF RundownsOK, RundownDoc
<1> QED BY <1>2, <1>3, RundownsAssumption DEF RundownIs

LEMMA Replaced ==
  ASSUME RundownsOK, NEW r \in Rundown, rundown[r] # None, NEW p \in PlaylistId, rundown' = [rundown EXCEPT ![r].playlist = p]
  PROVE  RundownIs(r, p, rundown[r].setInSofie) /\ rundown'[r] \in RundownDoc /\ rundown'[r].orphaned = rundown[r].orphaned
<1>1. rundown[r] \in RundownDoc
  BY DEF RundownsOK
<1>2. rundown'[r] = [rundown[r] EXCEPT !.playlist = p] /\ \A x \in Rundown : x # r => rundown'[x] = rundown[x]
  BY DEF RundownsOK
<1>3. rundown'[r] \in RundownDoc
  BY <1>1, <1>2 DEF RundownDoc
<1>4. rundown'[r].playlist = p /\ rundown'[r].setInSofie = rundown[r].setInSofie /\ rundown'[r].orphaned = rundown[r].orphaned
  BY <1>1, <1>2 DEF RundownDoc
<1> QED BY <1>2, <1>3, <1>4, RundownsAssumption DEF RundownIs

LEMMA Chosen ==
  ASSUME RundownsOK, NEW r \in Rundown, rundown[r] # None, NEW p \in PlaylistId,
         rundown' = [rundown EXCEPT ![r].playlist = p, ![r].setInSofie = TRUE]
  PROVE  RundownIs(r, p, TRUE) /\ rundown'[r] \in RundownDoc /\ rundown'[r].orphaned = rundown[r].orphaned
<1>1. rundown[r] \in RundownDoc
  BY DEF RundownsOK
<1>2. /\ rundown'[r].playlist = p /\ rundown'[r].setInSofie /\ rundown'[r].orphaned = rundown[r].orphaned
      /\ \A x \in Rundown : x # r => rundown'[x] = rundown[x]
  BY <1>1 DEF RundownsOK, RundownDoc
<1>3. rundown'[r] \in RundownDoc
  BY <1>1 DEF RundownsOK, RundownDoc
<1> QED BY <1>2, <1>3, RundownsAssumption DEF RundownIs

\* What is left of a playlist whose list of rundowns is made again.
LEMMA KeptBy ==
  ASSUME NEW old \in PlaylistDoc \cup {None}, NEW rds \in SUBSET Rundown
  PROVE  /\ Produced(old, rds) \in PlaylistDoc /\ Kept(old, Produced(old, rds), rds)
         /\ old # None => Produced(old, rds).next = old.next
         /\ \A new \in WithValidNext(Produced(old, rds), rds) : new \in PlaylistDoc /\ Kept(old, new, rds)
<1> DEFINE pr == Produced(old, rds)
<1>1. /\ pr \in PlaylistDoc /\ pr.listed = rds
      /\ old = None => ~pr.active /\ pr.current = None /\ pr.next = None
      /\ old # None => pr.active = old.active /\ pr.current = old.current /\ pr.next = old.next
  BY DEF Produced, PlaylistDoc
<1> HIDE DEF pr
<1>2. Kept(old, pr, rds)
  BY <1>1 DEF Kept
<1>3. ASSUME NEW new \in WithValidNext(pr, rds) PROVE new \in PlaylistDoc /\ Kept(old, new, rds)
  <2>1. CASE pr.active
    <3>1. PICK n \in rds \cup {None} : new = [pr EXCEPT !.next = n]
      BY <1>3, <2>1 DEF WithValidNext
    <3>2. new \in PlaylistDoc /\ new.active = pr.active /\ new.current = pr.current /\ new.next = n /\ new.listed = rds
      BY <3>1, <1>1 DEF PlaylistDoc
    <3> QED BY <3>2, <2>1, <1>1 DEF Kept
  <2>2. CASE ~pr.active
    BY <2>2, <1>1, <1>2, <1>3 DEF WithValidNext
  <2> QED BY <2>1, <2>2
<1> QED BY <1>1, <1>2, <1>3 DEF pr

LEMMA RegeneratedBy ==
  ASSUME NEW old \in PlaylistDoc, NEW rds \in SUBSET Rundown, NEW new \in Regenerated(old, rds)
  PROVE  IF rds = {} THEN new = None ELSE new \in PlaylistDoc /\ Kept(old, new, rds)
  BY KeptBy DEF Regenerated

\* One lemma for each action that is not its effect by definition.
LEMMA ThrowsEffect ==
  ASSUME JobsOK, OthersOK, NEW t \in Thread, Throws(t)
  PROVE  Thrown(t)
  BY DEF Throws, Thrown, Ends, Give, Held, JobEnds, OthersStay, Frees, JobsOK, OthersOK, Thread

LEMMA UpdateHasEffect ==
  ASSUME JobsOK, RundownsOK, OthersOK, NEW r \in Rundown, NEW p \in External, Update(r, p)
  PROVE  UpdateEffect(r)
<1> DEFINE d == rundown[r]
           target == Target(d, p)
           moves == IF d = None THEN FALSE ELSE d.playlist # target
           from == IF moves THEN d.playlist ELSE None
           user == IF d = None THEN FALSE ELSE d.setInSofie
           at == IF moves THEN "free" ELSE "adopt"
           new == [NoJob EXCEPT !.op = "update", !.at = at, !.r = r, !.p = target, !.from = from, !.user = user]
<1>1. /\ target \in PlaylistId /\ from \in PlaylistId \cup {None} /\ user \in BOOLEAN /\ at \in {"free", "adopt"}
      /\ user => d # None /\ d.setInSofie /\ target = d.playlist
      /\ ~user => target \in External /\ (d # None => ~d.setInSofie)
      /\ d # None => user = d.setInSofie
      /\ at = "free" => d # None /\ d.playlist = from /\ ~user
      /\ at = "adopt" => d = None \/ d.playlist = target
  BY DocFields, RundownsAssumption DEF Target, PlaylistId
<1>2. /\ job["ingest"] = NoJob /\ lock[r] = None /\ lock' = [lock EXCEPT ![r] = "ingest"]
      /\ stale' = stale \cup {r}
      /\ UNCHANGED <<rundown, playlist, faults, abandoned>>
  BY DEF Update, IngestLoads
<1>3. job' = [job EXCEPT !["ingest"] = new]
  BY DEF Update
<1>4. Locks("ingest", r)
  BY <1>2 DEF Locks, OthersOK, Resource
<1> HIDE DEF target, from, user, at
<1>5. JobIs("ingest", "update", at, r, target, from, user)
  BY <1>3 DEF JobIs, OthersStay, JobsOK, NoJob, Thread
<1> QED BY <1>1, <1>2, <1>4, <1>5 DEF UpdateEffect

LEMMA UnsyncHasEffect ==
  ASSUME RundownsOK, NEW r \in Rundown, Unsync(r)
  PROVE  UnsyncEffect(r)
  BY Unsynced DEF Unsync, UnsyncEffect

LEMMA LoadPlaylistHasEffect ==
  ASSUME JobsOK, PlaylistsOK, OthersOK, InactiveIsOff, NEW p \in Playlist, NEW o \in PlayoutOp,
         LoadPlaylist(p, o)
  PROVE  LoadEffect(p, o)
<1> DEFINE pl == playlist[p]
           at == IF o = "forceActivate" THEN "force" ELSE "write"
           todo == IF o = "forceActivate" THEN OthersActive(p) ELSE {}
<1>1. /\ job["studio"] = NoJob /\ lock[p] = None /\ pl # None
      /\ UNCHANGED <<rundown, playlist, stale, faults, abandoned>>
  BY DEF LoadPlaylist
<1>2. Locks("studio", p)
  BY DEF LoadPlaylist, Locks, OthersOK, Resource
<1>3. pl \in PlaylistDoc
  BY <1>1 DEF PlaylistsOK
<1>4. todo \subseteq Playlist /\ at \in {"force", "write"}
  BY DEF OthersActive
<1>5. PICK new \in Played(o, pl, RundownsIn(p)) :
        job' = [job EXCEPT !["studio"] = [NoJob EXCEPT !.op = o, !.p = p, !.list = new, !.at = at, !.todo = todo]]
  BY DEF LoadPlaylist
<1> HIDE DEF at, todo
<1>6. /\ JobIs("studio", o, at, None, p, None, FALSE)
      /\ job'["studio"].list = new /\ job'["studio"].todo = todo
  BY <1>5 DEF JobIs, OthersStay, JobsOK, NoJob, Thread
<1>7. RundownsIn(p) \subseteq Rundown
  BY DEF RundownsIn
<1>8. ~pl.active => pl.current = None /\ pl.next = None
  BY <1>1 DEF InactiveIsOff
<1>9. ~Refused(o, p, pl)
  BY DEF LoadPlaylist
<1>10. /\ new \in PlaylistDoc
       /\ \A r \in {new.current, new.next} \ {None} : r \in RundownsIn(p) \/ r \in {pl.current, pl.next}
       /\ ~new.active => new.current = None /\ new.next = None
       /\ at = "write" /\ new.active => pl.active \/ OthersActive(p) = {}
  <2>1. CASE o = "activate" /\ pl.active /\ pl.current # None
    BY <2>1, <1>3, <1>5, <1>8 DEF Played
  <2>2. CASE (o = "activate" /\ ~(pl.active /\ pl.current # None)) \/ o = "forceActivate"
    <3>1. PICK n \in RundownsIn(p) \cup {None} : new = [pl EXCEPT !.active = TRUE, !.current = None, !.next = n]
      BY <2>2, <1>5 DEF Played
    <3>2. new \in PlaylistDoc /\ new.active /\ new.current = None /\ new.next = n
      BY <3>1, <1>3, <1>7 DEF PlaylistDoc
    <3>3. at = "write" => OthersActive(p) = {}
      BY <2>2, <1>9 DEF Refused, at
    <3> QED BY <3>2, <3>3
  <2>3. CASE o = "deactivate"
    <3>1. new = [pl EXCEPT !.active = FALSE, !.current = None, !.next = None]
      BY <2>3, <1>5 DEF Played
    <3>2. new \in PlaylistDoc /\ ~new.active /\ new.current = None /\ new.next = None
      BY <3>1, <1>3 DEF PlaylistDoc
    <3> QED BY <3>2
  <2>4. CASE o = "take"
    <3>1. PICK n \in RundownsIn(p) \cup {None} : new = [pl EXCEPT !.current = pl.next, !.next = n]
      BY <2>4, <1>5 DEF Played
    <3>2. new \in PlaylistDoc /\ new.active = pl.active /\ new.current = pl.next /\ new.next = n
      BY <3>1, <1>3, <1>7 DEF PlaylistDoc
    <3>3. pl.active
      BY <2>4, <1>9 DEF Refused
    <3> QED BY <3>2, <3>3
  <2>5. CASE o = "setNext"
    <3>1. PICK n \in RundownsIn(p) : new = [pl EXCEPT !.next = n]
      BY <2>5, <1>5 DEF Played
    <3>2. new \in PlaylistDoc /\ new.active = pl.active /\ new.current = pl.current /\ new.next = n
      BY <3>1, <1>3, <1>7 DEF PlaylistDoc
    <3>3. pl.active
      BY <2>5, <1>9 DEF Refused
    <3> QED BY <3>2, <3>3
  <2> QED BY <2>1, <2>2, <2>3, <2>4, <2>5 DEF PlayoutOp
<1> QED BY <1>1, <1>2, <1>4, <1>6, <1>10 DEF LoadEffect

LEMMA LeaveHasEffect ==
  ASSUME JobsOK, RundownsOK, PlaylistsOK, OthersOK, IngestShape, StudioShape, Whereabouts, NEW t
         \in Thread, LeaveOldPlaylist(t)
  PROVE  LeaveEffect(t)
<1> DEFINE j == job[t]
           old == j.from
           pl == ReadPlaylist(old)
           trapped == IF pl = None THEN FALSE ELSE ~MayLeave(pl, j.r)
<1>1. j.at = "free" /\ lock[old] = None /\ UNCHANGED faults
  BY DEF LeaveOldPlaylist
<1>2. j.r \in Rundown /\ rundown[j.r] # None /\ rundown[j.r].playlist = old /\ old \in PlaylistId
  BY <1>1, DocFields DEF IngestShape, StudioShape, NoJob, Whereabouts, InPlaylist, Thread
<1>3. pl # None => old \in Playlist /\ pl = playlist[old]
  BY <1>2 DEF ReadPlaylist, PlaylistId
<1>4. Tmp \in PlaylistId
  BY DEF PlaylistId
<1>5. CASE /\ ~trapped /\ (pl # None \/ t = "ingest")
           /\ rundown' = [rundown EXCEPT ![j.r].playlist = Tmp]
           /\ IF pl = None
              THEN GoesTo(t, AfterLeaving(t)) /\ UNCHANGED lock
              ELSE /\ lock' = [lock EXCEPT ![old] = t]
                   /\ job' = [job EXCEPT ![t] = [@ EXCEPT !.at = "regenerate", !.list = pl]]
           /\ UNCHANGED <<playlist, stale, abandoned>>
  <2>1. RundownIs(j.r, Tmp, rundown[j.r].setInSofie) /\ rundown'[j.r].orphaned = rundown[j.r].orphaned
    BY <1>2, <1>4, <1>5, Replaced
  <2>2. CASE pl = None
    <3>1. JobIs(t, j.op, AfterLeaving(t), j.r, j.p, j.from, j.user)
      BY <1>5, <2>2 DEF GoesTo, JobIs, OthersStay, JobsOK, Job
    <3> QED BY <1>1, <1>5, <2>1, <2>2, <3>1 DEF LeaveEffect
  <2>3. CASE pl # None
    <3>1. Locks(t, old)
      BY <1>5, <2>3 DEF Locks, OthersOK
    <3>2. JobIs(t, j.op, "regenerate", j.r, j.p, j.from, j.user) /\ job'[t].list = playlist[old]
      BY <1>3, <1>5, <2>3 DEF JobIs, OthersStay, JobsOK, Job
    <3>3. MayLeave(playlist[old], j.r)
      BY <1>3, <1>5, <2>3
    <3> QED BY <1>1, <1>3, <1>5, <2>1, <2>3, <3>1, <3>2, <3>3 DEF LeaveEffect
  <2> QED BY <2>2, <2>3
<1>6. CASE /\ trapped /\ t = "ingest" /\ ~j.user
           /\ job' = [job EXCEPT ![t] = [@ EXCEPT !.at = "adopt", !.p = old]]
           /\ UNCHANGED <<rundown, playlist, stale, lock, abandoned>>
  <2>1. JobIs(t, j.op, "adopt", j.r, j.from, j.from, j.user)
    BY <1>6 DEF JobIs, OthersStay, JobsOK, Job
  <2> QED BY <1>1, <1>6, <2>1 DEF LeaveEffect
<1>7. CASE /\ \/ t = "ingest" /\ trapped /\ j.user
              \/ t = "studio" /\ (trapped \/ pl = None)
           /\ Throws(t)
  <2>1. Thrown(t) /\ (t = "ingest" => j.user)
    BY <1>7, ThrowsEffect
  <2> QED BY <1>1, <2>1 DEF LeaveEffect
<1> QED BY <1>5, <1>6, <1>7 DEF LeaveOldPlaylist

LEMMA RegenerateHasEffect ==
  ASSUME JobsOK, PlaylistsOK, OthersOK, Copies, NEW t \in Thread, RegenerateOldPlaylist(t)
  PROVE  RegenerateEffect(t)
<1> DEFINE j == job[t]
<1>1. j.at = "regenerate" /\ UNCHANGED <<rundown, stale, faults, abandoned>>
  BY DEF RegenerateOldPlaylist
<1>2. j.from \in Playlist /\ playlist[j.from] = j.list /\ j.list \in PlaylistDoc
  BY <1>1 DEF Copies, HasCopy, PlaylistsOK
<1>3. RundownsIn(j.from) \in SUBSET Rundown
  BY DEF RundownsIn
<1>4. PICK new \in Regenerated(j.list, RundownsIn(j.from)) : playlist' = [playlist EXCEPT ![j.from] = new]
  BY DEF RegenerateOldPlaylist
<1>5. PlaylistIs(j.from, new)
  BY <1>2, <1>4 DEF PlaylistIs, PlaylistsOK
<1>6. Frees(t, {j.from})
  BY DEF RegenerateOldPlaylist, Give, Frees
<1>7. job' = [job EXCEPT ![t] = [@ EXCEPT !.at = AfterLeaving(t), !.from = None, !.list = None]]
  BY DEF RegenerateOldPlaylist
<1>8. JobIs(t, j.op, AfterLeaving(t), j.r, j.p, None, j.user)
  BY <1>7 DEF JobIs, OthersStay, JobsOK, Job
<1> QED BY <1>1, <1>2, <1>3, <1>4, <1>5, <1>6, <1>8, RegeneratedBy DEF RegenerateEffect

LEMMA AdoptHasEffect ==
  ASSUME JobsOK, PlaylistsOK, OthersOK, IngestShape, Adopt
  PROVE  AdoptEffect
<1> DEFINE j == job["ingest"]
           pl == ReadPlaylist(j.p)
           rds == (RundownsIn(j.p) \ {j.r}) \cup {j.r}
           new == Produced(pl, rds)
<1>1. j.at = "adopt" /\ lock[j.p] = None /\ UNCHANGED faults
  BY DEF Adopt
<1>2. j.r \in Rundown /\ (~j.user => j.p \in Playlist)
  BY <1>1 DEF IngestShape, NoJob, PlaylistId
<1>3. CASE j.user
  BY <1>1, <1>3, ThrowsEffect DEF Adopt, AdoptEffect, Thread
<1>4. CASE ~j.user
  <2>1. j.p \in Playlist /\ pl = playlist[j.p] /\ rds = RundownsIn(j.p) \cup {j.r} /\ rds \in SUBSET Rundown
    BY <1>2, <1>4, RundownsAssumption DEF ReadPlaylist, RundownsIn
  <2>2. pl \in PlaylistDoc \cup {None}
    BY <2>1 DEF PlaylistsOK
  <2>3. /\ lock' = [lock EXCEPT ![j.p] = "ingest"]
        /\ playlist' = [playlist EXCEPT ![j.p] = new]
        /\ job' = [job EXCEPT !["ingest"] = [@ EXCEPT !.at = "save", !.list = new]]
        /\ UNCHANGED <<rundown, stale, abandoned>>
    BY <1>4 DEF Adopt
  <2> HIDE DEF new
  <2>4. new \in PlaylistDoc /\ Kept(playlist[j.p], new, RundownsIn(j.p) \cup {j.r})
        /\ (playlist[j.p] # None => new.next = playlist[j.p].next)
    BY <2>1, <2>2, KeptBy DEF new
  <2>5. PlaylistIs(j.p, new) /\ Locks("ingest", j.p)
    BY <2>1, <2>3 DEF PlaylistIs, PlaylistsOK, Locks, OthersOK, Resource, PlaylistId
  <2>6. JobIs("ingest", j.op, "save", j.r, j.p, j.from, j.user) /\ job'["ingest"].list = new
    BY <2>3 DEF JobIs, OthersStay, JobsOK, Job, Thread
  <2> QED BY <1>1, <1>4, <2>1, <2>3, <2>4, <2>5, <2>6 DEF AdoptEffect
<1> QED BY <1>3, <1>4

LEMMA SaveRundownHasEffect ==
  ASSUME JobsOK, RundownsOK, IngestShape, Whereabouts, SaveRundown
  PROVE  SaveRundownEffect
<1> DEFINE j == job["ingest"]
           new == [playlist |-> j.p, setInSofie |-> FALSE, orphaned |-> j.op = "remove"]
<1>1. j.at = "save" /\ j.r \in Rundown /\ j.p \in Playlist
  BY DEF SaveRundown, IngestShape, NoJob
<1>2. new \in RundownDoc
  BY <1>1 DEF RundownDoc, PlaylistId
<1>3. new # None
  BY <1>2, RundownsAssumption
<1>4. rundown' = [rundown EXCEPT ![j.r] = new]
  BY DEF SaveRundown
<1>5. RundownIs(j.r, j.p, FALSE)
  BY <1>1, <1>3, <1>4 DEF RundownIs, RundownsOK
<1>6. JobGoes("ingest", "playout")
  BY DEF SaveRundown, GoesTo, JobGoes, JobIs, OthersStay, JobsOK, Thread, Job
<1> QED BY <1>1, <1>5, <1>6 DEF SaveRundown, SaveRundownEffect

LEMMA MoveIntoHasEffect ==
  ASSUME JobsOK, RundownsOK, PlaylistsOK, OthersOK, StudioShape, Whereabouts, MoveInto
  PROVE  MoveIntoEffect
<1> DEFINE j == job["studio"]
<1>1. j.at = "into" /\ lock[j.p] = None /\ UNCHANGED faults
  BY DEF MoveInto
<1>2. j.r \in Rundown /\ j.p \in Playlist /\ ReadPlaylist(j.p) = playlist[j.p] /\ rundown[j.r] # None
  BY <1>1, RundownsAssumption DEF StudioShape, NoJob, Whereabouts, InPlaylist, Thread, ReadPlaylist
<1>3. CASE playlist[j.p] = None
  BY <1>1, <1>2, <1>3, ThrowsEffect DEF MoveInto, MoveIntoEffect, Thread
<1>4. CASE playlist[j.p] # None
  <2>1. /\ lock' = [lock EXCEPT ![j.p] = "studio"]
        /\ rundown' = IF j.from = j.p THEN rundown
                      ELSE [rundown EXCEPT ![j.r].playlist = j.p, ![j.r].setInSofie = TRUE]
        /\ abandoned' = abandoned \ {j.r}
        /\ job' = [job EXCEPT !["studio"] = [@ EXCEPT !.at = "order", !.list = playlist[j.p]]]
        /\ UNCHANGED <<playlist, stale>>
    BY <1>2, <1>4 DEF MoveInto
  <2>2. IF j.from = j.p THEN rundown' = rundown ELSE RundownIs(j.r, j.p, TRUE)
    BY <1>2, <2>1, Chosen DEF PlaylistId
  <2>3. JobIs("studio", j.op, "order", j.r, j.p, j.from, j.user) /\ job'["studio"].list = playlist[j.p]
    BY <2>1 DEF JobIs, OthersStay, JobsOK, Job, Thread
  <2>4. Locks("studio", j.p)
    BY <2>1 DEF Locks, OthersOK
  <2> QED BY <1>1, <1>2, <1>4, <2>1, <2>2, <2>3, <2>4 DEF MoveIntoEffect
<1> QED BY <1>3, <1>4

LEMMA MoveOrdersHasEffect ==
  ASSUME JobsOK, PlaylistsOK, OthersOK, StudioShape, Copies, Whereabouts, MoveOrders
  PROVE  MoveOrdersEffect
<1> DEFINE j == job["studio"]
<1>1. j.at = "order" /\ UNCHANGED <<rundown, stale, faults, abandoned>>
  BY DEF MoveOrders
<1>2. j.p \in Playlist /\ playlist[j.p] = j.list /\ j.list \in PlaylistDoc
  BY <1>1 DEF Copies, HasCopy, PlaylistsOK, Thread
<1>3. RundownsIn(j.p) \in SUBSET Rundown /\ j.r \in RundownsIn(j.p)
  BY <1>1 DEF RundownsIn, StudioShape, Whereabouts, InPlaylist, NoJob, Thread
<1>4. PICK new \in Regenerated(j.list, RundownsIn(j.p)) : playlist' = [playlist EXCEPT ![j.p] = new]
  BY DEF MoveOrders
<1>5. PlaylistIs(j.p, new)
  BY <1>2, <1>4 DEF PlaylistIs, PlaylistsOK
<1>6. Frees("studio", {j.p, j.r})
  BY DEF MoveOrders, Give, Frees
<1>7. JobEnds("studio")
  BY DEF MoveOrders, Ends, JobEnds, OthersStay, JobsOK, Thread
<1>8. new \in PlaylistDoc /\ Kept(j.list, new, RundownsIn(j.p))
  BY <1>2, <1>3, RegeneratedBy
<1> QED BY <1>1, <1>2, <1>5, <1>6, <1>7, <1>8 DEF MoveOrdersEffect

LEMMA MoveInsertsHasEffect ==
  ASSUME JobsOK, PlaylistsOK, OthersOK, StudioShape, MoveInserts
  PROVE  MoveInsertsEffect
<1> DEFINE j == job["studio"]
           new == Produced(None, {j.r})
<1>1. j.at = "insert" /\ UNCHANGED <<rundown, stale, lock, faults, abandoned>>
  BY DEF MoveInserts
<1>2. PICK p \in Playlist : /\ IsFresh(p) /\ playlist' = [playlist EXCEPT ![p] = new]
                            /\ job' = [job EXCEPT !["studio"] = [@ EXCEPT !.at = "assign", !.p = p]]
  BY DEF MoveInserts
<1>3. j.r \in Rundown
  BY <1>1 DEF StudioShape, NoJob
<1>4. new \in PlaylistDoc /\ ~new.active /\ new.current = None /\ new.next = None
  BY <1>3 DEF Produced, PlaylistDoc
<1> HIDE DEF new
<1>5. PlaylistIs(p, new)
  BY <1>2 DEF PlaylistIs, PlaylistsOK
<1>6. JobIs("studio", j.op, "assign", j.r, p, j.from, j.user)
  BY <1>2 DEF JobIs, OthersStay, JobsOK, Job, Thread
<1>7. p \notin External /\ playlist[p] = None /\ RundownsIn(p) = {} /\ job["ingest"].p # p
  BY <1>2 DEF IsFresh, Thread
<1> QED BY <1>1, <1>4, <1>5, <1>6, <1>7 DEF MoveInsertsEffect

LEMMA MoveAssignsHasEffect ==
  ASSUME JobsOK, RundownsOK, OthersOK, StudioShape, Whereabouts, MoveAssigns
  PROVE  MoveAssignsEffect
<1> DEFINE j == job["studio"]
<1>1. j.at = "assign" /\ j.r \in Rundown /\ j.p \in Playlist /\ rundown[j.r] # None
  BY DEF MoveAssigns, StudioShape, Whereabouts, InPlaylist, NoJob, Thread
<1>2. RundownIs(j.r, j.p, TRUE)
  BY <1>1, Chosen DEF MoveAssigns, PlaylistId
<1>3. Frees("studio", {j.r})
  BY <1>1 DEF MoveAssigns, Give, Frees
<1>4. JobEnds("studio")
  BY DEF MoveAssigns, Ends, JobEnds, OthersStay, JobsOK, Thread
<1> QED BY <1>1, <1>2, <1>3, <1>4 DEF MoveAssigns, MoveAssignsEffect

LEMMA ForceDeactivateHasEffect ==
  ASSUME JobsOK, PlaylistsOK, OthersOK, StudioShape, ForceDeactivate
  PROVE  ForceDeactivateEffect
<1> DEFINE j == job["studio"]
<1>1. j.at = "force" /\ UNCHANGED <<rundown, stale, lock, faults, abandoned>>
  BY DEF ForceDeactivate
<1>2. PICK q \in j.todo : /\ lock[q] = None
                          /\ job' = [job EXCEPT !["studio"].todo = @ \ {q}]
                          /\ IF playlist[q] = None THEN UNCHANGED playlist
                             ELSE \E new \in Played("deactivate", playlist[q], {}) : playlist' = [playlist EXCEPT ![q] = new]
  BY DEF ForceDeactivate
<1>3. q \in Playlist
  BY <1>1 DEF StudioShape, NoJob
<1>4. /\ JobIs("studio", j.op, j.at, j.r, j.p, j.from, j.user)
      /\ job'["studio"].todo = j.todo \ {q} /\ job'["studio"].list = j.list
  BY <1>2 DEF JobIs, OthersStay, JobsOK, Job, Thread
<1>5. CASE playlist[q] = None
  BY <1>1, <1>2, <1>4, <1>5 DEF ForceDeactivateEffect
<1>6. CASE playlist[q] # None
  <2> DEFINE new == [playlist[q] EXCEPT !.active = FALSE, !.current = None, !.next = None]
  <2>1. playlist' = [playlist EXCEPT ![q] = new]
    BY <1>2, <1>6 DEF Played
  <2>2. playlist[q] \in PlaylistDoc
    BY <1>3, <1>6 DEF PlaylistsOK
  <2>3. new \in PlaylistDoc /\ ~new.active /\ new.current = None /\ new.next = None
    BY <2>2 DEF PlaylistDoc
  <2> HIDE DEF new
  <2>4. PlaylistIs(q, new)
    BY <1>3, <2>1 DEF PlaylistIs, PlaylistsOK
  <2> QED BY <1>1, <1>2, <1>4, <1>6, <2>3, <2>4 DEF ForceDeactivateEffect
<1> QED BY <1>5, <1>6

LEMMA ForceActivateHasEffect ==
  ASSUME JobsOK, OthersOK, ForceActivate
  PROVE  ForceActivateEffect
<1>1. "studio" \in Thread
  BY DEF Thread
<1>2. GoesTo("studio", "write") => JobGoes("studio", "write")
  BY DEF GoesTo, JobGoes, JobIs, OthersStay, JobsOK, Thread, Job
<1> QED BY <1>1, <1>2, ThrowsEffect DEF ForceActivate, ForceActivateEffect

LEMMA JobFailsHasEffect ==
  ASSUME JobsOK, OthersOK, NEW t \in Thread, JobFails(t)
  PROVE  FailEffect(t)
  BY ThrowsEffect DEF JobFails, FailEffect

\* So any step has the effect of its action.
LEMMA NextHasEffect ==
  ASSUME JobsOK, RundownsOK, PlaylistsOK, OthersOK, IngestShape, StudioShape, Copies,
         Whereabouts, InactiveIsOff, Next
  PROVE  StepEffect
<1>1. ASSUME NEW r \in Rundown, NEW p \in External, Update(r, p) PROVE  UpdateEffect(r)
  BY <1>1, UpdateHasEffect
<1>2. ASSUME NEW r \in Rundown, Remove(r) PROVE  RemoveEffect(r)
  BY SMTT(10), <1>2, RundownsAssumption DEF RemoveEffect, Remove, IngestLoads, Locks, OthersOK,
     Resource, JobIs, OthersStay, JobsOK, NoJob, Thread
<1>3. ASSUME NEW r \in Rundown, Refuse(r) PROVE  RefuseEffect(r)
  BY SMTT(10), <1>3, RundownsAssumption DEF RefuseEffect, Refuse, IngestLoads, Synced, OthersOK,
     Resource
<1>4. ASSUME NEW r \in Rundown, Unsync(r) PROVE  UnsyncEffect(r)
  BY <1>4, UnsyncHasEffect
<1>5. ASSUME NEW r \in Rundown, NEW p \in Playlist \cup {None}, Move(r, p)
      PROVE  MoveEffect(r, p)
  BY SMTT(10), <1>5, RundownsAssumption DEF MoveEffect, Move, Locks, OthersOK, Resource, JobIs,
     OthersStay, JobsOK, NoJob, Thread
<1>6. ASSUME NEW p \in Playlist, RemovePlaylist(p) PROVE  RemovePlaylistEffect(p)
  BY SMTT(10), <1>6, RundownsAssumption DEF RemovePlaylistEffect, RemovePlaylist, PlaylistIs,
     PlaylistsOK, JobIs, OthersStay, JobsOK, NoJob, Thread
<1>7. ASSUME RemoveEmptyPlaylists PROVE  RemoveEmptyEffect
  BY SMTT(10), <1>7, RundownsAssumption DEF RemoveEmptyEffect, RemoveEmptyPlaylists, JobIs,
     OthersStay, JobsOK, NoJob, Thread
<1>8. ASSUME NEW p \in Playlist, NEW o \in PlayoutOp, LoadPlaylist(p, o) PROVE  LoadEffect(p, o)
  BY <1>8, LoadPlaylistHasEffect
<1>9. ASSUME NEW t \in Thread, LeaveOldPlaylist(t) PROVE  LeaveEffect(t)
  BY <1>9, LeaveHasEffect
<1>10. ASSUME NEW t \in Thread, RegenerateOldPlaylist(t) PROVE  RegenerateEffect(t)
  BY <1>10, RegenerateHasEffect
<1>11. ASSUME Discard PROVE  DiscardEffect
  BY SMTT(10), <1>11, RundownsAssumption DEF DiscardEffect, Discard, Give, Ends, JobsOK,
     RundownsOK, IngestShape, JobEnds, OthersStay, Frees, RundownGoes, Thread, NoJob, Resource
<1>12. ASSUME Adopt PROVE  AdoptEffect
  BY <1>12, AdoptHasEffect
<1>13. ASSUME SaveRundown PROVE  SaveRundownEffect
  BY <1>13, SaveRundownHasEffect
<1>14. ASSUME SavePlayout PROVE  SavePlayoutEffect
  BY SMTT(10), <1>14, RundownsAssumption DEF SavePlayoutEffect, SavePlayout, WithValidNext,
     Give, Ends, JobsOK, PlaylistsOK, PlaylistDoc, Copies, HasCopy, JobEnds, OthersStay, Frees,
     PlaylistIs, Kept, Thread, PlaylistId, Resource
<1>15. ASSUME MoveInto PROVE  MoveIntoEffect
  BY <1>15, MoveIntoHasEffect
<1>16. ASSUME MoveOrders PROVE  MoveOrdersEffect
  BY <1>16, MoveOrdersHasEffect
<1>17. ASSUME MoveInserts PROVE  MoveInsertsEffect
  BY <1>17, MoveInsertsHasEffect
<1>18. ASSUME MoveAssigns PROVE  MoveAssignsEffect
  BY <1>18, MoveAssignsHasEffect
<1>19. ASSUME FindRundowns PROVE  FindEffect
  BY SMTT(10), <1>19, RundownsAssumption DEF FindEffect, FindRundowns, JobIs, OthersStay,
     JobsOK, Job, Thread
<1>20. ASSUME CleanupRundown PROVE  CleanupRundownEffect
  BY SMTT(10), <1>20, RundownsAssumption DEF CleanupRundownEffect, CleanupRundown, StudioShape,
     NoJob, RundownsOK, RundownGoes, InPlaylist, PlayoutOp, JobIs, OthersStay, JobsOK, Job,
     Thread
<1>21. ASSUME CleanupPlaylist PROVE  CleanupPlaylistEffect
  BY SMTT(10), <1>21, RundownsAssumption DEF CleanupPlaylistEffect, CleanupPlaylist,
     StudioShape, NoJob, PlaylistsOK, PlaylistIs, PlayoutOp, JobIs, OthersStay, JobsOK, Job,
     Thread
<1>22. ASSUME CleanupEnds PROVE  CleanupEndsEffect
  BY SMTT(10), <1>22, RundownsAssumption DEF CleanupEndsEffect, CleanupEnds, Ends, JobEnds,
     OthersStay, JobsOK, Thread
<1>23. ASSUME ForceDeactivate PROVE  ForceDeactivateEffect
  BY <1>23, ForceDeactivateHasEffect
<1>24. ASSUME ForceActivate PROVE  ForceActivateEffect
  BY <1>24, ForceActivateHasEffect
<1>25. ASSUME WritePlaylist PROVE  WriteEffect
  BY SMTT(10), <1>25, RundownsAssumption DEF WriteEffect, WritePlaylist, Give, Ends, JobsOK,
     PlaylistsOK, StudioShape, NoJob, JobEnds, OthersStay, Frees, PlaylistIs, Thread, Resource
<1>26. ASSUME NEW t \in Thread, JobFails(t) PROVE  FailEffect(t)
  BY <1>26, JobFailsHasEffect
<1> QED BY <1>1, <1>2, <1>3, <1>4, <1>5, <1>6, <1>7, <1>8, <1>9, <1>10, <1>11, <1>12, <1>13,
         <1>14, <1>15, <1>16, <1>17, <1>18, <1>19, <1>20, <1>21, <1>22, <1>23, <1>24, <1>25,
         <1>26 DEF Next, IngestStep, StudioStep, StepEffect, Thread

-----------------------------------------------------------------------------
(* The types are kept. *)

LEMMA SetJob ==
  ASSUME JobsOK, NEW t \in Thread, NEW j \in Job, job' = [job EXCEPT ![t] = j]
  PROVE  JobsOK'
  BY DEF JobsOK

LEMMA JobFields ==
  ASSUME JobsOK, NEW t \in Thread
  PROVE  /\ job[t] \in Job /\ job[t].op \in Op /\ job[t].at \in Step /\ job[t].r \in Rundown \cup {None}
        /\ job[t].p \in PlaylistId \cup {None} /\ job[t].from \in PlaylistId \cup {None}
        /\ job[t].user \in BOOLEAN /\ job[t].list \in PlaylistDoc \cup {None} /\ job[t].todo \subseteq Resource
  BY DEF JobsOK, Job

LEMMA EndedJob == ASSUME JobsOK, NEW t \in Thread, Ends(t) PROVE JobsOK'
<1>1. NoJob \in Job
  BY DEF Job, NoJob, Op, Step
<1> QED BY <1>1, SetJob DEF Ends

LEMMA UpdateJob ==
  ASSUME JobsOK, RundownsOK, NEW r \in Rundown, NEW p \in External, Update(r, p)
  PROVE  JobsOK'
<1> DEFINE d == rundown[r]
      target == Target(d, p)
      moves == IF d = None THEN FALSE ELSE d.playlist # target
      from == IF moves THEN d.playlist ELSE None
      user == IF d = None THEN FALSE ELSE d.setInSofie
      at == IF moves THEN "free" ELSE "adopt"
      new == [NoJob EXCEPT !.op = "update", !.at = at, !.r = r, !.p = target, !.from = from, !.user = user]
<1>1. target \in PlaylistId
  BY DocFields, RundownsAssumption DEF Target, PlaylistId
<1>2. from \in PlaylistId \cup {None}
  BY DocFields
<1>3. user \in BOOLEAN
  BY DocFields
<1>4. at \in Step
  BY DEF Step
<1>5. job' = [job EXCEPT !["ingest"] = new]
  BY DEF Update
<1> HIDE DEF from, user, at, target
<1>6. new \in Job
  BY <1>1, <1>2, <1>3, <1>4 DEF Job, NoJob, Op
<1> QED BY <1>5, <1>6, SetJob DEF Thread

LEMMA RemoveJob ==
  ASSUME JobsOK, RundownsOK, NEW r \in Rundown, Remove(r)
  PROVE  JobsOK'
<1> DEFINE new == [NoJob EXCEPT !.op = "remove", !.at = "free", !.r = r,
                     !.from = rundown[r].playlist, !.user = rundown[r].setInSofie]
<1>1. rundown[r].playlist \in PlaylistId /\ rundown[r].setInSofie \in BOOLEAN /\ job' = [job EXCEPT !["ingest"] = new]
  BY DocFields DEF Remove
<1>2. new \in Job
  BY <1>1 DEF Job, NoJob, Op, Step
<1> QED BY <1>1, <1>2, SetJob DEF Thread

LEMMA MoveJob ==
  ASSUME JobsOK, RundownsOK, NEW r \in Rundown, NEW p \in Playlist \cup {None}, Move(r, p)
  PROVE  JobsOK'
<1> DEFINE at == IF p = rundown[r].playlist THEN "into" ELSE "free"
           new == [NoJob EXCEPT !.op = "move", !.at = at, !.r = r, !.p = p, !.from = rundown[r].playlist]
<1>1. rundown[r].playlist \in PlaylistId /\ job' = [job EXCEPT !["studio"] = new]
  BY DocFields DEF Move
<1>2. at \in Step
  BY DEF Step
<1> HIDE DEF at
<1>3. new \in Job
  BY <1>1, <1>2 DEF Job, NoJob, Op, PlaylistId
<1> QED BY <1>1, <1>3, SetJob DEF Thread

LEMMA RemovePlaylistJob ==
  ASSUME JobsOK, NEW p \in Playlist, RemovePlaylist(p)
  PROVE  JobsOK'
<1>1. [NoJob EXCEPT !.op = "removePlaylist", !.at = "find", !.p = p] \in Job
  BY DEF Job, NoJob, Op, Step, PlaylistId
<1> QED BY <1>1, SetJob DEF RemovePlaylist, Thread

LEMMA RemoveEmptyJob ==
  ASSUME JobsOK, RemoveEmptyPlaylists
  PROVE  JobsOK'
<1> DEFINE todo == {p \in Playlist : playlist[p] # None /\ ~playlist[p].active}
           new == [NoJob EXCEPT !.op = "removeEmpty", !.at = "cleanup", !.todo = todo]
<1>1. todo \subseteq Resource
  BY DEF Resource, PlaylistId
<1>2. job' = [job EXCEPT !["studio"] = new]
  BY DEF RemoveEmptyPlaylists
<1> HIDE DEF todo
<1>3. new \in Job
  BY <1>1 DEF Job, NoJob, Op, Step
<1> QED BY <1>2, <1>3, SetJob DEF Thread

LEMMA LoadJob ==
  ASSUME JobsOK, NEW p \in Playlist, NEW o \in PlayoutOp, LoadPlaylist(p, o), LoadEffect(p, o)
  PROVE  JobsOK'
<1> DEFINE at == IF o = "forceActivate" THEN "force" ELSE "write"
           todo == IF o = "forceActivate" THEN OthersActive(p) ELSE {}
<1>1. PICK new \in Played(o, playlist[p], RundownsIn(p)) :
        job' = [job EXCEPT !["studio"] = [NoJob EXCEPT !.op = o, !.p = p, !.list = new, !.at = at, !.todo = todo]]
  BY DEF LoadPlaylist
<1>2. at \in Step /\ todo \subseteq Resource
  BY DEF Step, OthersActive, Resource, PlaylistId
<1> HIDE DEF at, todo
<1>3. new = job'["studio"].list
  BY <1>1 DEF JobsOK, NoJob, Thread
<1>4. new \in PlaylistDoc
  BY <1>3 DEF LoadEffect
<1>5. [NoJob EXCEPT !.op = o, !.p = p, !.list = new, !.at = at, !.todo = todo] \in Job
  BY <1>2, <1>4 DEF Job, NoJob, Op, PlayoutOp, PlaylistId
<1> QED BY <1>1, <1>5, SetJob DEF Thread

LEMMA LeaveJob ==
  ASSUME JobsOK, RundownsOK, PlaylistsOK, IngestShape, StudioShape, Whereabouts, NEW t \in
         Thread, LeaveOldPlaylist(t)
  PROVE  JobsOK'
<1> DEFINE j == job[t]
           pl == ReadPlaylist(j.from)
<1>1. j \in Job /\ j.at = "free"
  BY JobFields DEF LeaveOldPlaylist
<1>2. j.r \in Rundown /\ rundown[j.r] # None /\ rundown[j.r].playlist = j.from /\ j.from \in PlaylistId
  BY <1>1, DocFields DEF IngestShape, StudioShape, NoJob, Whereabouts, InPlaylist, Thread
<1>3. pl # None => pl \in PlaylistDoc
  BY <1>2 DEF ReadPlaylist, PlaylistId, PlaylistsOK
<1>4. j.op \in {"update", "remove", "move"}
  BY <1>1 DEF IngestShape, StudioShape, NoJob, Thread
<1>5. AfterLeaving(t) \in Step
  BY <1>4 DEF AfterLeaving, Step
<1>6. NoJob \in Job
  BY DEF Job, NoJob, Op, Step
<1>7. [j EXCEPT !.at = AfterLeaving(t)] \in Job /\ [j EXCEPT !.at = "adopt", !.p = j.from] \in Job
  BY <1>1, <1>2, <1>5 DEF Job, Step
<1>8. pl # None => [j EXCEPT !.at = "regenerate", !.list = pl] \in Job
  BY <1>1, <1>3 DEF Job, Step
<1>9. \E x \in Job : job' = [job EXCEPT ![t] = x]
  <2>1. CASE GoesTo(t, AfterLeaving(t))
    BY <1>7, <2>1 DEF GoesTo, JobsOK
  <2>2. CASE pl # None /\ job' = [job EXCEPT ![t] = [@ EXCEPT !.at = "regenerate", !.list = pl]]
    BY <1>8, <2>2 DEF JobsOK
  <2>3. CASE job' = [job EXCEPT ![t] = [@ EXCEPT !.at = "adopt", !.p = j.from]]
    BY <1>7, <2>3 DEF JobsOK
  <2>4. CASE Throws(t)
    BY <1>6, <2>4 DEF Throws, Ends
  <2> QED BY <2>1, <2>2, <2>3, <2>4 DEF LeaveOldPlaylist
<1> QED BY <1>9, SetJob

LEMMA RegenerateJob ==
  ASSUME JobsOK, IngestShape, StudioShape, NEW t \in Thread, RegenerateOldPlaylist(t)
  PROVE  JobsOK'
<1> DEFINE j == job[t]
<1>1. j \in Job /\ j.at = "regenerate"
  BY JobFields DEF RegenerateOldPlaylist
<1>2. j.op \in {"update", "remove", "move"}
  BY <1>1 DEF IngestShape, StudioShape, NoJob, Thread
<1>3. AfterLeaving(t) \in Step
  BY <1>2 DEF AfterLeaving, Step
<1>4. [j EXCEPT !.at = AfterLeaving(t), !.from = None, !.list = None] \in Job
  BY <1>1, <1>3 DEF Job
<1> QED BY <1>4, SetJob DEF RegenerateOldPlaylist, JobsOK

LEMMA AdoptJob ==
  ASSUME JobsOK, AdoptEffect, Adopt
  PROVE  JobsOK'
<1> DEFINE j == job["ingest"]
           new == Produced(ReadPlaylist(j.p), (RundownsIn(j.p) \ {j.r}) \cup {j.r})
<1>1. CASE j.user
  <2>1. NoJob \in Job
    BY DEF Job, NoJob, Op, Step
  <2> QED BY <1>1, <2>1, SetJob DEF Adopt, Throws, Ends, Thread
<1>2. CASE ~j.user
  <2>1. job' = [job EXCEPT !["ingest"] = [@ EXCEPT !.at = "save", !.list = new]]
    BY <1>2 DEF Adopt
  <2> HIDE DEF new
  <2>2. j \in Job
    BY JobFields DEF Thread
  <2>3. job'["ingest"].list = new
    BY <2>1, <2>2 DEF JobsOK, Job, Thread
  <2>4. new \in PlaylistDoc
    BY <1>2, <2>3 DEF AdoptEffect
  <2>5. [j EXCEPT !.at = "save", !.list = new] \in Job
    BY <2>2, <2>4 DEF Job, Step
  <2> QED BY <2>1, <2>5, SetJob DEF JobsOK, Thread
<1> QED BY <1>1, <1>2

LEMMA MoveIntoJob ==
  ASSUME JobsOK, PlaylistsOK, StudioShape, MoveInto
  PROVE  JobsOK'
<1> DEFINE j == job["studio"]
           pl == ReadPlaylist(j.p)
<1>1. NoJob \in Job
  BY DEF Job, NoJob, Op, Step
<1>2. j \in Job /\ j.p \in Playlist
  BY JobFields DEF MoveInto, StudioShape, NoJob, Thread
<1>3. pl # None => [j EXCEPT !.at = "order", !.list = pl] \in Job
  BY <1>2, RundownsAssumption DEF Job, Step, ReadPlaylist, PlaylistsOK
<1> HIDE DEF pl
<1>4. CASE pl = None
  BY <1>1, <1>4, SetJob DEF MoveInto, Throws, Ends, Thread, pl
<1>5. CASE pl # None
  <2>1. job' = [job EXCEPT !["studio"] = [@ EXCEPT !.at = "order", !.list = pl]]
    BY <1>5 DEF MoveInto, pl
  <2> QED BY <1>3, <1>5, <2>1, SetJob DEF JobsOK, Thread
<1> QED BY <1>4, <1>5

LEMMA MoveInsertsJob ==
  ASSUME JobsOK, MoveInserts
  PROVE  JobsOK'
<1>1. PICK p \in Playlist : job' = [job EXCEPT !["studio"] = [@ EXCEPT !.at = "assign", !.p = p]]
  BY DEF MoveInserts
<1>2. [job["studio"] EXCEPT !.at = "assign", !.p = p] \in Job
  BY JobFields DEF Job, Step, Thread, PlaylistId
<1> QED BY <1>1, <1>2, SetJob DEF JobsOK, Thread

LEMMA FindJob ==
  ASSUME JobsOK, FindRundowns
  PROVE  JobsOK'
<1>1. RundownsIn(job["studio"].p) \subseteq Resource
  BY DEF RundownsIn, Resource
<1>2. [job["studio"] EXCEPT !.at = "cleanup", !.todo = RundownsIn(job["studio"].p)] \in Job
  BY <1>1, JobFields DEF Job, Step, Thread
<1> QED BY <1>2, SetJob DEF FindRundowns, JobsOK, Thread

LEMMA ForceActivateJob ==
  ASSUME JobsOK, ForceActivate
  PROVE  JobsOK'
<1>1. NoJob \in Job
  BY DEF Job, NoJob, Op, Step
<1>2. [job["studio"] EXCEPT !.at = "write"] \in Job
  BY JobFields DEF Job, Step, Thread
<1>3. Throws("studio") \/ GoesTo("studio", "write")
  BY DEF ForceActivate
<1> QED BY <1>1, <1>2, <1>3, SetJob DEF Throws, Ends, GoesTo, JobsOK, Thread

LEMMA JobsKept ==
  ASSUME JobsOK, RundownsOK, PlaylistsOK, OthersOK, IngestShape, StudioShape, Copies,
         Whereabouts, InactiveIsOff, Next
  PROVE  JobsOK'
<1>1. ASSUME NEW r \in Rundown, NEW p \in External, Update(r, p) PROVE  JobsOK'
  BY <1>1, UpdateJob
<1>2. ASSUME NEW r \in Rundown, Remove(r) PROVE  JobsOK'
  BY <1>2, RemoveJob
<1>3. ASSUME NEW r \in Rundown, Refuse(r) \/ Unsync(r) PROVE  JobsOK'
  BY <1>3 DEF JobsOK, Refuse, Unsync
<1>4. ASSUME NEW r \in Rundown, NEW p \in Playlist \cup {None}, Move(r, p) PROVE  JobsOK'
  BY <1>4, MoveJob
<1>5. ASSUME NEW p \in Playlist, RemovePlaylist(p) PROVE  JobsOK'
  BY <1>5, RemovePlaylistJob
<1>6. ASSUME NEW p \in Playlist, NEW o \in PlayoutOp, LoadPlaylist(p, o) PROVE  JobsOK'
  BY <1>6, LoadPlaylistHasEffect, LoadJob
<1>7. ASSUME RemoveEmptyPlaylists PROVE  JobsOK'
  BY <1>7, RemoveEmptyJob
<1>8. ASSUME NEW t \in Thread, LeaveOldPlaylist(t) PROVE  JobsOK'
  BY <1>8, LeaveJob
<1>9. ASSUME NEW t \in Thread, RegenerateOldPlaylist(t) PROVE  JobsOK'
  BY <1>9, RegenerateJob
<1>10. ASSUME NEW t \in Thread, Ends(t) PROVE  JobsOK'
  BY <1>10, EndedJob
<1>11. ASSUME Adopt PROVE  JobsOK'
  BY <1>11, AdoptHasEffect, AdoptJob
<1>12. ASSUME SaveRundown PROVE  JobsOK'
  BY SMTT(10), <1>12 DEF JobsOK, SaveRundown, GoesTo, Thread, Step, Job
<1>13. ASSUME MoveInto PROVE  JobsOK'
  BY <1>13, MoveIntoJob
<1>14. ASSUME MoveInserts PROVE  JobsOK'
  BY <1>14, MoveInsertsJob
<1>15. ASSUME FindRundowns PROVE  JobsOK'
  BY <1>15, FindJob
<1>16. ASSUME CleanupRundown \/ CleanupPlaylist \/ ForceDeactivate PROVE  JobsOK'
  BY SMTT(10), <1>16 DEF JobsOK, CleanupRundown, CleanupPlaylist, ForceDeactivate, Thread, Job
<1>17. ASSUME ForceActivate PROVE  JobsOK'
  BY <1>17, ForceActivateJob
<1> QED BY <1>1, <1>2, <1>3, <1>4, <1>5, <1>6, <1>7, <1>8, <1>9, <1>10, <1>11, <1>12, <1>13,
         <1>14, <1>15, <1>16, <1>17 DEF Next, IngestStep, StudioStep, Thread, Discard,
         SavePlayout, MoveOrders, MoveAssigns, CleanupEnds, WritePlaylist, JobFails, Throws

LEMMA UnsyncRundowns ==
  ASSUME RundownsOK, NEW r \in Rundown, Unsync(r)
  PROVE  RundownsOK'
<1>1. rundown' = [rundown EXCEPT ![r].orphaned = TRUE] /\ rundown[r] # None
  BY DEF Unsync
<1>2. rundown'[r] \in RundownDoc
  BY <1>1, Unsynced
<1> QED BY <1>1, <1>2 DEF RundownsOK

LEMMA RundownsKept ==
  ASSUME JobsOK, RundownsOK, PlaylistsOK, OthersOK, IngestShape, StudioShape, Copies,
         Whereabouts, InactiveIsOff, Next
  PROVE  RundownsOK'
<1>1. ASSUME NEW r \in Rundown, Unsync(r) PROVE  RundownsOK'
  BY <1>1, UnsyncRundowns
<1>2. ASSUME UNCHANGED rundown PROVE  RundownsOK'
  BY <1>2 DEF RundownsOK
<1>3. ASSUME NEW t \in Thread, LeaveOldPlaylist(t) PROVE  RundownsOK'
  BY SMTT(10), <1>3 DEF RundownsOK, LeaveOldPlaylist, Throws, Whereabouts, InPlaylist,
     PlaylistId, RundownDoc
<1>4. ASSUME Discard PROVE  RundownsOK'
  BY SMTT(10), <1>4 DEF RundownsOK, Discard, IngestShape, NoJob
<1>5. ASSUME SaveRundown PROVE  RundownsOK'
  BY SMTT(10), <1>5 DEF RundownsOK, SaveRundown, IngestShape, NoJob, PlaylistId, RundownDoc
<1>6. ASSUME MoveInto PROVE  RundownsOK'
  BY SMTT(10), <1>6 DEF RundownsOK, MoveInto, Throws, StudioShape, Whereabouts, InPlaylist,
     Thread, NoJob, PlaylistId, RundownDoc
<1>7. ASSUME MoveAssigns PROVE  RundownsOK'
  BY SMTT(10), <1>7 DEF RundownsOK, MoveAssigns, StudioShape, Whereabouts, InPlaylist, Thread,
     NoJob, PlaylistId, RundownDoc
<1>8. ASSUME CleanupRundown PROVE  RundownsOK'
  BY SMTT(10), <1>8 DEF RundownsOK, CleanupRundown
<1> QED BY <1>1, <1>2, <1>3, <1>4, <1>5, <1>6, <1>7, <1>8 DEF Next, IngestStep, StudioStep,
         Thread, Update, Remove, Refuse, IngestLoads, Move, RemovePlaylist, LoadPlaylist,
         RemoveEmptyPlaylists, RegenerateOldPlaylist, Adopt, SavePlayout, MoveOrders,
         MoveInserts, FindRundowns, CleanupPlaylist, CleanupEnds, ForceDeactivate,
         ForceActivate, WritePlaylist, JobFails, Throws

LEMMA SetPlaylist ==
  ASSUME PlaylistsOK, NEW p, NEW x, playlist' = [playlist EXCEPT ![p] = x],
         NEW new \in PlaylistDoc \cup {None}, PlaylistIs(p, new)
  PROVE  PlaylistsOK'
  BY DEF PlaylistsOK, PlaylistIs

LEMMA RegeneratePlaylists ==
  ASSUME PlaylistsOK, NEW t \in Thread, RegenerateOldPlaylist(t), RegenerateEffect(t)
  PROVE  PlaylistsOK'
<1>1. \E x : playlist' = [playlist EXCEPT ![job[t].from] = x]
  BY DEF RegenerateOldPlaylist
<1> QED BY <1>1, SetPlaylist DEF RegenerateEffect

LEMMA AdoptPlaylists ==
  ASSUME PlaylistsOK, Adopt, AdoptEffect
  PROVE  PlaylistsOK'
<1> DEFINE j == job["ingest"]
<1>1. CASE j.user
  BY <1>1 DEF AdoptEffect, Thrown, PlaylistsOK
<1>2. CASE ~j.user
  <2>1. \E x : playlist' = [playlist EXCEPT ![j.p] = x]
    BY <1>2 DEF Adopt
  <2>2. \E new \in PlaylistDoc : PlaylistIs(j.p, new)
    BY <1>2 DEF AdoptEffect
  <2> QED BY <2>1, <2>2, SetPlaylist
<1> QED BY <1>1, <1>2

LEMMA MoveOrdersPlaylists ==
  ASSUME PlaylistsOK, MoveOrders, MoveOrdersEffect
  PROVE  PlaylistsOK'
<1>1. \E x : playlist' = [playlist EXCEPT ![job["studio"].p] = x]
  BY DEF MoveOrders
<1> QED BY <1>1, SetPlaylist DEF MoveOrdersEffect

LEMMA ForceDeactivatePlaylists ==
  ASSUME PlaylistsOK, ForceDeactivate, StudioShape
  PROVE  PlaylistsOK'
<1>1. PICK q : playlist' = playlist \/ \E new \in Played("deactivate", playlist[q], {}) : playlist[q] # None /\ playlist' = [playlist EXCEPT ![q] = new]
  BY DEF ForceDeactivate
<1>2. CASE playlist' = playlist
  BY <1>2 DEF PlaylistsOK
<1>3. CASE playlist' # playlist
  <2>1. PICK new : /\ new \in Played("deactivate", playlist[q], {})
                   /\ playlist[q] # None /\ playlist' = [playlist EXCEPT ![q] = new]
    BY <1>1, <1>3
  <2>2. new = [playlist[q] EXCEPT !.active = FALSE, !.current = None, !.next = None]
    BY <2>1 DEF Played, PlayoutOp
  <2>3. q \in Playlist => new \in PlaylistDoc
    BY <2>1, <2>2 DEF PlaylistsOK, PlaylistDoc
  <2> QED BY <2>1, <2>3 DEF PlaylistsOK
<1> QED BY <1>2, <1>3

LEMMA PlaylistsKept ==
  ASSUME JobsOK, RundownsOK, PlaylistsOK, OthersOK, IngestShape, StudioShape, Copies,
         Whereabouts, InactiveIsOff, Next
  PROVE  PlaylistsOK'
<1>1. ASSUME UNCHANGED playlist PROVE  PlaylistsOK'
  BY <1>1 DEF PlaylistsOK
<1>2. ASSUME NEW p \in Playlist, RemovePlaylist(p) PROVE  PlaylistsOK'
  BY SMTT(10), <1>2 DEF PlaylistsOK, RemovePlaylist
<1>3. ASSUME NEW t \in Thread, RegenerateOldPlaylist(t) PROVE  PlaylistsOK'
  BY <1>3, RegenerateHasEffect, RegeneratePlaylists
<1>4. ASSUME Adopt PROVE  PlaylistsOK'
  BY <1>4, AdoptHasEffect, AdoptPlaylists
<1>5. ASSUME SavePlayout PROVE  PlaylistsOK'
  BY SMTT(10), <1>5 DEF PlaylistsOK, SavePlayout, WithValidNext, Copies, HasCopy, Thread,
     PlaylistDoc
<1>6. ASSUME MoveOrders PROVE  PlaylistsOK'
  BY <1>6, MoveOrdersHasEffect, MoveOrdersPlaylists
<1>7. ASSUME MoveInserts PROVE  PlaylistsOK'
  BY SMTT(10), <1>7 DEF PlaylistsOK, MoveInserts, Produced, StudioShape, NoJob, PlaylistDoc
<1>8. ASSUME CleanupPlaylist PROVE  PlaylistsOK'
  BY SMTT(10), <1>8 DEF PlaylistsOK, CleanupPlaylist
<1>9. ASSUME ForceDeactivate PROVE  PlaylistsOK'
  BY <1>9, ForceDeactivatePlaylists
<1>10. ASSUME WritePlaylist PROVE  PlaylistsOK'
  BY SMTT(10), <1>10 DEF PlaylistsOK, WritePlaylist, StudioShape, NoJob
<1> QED BY <1>1, <1>2, <1>3, <1>4, <1>5, <1>6, <1>7, <1>8, <1>9, <1>10 DEF Next, IngestStep,
         StudioStep, Thread, Update, Remove, Refuse, Unsync, IngestLoads, Move, LoadPlaylist,
         RemoveEmptyPlaylists, LeaveOldPlaylist, Discard, SaveRundown, MoveInto, MoveAssigns,
         FindRundowns, CleanupRundown, CleanupEnds, ForceActivate, JobFails, Throws

LEMMA SetLock ==
  ASSUME OthersOK, NEW x \in Resource, NEW t \in Thread \cup {None}, lock' = [lock EXCEPT ![x] =
         t]
  PROVE  lock' \in [Resource -> Thread \cup {None}]
  BY DEF OthersOK

LEMMA IngestLoadsOthers ==
  ASSUME OthersOK, NEW r \in Rundown, NEW t \in Thread \cup {None}, IngestLoads(r, t), stale' =
         stale \cup {r}
  PROVE  OthersOK'
<1>1. lock' = [lock EXCEPT ![r] = t] /\ faults' = faults /\ abandoned' = abandoned /\ r \in Resource
  BY DEF IngestLoads, Resource
<1>2. lock' \in [Resource -> Thread \cup {None}]
  BY <1>1, SetLock
<1> QED BY <1>1, <1>2 DEF OthersOK

LEMMA MoveOthers ==
  ASSUME OthersOK, NEW r \in Rundown, NEW p, Move(r, p)
  PROVE  OthersOK'
<1>1. lock' = [lock EXCEPT ![r] = "studio"] /\ UNCHANGED <<stale, faults, abandoned>> /\ r \in Resource
  BY DEF Move, Resource
<1>2. lock' \in [Resource -> Thread \cup {None}]
  BY <1>1, SetLock DEF Thread
<1> QED BY <1>1, <1>2 DEF OthersOK

LEMMA LoadOthers ==
  ASSUME OthersOK, NEW p \in Playlist, NEW o, LoadPlaylist(p, o)
  PROVE  OthersOK'
<1>1. lock' = [lock EXCEPT ![p] = "studio"] /\ UNCHANGED <<stale, faults, abandoned>> /\ p \in Resource
  BY DEF LoadPlaylist, Resource, PlaylistId
<1>2. lock' \in [Resource -> Thread \cup {None}]
  BY <1>1, SetLock DEF Thread
<1> QED BY <1>1, <1>2 DEF OthersOK

LEMMA OthersKept ==
  ASSUME JobsOK, RundownsOK, PlaylistsOK, OthersOK, IngestShape, StudioShape, Copies,
         Whereabouts, InactiveIsOff, Next
  PROVE  OthersOK'
<1>1. ASSUME NEW r \in Rundown, NEW t \in Thread \cup {None}, IngestLoads(r, t), stale' = stale \cup {r}
      PROVE  OthersOK'
  BY <1>1, IngestLoadsOthers
<1>2. ASSUME NEW r \in Rundown, NEW p \in Playlist \cup {None}, Move(r, p) PROVE  OthersOK'
  BY <1>2, MoveOthers
<1>3. ASSUME NEW p \in Playlist, NEW o \in PlayoutOp, LoadPlaylist(p, o) PROVE  OthersOK'
  BY <1>3, LoadOthers
<1>4. ASSUME NEW t \in Thread, Throws(t), UNCHANGED faults PROVE  OthersOK'
  BY SMTT(20), <1>4 DEF OthersOK, Throws, Give, LeftBehind
<1>5. ASSUME NEW t \in Thread, JobFails(t) PROVE  OthersOK'
  BY SMTT(20), <1>5, RundownsAssumption DEF OthersOK, Throws, Give, LeftBehind, JobFails
<1>6. ASSUME UNCHANGED <<stale, lock, faults, abandoned>> PROVE  OthersOK'
  BY <1>6 DEF OthersOK
<1>7. ASSUME NEW t \in Thread, LeaveOldPlaylist(t) PROVE  OthersOK'
  BY SMTT(20), <1>7, <1>4 DEF OthersOK, LeaveOldPlaylist
<1>8. ASSUME NEW t \in Thread, RegenerateOldPlaylist(t) PROVE  OthersOK'
  BY SMTT(20), <1>8 DEF OthersOK, RegenerateOldPlaylist, Give
<1>9. ASSUME Discard \/ SaveRundown \/ MoveAssigns \/ CleanupRundown PROVE  OthersOK'
  BY SMTT(20), <1>9 DEF OthersOK, Discard, SaveRundown, MoveAssigns, CleanupRundown, Give
<1>10. ASSUME SavePlayout \/ MoveOrders \/ WritePlaylist PROVE  OthersOK'
  BY SMTT(20), <1>10 DEF OthersOK, SavePlayout, MoveOrders, WritePlaylist, Give
<1>11. ASSUME Adopt \/ MoveInto PROVE  OthersOK'
  BY SMTT(20), <1>11, <1>4 DEF OthersOK, Adopt, MoveInto, Thread
<1>12. ASSUME ForceActivate PROVE  OthersOK'
  BY SMTT(20), <1>12, <1>4, <1>6 DEF ForceActivate, GoesTo, Thread
<1> QED BY <1>1, <1>2, <1>3, <1>4, <1>5, <1>6, <1>7, <1>8, <1>9, <1>10, <1>11, <1>12 DEF Next,
         IngestStep, StudioStep, Thread, Update, Remove, Refuse, Unsync, RemovePlaylist,
         RemoveEmptyPlaylists, MoveInserts, FindRundowns, CleanupPlaylist, CleanupEnds,
         ForceDeactivate, JobFails

-----------------------------------------------------------------------------
(* Where the ingest job is. *)

LEMMA IngestShapeLeave ==
  ASSUME IngestShape, JobsOK, RundownsOK, OthersOK, Whereabouts, LeaveEffect("ingest")
  PROVE  IngestShape'
<1> DEFINE i == job["ingest"]
           j == job'["ingest"]
<1>1. i.at = "free" /\ i.op \in {"update", "remove"} /\ i.r \in Rundown /\ lock[i.r] = "ingest"
      /\ (i.op = "update" => i.p \in PlaylistId /\ (i.user \/ i.p # Tmp))
  BY DEF IngestShape, LeaveEffect, NoJob
<1>2. i.from \in PlaylistId /\ (ReadPlaylist(i.from) # None => i.from # Tmp)
  BY <1>1, DocFields DEF Whereabouts, InPlaylist, ReadPlaylist, Thread
<1>3. CASE Thrown("ingest")
  BY <1>3 DEF Thrown, JobEnds, IngestShape
<1>4. CASE ~Thrown("ingest")
  <2>1. j.op = i.op /\ j.r = i.r /\ j.user = i.user
    BY <1>4 DEF LeaveEffect, JobIs
  <2>2. lock' = lock \/ Locks("ingest", i.from)
    BY <1>4 DEF LeaveEffect
  <2>3. lock'[i.r] = "ingest"
    BY <1>1, <2>2 DEF Locks, Resource
  <2>4. \/ j.at = "regenerate" /\ j.p = i.p
        \/ j.at = AfterLeaving("ingest") /\ j.p = i.p
        \/ j.at = "adopt" /\ j.p = i.from /\ ReadPlaylist(i.from) # None
    BY <1>4 DEF LeaveEffect, JobIs
  <2>5. AfterLeaving("ingest") = IF i.op = "update" THEN "adopt" ELSE "discard"
    BY <1>1 DEF AfterLeaving
  <2> HIDE DEF i, j
  <2>6. /\ j.op \in {"update", "remove"}
        /\ j.at \in {"free", "regenerate", "adopt", "save", "playout", "discard"}
        /\ j.r \in Rundown /\ lock'[j.r] = "ingest"
        /\ j.at = "discard" => j.op = "remove"
        /\ j.at \in {"save", "playout"} => j.p \in Playlist
        /\ j.op = "update" \/ j.at = "adopt" => j.p \in PlaylistId /\ (j.user \/ j.p # Tmp)
    BY <1>1, <1>2, <2>1, <2>3, <2>4, <2>5
  <2> QED BY <2>6 DEF IngestShape, j
<1> QED BY <1>3, <1>4

LEMMA IngestShapeRegenerate ==
  ASSUME IngestShape, OthersOK, Copies, RegenerateEffect("ingest")
  PROVE  IngestShape'
<1> DEFINE i == job["ingest"]
           j == job'["ingest"]
<1>1. i.at = "regenerate" /\ i.op \in {"update", "remove"} /\ i.r \in Rundown /\ lock[i.r] = "ingest"
      /\ (i.op = "update" => i.p \in PlaylistId /\ (i.user \/ i.p # Tmp))
  BY DEF IngestShape, RegenerateEffect, NoJob
<1>2. i.from \in Playlist
  BY <1>1 DEF Copies, HasCopy, Thread
<1>3. lock'[i.r] = "ingest"
  BY <1>1, <1>2, RundownsAssumption DEF RegenerateEffect, Frees, Resource, PlaylistId
<1>4. j.op = i.op /\ j.r = i.r /\ j.user = i.user /\ j.p = i.p /\ j.at = AfterLeaving("ingest")
  BY DEF RegenerateEffect, JobIs
<1>5. AfterLeaving("ingest") = IF i.op = "update" THEN "adopt" ELSE "discard"
  BY <1>1 DEF AfterLeaving
<1> HIDE DEF i, j
<1>6. /\ j.op \in {"update", "remove"}
      /\ j.at \in {"free", "regenerate", "adopt", "save", "playout", "discard"}
      /\ j.r \in Rundown /\ lock'[j.r] = "ingest"
      /\ j.at = "discard" => j.op = "remove"
      /\ j.at \in {"save", "playout"} => j.p \in Playlist
      /\ j.op = "update" \/ j.at = "adopt" => j.p \in PlaylistId /\ (j.user \/ j.p # Tmp)
  BY <1>1, <1>3, <1>4, <1>5
<1> QED BY <1>6 DEF IngestShape, j

LEMMA IngestShapeKept ==
  ASSUME JobsOK, RundownsOK, OthersOK, IngestShape, Copies, Whereabouts, StepEffect
  PROVE  IngestShape'
<1>1. ASSUME LeaveEffect("ingest") PROVE  IngestShape'
  BY <1>1, IngestShapeLeave
<1>2. ASSUME RegenerateEffect("ingest") PROVE  IngestShape'
  BY <1>2, IngestShapeRegenerate
<1>3. ASSUME \E r \in Rundown : RefuseEffect(r) \/ UnsyncEffect(r) PROVE  IngestShape'
  BY SMTT(20), <1>3 DEF IngestShape, RefuseEffect, UnsyncEffect, OthersStay, Thread
<1>4. ASSUME \/ \E p \in Playlist : RemovePlaylistEffect(p)
             \/ RemoveEmptyEffect
      PROVE  IngestShape'
  BY SMTT(20), <1>4 DEF IngestShape, RemovePlaylistEffect, JobIs, OthersStay, Thread,
     RemoveEmptyEffect
<1>5. ASSUME DiscardEffect \/ SavePlayoutEffect PROVE  IngestShape'
  BY SMTT(20), <1>5 DEF IngestShape, OthersStay, Thread, DiscardEffect, JobEnds,
     SavePlayoutEffect
<1>6. ASSUME MoveInsertsEffect \/ CleanupEndsEffect PROVE  IngestShape'
  BY SMTT(20), <1>6 DEF IngestShape, JobIs, OthersStay, Thread, JobEnds, MoveInsertsEffect,
     CleanupEndsEffect
<1>7. ASSUME SaveRundownEffect PROVE  IngestShape'
  BY SMTT(15), <1>7 DEF IngestShape, SaveRundownEffect, NoJob, JobGoes, JobIs
<1>8. ASSUME \/ \E r \in Rundown : UpdateEffect(r)
             \/ \E r \in Rundown, p \in Playlist \cup {None} : MoveEffect(r, p)
      PROVE  IngestShape'
  BY SMTT(20), <1>8, RundownsAssumption DEF IngestShape, UpdateEffect, JobIs, Locks, Resource,
     MoveEffect, OthersStay, Thread
<1>9. ASSUME \/ \E p \in Playlist, o \in PlayoutOp : LoadEffect(p, o)
             \/ FindEffect
      PROVE  IngestShape'
  BY SMTT(20), <1>9, RundownsAssumption DEF IngestShape, JobIs, Locks, Resource, OthersStay,
     Thread, LoadEffect, FindEffect
<1>10. ASSUME CleanupRundownEffect \/ CleanupPlaylistEffect PROVE  IngestShape'
  BY SMTT(20), <1>10, RundownsAssumption DEF IngestShape, JobIs, OthersStay, Thread,
     CleanupRundownEffect, CleanupPlaylistEffect
<1>11. ASSUME ForceDeactivateEffect PROVE  IngestShape'
  BY SMTT(20), <1>11, RundownsAssumption DEF IngestShape, JobIs, OthersStay, Thread,
     ForceDeactivateEffect
<1>12. ASSUME \/ \E r \in Rundown : RemoveEffect(r)
              \/ \E t \in Thread : FailEffect(t)
      PROVE  IngestShape'
  BY SMTT(20), <1>12, RundownsAssumption DEF IngestShape, RemoveEffect, JobIs, Locks, Resource,
     Thrown, OthersStay, JobEnds, Frees, Thread, NoJob, FailEffect
<1>13. ASSUME LeaveEffect("studio") \/ RegenerateEffect("studio") PROVE  IngestShape'
  BY SMTT(20), <1>13, RundownsAssumption DEF IngestShape, JobIs, Locks, Resource, LeaveEffect,
     Thrown, OthersStay, JobEnds, Frees, Thread, RegenerateEffect, NoJob, RundownIs
<1>14. ASSUME AdoptEffect \/ MoveIntoEffect PROVE  IngestShape'
  BY SMTT(20), <1>14, RundownsAssumption DEF IngestShape, JobIs, Locks, Resource, Thrown,
     OthersStay, JobEnds, Frees, Thread, AdoptEffect, NoJob, MoveIntoEffect, RundownIs
<1>15. ASSUME MoveOrdersEffect \/ MoveAssignsEffect PROVE  IngestShape'
  BY SMTT(20), <1>15, RundownsAssumption DEF IngestShape, Resource, OthersStay, JobEnds, Frees,
     Thread, NoJob, RundownIs, MoveOrdersEffect, MoveAssignsEffect
<1>16. ASSUME ForceActivateEffect \/ WriteEffect PROVE  IngestShape'
  BY SMTT(20), <1>16, RundownsAssumption DEF IngestShape, JobIs, Resource, Thrown, OthersStay,
     JobEnds, Frees, Thread, NoJob, ForceActivateEffect, JobGoes, WriteEffect
<1> QED BY <1>1, <1>2, <1>3, <1>4, <1>5, <1>6, <1>7, <1>8, <1>9, <1>10, <1>11, <1>12, <1>13,
         <1>14, <1>15, <1>16 DEF StepEffect, Thread

-----------------------------------------------------------------------------
(* Where the studio job is. *)

LEMMA StudioShapeMove ==
  ASSUME StudioShape, RundownsOK, OthersOK, NEW r \in Rundown, NEW p \in Playlist \cup {None},
         MoveEffect(r, p)
  PROVE  StudioShape'
<1> DEFINE j == job'["studio"]
<1>1. /\ j.op = "move" /\ j.at \in {"into", "free"} /\ j.r = r /\ j.p = p
      /\ j.at = "into" => p = rundown[r].playlist
      /\ rundown[r] # None
  BY DEF MoveEffect, JobIs
<1>2. lock'[r] = "studio"
  BY DEF MoveEffect, Locks, Resource
<1>3. j.at = "into" => p \in Playlist
  BY <1>1, DocFields, RundownsAssumption
<1> HIDE DEF j
<1>4. /\ j.op = "move" /\ j.at \in {"free", "regenerate", "into", "order", "insert", "assign"}
      /\ j.r \in Rundown /\ lock'[j.r] = "studio"
      /\ j.at \in {"into", "order", "assign"} => j.p \in Playlist
      /\ j.p \in Playlist \cup {None}
  BY <1>1, <1>2, <1>3
<1> QED BY <1>4 DEF StudioShape, j

LEMMA StudioShapeKept ==
  ASSUME RundownsOK, OthersOK, StudioShape, Copies, StepEffect
  PROVE  StudioShape'
<1>1. ASSUME \E r \in Rundown, p \in Playlist \cup {None} : MoveEffect(r, p) PROVE  StudioShape'
  BY <1>1, StudioShapeMove
<1>2. ASSUME SaveRundownEffect PROVE  StudioShape'
  BY SMTT(15), <1>2, RundownsAssumption DEF StudioShape, SaveRundownEffect, IsActive, JobGoes,
     JobIs, OthersStay, Thread
<1>3. ASSUME MoveAssignsEffect PROVE  StudioShape'
  BY SMTT(15), <1>3 DEF StudioShape, MoveAssignsEffect, JobEnds
<1>4. ASSUME \/ \E p \in Playlist : RemovePlaylistEffect(p)
             \/ RemoveEmptyEffect
      PROVE  StudioShape'
  BY SMTT(20), <1>4, RundownsAssumption DEF StudioShape, RemovePlaylistEffect, IsActive, JobIs,
     PlaylistIs, RemoveEmptyEffect, NoJob, PlayoutOp
<1>5. ASSUME MoveInsertsEffect \/ FindEffect PROVE  StudioShape'
  BY SMTT(20), <1>5, RundownsAssumption DEF StudioShape, IsActive, JobIs, PlaylistIs,
     MoveInsertsEffect, NoJob, FindEffect, RundownsIn, PlayoutOp
<1>6. ASSUME CleanupRundownEffect \/ CleanupPlaylistEffect PROVE  StudioShape'
  BY SMTT(20), <1>6, RundownsAssumption DEF StudioShape, IsActive, JobIs, PlaylistIs, NoJob,
     RundownsIn, CleanupRundownEffect, CleanupPlaylistEffect, PlayoutOp
<1>7. ASSUME ForceDeactivateEffect PROVE  StudioShape'
  BY SMTT(20), <1>7, RundownsAssumption DEF StudioShape, IsActive, JobIs, PlaylistIs, NoJob,
     PlayoutOp, ForceDeactivateEffect
<1>8. ASSUME \E r \in Rundown : UpdateEffect(r) \/ RemoveEffect(r) PROVE  StudioShape'
  BY SMTT(20), <1>8, RundownsAssumption DEF StudioShape, UpdateEffect, IsActive, JobIs, Locks,
     PlaylistId, OthersStay, Resource, Thread, RemoveEffect
<1>9. ASSUME \/ \E t \in Thread : FailEffect(t)
             \/ LeaveEffect("ingest")
      PROVE  StudioShape'
  BY SMTT(20), <1>9, RundownsAssumption DEF StudioShape, IsActive, JobIs, Locks, PlaylistId,
     OthersStay, Resource, Thread, LeaveEffect, Thrown, JobEnds, Frees, FailEffect
<1>10. ASSUME DiscardEffect \/ AdoptEffect PROVE  StudioShape'
  BY SMTT(20), <1>10, RundownsAssumption DEF StudioShape, IsActive, JobIs, Locks, PlaylistId,
     OthersStay, Resource, Thread, Thrown, JobEnds, Frees, DiscardEffect, AdoptEffect,
     PlaylistIs, Kept
<1>11. ASSUME SavePlayoutEffect PROVE  StudioShape'
  BY SMTT(15), <1>11, RundownsAssumption DEF StudioShape, Copies, IsActive, JobIs, Frees,
     PlaylistIs, Kept, HasCopy, PlaylistId, Resource, OthersStay, Thread, NoJob, AfterLeaving,
     SavePlayoutEffect, JobEnds
<1>12. ASSUME RegenerateEffect("ingest") PROVE  StudioShape'
  BY SMTT(15), <1>12, RundownsAssumption DEF StudioShape, RegenerateEffect, Copies, IsActive,
     JobIs, Frees, PlaylistIs, Kept, HasCopy, PlaylistId, Resource, OthersStay, Thread, NoJob,
     AfterLeaving, JobEnds
<1>13. ASSUME RegenerateEffect("studio") PROVE  StudioShape'
  BY SMTT(15), <1>13, RundownsAssumption DEF StudioShape, RegenerateEffect, Copies, IsActive,
     JobIs, Frees, PlaylistIs, Kept, HasCopy, PlaylistId, Resource, OthersStay, Thread, NoJob,
     AfterLeaving, JobEnds
<1>14. ASSUME \E r \in Rundown : RefuseEffect(r) \/ UnsyncEffect(r) PROVE  StudioShape'
  BY SMTT(20), <1>14, RundownsAssumption DEF StudioShape, RefuseEffect, IsActive, UnsyncEffect,
     PlaylistId, NoJob, RundownIs
<1>15. ASSUME \/ \E p \in Playlist, o \in PlayoutOp : LoadEffect(p, o)
              \/ LeaveEffect("studio")
      PROVE  StudioShape'
  BY SMTT(20), <1>15, RundownsAssumption DEF StudioShape, IsActive, LoadEffect, JobIs, Locks,
     Resource, PlaylistId, LeaveEffect, NoJob, Thrown, JobEnds, RundownIs
<1>16. ASSUME MoveIntoEffect \/ MoveOrdersEffect PROVE  StudioShape'
  BY SMTT(20), <1>16, RundownsAssumption DEF StudioShape, IsActive, JobIs, Locks, Resource,
     PlaylistId, NoJob, Thrown, JobEnds, MoveIntoEffect, RundownIs, MoveOrdersEffect
<1>17. ASSUME CleanupEndsEffect \/ ForceActivateEffect PROVE  StudioShape'
  BY SMTT(20), <1>17, RundownsAssumption DEF StudioShape, IsActive, JobIs, Resource, PlaylistId,
     NoJob, Thrown, JobEnds, CleanupEndsEffect, ForceActivateEffect, JobGoes
<1>18. ASSUME WriteEffect PROVE  StudioShape'
  BY SMTT(20), <1>18, RundownsAssumption DEF StudioShape, IsActive, PlaylistId, NoJob, JobEnds,
     WriteEffect
<1> QED BY <1>1, <1>2, <1>3, <1>4, <1>5, <1>6, <1>7, <1>8, <1>9, <1>10, <1>11, <1>12, <1>13,
         <1>14, <1>15, <1>16, <1>17, <1>18 DEF StepEffect, Thread

-----------------------------------------------------------------------------
(* The locks. *)

LEMMA LocksMatchKept ==
  ASSUME StudioShape, LocksMatch, StepEffect
  PROVE  LocksMatch'
<1>1. ASSUME \E r \in Rundown : UpdateEffect(r) \/ RemoveEffect(r) PROVE  LocksMatch'
  BY SMTT(20), <1>1, RundownsAssumption DEF LocksMatch, UpdateEffect, JobIs, Locks, NoJob,
     OthersStay, Thread, Resource, RemoveEffect, StudioShape
<1>2. ASSUME \/ \E r \in Rundown, p \in Playlist \cup {None} : MoveEffect(r, p)
             \/ \E t \in Thread : RegenerateEffect(t)
      PROVE  LocksMatch'
  BY SMTT(20), <1>2, RundownsAssumption DEF LocksMatch, JobIs, Locks, NoJob, OthersStay, Thread,
     Resource, MoveEffect, RegenerateEffect, Frees, StudioShape
<1>3. ASSUME CleanupEndsEffect \/ WriteEffect PROVE  LocksMatch'
  BY SMTT(20), <1>3, RundownsAssumption DEF LocksMatch, NoJob, OthersStay, Thread, Resource,
     Frees, CleanupEndsEffect, StudioShape, JobEnds, WriteEffect
<1>4. ASSUME MoveAssignsEffect PROVE  LocksMatch'
  BY SMTT(15), <1>4, RundownsAssumption DEF LocksMatch, MoveAssignsEffect, JobEnds, Frees,
     OthersStay, Thread
<1>5. ASSUME \E r \in Rundown : RefuseEffect(r) \/ UnsyncEffect(r) PROVE  LocksMatch'
  BY SMTT(20), <1>5, RundownsAssumption DEF LocksMatch, RefuseEffect, UnsyncEffect, OthersStay,
     Thread
<1>6. ASSUME DiscardEffect \/ SavePlayoutEffect PROVE  LocksMatch'
  BY SMTT(20), <1>6, RundownsAssumption DEF LocksMatch, DiscardEffect, JobEnds, Frees,
     OthersStay, Thread, SavePlayoutEffect
<1>7. ASSUME MoveOrdersEffect \/ ForceDeactivateEffect PROVE  LocksMatch'
  BY SMTT(20), <1>7, RundownsAssumption DEF LocksMatch, JobEnds, Frees, OthersStay, Thread,
     MoveOrdersEffect, ForceDeactivateEffect, JobIs
<1>8. ASSUME \/ \E p \in Playlist : RemovePlaylistEffect(p)
             \/ \E p \in Playlist, o \in PlayoutOp : LoadEffect(p, o)
      PROVE  LocksMatch'
  BY SMTT(20), <1>8, RundownsAssumption DEF LocksMatch, RemovePlaylistEffect, JobIs, NoJob,
     OthersStay, Thread, LoadEffect, Locks
<1>9. ASSUME \/ \E t \in Thread : FailEffect(t)
             \/ RemoveEmptyEffect
      PROVE  LocksMatch'
  BY SMTT(20), <1>9, RundownsAssumption DEF LocksMatch, JobIs, NoJob, OthersStay, Thread,
     RemoveEmptyEffect, FailEffect, Thrown, JobEnds, Frees
<1>10. ASSUME MoveInsertsEffect \/ FindEffect PROVE  LocksMatch'
  BY SMTT(20), <1>10, RundownsAssumption DEF LocksMatch, JobIs, OthersStay, Thread,
     MoveInsertsEffect, FindEffect
<1>11. ASSUME CleanupRundownEffect \/ CleanupPlaylistEffect PROVE  LocksMatch'
  BY SMTT(20), <1>11, RundownsAssumption DEF LocksMatch, JobIs, OthersStay, Thread,
     CleanupRundownEffect, CleanupPlaylistEffect
<1>12. ASSUME \/ \E t \in Thread : LeaveEffect(t)
              \/ AdoptEffect
      PROVE  LocksMatch'
  BY SMTT(20), <1>12, RundownsAssumption DEF LocksMatch, LeaveEffect, JobIs, Locks, Thrown,
     OthersStay, JobEnds, Frees, Thread, AdoptEffect, RundownIs
<1>13. ASSUME SaveRundownEffect \/ MoveIntoEffect PROVE  LocksMatch'
  BY SMTT(20), <1>13, RundownsAssumption DEF LocksMatch, JobIs, Locks, Thrown, OthersStay,
     JobEnds, Frees, Thread, SaveRundownEffect, JobGoes, MoveIntoEffect, RundownIs
<1>14. ASSUME ForceActivateEffect PROVE  LocksMatch'
  BY SMTT(20), <1>14, RundownsAssumption DEF LocksMatch, JobIs, Thrown, OthersStay, JobEnds,
     Frees, Thread, JobGoes, ForceActivateEffect
<1> QED BY <1>1, <1>2, <1>3, <1>4, <1>5, <1>6, <1>7, <1>8, <1>9, <1>10, <1>11, <1>12, <1>13,
         <1>14 DEF StepEffect, Thread

-----------------------------------------------------------------------------
(* The copies of playlists. *)

LEMMA CopiesKept ==
  ASSUME IngestShape, StudioShape, Copies, StepEffect
  PROVE  Copies'
<1>1. ASSUME AdoptEffect PROVE  Copies'
  BY SMTT(15), <1>1, RundownsAssumption DEF Copies, IngestShape, HasCopy, JobIs, Locks, Thrown,
     AfterLeaving, NoJob, PlaylistId, OthersStay, Resource, JobEnds, Frees, PlaylistIs, Thread,
     AdoptEffect, Kept
<1>2. ASSUME LeaveEffect("ingest") PROVE  Copies'
  BY SMTT(15), <1>2, RundownsAssumption DEF Copies, LeaveEffect, IngestShape, HasCopy, JobIs,
     Locks, Thrown, AfterLeaving, NoJob, PlaylistId, OthersStay, Resource, JobEnds, Frees,
     PlaylistIs, Thread, Kept
<1>3. ASSUME RegenerateEffect("ingest") PROVE  Copies'
  BY SMTT(15), <1>3, RundownsAssumption DEF Copies, IngestShape, HasCopy, JobIs, Locks, Thrown,
     AfterLeaving, NoJob, PlaylistId, OthersStay, Resource, JobEnds, Frees, RegenerateEffect,
     PlaylistIs, Thread, Kept
<1>4. ASSUME MoveAssignsEffect PROVE  Copies'
  BY SMTT(15), <1>4, RundownsAssumption DEF Copies, MoveAssignsEffect, HasCopy, JobEnds, Frees,
     OthersStay, NoJob, Resource, PlaylistId
<1>5. ASSUME \E r \in Rundown : RefuseEffect(r) \/ UnsyncEffect(r) PROVE  Copies'
  BY SMTT(20), <1>5, RundownsAssumption DEF Copies, RefuseEffect, HasCopy, UnsyncEffect,
     OthersStay, StudioShape, NoJob
<1>6. ASSUME \/ \E p \in Playlist : RemovePlaylistEffect(p)
             \/ RemoveEmptyEffect
      PROVE  Copies'
  BY SMTT(20), <1>6, RundownsAssumption DEF Copies, HasCopy, RemovePlaylistEffect, JobIs,
     PlaylistIs, OthersStay, RemoveEmptyEffect, StudioShape, NoJob
<1>7. ASSUME MoveInsertsEffect \/ FindEffect PROVE  Copies'
  BY SMTT(20), <1>7, RundownsAssumption DEF Copies, HasCopy, JobIs, PlaylistIs, OthersStay,
     MoveInsertsEffect, FindEffect, StudioShape, NoJob
<1>8. ASSUME CleanupRundownEffect \/ CleanupPlaylistEffect PROVE  Copies'
  BY SMTT(20), <1>8, RundownsAssumption DEF Copies, HasCopy, JobIs, PlaylistIs, OthersStay,
     CleanupRundownEffect, CleanupPlaylistEffect, StudioShape, NoJob
<1>9. ASSUME ForceDeactivateEffect PROVE  Copies'
  BY SMTT(20), <1>9, RundownsAssumption DEF Copies, HasCopy, JobIs, PlaylistIs, OthersStay,
     StudioShape, NoJob, ForceDeactivateEffect
<1>10. ASSUME \E r \in Rundown : UpdateEffect(r) \/ RemoveEffect(r) PROVE  Copies'
  BY SMTT(15), <1>10, RundownsAssumption DEF Copies, UpdateEffect, HasCopy, JobIs, Locks,
     PlaylistId, OthersStay, Resource, RemoveEffect, Thrown, JobEnds, Frees, NoJob, JobGoes,
     RundownIs
<1>11. ASSUME \/ \E r \in Rundown, p \in Playlist \cup {None} : MoveEffect(r, p)
             \/ \E p \in Playlist, o \in PlayoutOp : LoadEffect(p, o)
      PROVE  Copies'
  BY SMTT(15), <1>11, RundownsAssumption DEF Copies, HasCopy, JobIs, Locks, PlaylistId,
     OthersStay, Resource, MoveEffect, LoadEffect, Thrown, JobEnds, Frees, NoJob, JobGoes,
     RundownIs
<1>12. ASSUME LeaveEffect("studio") PROVE  Copies'
  BY SMTT(15), <1>12, RundownsAssumption DEF Copies, HasCopy, JobIs, Locks, PlaylistId,
     OthersStay, Resource, LeaveEffect, Thrown, JobEnds, Frees, NoJob, JobGoes, RundownIs
<1>13. ASSUME SaveRundownEffect \/ MoveIntoEffect \/ ForceActivateEffect PROVE  Copies'
  BY SMTT(15), <1>13, RundownsAssumption DEF Copies, HasCopy, JobIs, Locks, PlaylistId,
     OthersStay, Resource, Thrown, JobEnds, Frees, NoJob, SaveRundownEffect, JobGoes,
     MoveIntoEffect, RundownIs, ForceActivateEffect
<1>14. ASSUME \/ \E t \in Thread : FailEffect(t)
              \/ RegenerateEffect("studio")
      PROVE  Copies'
  BY SMTT(20), <1>14, RundownsAssumption DEF Copies, RegenerateEffect, StudioShape, HasCopy,
     JobIs, Frees, PlaylistIs, AfterLeaving, NoJob, PlaylistId, OthersStay, Resource, Thread,
     JobEnds, FailEffect, Thrown
<1>15. ASSUME DiscardEffect \/ SavePlayoutEffect PROVE  Copies'
  BY SMTT(20), <1>15, RundownsAssumption DEF Copies, StudioShape, HasCopy, Frees, PlaylistIs,
     NoJob, PlaylistId, OthersStay, Resource, Thread, DiscardEffect, JobEnds, SavePlayoutEffect
<1>16. ASSUME MoveOrdersEffect \/ CleanupEndsEffect PROVE  Copies'
  BY SMTT(20), <1>16, RundownsAssumption DEF Copies, StudioShape, HasCopy, Frees, PlaylistIs,
     NoJob, PlaylistId, OthersStay, Resource, Thread, JobEnds, MoveOrdersEffect,
     CleanupEndsEffect
<1>17. ASSUME WriteEffect PROVE  Copies'
  BY SMTT(20), <1>17, RundownsAssumption DEF Copies, StudioShape, HasCopy, Frees, PlaylistIs,
     NoJob, PlaylistId, OthersStay, Resource, Thread, JobEnds, WriteEffect
<1> QED BY <1>1, <1>2, <1>3, <1>4, <1>5, <1>6, <1>7, <1>8, <1>9, <1>10, <1>11, <1>12, <1>13,
         <1>14, <1>15, <1>16, <1>17 DEF StepEffect, Thread

-----------------------------------------------------------------------------
(* Where the rundown of a job is. *)

LEMMA WhereaboutsKept ==
  ASSUME IngestShape, StudioShape, Whereabouts, StepEffect
  PROVE  Whereabouts'
<1>1. ASSUME \/ \E t \in Thread : FailEffect(t)
             \/ RegenerateEffect("ingest")
      PROVE  Whereabouts'
  BY SMTT(20), <1>1, RundownsAssumption DEF Whereabouts, RegenerateEffect, IngestShape,
     InPlaylist, JobIs, AfterLeaving, NoJob, OthersStay, Thrown, JobEnds, FailEffect, Thread
<1>2. ASSUME AdoptEffect \/ SavePlayoutEffect PROVE  Whereabouts'
  BY SMTT(20), <1>2, RundownsAssumption DEF Whereabouts, IngestShape, InPlaylist, JobIs, NoJob,
     OthersStay, AdoptEffect, Thrown, JobEnds, SavePlayoutEffect, Thread
<1>3. ASSUME MoveOrdersEffect \/ CleanupEndsEffect PROVE  Whereabouts'
  BY SMTT(20), <1>3, RundownsAssumption DEF Whereabouts, IngestShape, InPlaylist, NoJob,
     OthersStay, JobEnds, MoveOrdersEffect, CleanupEndsEffect, Thread
<1>4. ASSUME ForceActivateEffect \/ WriteEffect PROVE  Whereabouts'
  BY SMTT(20), <1>4, RundownsAssumption DEF Whereabouts, IngestShape, InPlaylist, JobIs, NoJob,
     OthersStay, Thrown, JobEnds, ForceActivateEffect, JobGoes, WriteEffect, Thread
<1>5. ASSUME \E r \in Rundown : UpdateEffect(r) \/ RemoveEffect(r) PROVE  Whereabouts'
  BY SMTT(20), <1>5 DEF Whereabouts, UpdateEffect, InPlaylist, JobIs, OthersStay, RemoveEffect
<1>6. ASSUME \/ \E r \in Rundown, p \in Playlist \cup {None} : MoveEffect(r, p)
             \/ \E p \in Playlist : RemovePlaylistEffect(p)
      PROVE  Whereabouts'
  BY SMTT(20), <1>6 DEF Whereabouts, InPlaylist, JobIs, OthersStay, MoveEffect,
     RemovePlaylistEffect
<1>7. ASSUME \/ \E p \in Playlist, o \in PlayoutOp : LoadEffect(p, o)
             \/ RemoveEmptyEffect
      PROVE  Whereabouts'
  BY SMTT(20), <1>7 DEF Whereabouts, InPlaylist, JobIs, OthersStay, RemoveEmptyEffect,
     LoadEffect
<1>8. ASSUME MoveInsertsEffect \/ FindEffect PROVE  Whereabouts'
  BY SMTT(20), <1>8 DEF Whereabouts, InPlaylist, JobIs, OthersStay, MoveInsertsEffect,
     FindEffect
<1>9. ASSUME \/ \E t \in Thread : LeaveEffect(t)
             \/ SaveRundownEffect
      PROVE  Whereabouts'
  BY SMTT(20), <1>9, RundownsAssumption DEF Whereabouts, LeaveEffect, IngestShape, StudioShape,
     InPlaylist, JobIs, RundownIs, Thrown, AfterLeaving, NoJob, OthersStay, JobEnds, Thread,
     SaveRundownEffect, JobGoes
<1>10. ASSUME MoveIntoEffect \/ MoveAssignsEffect PROVE  Whereabouts'
  BY SMTT(20), <1>10, RundownsAssumption DEF Whereabouts, IngestShape, StudioShape, InPlaylist,
     JobIs, RundownIs, Thrown, NoJob, OthersStay, JobEnds, Thread, MoveIntoEffect,
     MoveAssignsEffect
<1>11. ASSUME \E r \in Rundown : RefuseEffect(r) \/ UnsyncEffect(r) PROVE  Whereabouts'
  BY SMTT(20), <1>11, RundownsAssumption DEF Whereabouts, RefuseEffect, InPlaylist,
     UnsyncEffect, IngestShape, StudioShape, RundownIs, NoJob, Thread, OthersStay
<1>12. ASSUME RegenerateEffect("studio") \/ DiscardEffect PROVE  Whereabouts'
  BY SMTT(20), <1>12, RundownsAssumption DEF Whereabouts, InPlaylist, IngestShape, StudioShape,
     NoJob, Thread, RegenerateEffect, JobIs, AfterLeaving, OthersStay, DiscardEffect, JobEnds,
     RundownGoes
<1>13. ASSUME CleanupRundownEffect \/ CleanupPlaylistEffect PROVE  Whereabouts'
  BY SMTT(20), <1>13, RundownsAssumption DEF Whereabouts, InPlaylist, IngestShape, StudioShape,
     NoJob, Thread, JobIs, OthersStay, RundownGoes, CleanupRundownEffect, CleanupPlaylistEffect
<1>14. ASSUME ForceDeactivateEffect PROVE  Whereabouts'
  BY SMTT(20), <1>14, RundownsAssumption DEF Whereabouts, InPlaylist, IngestShape, StudioShape,
     NoJob, Thread, JobIs, OthersStay, ForceDeactivateEffect
<1> QED BY <1>1, <1>2, <1>3, <1>4, <1>5, <1>6, <1>7, <1>8, <1>9, <1>10, <1>11, <1>12, <1>13,
         <1>14 DEF StepEffect, Thread

-----------------------------------------------------------------------------
(* What the copy of the ingest thread lists is there. *)

LEMMA MovedIsElsewhere ==
  ASSUME Whereabouts, MoveIntoEffect \/ MoveAssignsEffect
  PROVE   \A x \in Rundown, p \in Playlist : InPlaylist(x, p) => InPlaylist(x, p)'
<1> DEFINE j == job["studio"]
<1>1. rundown' = rundown \/ (RundownIs(j.r, j.p, TRUE) /\ InPlaylist(j.r, Tmp))
  BY DEF MoveIntoEffect, MoveAssignsEffect, Whereabouts, Thread, Thrown
<1> QED BY <1>1, RundownsAssumption DEF RundownIs, InPlaylist

LEMMA RemovedIsOff ==
  ASSUME StudioShape, CleanupRundownEffect
  PROVE   /\ job["studio"].p \in Playlist /\ ~IsActive(job["studio"].p)
         /\ \A x \in Rundown, p \in Playlist : p # job["studio"].p /\ InPlaylist(x, p) => InPlaylist(x, p)'
<1> DEFINE j == job["studio"]
<1>1. j.p \in Playlist /\ ~IsActive(j.p)
  BY DEF StudioShape, CleanupRundownEffect, NoJob, PlayoutOp
<1>2. rundown' = rundown \/ \E r : InPlaylist(r, j.p) /\ RundownGoes(r)
  BY DEF CleanupRundownEffect
<1> QED BY <1>1, <1>2 DEF InPlaylist, RundownGoes

LEMMA ListedStayPresent ==
  ASSUME ListedArePresent, Copies, PlaylistsOK, job'["ingest"] = job["ingest"],
         job["ingest"].at \in {"save", "playout"} /\ job["ingest"].list.active =>
           \A x \in Rundown : x # job["ingest"].r /\ InPlaylist(x, job["ingest"].p) => InPlaylist(x, job["ingest"].p)'
  PROVE  ListedArePresent'
<1> DEFINE j == job["ingest"]
<1> SUFFICES ASSUME j.at \in {"save", "playout"}, j.list.active, NEW x \in j.list.listed, x # j.r
             PROVE  InPlaylist(x, j.p)'
  BY DEF ListedArePresent
<1>1. j.list \in PlaylistDoc
  BY DEF Copies, HasCopy, PlaylistsOK, Thread
<1>2. x \in Rundown
  BY <1>1 DEF PlaylistDoc
<1>3. InPlaylist(x, j.p)
  BY DEF ListedArePresent
<1> QED BY <1>2, <1>3

LEMMA ListedUnsync ==
  ASSUME ListedArePresent, Copies, PlaylistsOK, NEW r \in Rundown, UnsyncEffect(r)
  PROVE  ListedArePresent'
<1>1. job' = job /\ RundownIs(r, rundown[r].playlist, rundown[r].setInSofie) /\ rundown[r] # None
  BY DEF UnsyncEffect
<1>2. \A x, p : x \in Rundown /\ InPlaylist(x, p) => InPlaylist(x, p)'
  BY <1>1 DEF RundownIs, InPlaylist
<1> QED BY <1>1, <1>2, ListedStayPresent

LEMMA ListedLeave ==
  ASSUME ListedArePresent, Copies, PlaylistsOK, Whereabouts, LeaveEffect("studio")
  PROVE  ListedArePresent'
<1> DEFINE j == job["studio"]
<1>1. job'["ingest"] = job["ingest"] /\ lock[j.from] = None /\ InPlaylist(j.r, j.from)
  BY DEF LeaveEffect, Thrown, JobEnds, JobIs, OthersStay, Thread, Whereabouts
<1>2. rundown' = rundown \/ \E p, u : RundownIs(j.r, p, u)
  BY DEF LeaveEffect, Thrown
<1>3. \A x, p : x \in Rundown /\ p # j.from /\ InPlaylist(x, p) => InPlaylist(x, p)'
  BY <1>1, <1>2 DEF RundownIs, InPlaylist
<1>4. job["ingest"].at \in {"save", "playout"} => job["ingest"].p # j.from
  BY <1>1, RundownsAssumption DEF Copies, HasCopy, Thread
<1> QED BY <1>1, <1>3, <1>4, ListedStayPresent

LEMMA ListedSave ==
  ASSUME ListedArePresent, Copies, PlaylistsOK, SaveRundownEffect
  PROVE  ListedArePresent'
<1> DEFINE j == job["ingest"]
<1>1. /\ j.at = "save" /\ RundownIs(j.r, j.p, FALSE)
      /\ job'["ingest"].r = j.r /\ job'["ingest"].p = j.p /\ job'["ingest"].list = j.list
  BY DEF SaveRundownEffect, JobGoes, JobIs
<1>2. j.list.listed \subseteq Rundown
  BY <1>1 DEF Copies, HasCopy, PlaylistsOK, PlaylistDoc, Thread
<1>3. \A x, p : x \in Rundown /\ x # j.r /\ InPlaylist(x, p) => InPlaylist(x, p)'
  BY <1>1 DEF RundownIs, InPlaylist
<1> QED BY <1>1, <1>2, <1>3 DEF ListedArePresent

LEMMA ListedMove ==
  ASSUME ListedArePresent, Copies, PlaylistsOK, Whereabouts, MoveIntoEffect \/ MoveAssignsEffect
  PROVE  ListedArePresent'
<1>1. job'["ingest"] = job["ingest"]
  BY DEF MoveIntoEffect, MoveAssignsEffect, Thrown, JobEnds, JobIs, OthersStay, Thread
<1>2. job["ingest"].at \in {"save", "playout"} => job["ingest"].p \in Playlist
  BY DEF Copies, HasCopy, Thread
<1> QED BY <1>1, <1>2, MovedIsElsewhere, ListedStayPresent

LEMMA ListedCleanup ==
  ASSUME ListedArePresent, Copies, PlaylistsOK, StudioShape, CleanupRundownEffect
  PROVE  ListedArePresent'
<1>1. job'["ingest"] = job["ingest"]
  BY DEF CleanupRundownEffect, JobIs, OthersStay, Thread
<1>2. job["ingest"].at \in {"save", "playout"} /\ job["ingest"].list.active =>
        job["ingest"].p \in Playlist /\ job["ingest"].p # job["studio"].p
  BY RemovedIsOff DEF Copies, HasCopy, IsActive, Thread
<1> QED BY <1>1, <1>2, RemovedIsOff, ListedStayPresent

LEMMA ListedArePresentKept ==
  ASSUME PlaylistsOK, IngestShape, StudioShape, Copies, Whereabouts, ListedArePresent,
         StepEffect
  PROVE  ListedArePresent'
<1>1. ASSUME \E r \in Rundown : UnsyncEffect(r) PROVE  ListedArePresent'
  BY <1>1, ListedUnsync
<1>2. ASSUME LeaveEffect("studio") PROVE  ListedArePresent'
  BY <1>2, ListedLeave
<1>3. ASSUME SaveRundownEffect PROVE  ListedArePresent'
  BY <1>3, ListedSave
<1>4. ASSUME MoveIntoEffect \/ MoveAssignsEffect PROVE  ListedArePresent'
  BY <1>4, ListedMove
<1>5. ASSUME CleanupRundownEffect PROVE  ListedArePresent'
  BY <1>5, ListedCleanup
<1>6. ASSUME \/ \E r \in Rundown, p \in Playlist \cup {None} : MoveEffect(r, p)
             \/ \E p \in Playlist : RemovePlaylistEffect(p)
      PROVE  ListedArePresent'
  BY SMTT(20), <1>6 DEF ListedArePresent, MoveEffect, InPlaylist, JobIs, OthersStay, Thread,
     RemovePlaylistEffect
<1>7. ASSUME \/ \E p \in Playlist, o \in PlayoutOp : LoadEffect(p, o)
             \/ RemoveEmptyEffect
      PROVE  ListedArePresent'
  BY SMTT(20), <1>7 DEF ListedArePresent, InPlaylist, JobIs, OthersStay, Thread,
     RemoveEmptyEffect, LoadEffect
<1>8. ASSUME RegenerateEffect("studio") \/ MoveOrdersEffect PROVE  ListedArePresent'
  BY SMTT(20), <1>8 DEF ListedArePresent, InPlaylist, JobIs, OthersStay, Thread,
     RegenerateEffect, MoveOrdersEffect, JobEnds
<1>9. ASSUME CleanupEndsEffect \/ WriteEffect PROVE  ListedArePresent'
  BY SMTT(20), <1>9 DEF ListedArePresent, InPlaylist, OthersStay, Thread, JobEnds,
     CleanupEndsEffect, WriteEffect
<1>10. ASSUME LeaveEffect("ingest") \/ RegenerateEffect("ingest") PROVE  ListedArePresent'
  BY SMTT(20), <1>10, RundownsAssumption DEF ListedArePresent, LeaveEffect, IngestShape, JobIs,
     Thrown, AfterLeaving, NoJob, JobEnds, RegenerateEffect
<1>11. ASSUME DiscardEffect \/ SavePlayoutEffect PROVE  ListedArePresent'
  BY SMTT(20), <1>11, RundownsAssumption DEF ListedArePresent, IngestShape, NoJob, JobEnds,
     DiscardEffect, SavePlayoutEffect
<1>12. ASSUME \E r \in Rundown : UpdateEffect(r) \/ RemoveEffect(r) PROVE  ListedArePresent'
  BY SMTT(20), <1>12, RundownsAssumption DEF ListedArePresent, UpdateEffect, JobIs,
     RemoveEffect, InPlaylist, NoJob, OthersStay, Thread
<1>13. ASSUME \/ \E r \in Rundown : RefuseEffect(r)
              \/ \E t \in Thread : FailEffect(t)
      PROVE  ListedArePresent'
  BY SMTT(20), <1>13, RundownsAssumption DEF ListedArePresent, RefuseEffect, InPlaylist, Thrown,
     JobEnds, NoJob, OthersStay, Thread, FailEffect
<1>14. ASSUME AdoptEffect \/ MoveInsertsEffect PROVE  ListedArePresent'
  BY SMTT(20), <1>14, RundownsAssumption DEF ListedArePresent, JobIs, InPlaylist, AdoptEffect,
     Kept, Thrown, RundownsIn, JobEnds, NoJob, MoveInsertsEffect, OthersStay, Thread
<1>15. ASSUME FindEffect \/ CleanupPlaylistEffect PROVE  ListedArePresent'
  BY SMTT(20), <1>15, RundownsAssumption DEF ListedArePresent, JobIs, InPlaylist, RundownsIn,
     OthersStay, Thread, FindEffect, CleanupPlaylistEffect
<1>16. ASSUME ForceDeactivateEffect \/ ForceActivateEffect PROVE  ListedArePresent'
  BY SMTT(20), <1>16, RundownsAssumption DEF ListedArePresent, JobIs, InPlaylist, Thrown,
     JobEnds, NoJob, OthersStay, Thread, ForceDeactivateEffect, ForceActivateEffect, JobGoes
<1> QED BY <1>1, <1>2, <1>3, <1>4, <1>5, <1>6, <1>7, <1>8, <1>9, <1>10, <1>11, <1>12, <1>13,
         <1>14, <1>15, <1>16 DEF StepEffect, Thread

-----------------------------------------------------------------------------
(* What playout will write is right: the rundowns cannot leave meanwhile, and no other playlist is activated. *)

LEMMA WillStillWrite ==
  ASSUME WillWrite, StudioShape, job'["studio"] = job["studio"], playlist' = playlist,
         job["studio"].at \in {"force", "write"} =>
           \A x \in Rundown : InPlaylist(x, job["studio"].p) => InPlaylist(x, job["studio"].p)'
  PROVE  WillWrite'
<1> DEFINE j == job["studio"]
<1> SUFFICES ASSUME j.at \in {"force", "write"} PROVE WillWrite'
  BY DEF WillWrite
<1>1. j.list \in PlaylistDoc
  BY DEF StudioShape, NoJob
<1>2. {j.list.current, j.list.next} \ {None} \subseteq Rundown
  BY <1>1 DEF PlaylistDoc
<1>3. OthersActive(j.p)' = OthersActive(j.p)
  BY DEF OthersActive, IsActive
<1> HIDE DEF j
<1> QED BY <1>2, <1>3 DEF WillWrite, j

LEMMA PlayedIsElsewhere ==
  ASSUME StudioShape, IngestShape, Whereabouts, Copies, job["studio"].at \in {"force", "write"},
         \/ job["ingest"].at = "free" /\ lock[job["ingest"].from] = None
         \/ job["ingest"].at \in {"discard", "save"}
  PROVE  ~InPlaylist(job["ingest"].r, job["studio"].p)
<1> DEFINE i == job["ingest"]
           p == job["studio"].p
<1>1. p \in Playlist /\ lock[p] = "studio"
  BY DEF StudioShape, NoJob
<1>2. p # Tmp
  BY <1>1, RundownsAssumption
<1>3. CASE i.at = "free" /\ lock[i.from] = None
  BY <1>1, <1>3, RundownsAssumption DEF Whereabouts, InPlaylist, Thread
<1>4. CASE i.at = "discard"
  BY <1>2, <1>4 DEF Whereabouts, InPlaylist, Thread
<1>5. CASE i.at = "save"
  <2>1. lock[i.p] = "ingest"
    BY <1>5 DEF Copies, HasCopy, Thread
  <2> QED BY <1>1, <1>2, <1>5, <2>1 DEF Whereabouts, InPlaylist, Thread
<1> QED BY <1>3, <1>4, <1>5

LEMMA WillWriteUnsync ==
  ASSUME WillWrite, StudioShape, RundownsOK, NEW r \in Rundown, UnsyncEffect(r)
  PROVE  WillWrite'
<1>1. job' = job /\ playlist' = playlist /\ RundownIs(r, rundown[r].playlist, rundown[r].setInSofie)
      /\ rundown[r] # None
  BY DEF UnsyncEffect
<1>2. \A x, p : x \in Rundown /\ InPlaylist(x, p) => InPlaylist(x, p)'
  BY <1>1 DEF RundownIs, InPlaylist
<1> QED BY <1>1, <1>2, WillStillWrite

LEMMA WillWriteDiscard ==
  ASSUME WillWrite, StudioShape, IngestShape, Whereabouts, Copies, DiscardEffect
  PROVE  WillWrite'
<1>1. job'["studio"] = job["studio"] /\ playlist' = playlist /\ RundownGoes(job["ingest"].r) /\ job["ingest"].at = "discard"
  BY DEF DiscardEffect, JobEnds, OthersStay, Thread
<1>2. \A x, p : x \in Rundown /\ x # job["ingest"].r /\ InPlaylist(x, p) => InPlaylist(x, p)'
  BY <1>1 DEF RundownGoes, InPlaylist
<1> QED BY <1>1, <1>2, WillStillWrite, PlayedIsElsewhere

LEMMA WillWriteSave ==
  ASSUME WillWrite, StudioShape, IngestShape, Whereabouts, Copies, SaveRundownEffect
  PROVE  WillWrite'
<1>1. job'["studio"] = job["studio"] /\ playlist' = playlist /\ job["ingest"].at = "save"
      /\ RundownIs(job["ingest"].r, job["ingest"].p, FALSE)
  BY DEF SaveRundownEffect, JobGoes, JobIs, OthersStay, Thread
<1>2. \A x, p : x \in Rundown /\ x # job["ingest"].r /\ InPlaylist(x, p) => InPlaylist(x, p)'
  BY <1>1 DEF RundownIs, InPlaylist
<1> QED BY <1>1, <1>2, WillStillWrite, PlayedIsElsewhere

LEMMA WillWriteLeave ==
  ASSUME WillWrite, StudioShape, IngestShape, Whereabouts, Copies, LeaveEffect("ingest")
  PROVE  WillWrite'
<1>1. job'["studio"] = job["studio"] /\ playlist' = playlist /\ job["ingest"].at = "free" /\ lock[job["ingest"].from] = None
  BY DEF LeaveEffect, Thrown, JobEnds, JobIs, OthersStay, Thread
<1>2. rundown' = rundown \/ \E p, u : RundownIs(job["ingest"].r, p, u)
  BY DEF LeaveEffect, Thrown
<1>3. \A x, p : x \in Rundown /\ x # job["ingest"].r /\ InPlaylist(x, p) => InPlaylist(x, p)'
  BY <1>2 DEF RundownIs, InPlaylist
<1> QED BY <1>1, <1>3, WillStillWrite, PlayedIsElsewhere

LEMMA WillWriteKept ==
  ASSUME RundownsOK, IngestShape, StudioShape, Copies, Whereabouts, WillWrite,
         OneActivePlaylist, OnAirRundownsStay, StepEffect
  PROVE  WillWrite'
<1>1. ASSUME \E r \in Rundown : UnsyncEffect(r) PROVE  WillWrite'
  BY <1>1, WillWriteUnsync
<1>2. ASSUME LeaveEffect("ingest") PROVE  WillWrite'
  BY <1>2, WillWriteLeave
<1>3. ASSUME DiscardEffect PROVE  WillWrite'
  BY <1>3, WillWriteDiscard
<1>4. ASSUME SaveRundownEffect PROVE  WillWrite'
  BY <1>4, WillWriteSave
<1>5. ASSUME \/ \E t \in Thread : FailEffect(t)
             \/ RegenerateEffect("ingest")
      PROVE  WillWrite'
  BY SMTT(20), <1>5, RundownsAssumption DEF WillWrite, RegenerateEffect, OthersActive,
     InPlaylist, JobIs, PlaylistIs, Kept, IsActive, OthersStay, Thread, Thrown, JobEnds, NoJob,
     FailEffect
<1>6. ASSUME AdoptEffect \/ SavePlayoutEffect PROVE  WillWrite'
  BY SMTT(20), <1>6, RundownsAssumption DEF WillWrite, OthersActive, InPlaylist, JobIs,
     PlaylistIs, Kept, IsActive, OthersStay, Thread, AdoptEffect, Thrown, JobEnds,
     SavePlayoutEffect, NoJob
<1>7. ASSUME ForceActivateEffect PROVE  WillWrite'
  BY SMTT(20), <1>7, RundownsAssumption DEF WillWrite, OthersActive, InPlaylist, JobIs,
     IsActive, OthersStay, Thread, Thrown, JobEnds, ForceActivateEffect, JobGoes, NoJob
<1>8. ASSUME \E r \in Rundown : UpdateEffect(r) \/ RemoveEffect(r) PROVE  WillWrite'
  BY SMTT(20), <1>8, RundownsAssumption DEF WillWrite, UpdateEffect, OthersActive, InPlaylist,
     JobIs, IsActive, OthersStay, Thread, RemoveEffect, OnAirRundownsStay, OneActivePlaylist,
     NoJob
<1>9. ASSUME \/ \E r \in Rundown, p \in Playlist \cup {None} : MoveEffect(r, p)
             \/ \E p \in Playlist : RemovePlaylistEffect(p)
      PROVE  WillWrite'
  BY SMTT(20), <1>9, RundownsAssumption DEF WillWrite, OthersActive, InPlaylist, JobIs,
     IsActive, OthersStay, Thread, MoveEffect, RemovePlaylistEffect, OnAirRundownsStay,
     OneActivePlaylist, NoJob
<1>10. ASSUME \/ \E p \in Playlist, o \in PlayoutOp : LoadEffect(p, o)
              \/ RemoveEmptyEffect
      PROVE  WillWrite'
  BY SMTT(20), <1>10, RundownsAssumption DEF WillWrite, OthersActive, InPlaylist, JobIs,
     IsActive, OthersStay, Thread, RemoveEmptyEffect, LoadEffect, OnAirRundownsStay,
     OneActivePlaylist, RundownsIn, NoJob
<1>11. ASSUME MoveInsertsEffect \/ FindEffect PROVE  WillWrite'
  BY SMTT(20), <1>11, RundownsAssumption DEF WillWrite, OthersActive, InPlaylist, JobIs,
     IsActive, OthersStay, Thread, OnAirRundownsStay, OneActivePlaylist, RundownsIn,
     MoveInsertsEffect, FindEffect
<1>12. ASSUME CleanupRundownEffect \/ WriteEffect PROVE  WillWrite'
  BY SMTT(20), <1>12, RundownsAssumption DEF WillWrite, OthersActive, InPlaylist, JobIs,
     IsActive, OthersStay, Thread, OnAirRundownsStay, OneActivePlaylist, CleanupRundownEffect,
     WriteEffect, JobEnds, NoJob
<1>13. ASSUME \/ \E r \in Rundown : RefuseEffect(r)
              \/ LeaveEffect("studio")
      PROVE  WillWrite'
  BY SMTT(20), <1>13, RundownsAssumption DEF WillWrite, RefuseEffect, OthersActive, InPlaylist,
     IsActive, LeaveEffect, JobIs, Thrown, JobEnds, NoJob, StudioShape, AfterLeaving, RundownIs,
     PlayoutOp
<1>14. ASSUME RegenerateEffect("studio") \/ MoveIntoEffect PROVE  WillWrite'
  BY SMTT(20), <1>14, RundownsAssumption DEF WillWrite, OthersActive, InPlaylist, IsActive,
     JobIs, Thrown, JobEnds, NoJob, RegenerateEffect, StudioShape, AfterLeaving, MoveIntoEffect,
     RundownIs, PlayoutOp
<1>15. ASSUME MoveOrdersEffect \/ MoveAssignsEffect PROVE  WillWrite'
  BY SMTT(20), <1>15, RundownsAssumption DEF WillWrite, OthersActive, InPlaylist, IsActive,
     JobEnds, NoJob, StudioShape, RundownIs, MoveOrdersEffect, MoveAssignsEffect, PlayoutOp
<1>16. ASSUME CleanupPlaylistEffect \/ CleanupEndsEffect PROVE  WillWrite'
  BY SMTT(20), <1>16, RundownsAssumption DEF WillWrite, OthersActive, InPlaylist, IsActive,
     JobIs, JobEnds, NoJob, StudioShape, CleanupPlaylistEffect, PlayoutOp, CleanupEndsEffect
<1>17. ASSUME ForceDeactivateEffect PROVE  WillWrite'
  BY SMTT(20), <1>17, RundownsAssumption DEF WillWrite, OthersActive, InPlaylist, IsActive,
     JobIs, NoJob, StudioShape, PlayoutOp, ForceDeactivateEffect
<1> QED BY <1>1, <1>2, <1>3, <1>4, <1>5, <1>6, <1>7, <1>8, <1>9, <1>10, <1>11, <1>12, <1>13,
         <1>14, <1>15, <1>16, <1>17 DEF StepEffect, Thread

-----------------------------------------------------------------------------
(* A playlist that is off has nothing on air. *)

LEMMA InactiveIsOffKept ==
  ASSUME WillWrite, InactiveIsOff, StepEffect
  PROVE  InactiveIsOff'
<1>1. ASSUME KeepsPlaylists PROVE  InactiveIsOff'
  BY <1>1, PlaylistsUntouched DEF InactiveIsOff
<1>2. ASSUME AdoptEffect \/ SavePlayoutEffect PROVE  InactiveIsOff'
  BY SMTT(20), <1>2, RundownsAssumption DEF InactiveIsOff, AdoptEffect, PlaylistIs, Kept,
     Thrown, SavePlayoutEffect, WillWrite
<1>3. ASSUME MoveOrdersEffect \/ WriteEffect PROVE  InactiveIsOff'
  BY SMTT(20), <1>3, RundownsAssumption DEF InactiveIsOff, PlaylistIs, Kept, MoveOrdersEffect,
     WriteEffect, WillWrite
<1>4. ASSUME \E t \in Thread : RegenerateEffect(t) PROVE  InactiveIsOff'
  BY SMTT(15), <1>4, RundownsAssumption DEF InactiveIsOff, RegenerateEffect, PlaylistIs, Kept,
     Thread
<1>5. ASSUME \E p \in Playlist : RemovePlaylistEffect(p) PROVE  InactiveIsOff'
  BY SMTT(20), <1>5 DEF InactiveIsOff, RemovePlaylistEffect, PlaylistIs
<1>6. ASSUME MoveInsertsEffect \/ CleanupPlaylistEffect PROVE  InactiveIsOff'
  BY SMTT(20), <1>6 DEF InactiveIsOff, MoveInsertsEffect, CleanupPlaylistEffect, PlaylistIs
<1>7. ASSUME ForceDeactivateEffect PROVE  InactiveIsOff'
  BY SMTT(20), <1>7 DEF InactiveIsOff, ForceDeactivateEffect, PlaylistIs
<1> QED BY <1>1, <1>2, <1>3, <1>4, <1>5, <1>6, <1>7 DEF StepEffect, Thread, KeepsPlaylists

-----------------------------------------------------------------------------
(* The playlist made for a moved rundown. *)

LEMMA FreshStaysUnknownKept ==
  ASSUME IngestShape, StudioShape, Copies, Whereabouts, FreshStaysUnknown, StepEffect
  PROVE  FreshStaysUnknown'
<1>1. ASSUME \/ \E r \in Rundown, p \in Playlist \cup {None} : MoveEffect(r, p)
             \/ \E p \in Playlist : RemovePlaylistEffect(p)
      PROVE  FreshStaysUnknown'
  BY SMTT(20), <1>1, RundownsAssumption DEF FreshStaysUnknown, MoveEffect, JobIs,
     RemovePlaylistEffect, StudioShape, NoJob
<1>2. ASSUME \/ \E p \in Playlist, o \in PlayoutOp : LoadEffect(p, o)
             \/ RemoveEmptyEffect
      PROVE  FreshStaysUnknown'
  BY SMTT(20), <1>2, RundownsAssumption DEF FreshStaysUnknown, JobIs, RemoveEmptyEffect,
     LoadEffect, StudioShape, NoJob
<1>3. ASSUME FindEffect \/ CleanupRundownEffect PROVE  FreshStaysUnknown'
  BY SMTT(20), <1>3, RundownsAssumption DEF FreshStaysUnknown, JobIs, FindEffect,
     CleanupRundownEffect, StudioShape, NoJob
<1>4. ASSUME CleanupPlaylistEffect \/ ForceDeactivateEffect PROVE  FreshStaysUnknown'
  BY SMTT(20), <1>4, RundownsAssumption DEF FreshStaysUnknown, JobIs, CleanupPlaylistEffect,
     StudioShape, NoJob, ForceDeactivateEffect
<1>5. ASSUME LeaveEffect("ingest") \/ AdoptEffect PROVE  FreshStaysUnknown'
  <2>1. CASE LeaveEffect("ingest")
    BY SMTT(20), <2>1, RundownsAssumption DEF FreshStaysUnknown, LeaveEffect, StudioShape,
       RundownsIn, JobIs, RundownIs, Thrown, NoJob, PlaylistId, OthersStay, JobEnds, Thread
  <2>2. CASE AdoptEffect
    BY SMTT(20), <2>2, RundownsAssumption DEF FreshStaysUnknown, AdoptEffect, StudioShape,
       RundownsIn, JobIs, RundownIs, Thrown, NoJob, PlaylistId, OthersStay, JobEnds, Thread,
       PlaylistIs, Kept
  <2> QED BY <1>5, <2>1, <2>2
<1>6. ASSUME RegenerateEffect("ingest") PROVE  FreshStaysUnknown'
  BY SMTT(15), <1>6, RundownsAssumption DEF FreshStaysUnknown, RegenerateEffect, StudioShape,
     RundownsIn, JobIs, PlaylistIs, NoJob, PlaylistId, OthersStay, Thread
<1>7. ASSUME \/ \E t \in Thread : FailEffect(t)
             \/ LeaveEffect("studio")
      PROVE  FreshStaysUnknown'
  BY SMTT(20), <1>7, RundownsAssumption DEF FreshStaysUnknown, LeaveEffect, JobIs, Thrown,
     JobEnds, NoJob, StudioShape, AfterLeaving, RundownsIn, PlaylistId, OthersStay, Thread,
     FailEffect
<1>8. ASSUME RegenerateEffect("studio") \/ DiscardEffect PROVE  FreshStaysUnknown'
  BY SMTT(20), <1>8, RundownsAssumption DEF FreshStaysUnknown, JobIs, JobEnds, NoJob,
     RegenerateEffect, StudioShape, AfterLeaving, DiscardEffect, RundownsIn, RundownGoes,
     PlaylistId, OthersStay, Thread, PlaylistIs
<1>9. ASSUME SavePlayoutEffect \/ MoveIntoEffect PROVE  FreshStaysUnknown'
  BY SMTT(20), <1>9, RundownsAssumption DEF FreshStaysUnknown, JobIs, Thrown, JobEnds, NoJob,
     StudioShape, RundownsIn, PlaylistId, OthersStay, Thread, SavePlayoutEffect, PlaylistIs,
     MoveIntoEffect
<1>10. ASSUME MoveOrdersEffect \/ CleanupEndsEffect PROVE  FreshStaysUnknown'
  BY SMTT(20), <1>10, RundownsAssumption DEF FreshStaysUnknown, JobEnds, NoJob, StudioShape,
     RundownsIn, PlaylistId, OthersStay, Thread, PlaylistIs, MoveOrdersEffect, CleanupEndsEffect
<1>11. ASSUME ForceActivateEffect \/ WriteEffect PROVE  FreshStaysUnknown'
  BY SMTT(20), <1>11, RundownsAssumption DEF FreshStaysUnknown, JobIs, Thrown, JobEnds, NoJob,
     StudioShape, RundownsIn, PlaylistId, OthersStay, Thread, PlaylistIs, ForceActivateEffect,
     JobGoes, WriteEffect
<1>12. ASSUME \E r \in Rundown : UpdateEffect(r) \/ RemoveEffect(r) PROVE  FreshStaysUnknown'
  BY SMTT(20), <1>12, RundownsAssumption DEF FreshStaysUnknown, UpdateEffect, RundownsIn, JobIs,
     OthersStay, Thread, RemoveEffect, NoJob, Whereabouts, IngestShape, Copies, InPlaylist,
     HasCopy
<1>13. ASSUME \E r \in Rundown : RefuseEffect(r) \/ UnsyncEffect(r) PROVE  FreshStaysUnknown'
  BY SMTT(20), <1>13, RundownsAssumption DEF FreshStaysUnknown, RundownsIn, OthersStay, Thread,
     NoJob, RefuseEffect, UnsyncEffect, RundownIs, Whereabouts, IngestShape, Copies, InPlaylist,
     HasCopy
<1>14. ASSUME SaveRundownEffect \/ MoveInsertsEffect PROVE  FreshStaysUnknown'
  BY SMTT(20), <1>14, RundownsAssumption DEF FreshStaysUnknown, RundownsIn, JobIs, OthersStay,
     Thread, NoJob, RundownIs, SaveRundownEffect, JobGoes, MoveInsertsEffect, Whereabouts,
     IngestShape, Copies, PlaylistIs, InPlaylist, HasCopy
<1>15. ASSUME MoveAssignsEffect PROVE  FreshStaysUnknown'
  BY SMTT(20), <1>15, RundownsAssumption DEF FreshStaysUnknown, RundownsIn, OthersStay, Thread,
     NoJob, RundownIs, Whereabouts, IngestShape, Copies, InPlaylist, HasCopy, MoveAssignsEffect,
     JobEnds
<1> QED BY <1>1, <1>2, <1>3, <1>4, <1>5, <1>6, <1>7, <1>8, <1>9, <1>10, <1>11, <1>12, <1>13,
         <1>14, <1>15 DEF StepEffect, Thread

-----------------------------------------------------------------------------
(* The choice of the user. *)

LEMMA UserIsKnownKept ==
  ASSUME IngestShape, StudioShape, Whereabouts, UserIsKnown, StepEffect
  PROVE  UserIsKnown'
<1>1. ASSUME \/ \E r \in Rundown, p \in Playlist \cup {None} : MoveEffect(r, p)
             \/ \E p \in Playlist : RemovePlaylistEffect(p)
      PROVE  UserIsKnown'
  BY SMTT(20), <1>1 DEF UserIsKnown, MoveEffect, JobIs, OthersStay, Thread,
     RemovePlaylistEffect, NoJob
<1>2. ASSUME RemoveEmptyEffect \/ DiscardEffect PROVE  UserIsKnown'
  BY SMTT(20), <1>2 DEF UserIsKnown, JobIs, OthersStay, Thread, RemoveEmptyEffect,
     DiscardEffect, JobEnds, NoJob
<1>3. ASSUME SavePlayoutEffect \/ MoveOrdersEffect PROVE  UserIsKnown'
  BY SMTT(20), <1>3 DEF UserIsKnown, OthersStay, Thread, JobEnds, NoJob, SavePlayoutEffect,
     MoveOrdersEffect
<1>4. ASSUME CleanupEndsEffect \/ WriteEffect PROVE  UserIsKnown'
  BY SMTT(20), <1>4 DEF UserIsKnown, OthersStay, Thread, JobEnds, NoJob, CleanupEndsEffect,
     WriteEffect
<1>5. ASSUME \/ \E t \in Thread : LeaveEffect(t)
             \/ MoveIntoEffect
      PROVE  UserIsKnown'
  BY SMTT(15), <1>5, RundownsAssumption DEF UserIsKnown, LeaveEffect, IngestShape, Whereabouts,
     JobIs, RundownIs, Thrown, AfterLeaving, NoJob, InPlaylist, JobEnds, Thread, StudioShape,
     OthersStay, MoveIntoEffect
<1>6. ASSUME \E r \in Rundown : UpdateEffect(r) \/ RemoveEffect(r) PROVE  UserIsKnown'
  BY SMTT(20), <1>6 DEF UserIsKnown, UpdateEffect, JobIs, RemoveEffect, OthersStay, Thread
<1>7. ASSUME RegenerateEffect("studio") \/ MoveInsertsEffect PROVE  UserIsKnown'
  BY SMTT(20), <1>7 DEF UserIsKnown, JobIs, RegenerateEffect, OthersStay, Thread,
     MoveInsertsEffect
<1>8. ASSUME FindEffect \/ CleanupPlaylistEffect PROVE  UserIsKnown'
  BY SMTT(20), <1>8 DEF UserIsKnown, JobIs, OthersStay, Thread, FindEffect,
     CleanupPlaylistEffect
<1>9. ASSUME ForceDeactivateEffect PROVE  UserIsKnown'
  BY SMTT(20), <1>9 DEF UserIsKnown, JobIs, OthersStay, Thread, ForceDeactivateEffect
<1>10. ASSUME \E r \in Rundown : RefuseEffect(r) \/ UnsyncEffect(r) PROVE  UserIsKnown'
  BY SMTT(20), <1>10, RundownsAssumption DEF UserIsKnown, RefuseEffect, IngestShape, NoJob,
     Thread, UnsyncEffect, RundownIs, OthersStay, StudioShape
<1>11. ASSUME \/ \E p \in Playlist, o \in PlayoutOp : LoadEffect(p, o)
              \/ \E t \in Thread : FailEffect(t)
      PROVE  UserIsKnown'
  BY SMTT(20), <1>11, RundownsAssumption DEF UserIsKnown, IngestShape, NoJob, Thread,
     LoadEffect, JobIs, OthersStay, Thrown, JobEnds, StudioShape, FailEffect
<1>12. ASSUME RegenerateEffect("ingest") \/ AdoptEffect PROVE  UserIsKnown'
  BY SMTT(20), <1>12, RundownsAssumption DEF UserIsKnown, IngestShape, NoJob, Thread, JobIs,
     OthersStay, RegenerateEffect, AfterLeaving, AdoptEffect, Thrown, JobEnds, StudioShape
<1>13. ASSUME SaveRundownEffect \/ MoveAssignsEffect PROVE  UserIsKnown'
  BY SMTT(20), <1>13, RundownsAssumption DEF UserIsKnown, IngestShape, NoJob, Thread, RundownIs,
     JobIs, OthersStay, JobEnds, SaveRundownEffect, JobGoes, MoveAssignsEffect, StudioShape
<1>14. ASSUME CleanupRundownEffect \/ ForceActivateEffect PROVE  UserIsKnown'
  BY SMTT(20), <1>14, RundownsAssumption DEF UserIsKnown, IngestShape, NoJob, Thread, JobIs,
     OthersStay, Thrown, JobEnds, JobGoes, StudioShape, CleanupRundownEffect, RundownGoes,
     ForceActivateEffect
<1> QED BY <1>1, <1>2, <1>3, <1>4, <1>5, <1>6, <1>7, <1>8, <1>9, <1>10, <1>11, <1>12, <1>13,
         <1>14 DEF StepEffect, Thread

-----------------------------------------------------------------------------
(* One active playlist. *)

LEMMA OneActivePlaylistKept ==
  ASSUME WillWrite, OneActivePlaylist, StepEffect
  PROVE  OneActivePlaylist'
<1>1. ASSUME KeepsPlaylists PROVE  OneActivePlaylist'
  BY <1>1, PlaylistsUntouched DEF OneActivePlaylist, IsActive
<1>2. ASSUME WriteEffect PROVE  OneActivePlaylist'
  BY SMTT(10), <1>2, RundownsAssumption DEF OneActivePlaylist, IsActive, WriteEffect, WillWrite,
     PlaylistIs, OthersActive
<1>3. ASSUME AdoptEffect PROVE  OneActivePlaylist'
  BY SMTT(15), <1>3, RundownsAssumption DEF OneActivePlaylist, IsActive, AdoptEffect, Thrown,
     PlaylistIs, Kept
<1>4. ASSUME \E p \in Playlist : RemovePlaylistEffect(p) PROVE  OneActivePlaylist'
  BY SMTT(20), <1>4, RundownsAssumption DEF OneActivePlaylist, IsActive, RemovePlaylistEffect,
     PlaylistIs
<1>5. ASSUME CleanupPlaylistEffect PROVE  OneActivePlaylist'
  BY SMTT(20), <1>5, RundownsAssumption DEF OneActivePlaylist, IsActive, CleanupPlaylistEffect,
     PlaylistIs
<1>6. ASSUME ForceDeactivateEffect PROVE  OneActivePlaylist'
  BY SMTT(20), <1>6, RundownsAssumption DEF OneActivePlaylist, IsActive, ForceDeactivateEffect,
     PlaylistIs
<1>7. ASSUME \/ \E t \in Thread : RegenerateEffect(t)
             \/ SavePlayoutEffect
      PROVE  OneActivePlaylist'
  BY SMTT(20), <1>7, RundownsAssumption DEF OneActivePlaylist, IsActive, RegenerateEffect,
     SavePlayoutEffect, PlaylistIs, Kept, Thread
<1>8. ASSUME MoveOrdersEffect \/ MoveInsertsEffect PROVE  OneActivePlaylist'
  BY SMTT(20), <1>8, RundownsAssumption DEF OneActivePlaylist, IsActive, MoveOrdersEffect,
     MoveInsertsEffect, PlaylistIs, Kept, Thread
<1> QED BY <1>1, <1>2, <1>3, <1>4, <1>5, <1>6, <1>7, <1>8 DEF StepEffect, Thread, KeepsPlaylists

-----------------------------------------------------------------------------
(* The rundowns on air and next. *)

LEMMA OnAirStays ==
  ASSUME OnAirRundownsStay, PlaylistsOK, playlist' = playlist,
         \A p \in Playlist : playlist[p] # None =>
           \A x \in {playlist[p].current, playlist[p].next} \cap Rundown :
             InPlaylist(x, p) => InPlaylist(x, p)'
  PROVE  OnAirRundownsStay'
<1> SUFFICES ASSUME NEW p \in Playlist, playlist[p] # None,
                    NEW x \in {playlist[p].current, playlist[p].next} \ {None}
             PROVE  InPlaylist(x, p)'
  BY DEF OnAirRundownsStay, InPlaylist
<1>1. playlist[p] \in PlaylistDoc
  BY DEF PlaylistsOK
<1>2. x \in Rundown
  BY <1>1 DEF PlaylistDoc
<1>3. InPlaylist(x, p)
  BY DEF OnAirRundownsStay, InPlaylist
<1> QED BY <1>2, <1>3

LEMMA OnAirUnsync ==
  ASSUME OnAirRundownsStay, PlaylistsOK, NEW r \in Rundown, UnsyncEffect(r)
  PROVE  OnAirRundownsStay'
<1>1. playlist' = playlist /\ RundownIs(r, rundown[r].playlist, rundown[r].setInSofie) /\ rundown[r] # None
  BY DEF UnsyncEffect
<1>2. \A x \in Rundown, p \in Playlist : InPlaylist(x, p) => InPlaylist(x, p)'
  BY <1>1 DEF RundownIs, InPlaylist
<1> QED BY <1>1, <1>2, OnAirStays

LEMMA OnAirLeave ==
  ASSUME OnAirRundownsStay, PlaylistsOK, InactiveIsOff, Whereabouts, IngestShape, StudioShape,
         NEW t \in Thread, LeaveEffect(t)
  PROVE  OnAirRundownsStay'
<1> DEFINE r == job[t].r
           from == job[t].from
           Left == /\ RundownIs(r, Tmp, rundown[r].setInSofie)
                   /\ \/ ReadPlaylist(from) = None
                      \/ from \in Playlist /\ playlist[from] # None /\ MayLeave(playlist[from], r)
<1>1. playlist' = playlist
  BY DEF LeaveEffect, Thrown
<1>2. InPlaylist(r, from)
  BY DEF LeaveEffect, Whereabouts
<1>3. CASE rundown' = rundown
  BY <1>1, <1>3 DEF OnAirRundownsStay
<1>4. CASE Left
  <2>1. r # None
    BY RundownsAssumption DEF IngestShape, StudioShape, LeaveEffect, NoJob, Thread, PlayoutOp
  <2>2. \A x \in Rundown, p \in Playlist : x # r /\ InPlaylist(x, p) => InPlaylist(x, p)'
    BY <1>4 DEF RundownIs, InPlaylist
  <2>3. ASSUME NEW p \in Playlist, playlist[p] # None, InPlaylist(r, p) PROVE r \notin {playlist[p].current, playlist[p].next}
    <3>1. p = from
      BY <1>2, <2>3 DEF InPlaylist
    <3>2. MayLeave(playlist[p], r)
      BY <1>4, <2>3, <3>1, RundownsAssumption DEF ReadPlaylist
    <3>3. CASE playlist[p].active
      BY <3>2, <3>3 DEF MayLeave
    <3>4. CASE ~playlist[p].active
      BY <2>1, <2>3, <3>4 DEF InactiveIsOff
    <3> QED BY <3>3, <3>4
  <2> QED BY <1>1, <2>2, <2>3, OnAirStays
<1>5. rundown' = rundown \/ Left
  BY Zenon DEF LeaveEffect, Thrown
<1> HIDE DEF Left
<1> QED BY <1>3, <1>4, <1>5

LEMMA OnAirDiscard ==
  ASSUME OnAirRundownsStay, PlaylistsOK, Whereabouts, DiscardEffect
  PROVE  OnAirRundownsStay'
<1>1. playlist' = playlist /\ RundownGoes(job["ingest"].r) /\ InPlaylist(job["ingest"].r, Tmp)
  BY DEF DiscardEffect, Whereabouts, Thread
<1>2. \A x \in Rundown, p \in Playlist : InPlaylist(x, p) => InPlaylist(x, p)'
  BY <1>1, RundownsAssumption DEF RundownGoes, InPlaylist
<1> QED BY <1>1, <1>2, OnAirStays

LEMMA OnAirSave ==
  ASSUME OnAirRundownsStay, PlaylistsOK, Whereabouts, SaveRundownEffect
  PROVE  OnAirRundownsStay'
<1> DEFINE r == job["ingest"].r
<1>1. playlist' = playlist /\ RundownIs(r, job["ingest"].p, FALSE)
      /\ (rundown[r] = None \/ rundown[r].playlist \in {Tmp, job["ingest"].p})
  BY DEF SaveRundownEffect, Whereabouts, Thread
<1>2. \A x \in Rundown, p \in Playlist : InPlaylist(x, p) => InPlaylist(x, p)'
  BY <1>1, RundownsAssumption DEF RundownIs, InPlaylist
<1> QED BY <1>1, <1>2, OnAirStays

LEMMA OnAirMove ==
  ASSUME OnAirRundownsStay, PlaylistsOK, Whereabouts, MoveIntoEffect \/ MoveAssignsEffect
  PROVE  OnAirRundownsStay'
<1>1. playlist' = playlist
  BY DEF MoveIntoEffect, MoveAssignsEffect, Thrown
<1> QED BY <1>1, MovedIsElsewhere, OnAirStays

LEMMA OnAirCleanup ==
  ASSUME OnAirRundownsStay, PlaylistsOK, InactiveIsOff, StudioShape, CleanupRundownEffect
  PROVE  OnAirRundownsStay'
<1>1. playlist' = playlist
  BY DEF CleanupRundownEffect
<1>2. playlist[job["studio"].p] # None => playlist[job["studio"].p].current = None /\ playlist[job["studio"].p].next = None
  BY RemovedIsOff DEF InactiveIsOff, IsActive
<1> QED BY <1>1, <1>2, RemovedIsOff, OnAirStays, RundownsAssumption

LEMMA OnAirRundownsStayKept ==
  ASSUME PlaylistsOK, IngestShape, StudioShape, Copies, Whereabouts, ListedArePresent,
         WillWrite, InactiveIsOff, OnAirRundownsStay, StepEffect
  PROVE  OnAirRundownsStay'
<1>1. ASSUME \E r \in Rundown : UnsyncEffect(r) PROVE  OnAirRundownsStay'
  BY <1>1, OnAirUnsync
<1>2. ASSUME \E t \in Thread : LeaveEffect(t) PROVE  OnAirRundownsStay'
  BY <1>2, OnAirLeave
<1>3. ASSUME DiscardEffect PROVE  OnAirRundownsStay'
  BY <1>3, OnAirDiscard
<1>4. ASSUME SaveRundownEffect PROVE  OnAirRundownsStay'
  BY <1>4, OnAirSave
<1>5. ASSUME MoveIntoEffect \/ MoveAssignsEffect PROVE  OnAirRundownsStay'
  BY <1>5, OnAirMove
<1>6. ASSUME CleanupRundownEffect PROVE  OnAirRundownsStay'
  BY <1>6, OnAirCleanup
<1>7. ASSUME \E r \in Rundown, p \in Playlist \cup {None} : MoveEffect(r, p) PROVE  OnAirRundownsStay'
  BY SMTT(15), <1>7 DEF OnAirRundownsStay, MoveEffect
<1>8. ASSUME RemoveEmptyEffect PROVE  OnAirRundownsStay'
  BY SMTT(15), <1>8 DEF OnAirRundownsStay, RemoveEmptyEffect
<1>9. ASSUME \E p \in Playlist, o \in PlayoutOp : LoadEffect(p, o) PROVE  OnAirRundownsStay'
  BY SMTT(15), <1>9 DEF OnAirRundownsStay, LoadEffect
<1>10. ASSUME \E p \in Playlist : RemovePlaylistEffect(p) PROVE  OnAirRundownsStay'
  BY SMTT(15), <1>10 DEF OnAirRundownsStay, RemovePlaylistEffect, PlaylistIs
<1>11. ASSUME RegenerateEffect("studio") \/ AdoptEffect PROVE  OnAirRundownsStay'
  BY SMTT(20), <1>11, RundownsAssumption DEF OnAirRundownsStay, RegenerateEffect, PlaylistIs,
     Kept, RundownsIn, AdoptEffect, Thrown
<1>12. ASSUME MoveOrdersEffect \/ MoveInsertsEffect PROVE  OnAirRundownsStay'
  BY SMTT(20), <1>12, RundownsAssumption DEF OnAirRundownsStay, PlaylistIs, Kept, RundownsIn,
     MoveOrdersEffect, MoveInsertsEffect
<1>13. ASSUME \/ \E t \in Thread : FailEffect(t)
              \/ RegenerateEffect("ingest")
      PROVE  OnAirRundownsStay'
  BY SMTT(20), <1>13, RundownsAssumption DEF OnAirRundownsStay, RegenerateEffect, PlaylistIs,
     Kept, RundownsIn, Whereabouts, Copies, ListedArePresent, InPlaylist, HasCopy, Thread,
     Thrown, WillWrite, FailEffect
<1>14. ASSUME SavePlayoutEffect \/ ForceActivateEffect PROVE  OnAirRundownsStay'
  BY SMTT(20), <1>14, RundownsAssumption DEF OnAirRundownsStay, PlaylistIs, Kept,
     SavePlayoutEffect, Whereabouts, Copies, ListedArePresent, InPlaylist, HasCopy, Thread,
     ForceActivateEffect, Thrown, WillWrite
<1>15. ASSUME WriteEffect PROVE  OnAirRundownsStay'
  BY SMTT(20), <1>15, RundownsAssumption DEF OnAirRundownsStay, PlaylistIs, Whereabouts, Copies,
     ListedArePresent, InPlaylist, HasCopy, Thread, WriteEffect, WillWrite
<1>16. ASSUME \E r \in Rundown : UpdateEffect(r) \/ RemoveEffect(r) PROVE  OnAirRundownsStay'
  BY SMTT(20), <1>16 DEF OnAirRundownsStay, UpdateEffect, RemoveEffect
<1>17. ASSUME \/ \E r \in Rundown : RefuseEffect(r)
              \/ FindEffect
      PROVE  OnAirRundownsStay'
  BY SMTT(20), <1>17 DEF OnAirRundownsStay, RefuseEffect, FindEffect
<1>18. ASSUME CleanupPlaylistEffect \/ CleanupEndsEffect PROVE  OnAirRundownsStay'
  BY SMTT(20), <1>18 DEF OnAirRundownsStay, CleanupPlaylistEffect, PlaylistIs, CleanupEndsEffect
<1>19. ASSUME ForceDeactivateEffect PROVE  OnAirRundownsStay'
  BY SMTT(20), <1>19 DEF OnAirRundownsStay, PlaylistIs, ForceDeactivateEffect
<1> QED BY <1>1, <1>2, <1>3, <1>4, <1>5, <1>6, <1>7, <1>8, <1>9, <1>10, <1>11, <1>12, <1>13,
         <1>14, <1>15, <1>16, <1>17, <1>18, <1>19 DEF StepEffect, Thread

-----------------------------------------------------------------------------
(* No rundown is lost. *)

LEMMA HomelessAsBefore ==
  ASSUME rundown' = rundown,
         \A p \in Playlist : playlist'[p] = None => playlist[p] = None \/ RundownsIn(p) = {}
  PROVE  \A r \in Rundown : (rundown[r] # None => rundown[r].playlist \in PlaylistId) => (Homeless(r)' => Homeless(r))
<1> SUFFICES ASSUME NEW r \in Rundown, rundown[r] # None, rundown[r].playlist \in PlaylistId, Homeless(r)'
             PROVE  Homeless(r)
  BY DEF Homeless
<1>1. CASE rundown[r].playlist = Tmp
  BY <1>1 DEF Homeless, ReadPlaylist
<1>2. CASE rundown[r].playlist \in Playlist
  <2>1. r \in RundownsIn(rundown[r].playlist)
    BY DEF RundownsIn
  <2> QED BY <1>2, <2>1, RundownsAssumption DEF Homeless, ReadPlaylist
<1> QED BY <1>1, <1>2 DEF PlaylistId

LEMMA HomesAsBefore ==
  ASSUME RundownsOK, EveryRundownHasAPlaylist, rundown' = rundown, abandoned' = abandoned,
         \A p \in Playlist : playlist'[p] = None => playlist[p] = None \/ RundownsIn(p) = {},
         job'["studio"] = job["studio"] \/ job["studio"].op # "removePlaylist",
         \A r \in Rundown : lock[r] # None /\ lock'[r] = None => ~Homeless(r)'
  PROVE  EveryRundownHasAPlaylist'
<1>1. \A r \in Rundown : Homeless(r)' => Homeless(r)
  BY HomelessAsBefore, DocFields
<1> QED BY <1>1 DEF EveryRundownHasAPlaylist

LEMMA HomesRemove ==
  ASSUME RundownsOK, EveryRundownHasAPlaylist, NEW p \in Playlist, RemovePlaylistEffect(p)
  PROVE  EveryRundownHasAPlaylist'
<1> SUFFICES ASSUME NEW r \in Rundown, Homeless(r)', rundown[r].playlist # p
             PROVE  lock[r] # None \/ r \in abandoned
  BY DEF EveryRundownHasAPlaylist, RemovePlaylistEffect, JobIs, Thread
<1>1. job["studio"] = NoJob
  BY DEF RemovePlaylistEffect
<1>2. Homeless(r)
  BY DEF RemovePlaylistEffect, PlaylistIs, Homeless, ReadPlaylist, RundownsOK, RundownDoc,
     PlaylistId
<1> QED BY <1>1, <1>2 DEF EveryRundownHasAPlaylist, NoJob

LEMMA HomesRegenerate ==
  ASSUME RundownsOK, OthersOK, EveryRundownHasAPlaylist, IngestShape, StudioShape, Copies,
         NEW t \in Thread, RegenerateEffect(t) PROVE EveryRundownHasAPlaylist'
<1> DEFINE from == job[t].from
<1>1. rundown' = rundown /\ abandoned' = abandoned
  BY DEF RegenerateEffect
<1>2. from \in Playlist
  BY DEF RegenerateEffect, Copies, HasCopy
<1>3. \A p \in Playlist : playlist'[p] = None => playlist[p] = None \/ RundownsIn(p) = {}
  BY <1>2, RundownsAssumption DEF RegenerateEffect, PlaylistIs, Kept
<1>4. job'["studio"] = job["studio"] \/ job["studio"].op # "removePlaylist"
  BY DEF RegenerateEffect, JobIs, OthersStay, StudioShape, NoJob, Thread, PlayoutOp
<1>5. \A r \in Rundown : lock'[r] = lock[r]
  BY <1>2, RundownsAssumption DEF RegenerateEffect, Frees, Resource, PlaylistId
<1> QED BY <1>1, <1>3, <1>4, <1>5, HomesAsBefore

LEMMA HomesAdopt ==
  ASSUME RundownsOK, OthersOK, EveryRundownHasAPlaylist, IngestShape, LocksMatch, AdoptEffect
  PROVE  EveryRundownHasAPlaylist'
<1> DEFINE j == job["ingest"]
<1>1. CASE Thrown("ingest")
  <2>1. \A r \in Rundown : lock[r] # None /\ lock'[r] = None => r = j.r
    BY <1>1, RundownsAssumption DEF Thrown, Frees, Resource, LocksMatch, AdoptEffect
  <2>2. job'["studio"] = job["studio"]
    BY <1>1 DEF Thrown, JobEnds, OthersStay, Thread
  <2>3. \A r \in Rundown : Homeless(r)' <=> Homeless(r)
    BY <1>1 DEF Thrown, Homeless, ReadPlaylist
  <2>4. j.r \in Rundown /\ Homeless(j.r) => j.r \in abandoned'
    BY <1>1 DEF Thrown, LeftBehind
  <2>5. abandoned \subseteq abandoned' /\ rundown' = rundown
    BY <1>1 DEF Thrown
  <2> QED BY <2>1, <2>2, <2>3, <2>4, <2>5 DEF EveryRundownHasAPlaylist
<1>2. CASE ~Thrown("ingest")
  <2>1. /\ rundown' = rundown /\ abandoned' = abandoned
        /\ j.p \in Playlist /\ Locks("ingest", j.p)
        /\ \E new \in PlaylistDoc : PlaylistIs(j.p, new)
        /\ job'["studio"] = job["studio"]
    BY <1>2 DEF AdoptEffect, JobIs, OthersStay, Thread
  <2>2. \A p \in Playlist : playlist'[p] = None => playlist[p] = None
    BY <2>1, RundownsAssumption DEF PlaylistIs
  <2>3. \A r \in Rundown : lock'[r] = lock[r]
    BY <2>1, RundownsAssumption DEF Locks, Resource, PlaylistId
  <2> QED BY <2>1, <2>2, <2>3, HomesAsBefore
<1> QED BY <1>1, <1>2

LEMMA HomesPlayout ==
  ASSUME RundownsOK, OthersOK, EveryRundownHasAPlaylist, IngestShape, StudioShape, Copies, LocksMatch, Whereabouts,
         NEW t \in Thread, \/ t = "ingest" /\ SavePlayoutEffect
                           \/ t = "studio" /\ MoveOrdersEffect
  PROVE  EveryRundownHasAPlaylist'
<1> DEFINE j == job[t]
<1>1. /\ rundown' = rundown /\ abandoned' = abandoned
      /\ j.at \in {"playout", "order"} /\ JobEnds(t) /\ Frees(t, {j.p, j.r})
      /\ \E new \in PlaylistDoc : PlaylistIs(j.p, new)
  BY DEF SavePlayoutEffect, MoveOrdersEffect
<1>2. j.p \in Playlist /\ InPlaylist(j.r, j.p) /\ j.r \in Rundown
  BY <1>1 DEF Copies, HasCopy, Whereabouts, IngestShape, StudioShape, NoJob, Thread, PlayoutOp
<1>3. /\ \A p \in Playlist : playlist'[p] = None => playlist[p] = None
      /\ \A p \in Playlist : p = j.p => playlist'[p] # None
  BY <1>1, <1>2, RundownsAssumption DEF PlaylistIs
<1>4. \A r \in Rundown : r = j.r => ~Homeless(r)'
  BY <1>1, <1>2, <1>3, RundownsAssumption DEF Homeless, ReadPlaylist, InPlaylist
<1>5. \A r \in Rundown : lock[r] # None /\ lock'[r] = None => r = j.r
  BY <1>1, <1>2, RundownsAssumption DEF Frees, Resource, PlaylistId
<1>6. job'["studio"] = job["studio"] \/ job["studio"].op # "removePlaylist"
  BY <1>1 DEF JobEnds, OthersStay, StudioShape, NoJob, Thread, PlayoutOp
<1> QED BY <1>1, <1>3, <1>4, <1>5, <1>6, HomesAsBefore

LEMMA HomesInserts ==
  ASSUME RundownsOK, EveryRundownHasAPlaylist, StudioShape, MoveInsertsEffect \/ ForceDeactivateEffect
  PROVE  EveryRundownHasAPlaylist'
<1>1. /\ rundown' = rundown /\ abandoned' = abandoned /\ lock' = lock
      /\ job["studio"].at \in {"insert", "force"}
      /\ playlist' = playlist \/ \E p \in Playlist, new \in PlaylistDoc : PlaylistIs(p, new)
  BY DEF MoveInsertsEffect, ForceDeactivateEffect, StudioShape, NoJob, PlayoutOp
<1>2. \A p \in Playlist : playlist'[p] = None => playlist[p] = None
  BY <1>1, RundownsAssumption DEF PlaylistIs
<1>3. job["studio"].op # "removePlaylist"
  BY <1>1 DEF StudioShape, NoJob, PlayoutOp
<1> QED BY <1>1, <1>2, <1>3, HomesAsBefore

LEMMA HomesCleanup ==
  ASSUME RundownsOK, EveryRundownHasAPlaylist, StudioShape, CleanupPlaylistEffect
  PROVE  EveryRundownHasAPlaylist'
<1>1. /\ rundown' = rundown /\ abandoned' = abandoned /\ lock' = lock
      /\ job["studio"].op = "removeEmpty"
      /\ playlist' = playlist \/ \E p : RundownsIn(p) = {} /\ PlaylistIs(p, None)
  BY DEF CleanupPlaylistEffect
<1>2. \A p \in Playlist : playlist'[p] = None => playlist[p] = None \/ RundownsIn(p) = {}
  BY <1>1 DEF PlaylistIs
<1> QED BY <1>1, <1>2, HomesAsBefore

LEMMA HomesWrite ==
  ASSUME RundownsOK, EveryRundownHasAPlaylist, StudioShape, WriteEffect
  PROVE  EveryRundownHasAPlaylist'
<1> DEFINE j == job["studio"]
<1>1. /\ rundown' = rundown /\ abandoned' = abandoned
      /\ j.op \in PlayoutOp /\ j.p \in Playlist /\ j.list \in PlaylistDoc
      /\ PlaylistIs(j.p, j.list) /\ Frees("studio", {j.p})
  BY DEF WriteEffect, StudioShape, NoJob
<1>2. \A p \in Playlist : playlist'[p] = None => playlist[p] = None
  BY <1>1, RundownsAssumption DEF PlaylistIs
<1>3. \A r \in Rundown : lock'[r] = lock[r]
  BY <1>1, RundownsAssumption DEF Frees, Resource, PlaylistId
<1>4. j.op # "removePlaylist"
  BY <1>1 DEF PlayoutOp
<1> QED BY <1>1, <1>2, <1>3, <1>4, HomesAsBefore

LEMMA EveryRundownHasAPlaylistKept ==
  ASSUME RundownsOK, OthersOK, IngestShape, StudioShape, LocksMatch, Copies, Whereabouts,
         FreshStaysUnknown, EveryRundownHasAPlaylist, StepEffect
  PROVE  EveryRundownHasAPlaylist'
<1>1. ASSUME \E p \in Playlist : RemovePlaylistEffect(p) PROVE  EveryRundownHasAPlaylist'
  BY <1>1, HomesRemove
<1>2. ASSUME \E t \in Thread : RegenerateEffect(t) PROVE  EveryRundownHasAPlaylist'
  BY <1>2, HomesRegenerate
<1>3. ASSUME AdoptEffect PROVE  EveryRundownHasAPlaylist'
  BY <1>3, HomesAdopt
<1>4. ASSUME SavePlayoutEffect \/ MoveOrdersEffect PROVE  EveryRundownHasAPlaylist'
  BY <1>4, HomesPlayout DEF Thread
<1>5. ASSUME MoveInsertsEffect \/ ForceDeactivateEffect PROVE  EveryRundownHasAPlaylist'
  BY <1>5, HomesInserts
<1>6. ASSUME CleanupPlaylistEffect PROVE  EveryRundownHasAPlaylist'
  BY <1>6, HomesCleanup
<1>7. ASSUME WriteEffect PROVE  EveryRundownHasAPlaylist'
  BY <1>7, HomesWrite
<1>8. ASSUME \E p \in Playlist, o \in PlayoutOp : LoadEffect(p, o) PROVE  EveryRundownHasAPlaylist'
  BY SMTT(15), <1>8, RundownsAssumption DEF EveryRundownHasAPlaylist, LoadEffect, Homeless,
     Locks, NoJob, ReadPlaylist, Resource
<1>9. ASSUME RemoveEmptyEffect PROVE  EveryRundownHasAPlaylist'
  BY SMTT(15), <1>9, RundownsAssumption DEF EveryRundownHasAPlaylist, RemoveEmptyEffect,
     Homeless, NoJob, ReadPlaylist
<1>10. ASSUME \E r \in Rundown : UpdateEffect(r) \/ RemoveEffect(r)
      PROVE  EveryRundownHasAPlaylist'
  BY SMTT(20), <1>10, RundownsAssumption DEF EveryRundownHasAPlaylist, UpdateEffect, Homeless,
     JobIs, Locks, ReadPlaylist, OthersStay, Resource, Thread, RemoveEffect, IngestShape, NoJob,
     Copies, StudioShape, LocksMatch, HasCopy, PlaylistId
<1>11. ASSUME \/ \E t \in Thread : FailEffect(t)
              \/ DiscardEffect
      PROVE  EveryRundownHasAPlaylist'
  BY SMTT(20), <1>11, RundownsAssumption DEF EveryRundownHasAPlaylist, Homeless, ReadPlaylist,
     OthersStay, Resource, Thread, DiscardEffect, JobEnds, Frees, RundownGoes, IngestShape,
     NoJob, FailEffect, Copies, StudioShape, LocksMatch, Thrown, HasCopy, PlaylistId, LeftBehind
<1>12. ASSUME SaveRundownEffect \/ FindEffect PROVE  EveryRundownHasAPlaylist'
  BY SMTT(20), <1>12, RundownsAssumption DEF EveryRundownHasAPlaylist, Homeless, JobIs,
     ReadPlaylist, OthersStay, Resource, Thread, SaveRundownEffect, IngestShape, JobGoes,
     RundownIs, NoJob, FindEffect, RundownsIn, Copies, StudioShape, LocksMatch, HasCopy,
     PlaylistId
<1>13. ASSUME CleanupRundownEffect PROVE  EveryRundownHasAPlaylist'
  BY SMTT(20), <1>13, RundownsAssumption DEF EveryRundownHasAPlaylist, Homeless, JobIs,
     ReadPlaylist, OthersStay, Resource, Thread, RundownGoes, IngestShape, NoJob,
     CleanupRundownEffect, InPlaylist, Copies, StudioShape, LocksMatch, HasCopy, PlaylistId
<1>14. ASSUME \E r \in Rundown : RefuseEffect(r) \/ UnsyncEffect(r)
      PROVE  EveryRundownHasAPlaylist'
  BY SMTT(20), <1>14, RundownsAssumption DEF EveryRundownHasAPlaylist, RefuseEffect, Homeless,
     ReadPlaylist, UnsyncEffect, RundownIs, StudioShape, FreshStaysUnknown, NoJob, Resource,
     LocksMatch, PlaylistId
<1>15. ASSUME MoveAssignsEffect \/ CleanupEndsEffect PROVE  EveryRundownHasAPlaylist'
  BY SMTT(20), <1>15, RundownsAssumption DEF EveryRundownHasAPlaylist, Homeless, ReadPlaylist,
     RundownIs, MoveAssignsEffect, StudioShape, FreshStaysUnknown, Frees, NoJob, Resource,
     CleanupEndsEffect, LocksMatch, PlaylistId
<1>16. ASSUME ForceActivateEffect PROVE  EveryRundownHasAPlaylist'
  BY SMTT(20), <1>16, RundownsAssumption DEF EveryRundownHasAPlaylist, Homeless, ReadPlaylist,
     StudioShape, FreshStaysUnknown, Frees, NoJob, Resource, ForceActivateEffect, LocksMatch,
     Thrown, PlaylistId
<1>17. ASSUME \E r \in Rundown, p \in Playlist \cup {None} : MoveEffect(r, p)
      PROVE  EveryRundownHasAPlaylist'
  BY SMTT(15), <1>17, RundownsAssumption DEF EveryRundownHasAPlaylist, MoveEffect, Homeless,
     Locks, NoJob, ReadPlaylist, Resource, IngestShape, LocksMatch, JobIs, RundownIs, Thrown,
     OthersStay, JobEnds, Frees, LeftBehind, Thread, StudioShape
<1>18. ASSUME LeaveEffect("ingest") PROVE  EveryRundownHasAPlaylist'
  BY SMTT(15), <1>18, RundownsAssumption DEF EveryRundownHasAPlaylist, Homeless, Locks, NoJob,
     ReadPlaylist, Resource, LeaveEffect, IngestShape, LocksMatch, JobIs, RundownIs, Thrown,
     OthersStay, JobEnds, Frees, LeftBehind, Thread, StudioShape
<1>19. ASSUME LeaveEffect("studio") PROVE  EveryRundownHasAPlaylist'
  BY SMTT(15), <1>19, RundownsAssumption DEF EveryRundownHasAPlaylist, Homeless, Locks, NoJob,
     ReadPlaylist, Resource, LeaveEffect, IngestShape, LocksMatch, JobIs, RundownIs, Thrown,
     OthersStay, JobEnds, Frees, LeftBehind, Thread, StudioShape
<1>20. ASSUME MoveIntoEffect PROVE  EveryRundownHasAPlaylist'
  BY SMTT(15), <1>20, RundownsAssumption DEF EveryRundownHasAPlaylist, Homeless, Locks, NoJob,
     ReadPlaylist, Resource, IngestShape, LocksMatch, JobIs, RundownIs, Thrown, OthersStay,
     JobEnds, Frees, LeftBehind, Thread, StudioShape, MoveIntoEffect
<1> QED BY <1>1, <1>2, <1>3, <1>4, <1>5, <1>6, <1>7, <1>8, <1>9, <1>10, <1>11, <1>12, <1>13,
         <1>14, <1>15, <1>16, <1>17, <1>18, <1>19, <1>20 DEF StepEffect, Thread

-----------------------------------------------------------------------------
(* Stale rundowns. *)

LEMMA StaleRegenerate ==
  ASSUME StaleAreKnown, OthersOK, Copies, NEW t \in Thread, RegenerateEffect(t)
  PROVE  StaleAreKnown'
<1>1. job[t].from \in Playlist
  BY DEF RegenerateEffect, Copies, HasCopy
<1>2. \A r \in Rundown : lock'[r] = lock[r]
  BY <1>1, RundownsAssumption DEF RegenerateEffect, Frees, Resource, PlaylistId
<1>3. rundown' = rundown /\ stale' = stale /\ faults' = faults
  BY DEF RegenerateEffect
<1> QED BY <1>2, <1>3 DEF StaleAreKnown, OthersOK

LEMMA StaleLeave ==
  ASSUME StaleAreKnown, OthersOK, IngestShape, StudioShape, LocksMatch, UserIsKnown,
         Whereabouts, NEW t \in Thread, LeaveEffect(t)
  PROVE  StaleAreKnown'
<1> DEFINE j == job[t]
<1>1. stale' = stale /\ faults' = faults /\ stale \subseteq Rundown
  BY DEF LeaveEffect, Thrown, OthersOK
<1>2. CASE Thrown(t) /\ (t = "ingest" => j.user)
  <2>1. rundown' = rundown
    BY <1>2 DEF Thrown
  <2>2. \A r \in Rundown : lock'[r] # "ingest" => lock[r] # "ingest" \/ (t = "ingest" /\ r = j.r)
    BY <1>2, RundownsAssumption DEF Thrown, Frees, LocksMatch, Resource, LeaveEffect, Thread
  <2>3. t = "ingest" => rundown[j.r] # None /\ rundown[j.r].setInSofie
    BY <1>2 DEF LeaveEffect, UserIsKnown, Whereabouts, InPlaylist
  <2> QED BY <1>1, <2>1, <2>2, <2>3 DEF StaleAreKnown
<1>3. CASE ~(Thrown(t) /\ (t = "ingest" => j.user))
  <2>1. \/ rundown' = rundown
        \/ /\ RundownIs(j.r, Tmp, rundown[j.r].setInSofie)
           /\ rundown'[j.r].orphaned = rundown[j.r].orphaned
    BY <1>3 DEF LeaveEffect
  <2>2. \A r \in Rundown : lock'[r] # "ingest" => lock[r] # "ingest"
    <3>1. lock' = lock \/ (Locks(t, j.from) /\ lock[j.from] = None)
      BY <1>3 DEF LeaveEffect
    <3> HIDE DEF j
    <3> QED BY <3>1, RundownsAssumption DEF Locks, Resource, Thread
  <2>3. rundown[j.r] # None
    BY DEF LeaveEffect, Whereabouts, InPlaylist
  <2> QED BY <1>1, <2>1, <2>2, <2>3 DEF StaleAreKnown, RundownIs
<1> QED BY <1>2, <1>3

LEMMA StaleAreKnownKept ==
  ASSUME JobsOK, OthersOK, IngestShape, StudioShape, LocksMatch, Copies, Whereabouts,
         UserIsKnown, StaleAreKnown, StepEffect
  PROVE  StaleAreKnown'
<1>1. ASSUME \E t \in Thread : RegenerateEffect(t) PROVE  StaleAreKnown'
  BY <1>1, StaleRegenerate
<1>2. ASSUME \E t \in Thread : LeaveEffect(t) PROVE  StaleAreKnown'
  BY <1>2, StaleLeave
<1>3. ASSUME \E r \in Rundown, p \in Playlist \cup {None} : MoveEffect(r, p) PROVE  StaleAreKnown'
  BY SMTT(15), <1>3, RundownsAssumption DEF StaleAreKnown, MoveEffect, Locks, Resource,
     OthersOK, Thread
<1>4. ASSUME \E p \in Playlist : RemovePlaylistEffect(p) PROVE  StaleAreKnown'
  BY SMTT(15), <1>4 DEF StaleAreKnown, RemovePlaylistEffect
<1>5. ASSUME RemoveEmptyEffect PROVE  StaleAreKnown'
  BY SMTT(15), <1>5 DEF StaleAreKnown, RemoveEmptyEffect
<1>6. ASSUME \E p \in Playlist, o \in PlayoutOp : LoadEffect(p, o) PROVE  StaleAreKnown'
  BY SMTT(15), <1>6, RundownsAssumption DEF StaleAreKnown, LoadEffect, Locks, Resource,
     OthersOK, Thread
<1>7. ASSUME DiscardEffect \/ SavePlayoutEffect PROVE  StaleAreKnown'
  BY SMTT(20), <1>7, RundownsAssumption DEF StaleAreKnown, Frees, Resource, OthersOK,
     DiscardEffect, RundownGoes, SavePlayoutEffect, UserIsKnown, IngestShape, NoJob, PlaylistId
<1>8. ASSUME MoveOrdersEffect \/ MoveAssignsEffect PROVE  StaleAreKnown'
  BY SMTT(20), <1>8, RundownsAssumption DEF StaleAreKnown, Frees, Resource, OthersOK,
     UserIsKnown, IngestShape, NoJob, PlaylistId, MoveOrdersEffect, MoveAssignsEffect, RundownIs
<1>9. ASSUME ForceActivateEffect \/ WriteEffect PROVE  StaleAreKnown'
  BY SMTT(20), <1>9, RundownsAssumption DEF StaleAreKnown, Frees, Resource, OthersOK,
     UserIsKnown, IngestShape, NoJob, PlaylistId, ForceActivateEffect, Thrown, WriteEffect
<1>10. ASSUME \/ \E r \in Rundown : RefuseEffect(r)
              \/ FindEffect
      PROVE  StaleAreKnown'
  BY SMTT(20), <1>10, RundownsAssumption DEF StaleAreKnown, RefuseEffect, FindEffect, OthersOK
<1>11. ASSUME CleanupRundownEffect \/ CleanupPlaylistEffect PROVE  StaleAreKnown'
  BY SMTT(20), <1>11, RundownsAssumption DEF StaleAreKnown, CleanupRundownEffect, RundownGoes,
     OthersOK, CleanupPlaylistEffect
<1>12. ASSUME CleanupEndsEffect \/ ForceDeactivateEffect PROVE  StaleAreKnown'
  BY SMTT(20), <1>12, RundownsAssumption DEF StaleAreKnown, OthersOK, CleanupEndsEffect,
     ForceDeactivateEffect
<1>13. ASSUME \E r \in Rundown : UpdateEffect(r) \/ RemoveEffect(r) PROVE  StaleAreKnown'
  BY SMTT(20), <1>13, RundownsAssumption DEF StaleAreKnown, UpdateEffect, Locks, Resource,
     OthersOK, RemoveEffect, UserIsKnown, LocksMatch, Whereabouts, InPlaylist, Thread, JobsOK
<1>14. ASSUME \/ \E r \in Rundown : UnsyncEffect(r)
              \/ \E t \in Thread : FailEffect(t)
      PROVE  StaleAreKnown'
  BY SMTT(20), <1>14, RundownsAssumption DEF StaleAreKnown, Resource, OthersOK, UnsyncEffect,
     RundownIs, UserIsKnown, LocksMatch, Whereabouts, Thrown, InPlaylist, Thread, Frees, JobsOK,
     FailEffect
<1>15. ASSUME AdoptEffect \/ SaveRundownEffect PROVE  StaleAreKnown'
  BY SMTT(20), <1>15, RundownsAssumption DEF StaleAreKnown, Locks, Resource, OthersOK,
     RundownIs, UserIsKnown, LocksMatch, Whereabouts, Thrown, InPlaylist, Thread, Frees,
     AdoptEffect, JobsOK, SaveRundownEffect
<1>16. ASSUME MoveIntoEffect \/ MoveInsertsEffect PROVE  StaleAreKnown'
  BY SMTT(20), <1>16, RundownsAssumption DEF StaleAreKnown, Locks, Resource, OthersOK,
     RundownIs, UserIsKnown, LocksMatch, Whereabouts, Thrown, InPlaylist, Thread, Frees, JobsOK,
     MoveIntoEffect, MoveInsertsEffect
<1> QED BY <1>1, <1>2, <1>3, <1>4, <1>5, <1>6, <1>7, <1>8, <1>9, <1>10, <1>11, <1>12, <1>13,
         <1>14, <1>15, <1>16 DEF StepEffect, Thread

-----------------------------------------------------------------------------
(* Who moves a rundown that a user has placed. *)

LEMMA UserChoiceKept ==
  ASSUME IngestShape, StudioShape, UserIsKnown, StepEffect
  PROVE  \A r \in Rundown :
       /\ rundown[r] # None /\ rundown[r].setInSofie
       /\ rundown'[r] # None /\ rundown'[r].playlist # rundown[r].playlist
       => \/ job["studio"].op = "move" /\ job["studio"].r = r
          \/ job["ingest"].op = "remove" /\ job["ingest"].r = r
<1>1. ASSUME RegenerateEffect("studio") \/ SavePlayoutEffect
      PROVE  \A r \in Rundown :
       /\ rundown[r] # None /\ rundown[r].setInSofie
       /\ rundown'[r] # None /\ rundown'[r].playlist # rundown[r].playlist
       => \/ job["studio"].op = "move" /\ job["studio"].r = r
          \/ job["ingest"].op = "remove" /\ job["ingest"].r = r
  BY SMTT(20), <1>1 DEF RegenerateEffect, SavePlayoutEffect
<1>2. ASSUME MoveOrdersEffect \/ MoveInsertsEffect
      PROVE  \A r \in Rundown :
       /\ rundown[r] # None /\ rundown[r].setInSofie
       /\ rundown'[r] # None /\ rundown'[r].playlist # rundown[r].playlist
       => \/ job["studio"].op = "move" /\ job["studio"].r = r
          \/ job["ingest"].op = "remove" /\ job["ingest"].r = r
  BY SMTT(20), <1>2 DEF MoveOrdersEffect, MoveInsertsEffect
<1>3. ASSUME FindEffect \/ CleanupPlaylistEffect
      PROVE  \A r \in Rundown :
       /\ rundown[r] # None /\ rundown[r].setInSofie
       /\ rundown'[r] # None /\ rundown'[r].playlist # rundown[r].playlist
       => \/ job["studio"].op = "move" /\ job["studio"].r = r
          \/ job["ingest"].op = "remove" /\ job["ingest"].r = r
  BY SMTT(20), <1>3 DEF FindEffect, CleanupPlaylistEffect
<1>4. ASSUME CleanupEndsEffect \/ ForceDeactivateEffect
      PROVE  \A r \in Rundown :
       /\ rundown[r] # None /\ rundown[r].setInSofie
       /\ rundown'[r] # None /\ rundown'[r].playlist # rundown[r].playlist
       => \/ job["studio"].op = "move" /\ job["studio"].r = r
          \/ job["ingest"].op = "remove" /\ job["ingest"].r = r
  BY SMTT(20), <1>4 DEF CleanupEndsEffect, ForceDeactivateEffect
<1>5. ASSUME \/ \E r \in Rundown : UnsyncEffect(r)
             \/ \E t \in Thread : FailEffect(t)
      PROVE  \A r \in Rundown :
       /\ rundown[r] # None /\ rundown[r].setInSofie
       /\ rundown'[r] # None /\ rundown'[r].playlist # rundown[r].playlist
       => \/ job["studio"].op = "move" /\ job["studio"].r = r
          \/ job["ingest"].op = "remove" /\ job["ingest"].r = r
  BY SMTT(20), <1>5, RundownsAssumption DEF UnsyncEffect, RundownIs, Thrown, StudioShape, NoJob,
     FailEffect, Thread
<1>6. ASSUME DiscardEffect \/ AdoptEffect
      PROVE  \A r \in Rundown :
       /\ rundown[r] # None /\ rundown[r].setInSofie
       /\ rundown'[r] # None /\ rundown'[r].playlist # rundown[r].playlist
       => \/ job["studio"].op = "move" /\ job["studio"].r = r
          \/ job["ingest"].op = "remove" /\ job["ingest"].r = r
  BY SMTT(20), <1>6, RundownsAssumption DEF DiscardEffect, RundownGoes, AdoptEffect, Thrown,
     StudioShape, NoJob, Thread
<1>7. ASSUME MoveAssignsEffect \/ CleanupRundownEffect
      PROVE  \A r \in Rundown :
       /\ rundown[r] # None /\ rundown[r].setInSofie
       /\ rundown'[r] # None /\ rundown'[r].playlist # rundown[r].playlist
       => \/ job["studio"].op = "move" /\ job["studio"].r = r
          \/ job["ingest"].op = "remove" /\ job["ingest"].r = r
  BY SMTT(20), <1>7, RundownsAssumption DEF RundownIs, RundownGoes, MoveAssignsEffect,
     StudioShape, NoJob, CleanupRundownEffect, Thread
<1>8. ASSUME ForceActivateEffect \/ WriteEffect
      PROVE  \A r \in Rundown :
       /\ rundown[r] # None /\ rundown[r].setInSofie
       /\ rundown'[r] # None /\ rundown'[r].playlist # rundown[r].playlist
       => \/ job["studio"].op = "move" /\ job["studio"].r = r
          \/ job["ingest"].op = "remove" /\ job["ingest"].r = r
  BY SMTT(20), <1>8, RundownsAssumption DEF Thrown, StudioShape, NoJob, ForceActivateEffect,
     WriteEffect, Thread
<1>9. ASSUME \E r \in Rundown, p \in Playlist \cup {None} : MoveEffect(r, p)
      PROVE  \A r \in Rundown :
       /\ rundown[r] # None /\ rundown[r].setInSofie
       /\ rundown'[r] # None /\ rundown'[r].playlist # rundown[r].playlist
       => \/ job["studio"].op = "move" /\ job["studio"].r = r
          \/ job["ingest"].op = "remove" /\ job["ingest"].r = r
  BY SMTT(15), <1>9 DEF MoveEffect
<1>10. ASSUME \E p \in Playlist : RemovePlaylistEffect(p)
      PROVE  \A r \in Rundown :
       /\ rundown[r] # None /\ rundown[r].setInSofie
       /\ rundown'[r] # None /\ rundown'[r].playlist # rundown[r].playlist
       => \/ job["studio"].op = "move" /\ job["studio"].r = r
          \/ job["ingest"].op = "remove" /\ job["ingest"].r = r
  BY SMTT(15), <1>10 DEF RemovePlaylistEffect
<1>11. ASSUME RemoveEmptyEffect
      PROVE  \A r \in Rundown :
       /\ rundown[r] # None /\ rundown[r].setInSofie
       /\ rundown'[r] # None /\ rundown'[r].playlist # rundown[r].playlist
       => \/ job["studio"].op = "move" /\ job["studio"].r = r
          \/ job["ingest"].op = "remove" /\ job["ingest"].r = r
  BY SMTT(15), <1>11 DEF RemoveEmptyEffect
<1>12. ASSUME \E p \in Playlist, o \in PlayoutOp : LoadEffect(p, o)
      PROVE  \A r \in Rundown :
       /\ rundown[r] # None /\ rundown[r].setInSofie
       /\ rundown'[r] # None /\ rundown'[r].playlist # rundown[r].playlist
       => \/ job["studio"].op = "move" /\ job["studio"].r = r
          \/ job["ingest"].op = "remove" /\ job["ingest"].r = r
  BY SMTT(15), <1>12 DEF LoadEffect
<1>13. ASSUME \E r \in Rundown : UpdateEffect(r) \/ RemoveEffect(r)
      PROVE  \A r \in Rundown :
       /\ rundown[r] # None /\ rundown[r].setInSofie
       /\ rundown'[r] # None /\ rundown'[r].playlist # rundown[r].playlist
       => \/ job["studio"].op = "move" /\ job["studio"].r = r
          \/ job["ingest"].op = "remove" /\ job["ingest"].r = r
  BY SMTT(20), <1>13, RundownsAssumption DEF UpdateEffect, RemoveEffect, UserIsKnown,
     IngestShape, NoJob, StudioShape, Thread
<1>14. ASSUME \/ \E r \in Rundown : RefuseEffect(r)
              \/ \E t \in Thread : LeaveEffect(t)
      PROVE  \A r \in Rundown :
       /\ rundown[r] # None /\ rundown[r].setInSofie
       /\ rundown'[r] # None /\ rundown'[r].playlist # rundown[r].playlist
       => \/ job["studio"].op = "move" /\ job["studio"].r = r
          \/ job["ingest"].op = "remove" /\ job["ingest"].r = r
  BY SMTT(20), <1>14, RundownsAssumption DEF RefuseEffect, LeaveEffect, UserIsKnown,
     IngestShape, RundownIs, Thrown, NoJob, StudioShape, Thread
<1>15. ASSUME RegenerateEffect("ingest") \/ SaveRundownEffect
      PROVE  \A r \in Rundown :
       /\ rundown[r] # None /\ rundown[r].setInSofie
       /\ rundown'[r] # None /\ rundown'[r].playlist # rundown[r].playlist
       => \/ job["studio"].op = "move" /\ job["studio"].r = r
          \/ job["ingest"].op = "remove" /\ job["ingest"].r = r
  BY SMTT(20), <1>15, RundownsAssumption DEF UserIsKnown, IngestShape, RundownIs, NoJob,
     StudioShape, RegenerateEffect, SaveRundownEffect, Thread
<1>16. ASSUME MoveIntoEffect
      PROVE  \A r \in Rundown :
       /\ rundown[r] # None /\ rundown[r].setInSofie
       /\ rundown'[r] # None /\ rundown'[r].playlist # rundown[r].playlist
       => \/ job["studio"].op = "move" /\ job["studio"].r = r
          \/ job["ingest"].op = "remove" /\ job["ingest"].r = r
  BY SMTT(20), <1>16, RundownsAssumption DEF UserIsKnown, IngestShape, RundownIs, Thrown, NoJob,
     StudioShape, MoveIntoEffect, Thread
<1> QED BY <1>1, <1>2, <1>3, <1>4, <1>5, <1>6, <1>7, <1>8, <1>9, <1>10, <1>11, <1>12, <1>13,
         <1>14, <1>15, <1>16 DEF StepEffect, Thread

-----------------------------------------------------------------------------
(* The invariant, and what follows from it. *)

LEMMA InitHolds == ASSUME Init PROVE IInv
<1>1. JobsOK /\ RundownsOK /\ PlaylistsOK /\ OthersOK
  BY RundownsAssumption DEF Init, JobsOK, RundownsOK, PlaylistsOK, OthersOK, Job, NoJob, Op, Step
<1>2. /\ IngestShape /\ StudioShape /\ LocksMatch /\ Copies /\ Whereabouts
      /\ ListedArePresent /\ WillWrite /\ FreshStaysUnknown /\ UserIsKnown
  BY RundownsAssumption DEF Init, NoJob, Thread, IngestShape, StudioShape, LocksMatch, Copies, Whereabouts,
     ListedArePresent, WillWrite, FreshStaysUnknown, UserIsKnown
<1>3. /\ InactiveIsOff /\ OneActivePlaylist /\ OnAirRundownsStay /\ EveryRundownHasAPlaylist /\ StaleAreKnown
  BY DEF Init, InactiveIsOff, OneActivePlaylist, IsActive, OnAirRundownsStay,
     EveryRundownHasAPlaylist, Homeless, StaleAreKnown
<1> QED BY <1>1, <1>2, <1>3 DEF IInv

LEMMA StutterKeeps == ASSUME IInv, UNCHANGED vars PROVE IInv'
<1>1. /\ rundown' = rundown /\ playlist' = playlist /\ stale' = stale /\ lock' = lock
      /\ job' = job /\ faults' = faults /\ abandoned' = abandoned
  BY DEF vars
<1>2. JobsOK' /\ RundownsOK' /\ PlaylistsOK' /\ OthersOK'
  BY <1>1 DEF IInv, JobsOK, RundownsOK, PlaylistsOK, OthersOK
<1>3. IngestShape' /\ StudioShape' /\ LocksMatch' /\ Copies' /\ Whereabouts'
  BY <1>1 DEF IInv, IngestShape, StudioShape, IsActive, LocksMatch, Copies, HasCopy, Whereabouts, InPlaylist
<1>4. /\ ListedArePresent' /\ WillWrite' /\ InactiveIsOff' /\ FreshStaysUnknown' /\ UserIsKnown'
  BY <1>1 DEF IInv, ListedArePresent, WillWrite, InactiveIsOff, FreshStaysUnknown, UserIsKnown,
     InPlaylist, OthersActive, IsActive, RundownsIn
<1>5. /\ OneActivePlaylist' /\ OnAirRundownsStay' /\ EveryRundownHasAPlaylist' /\ StaleAreKnown'
  BY <1>1 DEF IInv, OneActivePlaylist, OnAirRundownsStay, EveryRundownHasAPlaylist, StaleAreKnown,
     IsActive, Homeless, ReadPlaylist
<1> QED BY <1>2, <1>3, <1>4, <1>5 DEF IInv

LEMMA Inductive == Spec => []IInv
<1>1. ASSUME IInv, Next PROVE IInv'
  <2>1. StepEffect
    BY <1>1, NextHasEffect DEF IInv
  <2>2. JobsOK' /\ RundownsOK' /\ PlaylistsOK' /\ OthersOK'
    BY <1>1, JobsKept, RundownsKept, PlaylistsKept, OthersKept DEF IInv
  <2>3. IngestShape' /\ StudioShape' /\ LocksMatch' /\ Copies' /\ Whereabouts'
    BY <1>1, <2>1, IngestShapeKept, StudioShapeKept, LocksMatchKept, CopiesKept, WhereaboutsKept DEF IInv
  <2>4. /\ ListedArePresent' /\ WillWrite' /\ InactiveIsOff' /\ FreshStaysUnknown' /\ UserIsKnown'
    BY <1>1, <2>1, ListedArePresentKept, WillWriteKept, InactiveIsOffKept, FreshStaysUnknownKept,
       UserIsKnownKept DEF IInv
  <2>5. /\ OneActivePlaylist' /\ OnAirRundownsStay' /\ EveryRundownHasAPlaylist' /\ StaleAreKnown'
    BY <1>1, <2>1, OneActivePlaylistKept, OnAirRundownsStayKept, EveryRundownHasAPlaylistKept,
       StaleAreKnownKept DEF IInv
  <2> QED BY <2>2, <2>3, <2>4, <2>5 DEF IInv
<1>2. Init => IInv
  BY InitHolds
<1>3. IInv /\ [Next]_vars => IInv'
  BY <1>1, StutterKeeps
<1> QED BY <1>2, <1>3, PTL DEF Spec

\* The documents, locks and jobs have their types: in particular, every playlist and rundown that
\* the two threads write is well formed, and what a job works on exists when it needs it.
THEOREM RundownsTypeCorrect == Spec => []TypeOK
<1>1. IInv => TypeOK
  BY DEF IInv, TypeOK, JobsOK, RundownsOK, PlaylistsOK, OthersOK
<1> QED BY <1>1, Inductive, PTL

\* At most one playlist of a studio is active: one thread does all activations, one job at a time,
\* and nothing else turns a playlist on (checkNoOtherPlaylistsActive, activateRundownPlaylist).
THEOREM OneIsActive == Spec => []OneActivePlaylist
<1>1. IInv => OneActivePlaylist
  BY DEF IInv
<1> QED BY <1>1, Inductive, PTL

\* The rundowns of the Parts on air and next are in the playlist that plays them, since
\* allowedToMoveRundownOutOfPlaylist is asked under the lock of the playlist that they leave.
THEOREM OnAirRundownsNeverLeave == Spec => []OnAirRundownsStay
<1>1. IInv => OnAirRundownsStay
  BY DEF IInv
<1> QED BY <1>1, Inductive, PTL

\* A rundown without a playlist is being worked on, is about to be removed, or was left so by a
\* job that failed half-way.
THEOREM NoRundownIsLost == Spec => []EveryRundownHasAPlaylist
<1>1. IInv => EveryRundownHasAPlaylist
  BY DEF IInv
<1> QED BY <1>1, Inductive, PTL

\* Unless a job has failed, a rundown lags behind the newsroom only when it is unsynced or is in a
\* playlist of the user's choice (canRundownBeUpdated, setRundownPlaylistId).
THEOREM StaleRundownsAreKnownOf == Spec => []StaleRundownsAreKnown
<1>1. IInv => StaleRundownsAreKnown
  BY RundownsAssumption DEF IInv, StaleAreKnown, StaleRundownsAreKnown, Thread
<1> QED BY <1>1, Inductive, PTL

\* The two threads do not wait for each other (runWithRundownLock, runWithPlaylistLock): the ingest
\* thread waits with nothing but its rundown, for which the studio thread waits empty-handed only.
THEOREM NobodyWaitsInACircle == Spec => []NoCircularWait
<1>1. ASSUME IInv PROVE NoCircularWait
  <2> DEFINE i == job["ingest"]
             s == job["studio"]
  <2> SUFFICES ASSUME NEW x \in Wants("studio"), lock[x] = "ingest", NEW y \in Wants("ingest"), lock[y] = "studio"
               PROVE  FALSE
    BY DEF NoCircularWait
  <2>1. \/ i.at = "free" /\ y = i.from /\ i.r \in Rundown /\ InPlaylist(i.r, i.from)
        \/ i.at = "adopt" /\ y = i.p /\ i.r \in Rundown /\ i.p \in PlaylistId
    BY <1>1 DEF IInv, Wants, IngestShape, NoJob, Whereabouts, Thread
  <2>2. y \in PlaylistId /\ i.at \in {"free", "adopt"} /\ i.r \in Rundown
    BY <1>1, <2>1, DocFields DEF IInv, InPlaylist
  <2>3. \/ s.at = "free" /\ x = s.from /\ s.r \in Rundown /\ InPlaylist(s.r, s.from)
        \/ s.at = "into" /\ x \in Playlist
        \/ s.at = "force" /\ x \in Playlist
        \/ s.at = "cleanup" /\ s.r = None /\ x \in Rundown \cup Playlist
    BY <1>1 DEF IInv, Wants, StudioShape, NoJob, Whereabouts, Thread, PlayoutOp
  <2>4. x \in Resource /\ (s.at # "cleanup" => x \in PlaylistId)
    BY <1>1, <2>3, DocFields DEF IInv, InPlaylist, Resource, PlaylistId
  <2>5. x = i.r
    BY <1>1, <2>2, <2>4 DEF IInv, LocksMatch
  <2>6. s.at = "cleanup" /\ s.r = None
    BY <2>2, <2>3, <2>4, <2>5, RundownsAssumption
  <2>7. y = s.r
    BY <1>1, <2>2, <2>6 DEF IInv, LocksMatch, Resource
  <2> QED BY <2>2, <2>6, <2>7, RundownsAssumption
<1> QED BY <1>1, Inductive, PTL

\* A rundown that a user has put into a playlist is taken out of it only by a move of the user's or
\* by the removal of the rundown (setRundownPlaylistId, handleMoveRundownIntoPlaylist).
THEOREM TheUsersChoiceIsKept == Spec => UserChoiceIsKept
<1> DEFINE OnlyTheUserMoves ==
      \A r \in Rundown :
             /\ rundown[r] # None /\ rundown[r].setInSofie
             /\ rundown'[r] # None /\ rundown'[r].playlist # rundown[r].playlist
             => \/ job["studio"].op = "move" /\ job["studio"].r = r
                \/ job["ingest"].op = "remove" /\ job["ingest"].r = r
<1>1. IInv /\ Next => OnlyTheUserMoves
  BY NextHasEffect, UserChoiceKept DEF IInv
<1>2. UserChoiceIsKept <=> [][OnlyTheUserMoves]_vars
  BY DEF UserChoiceIsKept
<1> HIDE DEF OnlyTheUserMoves
<1> QED BY <1>1, <1>2, Inductive, PTL DEF Spec
=============================================================================
