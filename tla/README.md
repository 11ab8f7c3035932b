# Formal model of Sofie Core

Sofie is the automation system of a broadcaster's studio: rundowns come in from the newsroom, an
operator takes one Part after the other on air, and gateways play the resulting timeline on devices.
This directory holds TLA+ models of its core logic, translated from the source, the TLC
configurations that check them on small instances, and proofs that TLAPS checks for every instance.
Paths are relative to `src/`; `JW` is `packages/job-worker/src`.

## The system

| Part | Source | State | Operations | Interacts with |
| --- | --- | --- | --- | --- |
| Job queues of the server | `meteor/server/worker/worker.ts` | per queue: jobs, long-poll handle; `runningJobs` | queue, long-poll, pop, interrupt, finish; restart of the worker process | callers (API, cron, gateways); worker process over IPC |
| Thread loops of the worker process | `JW/workers/parent-base.ts`, `worker-set.ts` | thread status, pending invalidations, watchdog, terminate flag | loop step, restart, initialise, invalidate, terminate | server and child threads (IPC), MongoDB change streams |
| Lock service | `JW/locks.ts`, `JW/workers/locks.ts` | holder and queue of each resource; pending and held locks of a child | lock, unlock, lockChange, release all | loops, children |
| Child threads (studio, ingest, events) | `JW/workers/*/child.ts`, `JW/workers/context.ts` | data cache, locks of the job | init, runJob, lockChange, invalidateCaches | parent, MongoDB |
| Playout | `JW/playout/` | the playlist (current, next, previous PartInstance, hold, queued segment, loop) and its PartInstances | activate, reset, take, set next, hold, queue, reported starts | blueprints, timeline, ingest |
| Ingest | `JW/ingest/` | rundowns, segments, Parts | MOS and HTTP updates, commit | playout: `updatePartInstances`, `syncChanges`, `ensureNextPartIsValid` |
| Device commands | `meteor/server/api/peripheralDevice/executeFunction.ts`, `JW/peripheralDevice.ts`, `packages/playout-gateway/src/coreHandler.ts` | a command document, a timer, a watch, a re-entrancy guard | execute, check the reply, reply, time out, sweep | server or worker, gateway, MongoDB |
| Rundowns and playlists | `JW/ingest/commit.ts`, `JW/rundownPlaylists.ts`, `JW/ingest/lock.ts` | which rundown is in which playlist, what is active, on air and next in it; the locks and the job of each thread | update, remove, unsync, move, remove a playlist, clean up, activate, play | the studio and the ingest thread on the same documents |
| AB playback | `JW/playout/abPlayback/` | the players that the last run assigned | resolve | timeline generation, lookahead |
| External messages | `JW/events/ExternalMessageQueue.ts`, `JW/events/handle.ts`, `meteor/server/api/ExternalMessageQueue.ts` | message documents, the run that sends a batch | queue, fetch, send, time out, log; hold, retry, remove | blueprints and users on the same documents, receivers |
| Connection of the gateways | `packages/server-core-integration/` | DDP client, call queue, time sync, watchdog | reconnect, call, check | server |
| Gateways, client, publications, migrations, generated APIs | `packages/*-gateway`, `meteor/client`, ... | | | server |

What is hard here: children and the whole worker process crash, freeze and are restarted at any
point; messages between threads cross; locks, jobs and commands time out while the answer is on its
way; the cache of a child is stale between a change of the database and the next job; playout
reacts to reports of a gateway that play an older timeline, and to ingest that removes what is on
air or next, between any two actions of the operator; a job that works on a rundown and two
playlists takes their locks one after the other, and what it read under the first may have changed
when it gets the second, or it fails in between. `PROJECT.json` lists these hazards at their
lines, with the properties that cover them, and those without one.

## Modules

| Module | Models | Kind |
| --- | --- | --- |
| `LocksManager` | both LocksManagers, their messages, timeouts, jobs, restarts, shutdown | state machine |
| `LocksManagerProofs` | all its safety invariants | proofs |
| `JobService` | what a job queue promises its callers | abstract specification |
| `WorkerLoop` | one queue of the server, the loop that serves it, its watchdog and child | state machine, implements `JobService` |
| `WorkerLoopProofs` | its invariants and the refinement | proofs |
| `SelectNextPart` | `selectNextPart()` and the searches in it | operators |
| `NextPartChoice` | the question, asked of every playlist, and the answers that are right | state machine over `SelectNextPart` |
| `SelectNextPartProofs` | that the answers are right in every show | proofs |
| `Playhead` | what playout promises to those who watch it: what is on air, before it and next | abstract specification |
| `Playout` | the playhead of a playlist under every job that moves it | state machine over `SelectNextPart`, implements `Playhead` |
| `PlayoutProofs` | its inductive invariant, every property of its run, the refinement | proofs |
| `DeviceCommand` | one device command from insertion to removal | state machine |
| `DeviceCommandProofs` | its type invariant and two safety invariants | proofs |
| `RundownPlaylists` | which rundown is in which playlist, under the jobs of the ingest and the studio thread and their locks | state machine |
| `RundownPlaylistsProofs` | its inductive invariant and every property of its run | proofs |
| `ExternalMessages` | the queue of messages, the runner, users and blueprints | state machine |
| `ExternalMessagesProofs` | its inductive invariant and every safety property of its run | proofs |
| `AbPlayback` | the resolver that assigns clips to players, and what changes the timeline between its runs | state machine over operators |
| `AbPlaybackProofs` | its inductive invariant and every property of the run that is to hold | proofs |
| `MCWorkerLoop`, `MCSelectNextPart`, `MCPlayout`, `MCRundownPlaylists`, `MCExternalMessages` | instances for TLC | |

Operators marked "Fault" in a comment are not part of any specification. Each is a plausible bug in
the definition below it; put in its place, it makes one of the properties fail.

### LocksManager

One action per message handler and per callback of the two sides. `HandleLock` and `HandleUnlock`
are `handleLockEvent`; `LockNextWorker`, called by each handler that frees a resource, is the last
step of those actions. `GrantRejected` is the `catch` of a grant. `Aquire`, `LockChange`,
`AquireTimesOut`, `Release`, `ReleaseTimesOut` are the child's side; `JobFinished`, `ThreadRestarts`,
`Terminate` and `TerminateWorkerThread` are what `parent-base.ts` does to the locks of a thread. A
lock id is a random string for one request, so requests draw from `LockId`, and no id is used twice.
Messages are sets: messages about different locks may overtake each other.

The documentation promises that a lock "gives ownership". `terminate()` takes the locks back first
and waits for the loop second, so the property that holds, and is proved, is `MutualExclusion`: two
requests own one resource only after the parent took the lock of one of them back.

### WorkerLoop and JobService

`JobService` is the promise: jobs start in the order in which they were queued, one at a time, each
at most once, and each is answered at most once, after it has started. `WorkerLoop` has the server
(`jobs`, `nulls`, `notifyWorker`, `running`), the loop (`loop` is the line of the loop at which it
waits), the watchdog, the child and the caches. A queue entry is either a null, from
`interruptJobStream`, or a job; nulls are only put at the front, so they are counted. Environment
actions close and restart the child and the process at every point. The refinement mapping is
`queue <- jobs, active <- running`.

Simplified: the destruction of the child by `terminate()` is one step with the exit of the loop; a job of the kind
that forces the child to clear its caches is a nondeterministic choice; the sleep of a loop whose
child is closed is a stuttering step; the IPC call `jobFinished` does not fail while the process
lives.

### SelectNextPart and Playout

`SelectNextPart` is pure. The rundowns of a playlist are one sequence of Parts. `NextPartChoice` asks
it about every playlist made of the Parts of a show, every set of playable Parts, every previous Part
(in the list or removed), queued segment and loop, and compares the answers with definitions that know
nothing of the search: the place of a Part in the show is its number. `MCSelectNextPart` gives it a
show of five Parts in three segments.

In `Playout` a job is one action, because it runs under the playlist lock: it loads a model, changes
it, saves it. The action is composed of one operator per function that the job calls, in their order
(for instance `Take` = `PerformTake`, then the next Part is selected, then `SaveAndUpdateTimeline`).
`timeline` holds the instances that a gateway may still report as started, the last timeline's and,
when it is late, older ones; `PlaybackStarted` is each such report. `Ingest` is the whole commit as
far as playout sees it: orphans, synced instances, `ensureNextPartIsValid`, save. Instances are
numbered, and `Save` renumbers them and forgets those that are reset and not selected, which keeps
the state space finite.

`Playhead` is the promise: a Part comes on air only by having been next, and what was on air is then
what was before; whoever chooses the next Part moves nothing else; a show on air is not started
over; a hold is asked for between two Parts that allow it, starts with a take, lets no take move on until it
is completed, and is over with the next one. `Playout` implements it with `previous`, `current` and
`next` as the Parts of the selected instances.

Left out: pieces and infinites, adlibs, inserted Parts, blueprint callbacks that change pieces,
`PartPlaybackStopped`, the removal of a whole segment by ingest (a Part can be removed; each segment
keeps one), several rundowns and playlists, and a crash in the middle of a save. Times are left out:
a guard that compares times may refuse a job at any moment, and a refused job is a stuttering step.

### DeviceCommand

The caller (`executePeripheralDeviceFunction...` of the server, or the same code in a job worker,
chosen by `Init`), the gateway and the server's sweep share one document. Each call of the database
is two steps, the change of the document is seen in a third. `check` and `pending` are the
re-entrancy guard of `checkReply`. Two marks stand for time: the timeout of the command has passed
(`expired`), and it is 20 seconds old (`old`).

Assumed: the timer does not fire before the age of the command has passed the timeout (they use
different clocks); a change stream opens before the timeout; a caller with a short timeout has done
all it will do before the 20 seconds. At most one read of the document fails.

### RundownPlaylists

`rundown` and `playlist` are the two collections, reduced to what decides where a rundown is: its
playlist, whether the user has set that, and whether it is unsynced (`orphaned`); whether a playlist
is active, the rundowns of its current and its next Part, and the rundowns that it lists. Each
thread runs one job at a time. `job` has what the job has read and where it is; between two
positions (`at`) it has written to the database or waits for a lock, so that the other thread, or a
failure, can come in there. `Throws` is what every exception comes to: the locks are released, what
was written stays.

Ingest (`CommitIngestOperation`): `Update` or `Remove` takes the lock of the rundown and has the
ingest data saved (`IngestLoads`); `LeaveOldPlaylist` takes the old playlist, refuses if the rundown
is on air or next there (`MayLeave`), else sets the playlist of the rundown to `__TMP__`;
`RegenerateOldPlaylist` writes the old playlist without it and unlocks it; `Adopt` takes the new one and
writes it, `SaveRundown` writes the rundown, `SavePlayout` chooses the next Part again and saves the
playout model. A removal ends with `Discard`. The studio thread moves a rundown (`Move`, the same two
steps, then `MoveInto` and `MoveOrders`, or `MoveInserts` and `MoveAssigns` for a new playlist),
removes a playlist and then its rundowns, each under its own lock (`RemovePlaylist`, `FindRundowns`,
`CleanupRundown`), removes empty playlists, and plays (`LoadPlaylist`, for a forced activation
`ForceDeactivate` of the others and `ForceActivate`, then `WritePlaylist`). A job that plays is
reduced to what it does to current, next and active; `Playout` has the rest.

Simplified: waiting for the first lock of a job is the same as not having begun; the order of the
rundowns in a playlist is the set `listed`; a regeneration of the playlist and the save of its
playout are one step; a studio has one ingest thread (the code has one); a random id is one
that the newsroom does not know. Left out: jobs that restore or regenerate the order, the removal of the
rundowns of a snapshot.

### ExternalMessages

`queue` is the collection, `run` and `batch` are `doMessageQueue`, `send` the call of `sendMessage`
for each try of a message with its timeout, which goes on after that (`late`). `notices` are the
insertions that the change stream has not reported: it leaves updates out, since it is filtered by
a field that an update does not carry. Users and blueprints read a message and write what follows
from it in a second step. The thread may restart at any time (`Restart`). Time is a mark on a
message: never tried, tried longer than a minute ago, or less. Whether the receiver is Slack or
RabbitMQ, and what a message says, is left out. `MCExternalMessages` begins in two states: an empty queue
with one message to come, which users and blueprints change; and, reached from there, the queue after
a failed run, with two messages to come and batches of one.

`FatalIsFinal` speaks of the messages in `forGood`: those that were recorded as refused for good while
nothing else of them was under way (`Alone`), whatever had timed out, was lost or was restarted before.
The rest cannot be promised: every log of an error writes whether it was for good, so that the last one
decides (see below).

### AbPlayback

`piece` and `ahead` are the clips of a pool on the timeline, in the previous, current and following Parts;
`Generate` begins a run with the requests of `calculateSessionTimeRanges`. `Assign` is one round of
the loop in `resolveAbAssignmentsFromRequests`: the first request that is left gets the player that `Choose`
picks, and takes it from those that then have to go back into the list (`Invalidated`); the last
rounds give the looked-ahead clips what is free (`AssignLookahead`). `End` keeps the assignments for
the next run. Between runs the clock ticks, clips are inserted and stopped, another next Part is set,
and the operator takes. Left out: a session that goes on over several Parts or pieces, a player that
is removed from the configuration, and the rewriting of timeline objects. One clip per following Part;
the ids are in the order in which the pieces are found.

The properties have premises, and the code needs them. `RefusedOnlyWhenFull` tells the clips that
could still be loaded from those that start too soon: an optional clip is thrown off only for the
first kind, so one that starts too soon may be refused for an optional one in its way. `OnAirStays`
asks for a now-window, a second player, and that what is over was played: a clip of the previous Part
that never had a player is given one belatedly, and takes it from what is on air.

## Runs

| Run | What it asks | Instance |
| --- | --- | --- |
| `locks` | Is a resource owned once? Is a wake-up lost, a lock left with an idle thread, an answer taken for another? Does each queued request leave the queue, is an abandoned lock freed? | 2 threads, 1 resource, 2 requests |
| `worker_loop` | Does the loop implement `JobService`? Is a job, a wake-up or a change of the database lost? Is each job answered? | 3 jobs, 3 faults |
| `select_next` | Is the Part after this one the right one? | every playlist of up to 5 Parts, 3 segments |
| `playout` | Does it implement `Playhead`? Does the playhead stay intact? Is what was on air kept apart from what was only next? Does ingest leave the right next Part? | 3 Parts, 2 segments, 4 contents |
| `playout_queue` | (violation) Does an autonext into the queued segment clear the queue? | as `playout` |
| `device_command` | Does a waiting caller always have something to come? Is each caller answered, each document removed? | one command, server and worker |
| `rundowns` | Is one playlist active? Do rundowns that are on air or next stay? Can the threads wait for each other? Is a rundown lost between two playlists, or an update of the newsroom, or the choice of the user? | 2 rundowns, 3 playlists (2 of the newsroom), 1 failure |
| `rundowns_user` | (violation) Does an update reach a rundown that a user has moved? | the same, no failure |
| `external_messages` | Is a message delivered twice without a reason? Is a refusal for good final? Do runs end, and is a message tried of which the stream has told? | 1 message with 2 sends, 2 changes, 1 failure; 2 messages and batches of one |
| `external_messages_retry` | (violation) Is a message that has become due tried? | 1 message, 1 change |
| `ab_playback` | Is a required clip refused though nothing that could not move is in its way on some player? Is what is on air moved or played over? Is the next clip loaded? | 3 clips (1 optional), 2 players, 4 instants |
| `ab_playback_stuck` | (violation) Does the resolver come to an end? | 3 clips, 2 players, 200 rounds |

### Bounds, and why they are enough

* Locks: the liveness properties need a holder, a waiter, a timeout and a restart; the behaviour with more
  requests, and with several resources that one `releaseAllForThread` frees, is left to the proofs, which
  cover all the safety invariants for every instance.
* Worker loop: three jobs (one that runs, one that is next, one that is queued meanwhile). Three
  faults allow a crash during the recovery from a crash during another, which is as deep as the
  nesting of the recovery code (job, loop, process). The refinement and the invariants are proved
  for every bound. A fault is a crash of the child, a close of the process or a call that fails
  (`Fault` in the guard); kills by the watchdog, changes of the database and `terminate()` are not
  counted.
* `select_next`: a search has a start, a limit and a wrap-around. Five Parts in segments of two, two
  and one give a removed first, middle and last Part and segment.
* Playout: three Parts are enough for the current, next and previous instance to be of different
  Parts, of the same Part (loop), and in the same or in another segment; the contents remove each
  Part, make one unplayable and switch the loop off. Part 2 has an autonext, and a hold goes from 1
  to 2. `allowRundownResetOnAir` is off. The proofs cover every show, with and without that setting.
* Rundowns: a rundown moves from one playlist to another while a second rundown keeps either of them
  alive, on air or next; the third playlist is one that the user makes. With one failure each step of
  each job can be the last one. `rundowns` is proved for every bound.
* External messages: the races are those of one message with itself: a second send while the first
  goes on, a user's change while it is sent. The second start state is for the limits of the batches.
  `ModelStops` ends the tries of a message after `MaxSends`; a message that is not in `Timed` has no
  `retryUntil`, and with `Cardinality(Timed) < Limit` messages that are over cannot fill a batch.
* AB playback: two players and three clips, so that one is refused or moved; the clock of 4 instants
  has one before, inside and after the gap of 1 and the now-window of 1. Two clips are looked ahead
  to. The limit of rounds is 10 in `ab_playback` (three clips that do not swap for ever need fewer),
  and 200, as in the code, in `ab_playback_stuck`. What needs more clips than three, such as a
  chain of clips that move each other, is covered by the proofs, which hold for any number of clips and
  players and for any gap, window and limit.

### Fairness

Only the runtime of the code is assumed to be fair. `LocksManager!FairSpec`: messages are delivered
or fail, the timers of a request fire, and a running job ends or its thread is restarted (the
watchdog does that). It is not assumed that a job releases what it holds in time.
`WorkerLoop!FairSpec`: the loop gets on, a closed child or process is restarted (threadedClass
does), and a job ends or the watchdog kills it; a child that runs a job nobody waits for any more
finishes it. There is no assumption about the server beyond its answering IPC calls.
`DeviceCommand!FairSpec`: callbacks run, timers fire, the sweep comes every five minutes. Nothing is
asked of the gateway. `ExternalMessages!FairSpec`: the change stream reports what it knows, the run
gets on, and each send ends or its timeout fires; a receiver may never answer, and a user may never
come back. `EveryCallerIsAnswered` excludes the cases in which the code has no answer (the
only read fails; the document is removed with the device, or by the sweep before its timeout); `EveryJobIsAnswered` excludes a thread
that is being terminated.

`CHECK_DEADLOCK FALSE` is set where a behaviour may stop: all requests of the instance are used, all
jobs are answered, the question is asked, the command is gone, the messages are sent, the clock of
`AbPlayback` has come to its bound. `RundownPlaylists` is checked for deadlock.

## Proofs

All theorems hold for every value of the constants, under the named assumptions of the modules.
`DeviceCommand` has no constants.

| Assumption | What it says |
| --- | --- |
| `LocksAssumption` | `Thread` and `Resource` are not empty, `NoLock` is no lock id |
| `WorkerAssumption` | `NoJob` is no job, `MaxFaults` is a natural number |
| `RundownsAssumption` | ids of rundowns, ids of playlists, `__TMP__` and null are different things |
| `PartAssumption` | each Part has a segment and a rank; null is neither a Part nor a segment |
| `ShowAssumption` | Parts are numbered in the order of the show: segments have distinct places, and ranks are distinct in a segment |
| `PlayoutAssumption` | each segment keeps a Part in every content of the show (the bound of the model named above) |
| `MessagesAssumption` | limits are positive, `MaxSends` and the other bounds natural numbers; null and "gone" are no documents; those that may expire do not fill a batch (the bound of the model) |
| `AbAssumption` | finitely many clips, with ordered ids; at least one player; null is no number and no candidate |

* **`LocksAreExclusive`, `NoWakeUpIsLost`, `TypeCorrect`** (`LocksManagerProofs`). The inductive
  invariant `ExclusionInv` adds to the properties that the parent knows only requests that were made
  and queues each once (`ParentKnowsRequests`); that messages are about requests, and a grant on its
  way is for the holder or for a lock that was taken back (`MessagesOfRequests`); that live requests
  belong to live children (`LiveChild`); and that a request that believes it owns a lock is the
  holder, or its lock was taken back (`OwnerIsHolder`). Mutual exclusion follows from the last: the
  holder is one. The loop over the resources in `releaseAllForThread` is handled by the lemmas
  `ServeFacts` and `ServeKeepsOwnership`, about serving any set of freed resources at once.
* **`IdleThreadsHaveNoLocks`, `AnswersAreForTheirRequests`** rest on `AnswerInv`: a request asks for
  its lock once (`AskedOnce`: while the message is on its way the parent neither queues it nor holds it
  for it), a confirmed unlock was released (`UnlockedWasReleased`), and what happens in the name of a
  thread happens while its job is there (`IdleIsQuiet`).
* **`WorkerImplementsJobService`** (`WorkerLoopProofs`). The abstract state is a part of the
  concrete one; what must be shown is that each step that changes it is `Submit`, `Start` or
  `Finish`. `StepKinds` sorts all actions into those that leave the three variables alone and the
  few that do not. A start needs that nothing runs, an answer that the job runs and has not been
  answered: `OneFate` (a job is queued, running or answered, never two of these), `NoOrphanedJob`
  (what runs is what the loop works on) and `LoopHasJob` (where in the loop it works on something)
  are the inductive invariant, with `PollOfWaitingLoop` for the wake-ups.
* **`NoWakeUpIsLost`, `NoJobIsOrphaned`, `NoChangeIsForgotten`, `WorkerTypeCorrect`** from the same
  invariant. The type invariant is proved in two parts, the Boolean variables (`FlagsOK`) and the
  others (`DataOK`), since the two back ends are each good at one of them.
* **`NobodyWaitsForNothing`, `RepliesAreSeen`, `CommandTypeCorrect`** (`DeviceCommandProofs`).
  The properties are not inductive: `WaitingHolds` says what a waiting caller has (a timer, a watch,
  its document), `NotTheLastCheck` that a check that came before the insertion is followed by
  another, `TimerIsNotEarly`, `StreamIsOpenByThen` and `ShortIsOver` carry the assumptions about time
  (the last shows that the sweep never meets a waiting caller with a short timeout). One lemma per
  conjunct, one step per action.

* **`OneIsActive`, `OnAirRundownsNeverLeave`, `NoRundownIsLost`, `StaleRundownsAreKnownOf`,
  `NobodyWaitsInACircle`, `TheUsersChoiceIsKept`, `RundownsTypeCorrect`** (`RundownPlaylistsProofs`): all
  that the run `rundowns` checks, for any number of rundowns, playlists and failures. None of them is inductive.
  `IngestShape` and `StudioShape` say which fields a job has where it is, `LocksMatch` that a thread
  holds no lock but those its job is at (from these `NobodyWaitsInACircle` follows: who waits for a
  playlist holds a rundown at most, and who waits for a rundown holds nothing). `Copies`: the copy of
  a playlist that a job works on is what the database has. `Whereabouts` follows the rundown of a job through
  `__TMP__`. `WillWrite` is the heart of `OneIsActive` and `OnAirRundownsNeverLeave`: what a job that
  plays is about to write is still true when it writes it, though it was decided steps before;
  `ListedArePresent` is the same for the playout model that ingest saves last. `FreshStaysUnknown`: nobody
  else comes to a playlist that a move has just made without a lock. `UserIsKnown`: what ingest
  remembers of the user's choice is still so. The proof does not reason about EXCEPT in each of these:
  each action implies its *effect*, which says the same point by point (`NextHasEffect`), and one
  lemma per part shows that every effect preserves it.

* **`GoesOnInOrder`, `EntersTheQueuedSegment`** (`SelectNextPartProofs`): both properties of `select_next`,
  for any number of Parts and segments. The searches work on positions of the list, or on
  segments and ranks when the previous Part has been removed; the reference works on the order of the
  show. The lemmas bridge the two: the list is in the order of the show, so the first position that
  passes is the earliest Part, and the Parts behind a removed one are those of later rank in its
  segment and those of later segments.
* **`PlayheadStaysIntact`, `OnlyNextIsUntaken`, `TypeCorrect`, `RightNextAfterIngest`**
  (`PlayoutProofs`). A job is one action made of a dozen operators, and in between the playhead is not
  intact. So there are two invariants: `Saved`, of the model between jobs, and `Ready`, of a model that a job
  works on (all that `setNextPart` may have to clean up is loaded). Each operator has a lemma that says
  which of their parts it needs and keeps, and each job is a chain of these. The parts are
  `Sound` (what is selected exists, is not reset, and of current and next only the next is untaken), `Settled`
  (nothing but the next is untaken), `Restful` (a hold has something on air; an inactive
  playlist has nothing) and `Offered` (the next Part can be played, which ingest relies on to leave it alone).
* **`JobsImplementPlayhead`**: each job is a step of `Playhead` or a stutter. `Shown` is the abstract
  state of a model; the lemmas say of each operator what it does to `Shown`, and that renumbering and
  forgetting instances (`Save`) changes none of it.
* **`NeverTwice`, `RefusedForGood`, `TypeCorrect`** (`ExternalMessagesProofs`). The invariant is about
  one message at a time: a document that is sent was there (`Known`); a run waits for each send of its
  batch until that ends or is given up (`RunWaits`), so of a message of which nothing is in doubt one
  send goes on at a time, and none once it is delivered (`Certain`: that is recorded, or the send that
  will record it goes on, and no run has the message in its hands unsent). A restart while a send is
  recorded, a timeout, a lost answer and a failed write put a message in doubt. `RefusedIsDone` holds of
  messages in doubt as well: a message in `forGood` has no send and no log of a timeout under way, its
  document has the flag, and no run has it in its hands.
* **`AbTypeCorrect`, `NextClipAlwaysLoaded`, `RefusalsHaveAReason`, `OnAirKeepsItsPlayer`**
  (`AbPlaybackProofs`). The invariant `Running` is about a run of the resolver: what waits is a clip
  without a player, each once (`GoodRun`), and in a run whose premise holds nothing that has started
  loses its player in any round (`Keeps`; that of clips which are over is needed too, since one that is assigned
  again would move what comes after it). What is put in an order (requests by start, slots by how well
  they fit) is described by a set of predecessors for each element; `Orders` and the lemmas on ranks
  show that such an order exists and lists each element once. `ChooseIsGood` says who may lose a player
  to a request: what is looked ahead to, what comes later, or an optional clip.

Only model-checked: the liveness properties (fairness and ENABLED are beyond the prover). Every
safety invariant, action property and refinement that a passing run checks is also proved. The
violation runs show their findings on small instances, which is all that a counterexample needs.

## What the checks found

| Finding | Where | Run |
| --- | --- | --- |
| An autonext into the queued segment does not clear the queue: `nextPartInfo` is already null when it is asked for. | `JW/playout/timings/partPlayback.ts:85` | `playout_queue` |
| Every update of the newsroom for a rundown that a user has moved throws, after its ingest data were saved: the playlist "is set by the User", though it is not changed. | `JW/ingest/model/implementation/IngestModelImpl.ts:535` | `rundowns_user` |
| A message that a user retries, a blueprint releases, or of which the minute after a failed try is over, waits until another is queued or the thread restarts. | `JW/events/ExternalMessageQueue.ts:87` | `external_messages_retry` |
| Two required clips that start together take the only free player from each other until the resolver gives up, and the timeline goes out without any. | `JW/playout/abPlayback/abPlaybackResolver.ts:162` | `ab_playback_stuck` |

Seen while modelling, and shown by TLC on these models, without a run that is kept:

* `terminate()` frees the locks of a job that still runs, and another thread gets its playlist
  (`JW/workers/parent-base.ts:443`); `worker-threads-and-locks.md:46` says "This lock gives ownership".
* `terminate()` of an idle thread waits for a loop that sleeps in its long-poll until a job happens
  to be queued (`parent-base.ts:449`).
* Ingest replaces the next Part under a pending hold, which then starts between Parts that it would
  be refused for (`JW/ingest/updateNext.ts:89`; `hold.md:14` says it is not possible "to change the
  nexted part").
* When the current Part has been removed, the search of a looping playlist stops one Part early
  (`JW/playout/selectNextPart.ts:145`).
* The sweep of old commands removes those whose timeout (up to 120 s) has not passed; their caller is
  never answered (`meteor/server/collections/index.ts:294`).
* A message that was refused for good is tried again when another error of it is logged afterwards:
  that of the timeout of the same send, or of an earlier send that had timed out and gone on
  (`JW/events/ExternalMessageQueue.ts:283`); so is one that the next run had fetched before the refusal was
  recorded. `corelib/src/dataModel/ExternalMessageQueue.ts:31` says "If true, wont retry any more".

Seen while reading:

* Queue and playhead: an interruption of the job stream while a long-poll waits does not make the next
  job null, it only wakes the loop up (`JW/manager.ts:23`); a queued segment is not reached from the
  last segment of a playlist, where nothing follows (`selectNextPart.ts:124`); a segment that is
  entered again in a playlist that does not loop keeps the instances of its first run
  (`JW/playout/setNext.ts:253`).
* Device commands: in a job worker a reply that arrives before the change stream is open is seen only
  when the timer fires (`JW/peripheralDevice.ts:156`); a gateway executes and answers a command without
  a handler again on every change, its own answer included, until the caller has removed it
  (`packages/playout-gateway/src/coreHandler.ts:265`).
* Rundowns: a move into a playlist that has gone meanwhile leaves the rundown in `__TMP__`, as does a
  failure between the two playlists; such rundowns are what `abandoned` allows in
  `EveryRundownHasAPlaylist`. Whether a playlist would be left empty is asked of its stored order and not of the
  rundowns (`JW/rundown.ts:18`), the rundown of the previous Part may leave, and whether a playlist that is removed
  is active is asked by nobody in the job (`JW/rundownPlaylists.ts:41`).
* External messages: a fetch that fails is not repeated; what changes while the change stream is down
  is noticed by nobody; a message past its `retryUntil` that was never tried stays eligible, sorts
  first, and a hundred of them would fill every batch; only RabbitMQ reports that a failure is for good
  (`JW/events/integration/rabbitMQ.ts:294`).
* AB playback: a clip of the previous Part that never started gets a request that ends before it
  starts, and may move a required clip that is on air (`OnAirStays` excludes it); an optional clip on air loses its player to a later
  required one; two clips that are looked ahead to may share a player, since only the first ones are
  compared (`abPlaybackResolver.ts:335`); an optional clip is refused when the only free player has the next
  clip loaded; an optional clip that was in the way when a required one was refused may lose its player
  later in the same run, and the player then stays free; without a now-window, a clip that starts at
  this moment may be moved.

## Not modelled

Load and save of a playout model as separate writes, pieces and infinites, adlibs and actions, the
generation of timelines, lookahead, snapshots, the edits of the ingest jobs before the commit, the
generation of rundowns, the order of rundowns in a playlist, blueprints, the database wrapper, user actions and REST API, publications and migrations, the client, the
insides of the gateways, the DDP connection and the documentation packages. `PROJECT.json` gives the
reason for each: most are pure data or input and output, the others are in the plan.

## Plan

1. `SaveModel`: the parallel writes of a save, the functions deferred until after it, a crash between
   them and the load of the next job; the commit of ingest with its unawaited updates
   (`JW/ingest/commit.ts:522`).
2. The connection of the gateways: `watchDog.ts` (a check that fails leaves `_runningChecks` set), and the
   answers of two checks that share one field (`coreConnection.ts:440`).
3. Adlibbed Parts and infinites in `Playout`, with `Playhead` unchanged.
