---------------------------- MODULE LocksManager ----------------------------
(***************************************************************************)
(* The playlist and rundown locks of one studio's worker threads.          *)
(*                                                                         *)
(* Every worker thread (studio, ingest, events) runs one job at a time in  *)
(* a child thread.  A job asks for a lock through the LocksManager of its  *)
(* child (packages/job-worker/src/workers/locks.ts), which sends a message *)
(* to the one LocksManager of the parent                                   *)
(* (packages/job-worker/src/locks.ts) and waits for its answer.  The two   *)
(* sides run concurrently: a waiting child gives up after a timeout, a     *)
(* child may be killed and restarted at any point, and the parent takes    *)
(* every lock of a thread back when its job has ended or when the thread   *)
(* is told to terminate.                                                   *)
(*                                                                         *)
(* A lock id is a random string made for one request, so the model draws   *)
(* each request from the unused members of LockId; the pair of thread and  *)
(* lock id that the code stores is the lock id with its owner.  Messages   *)
(* in flight are sets: the order between messages about different locks is *)
(* left open, and the protocol orders those about the same lock.           *)
(***************************************************************************)
EXTENDS Naturals

CONSTANTS Thread,     \* the worker threads of the studio
          Resource,   \* "playlist:<id>" and "rundown:<id>"
          LockId,     \* the lock ids that requests may draw
          NoLock      \* the parent's null holder

ASSUME LocksAssumption == /\ Thread # {}
                          /\ Resource # {}
                          /\ NoLock \notin LockId

VARIABLES
    holder,          \* parent: the lock id that holds each resource
    waitingWorkers,  \* parent: the lock ids queued for each resource
    queuedAt,        \* parent: the place of each lock id in its queue
    lastTicket,      \* parent: the last place given out
    lockEvents,      \* lock and unlock events on their way to the parent
    lockChanges,     \* lockChange calls on their way to a child
    rejected,        \* grants whose lockChange call failed
    lockState,       \* child: where each request is in its life
    owner,           \* the thread that made each request
    resourceOf,      \* the resource each request is for
    child,           \* the state of each child thread
    job,             \* the state of each thread's job, as the parent sees it
    terminating,     \* the threads terminate() was called on
    takenBack        \* history: the locks that releaseAllForThread took from
                     \* their holder

parentVars == <<holder, waitingWorkers, queuedAt, lastTicket>>
requestVars == <<owner, resourceOf>>
threadVars == <<child, job, terminating>>
vars == <<parentVars, lockEvents, lockChanges, rejected, lockState,
          requestVars, threadVars, takenBack>>

Event == [event : {"lock", "unlock"}, lockId : LockId]
Change == [lockId : LockId, locked : BOOLEAN]

Grant(l) == [lockId |-> l, locked |-> TRUE]

\* Fault: the answer to an unlock says that the lock was granted.
UnlockedAsGrant(l) == Grant(l)
Unlocked(l) == [lockId |-> l, locked |-> FALSE]

\* Fault: the messages themselves stand for the requests they are about.
GrantMessages(changes) == {m \in changes : m.locked}
GrantsAmong(changes) == {l \in LockId : Grant(l) \in changes}

\* The requests a child still knows of.
Alive == {"aquiring", "held", "releasing"}
LocksOf(t) == {l \in LockId : lockState[l] \in Alive /\ owner[l] = t}

TypeOK ==
    /\ holder \in [Resource -> LockId \cup {NoLock}]
    /\ waitingWorkers \in [Resource -> SUBSET LockId]
    /\ queuedAt \in [LockId -> Nat]
    /\ lastTicket \in Nat
    /\ lockEvents \subseteq Event
    /\ lockChanges \subseteq Change
    /\ rejected \subseteq LockId
    /\ lockState \in [LockId -> Alive \cup {"unused", "done"}]
    /\ owner \in [LockId -> Thread]
    /\ resourceOf \in [LockId -> Resource]
    /\ child \in [Thread -> {"uninitialised", "ready", "closed"}]
    /\ job \in [Thread -> {"idle", "running", "returned"}]
    /\ terminating \subseteq Thread
    /\ takenBack \subseteq LockId

Init ==
    /\ holder = [r \in Resource |-> NoLock]
    /\ waitingWorkers = [r \in Resource |-> {}]
    /\ queuedAt = [l \in LockId |-> 0]
    /\ lastTicket = 0
    /\ lockEvents = {}
    /\ lockChanges = {}
    /\ rejected = {}
    /\ lockState = [l \in LockId |-> "unused"]
    /\ owner = [l \in LockId |-> CHOOSE t \in Thread : TRUE]
    /\ resourceOf = [l \in LockId |-> CHOOSE r \in Resource : TRUE]
    /\ child = [t \in Thread |-> "uninitialised"]
    /\ job = [t \in Thread |-> "idle"]
    /\ terminating = {}
    /\ takenBack = {}

-----------------------------------------------------------------------------
(* The parent *)

\* The request that a queue is headed by, given the places in the queue.
Oldest(queue, at) == CHOOSE l \in queue : \A k \in queue : at[l] <= at[k]

\* The resources of R that lockNextWorker gives to a waiting request, when
\* their holders are h and their queues are q.
\* Fault: a resource is given away while it is held.
ServedWhileHeld(R, h, q) == {r \in R : q[r] # {}}
Served(R, h, q) == {r \in R : h[r] = NoLock /\ q[r] # {}}

\* lockNextWorker for each resource in R: a free resource with a queue is
\* assumed to be locked by the head of the queue, which is told so.
LockNextWorker(R, h, q, at, changes) ==
    LET served == Served(R, h, q)
    IN  /\ holder' = [r \in Resource |->
                        IF r \in served THEN Oldest(q[r], at) ELSE h[r]]
        /\ waitingWorkers' = [r \in Resource |->
                        IF r \in served THEN q[r] \ {Oldest(q[r], at)} ELSE q[r]]
        /\ lockChanges' = changes \cup {Grant(Oldest(q[r], at)) : r \in served}

\* Places are counted from one again when nobody is queued.
NextTicket ==
    IF \A r \in Resource : waitingWorkers[r] = {} THEN 1 ELSE lastTicket + 1

\* handleLockEvent, case 'lock': join the queue, and lock if that is possible.
HandleLock(l) ==
    LET r == resourceOf[l]
        at == [queuedAt EXCEPT ![l] = NextTicket]
    IN  /\ [event |-> "lock", lockId |-> l] \in lockEvents
        /\ lockEvents' = lockEvents \ {[event |-> "lock", lockId |-> l]}
        /\ queuedAt' = at
        /\ lastTicket' = NextTicket
        /\ LockNextWorker({r}, holder,
                          [waitingWorkers EXCEPT ![r] = @ \cup {l}], at, lockChanges)
        /\ UNCHANGED <<rejected, lockState, requestVars, threadVars, takenBack>>

\* handleLockEvent, case 'unlock': only the holder can unlock, and is told so;
\* whoever asked, the resource is offered to the next in the queue.
HandleUnlock(l) ==
    LET r == resourceOf[l]
        mine == holder[r] = l
    IN  /\ [event |-> "unlock", lockId |-> l] \in lockEvents
        /\ lockEvents' = lockEvents \ {[event |-> "unlock", lockId |-> l]}
        /\ LockNextWorker({r},
                IF mine THEN [holder EXCEPT ![r] = NoLock] ELSE holder,
                waitingWorkers, queuedAt,
                lockChanges \cup (IF mine THEN {Unlocked(l)} ELSE {}))
        /\ UNCHANGED <<queuedAt, lastTicket, rejected, lockState, requestVars,
                       threadVars, takenBack>>

\* The lockChange call of a grant failed: free the resource if the request
\* still is its holder, and try the next.
\* Fault: the next in the queue is not tried.
GrantRejectedAndLeft(l) ==
    LET r == resourceOf[l]
    IN  /\ l \in rejected
        /\ rejected' = rejected \ {l}
        /\ holder' = [holder EXCEPT ![r] = IF @ = l THEN NoLock ELSE @]
        /\ UNCHANGED <<waitingWorkers, lockChanges, queuedAt, lastTicket, lockEvents,
                       lockState, requestVars, threadVars, takenBack>>

GrantRejected(l) ==
    LET r == resourceOf[l]
    IN  /\ l \in rejected
        /\ rejected' = rejected \ {l}
        /\ IF holder[r] = l
           THEN LockNextWorker({r}, [holder EXCEPT ![r] = NoLock], waitingWorkers,
                               queuedAt, lockChanges)
           ELSE UNCHANGED <<holder, waitingWorkers, lockChanges>>
        /\ UNCHANGED <<queuedAt, lastTicket, lockEvents, lockState, requestVars,
                       threadVars, takenBack>>

\* The resources that a thread holds, and the queues once it has left them.
\* Fault: nothing is found to free.
NothingHeldBy(t) == {}
HeldBy(t) == {r \in Resource : holder[r] # NoLock /\ owner[holder[r]] = t}

\* Fault: the thread is left in the queues.
QueuesWith(t) == waitingWorkers
QueuesWithout(t) ==
    [r \in Resource |-> {l \in waitingWorkers[r] : owner[l] # t}]

\* releaseAllForThread: leave every queue, free every resource held and offer
\* those to the next in the queue.  The child is neither asked nor told.
ReleaseAllForThread(t) ==
    /\ LockNextWorker(HeldBy(t),
            [r \in Resource |-> IF r \in HeldBy(t) THEN NoLock ELSE holder[r]],
            QueuesWithout(t), queuedAt, lockChanges)
    /\ takenBack' = takenBack \cup {holder[r] : r \in HeldBy(t)}
    /\ UNCHANGED <<queuedAt, lastTicket>>

-----------------------------------------------------------------------------
(* The child *)

\* runJob: the worker loop of an initialised thread starts a job.
RunJob(t) ==
    /\ child[t] = "ready"
    /\ job[t] = "idle"
    /\ job' = [job EXCEPT ![t] = "running"]
    /\ UNCHANGED <<parentVars, lockEvents, lockChanges, rejected, lockState,
                   requestVars, child, terminating, takenBack>>

\* aquire, called by lockPlaylist and lockRundown with a new lock id.
Aquire(t, r, l) ==
    /\ job[t] = "running"
    /\ lockState[l] = "unused"
    /\ lockState' = [lockState EXCEPT ![l] = "aquiring"]
    /\ owner' = [owner EXCEPT ![l] = t]
    /\ resourceOf' = [resourceOf EXCEPT ![l] = r]
    /\ lockEvents' = lockEvents \cup {[event |-> "lock", lockId |-> l]}
    /\ UNCHANGED <<parentVars, lockChanges, rejected, threadVars, takenBack>>

\* The parent has not answered for TimeoutAquireLock: the request is no longer
\* pending and its job gets an error.  The parent is not told.
AquireTimesOut(l) ==
    /\ lockState[l] = "aquiring"
    /\ lockState' = [lockState EXCEPT ![l] = "done"]
    /\ UNCHANGED <<parentVars, lockEvents, lockChanges, rejected, requestVars,
                   threadVars, takenBack>>

\* release, by the job or, for a lock it left locked, by cleanupResources.
Release(l) ==
    /\ lockState[l] = "held"
    /\ lockState' = [lockState EXCEPT ![l] = "releasing"]
    /\ lockEvents' = lockEvents \cup {[event |-> "unlock", lockId |-> l]}
    /\ UNCHANGED <<parentVars, lockChanges, rejected, requestVars, threadVars,
                   takenBack>>

\* The parent has not answered for TimeoutReleaseLock.
ReleaseTimesOut(l) ==
    /\ lockState[l] = "releasing"
    /\ lockState' = [lockState EXCEPT ![l] = "done"]
    /\ UNCHANGED <<parentVars, lockEvents, lockChanges, rejected, requestVars,
                   threadVars, takenBack>>

\* lockChange in an initialised child, and the changeEvent it defers: resolve the
\* pending request.  The answer that was waited for moves it on, the other one
\* is an error, and one that nothing waits for is logged and otherwise ignored;
\* to the parent all three are a success.
LockChange(m) ==
    /\ m \in lockChanges
    /\ child[owner[m.lockId]] = "ready"
    /\ lockChanges' = lockChanges \ {m}
    /\ lockState' = [lockState EXCEPT ![m.lockId] =
            CASE @ = "aquiring"  -> IF m.locked THEN "held" ELSE "done"
              [] @ = "releasing" -> "done"
              [] OTHER           -> @]
    /\ UNCHANGED <<parentVars, lockEvents, rejected, requestVars, threadVars,
                   takenBack>>

\* lockChange in a child that is not initialised or has closed: the call throws.
LockChangeFails(m) ==
    /\ m \in lockChanges
    /\ child[owner[m.lockId]] # "ready"
    /\ lockChanges' = lockChanges \ {m}
    /\ rejected' = rejected \cup GrantsAmong({m})
    /\ UNCHANGED <<parentVars, lockEvents, lockState, requestVars, threadVars,
                   takenBack>>

\* runJob returns once cleanupResources finds no lock of the job still locked.
\* A branch the job did not wait for may still be aquiring or releasing one.
JobReturns(t) ==
    /\ job[t] = "running"
    /\ \A l \in LocksOf(t) : lockState[l] # "held"
    /\ job' = [job EXCEPT ![t] = "returned"]
    /\ UNCHANGED <<parentVars, lockEvents, lockChanges, rejected, lockState,
                   requestVars, child, terminating, takenBack>>

-----------------------------------------------------------------------------
(* The life of a thread *)

\* Fault: its locks are not freed.
JobFinishedOnly(t) ==
    /\ job[t] = "returned"
    /\ job' = [job EXCEPT ![t] = "idle"]
    /\ UNCHANGED <<parentVars, lockEvents, lockChanges, rejected, lockState,
                   requestVars, child, terminating, takenBack>>

\* The worker loop after a job: report it, then free its locks.  The lock
\* events sent before the result have been handled: their setImmediate runs
\* before the answer to jobFinished can arrive.
JobFinished(t) ==
    /\ job[t] = "returned"
    /\ \A e \in lockEvents : e.event = "lock" => owner[e.lockId] # t
    /\ ReleaseAllForThread(t)
    /\ job' = [job EXCEPT ![t] = "idle"]
    /\ UNCHANGED <<lockEvents, rejected, lockState, requestVars, child, terminating>>

\* The worker loop initialises a thread that is PendingInit.
InitWorker(t) ==
    /\ child[t] = "uninitialised"
    /\ job[t] = "idle"
    /\ child' = [child EXCEPT ![t] = "ready"]
    /\ UNCHANGED <<parentVars, lockEvents, lockChanges, rejected, lockState,
                   requestVars, job, terminating, takenBack>>

\* The child dies and is replaced (it crashed or froze, or the watchdog found a
\* job that took too long).  Its requests are gone, the calls to it fail, and a
\* part of what it sent still arrives.  A job in it fails.
ThreadRestarts(t) ==
    /\ child[t] = "ready"
    /\ child' = [child EXCEPT ![t] = "uninitialised"]
    /\ job' = [job EXCEPT ![t] = IF @ = "running" THEN "returned" ELSE @]
    /\ lockState' = [l \in LockId |-> IF l \in LocksOf(t) THEN "done" ELSE lockState[l]]
    /\ \E lost \in SUBSET {e \in lockEvents : owner[e.lockId] = t} :
            lockEvents' = lockEvents \ lost
    /\ LET failed == {m \in lockChanges : owner[m.lockId] = t}
       IN  /\ lockChanges' = lockChanges \ failed
           /\ rejected' = rejected \cup GrantsAmong(failed)
    /\ UNCHANGED <<parentVars, requestVars, terminating, takenBack>>

\* terminate() frees the locks of the thread, whether or not its job has ended,
\* and only then asks the worker loop to stop.
Terminate(t) ==
    /\ t \notin terminating
    /\ terminating' = terminating \cup {t}
    /\ ReleaseAllForThread(t)
    /\ UNCHANGED <<lockEvents, rejected, lockState, requestVars, child, job>>

\* The worker loop has exited, so the thread is destroyed.
TerminateWorkerThread(t) ==
    /\ t \in terminating
    /\ job[t] = "idle"
    /\ child[t] # "closed"
    /\ child' = [child EXCEPT ![t] = "closed"]
    /\ lockState' = [l \in LockId |-> IF l \in LocksOf(t) THEN "done" ELSE lockState[l]]
    /\ UNCHANGED <<parentVars, lockEvents, lockChanges, rejected, requestVars, job,
                   terminating, takenBack>>

-----------------------------------------------------------------------------
Parent ==
    \/ \E l \in LockId : HandleLock(l) \/ HandleUnlock(l) \/ GrantRejected(l)
    \/ \E t \in Thread : JobFinished(t) \/ InitWorker(t)

Child ==
    \/ \E t \in Thread : RunJob(t) \/ JobReturns(t)
    \/ \E t \in Thread, r \in Resource, l \in LockId : Aquire(t, r, l)
    \/ \E l \in LockId : AquireTimesOut(l) \/ Release(l) \/ ReleaseTimesOut(l)
    \/ \E m \in lockChanges : LockChange(m) \/ LockChangeFails(m)

Environment ==
    \E t \in Thread : ThreadRestarts(t) \/ Terminate(t) \/ TerminateWorkerThread(t)

Next == Parent \/ Child \/ Environment

Spec == Init /\ [][Next]_vars

\* What the runtime guarantees: callbacks and messages are delivered, timers
\* fire, and a job comes to an end (it returns, or the watchdog kills it).
Fairness ==
    /\ \A l \in LockId :
          /\ WF_vars(HandleLock(l)) /\ WF_vars(HandleUnlock(l)) /\ WF_vars(GrantRejected(l))
          /\ WF_vars(AquireTimesOut(l)) /\ WF_vars(Release(l)) /\ WF_vars(ReleaseTimesOut(l))
          /\ \A b \in BOOLEAN : LET m == [lockId |-> l, locked |-> b]
                                IN WF_vars(LockChange(m) \/ LockChangeFails(m))
    /\ \A t \in Thread : /\ WF_vars(JobFinished(t))
                         /\ WF_vars(JobReturns(t) \/ (job[t] = "running" /\ ThreadRestarts(t)))

FairSpec == Spec /\ Fairness

-----------------------------------------------------------------------------
(* Properties *)

\* A resource is owned by one request at a time: no two jobs are both between
\* aquire and release of the same playlist or rundown, unless the parent took
\* the lock back while a branch of its job was still running.
Owners(r) == {l \in LockId : lockState[l] = "held" /\ resourceOf[l] = r}

MutualExclusion ==
    \A r \in Resource : \A k, l \in Owners(r) \ takenBack : k = l

\* No wake-up is lost: nobody waits for a resource that nobody holds, whichever
\* of unlock, a failed grant, the end of a job or a shutdown freed it.
NoWaiterOfAFreeResource ==
    \A r \in Resource : holder[r] = NoLock => waitingWorkers[r] = {}

\* Whatever timed out, was killed or was never released during a job, when the
\* thread is idle the parent holds nothing in its name and queues nothing.
IdleThreadHasNoLocks ==
    \A t \in Thread : job[t] = "idle" =>
        \A r \in Resource : /\ holder[r] # NoLock => owner[holder[r]] # t
                            /\ \A l \in waitingWorkers[r] : owner[l] # t

\* An answer is never taken for another: a request that waits for its lock is not
\* told that it was unlocked, one that waits for its unlock not that it was
\* locked ("wanted lock but got unlock", "wanted unlock but got lock").
AnswersMatchRequests ==
    \A m \in lockChanges :
        /\ lockState[m.lockId] = "aquiring" => m.locked
        /\ lockState[m.lockId] = "releasing" => ~m.locked

\* A request that is queued does not stay queued: whoever is before it releases,
\* times out, dies or ends its job.
QueuedRequestLeavesTheQueue ==
    \A l \in LockId :
        (\E r \in Resource : l \in waitingWorkers[r])
            ~> (\A r \in Resource : l \notin waitingWorkers[r])

\* A lock whose request has timed out in the child, and which therefore nobody
\* will ever unlock, is taken back.
TimedOutLockIsFreed ==
    \A l \in LockId :
        (\E r \in Resource : holder[r] = l /\ lockState[l] = "done")
            ~> (\A r \in Resource : holder[r] # l)
=============================================================================
