----------------------------- MODULE WorkerLoop -----------------------------
(***************************************************************************)
(* One job queue of the Meteor server (meteor/server/worker/worker.ts) and *)
(* the worker thread that serves it: the loop in the worker process that   *)
(* long-polls the queue (packages/job-worker/src/workers/parent-base.ts)   *)
(* and the child thread that runs the jobs (workers/studio/child.ts).      *)
(*                                                                         *)
(* Queues are independent of each other, so one is modelled.  The server   *)
(* outlives the worker process, which threadedClass restarts; the worker   *)
(* process outlives the child, which threadedClass restarts after a crash  *)
(* and the worker process itself after a failed initialisation or a job    *)
(* that takes too long.                                                    *)
(*                                                                         *)
(* A null entry is only ever put at the front of a queue and a job only at *)
(* its end, so the entries are a number of nulls followed by the jobs.     *)
(***************************************************************************)
EXTENDS Naturals, Sequences

CONSTANTS Job,        \* the jobs that callers queue, by their random id
          NoJob,      \* the loop has no job
          MaxFaults   \* bound on crashes, closed processes and failed calls

ASSUME WorkerAssumption == NoJob \notin Job /\ MaxFaults \in Nat

VARIABLES
    \* the server
    jobs,          \* the jobs of the queue
    nulls,         \* the null entries in front of them
    notifyWorker,  \* the long-poll that waits for a job, if any
    running,       \* runningJobs
    answer,        \* what the completion handler of each job was called with
    wakeUp,        \* a long-poll of this process was answered, in the background
    \* the worker process
    loop,          \* where its loop is
    threadStatus,
    currentJob,    \* the job that the loop has popped
    result,        \* how the current job ended
    watchdogJobStarted,    \* the watchdog watches the current job
    watchdogRestarting,    \* the restart that the watchdog began has not ended
    terminate,             \* terminate() was called
    pendingInvalidations,  \* a change of the database is to be told to the child
    \* the child
    child,         \* its state
    childJob,      \* the job that it runs
    staleCaches,   \* its caches miss a change the worker process knows of
    \* history
    faults,        \* the faults that happened
    refreshFailed  \* the child failed to refresh its caches since it was started

serverVars == <<jobs, nulls, notifyWorker, running, answer, wakeUp>>
loopVars == <<loop, currentJob, result, watchdogJobStarted>>
statusVars == <<threadStatus, watchdogRestarting, terminate>>
childVars == <<child, childJob>>
cacheVars == <<pendingInvalidations, staleCaches, refreshFailed>>
vars == <<serverVars, loopVars, statusVars, childVars, cacheVars, faults>>

Service == INSTANCE JobService WITH queue <- jobs, active <- running

ThreadStatus == {"Closed", "PendingInit", "Ready", "ManualRestarting"}
LoopState == {"down", "checking", "restarting", "initialising", "waiting", "woken",
              "invalidating", "popping", "fetched", "clearing", "running", "finished",
              "exited"}

TypeOK ==
    /\ jobs \in Seq(Job)
    /\ nulls \in Nat
    /\ notifyWorker \in {"none", "current", "stale"}
    /\ running \subseteq Job
    /\ answer \in [Job -> {"none", "result", "error"}]
    /\ wakeUp \in BOOLEAN
    /\ loop \in LoopState
    /\ threadStatus \in ThreadStatus
    /\ currentJob \in Job \cup {NoJob}
    /\ result \in {"result", "error"}
    /\ watchdogJobStarted \in BOOLEAN
    /\ watchdogRestarting \in BOOLEAN
    /\ terminate \in BOOLEAN
    /\ pendingInvalidations \in BOOLEAN
    /\ child \in {"uninitialised", "ready", "closed", "killed", "destroyed"}
    /\ childJob \in Job \cup {NoJob}
    /\ staleCaches \in BOOLEAN
    /\ faults \in 0..MaxFaults
    /\ refreshFailed \in BOOLEAN

Init ==
    /\ jobs = <<>>
    /\ nulls = 0
    /\ notifyWorker = "none"
    /\ running = {}
    /\ answer = [j \in Job |-> "none"]
    /\ wakeUp = FALSE
    /\ loop = "down"
    /\ threadStatus = "PendingInit"
    /\ currentJob = NoJob
    /\ result = "error"
    /\ watchdogJobStarted = FALSE
    /\ watchdogRestarting = FALSE
    /\ terminate = FALSE
    /\ pendingInvalidations = FALSE
    /\ child = "destroyed"
    /\ childJob = NoJob
    /\ staleCaches = FALSE
    /\ faults = 0
    /\ refreshFailed = FALSE

\* Something goes wrong that the bound still allows for.
Fault == faults < MaxFaults /\ faults' = faults + 1

-----------------------------------------------------------------------------
(* The queue in the server *)

\* Fault: the handle is cleared and nobody is told.
NotifyNobody == notifyWorker' = "none" /\ UNCHANGED wakeUp

\* Answer the long-poll, if there is one.  The answer to a poll of an earlier
\* process reaches nobody.
Notify ==
    /\ notifyWorker' = "none"
    /\ wakeUp' = (wakeUp \/ notifyWorker = "current")

\* queueJobInner, with the new id that a job gets.
QueueJob(j) ==
    /\ j \notin running /\ answer[j] = "none" /\ \A i \in DOMAIN jobs : jobs[i] # j
    /\ jobs' = Append(jobs, j)
    /\ Notify
    /\ UNCHANGED <<nulls, running, answer, loopVars, statusVars, childVars, cacheVars,
                   faults>>

\* interruptJobStream: answer the long-poll or, without one, queue a null.
InterruptJobStream ==
    /\ Notify
    /\ nulls' = IF notifyWorker = "none" THEN nulls + 1 ELSE nulls
    /\ UNCHANGED <<jobs, running, answer>>

\* Fault: a job that was answered stays running.
JobFinishedAndKept(j, outcome) ==
    /\ answer' = [answer EXCEPT ![j] = IF j \in running THEN outcome ELSE @]
    /\ UNCHANGED <<running, jobs, nulls, notifyWorker, wakeUp>>

\* jobFinished: a job that is not running any more has been answered before.
JobFinished(j, outcome) ==
    /\ running' = running \ {j}
    /\ answer' = [answer EXCEPT ![j] = IF j \in running THEN outcome ELSE @]
    /\ UNCHANGED <<jobs, nulls, notifyWorker, wakeUp>>

-----------------------------------------------------------------------------
(* The loop in the worker process *)

\* The top of the loop, for a thread in the given state.
Checks(status) ==
    /\ loop = "checking"
    /\ ~terminate
    /\ threadStatus = status

\* tryRestartThread, by the loop: the child is killed and then replaced.
RestartThread ==
    /\ Checks("ManualRestarting")
    /\ loop' = "restarting"
    /\ child' = "killed"
    /\ childJob' = NoJob
    /\ UNCHANGED <<serverVars, currentJob, result, watchdogJobStarted, statusVars,
                   cacheVars, faults>>

\* A new child, which has nothing loaded; 'restarted' is not fired for it.
ReplaceChild ==
    /\ child' = "uninitialised"
    /\ childJob' = NoJob
    /\ threadStatus' = "PendingInit"

RestartThreadEnds ==
    /\ loop = "restarting"
    /\ loop' = "checking"
    /\ \/ ReplaceChild /\ UNCHANGED faults
       \/ Fault /\ UNCHANGED <<childVars, threadStatus>>
    /\ UNCHANGED <<serverVars, currentJob, result, watchdogJobStarted, watchdogRestarting,
                   terminate, cacheVars>>

InitWorker ==
    /\ Checks("PendingInit")
    /\ loop' = "initialising"
    /\ UNCHANGED <<serverVars, currentJob, result, watchdogJobStarted, statusVars,
                   childVars, cacheVars, faults>>

\* The child has loaded the caches, perhaps before a change that is pending.
InitWorkerEnds ==
    /\ loop = "initialising"
    /\ loop' = "checking"
    /\ \/ /\ child = "uninitialised"
          /\ child' = "ready"
          /\ threadStatus' = "Ready"
          /\ staleCaches' = pendingInvalidations
          /\ refreshFailed' = FALSE
          /\ UNCHANGED faults
       \/ /\ \/ child # "uninitialised" /\ UNCHANGED faults
             \/ Fault
          /\ threadStatus' = "ManualRestarting"
          /\ UNCHANGED <<child, staleCaches, refreshFailed>>
    /\ UNCHANGED <<serverVars, currentJob, result, watchdogJobStarted, watchdogRestarting,
                   terminate, childJob, pendingInvalidations>>

\* waitForNextJob: return when the queue has an entry, else be the long-poll,
\* in place of one that is there already.
WaitForNextJob ==
    /\ Checks("Ready")
    /\ IF nulls > 0 \/ jobs # <<>>
       THEN loop' = "woken" /\ UNCHANGED notifyWorker
       ELSE loop' = "waiting" /\ notifyWorker' = "current"
    /\ UNCHANGED <<jobs, nulls, running, answer, wakeUp, currentJob, result,
                   watchdogJobStarted, statusVars, childVars, cacheVars, faults>>

\* The deferred answer to the long-poll arrives.
WokenUp ==
    /\ loop = "waiting"
    /\ wakeUp
    /\ loop' = "woken"
    /\ wakeUp' = FALSE
    /\ UNCHANGED <<jobs, nulls, notifyWorker, running, answer, currentJob, result,
                   watchdogJobStarted, statusVars, childVars, cacheVars, faults>>

\* The changes of the database are taken off the loop, then told to the child.
InvalidateCaches ==
    /\ loop = "woken"
    /\ pendingInvalidations
    /\ loop' = "invalidating"
    /\ pendingInvalidations' = FALSE
    /\ UNCHANGED <<serverVars, currentJob, result, watchdogJobStarted, statusVars,
                   childVars, staleCaches, refreshFailed, faults>>

\* Fault: the changes are taken off when they have been told, with those that came
\* in between.
InvalidateCachesEndsAll ==
    /\ loop = "invalidating"
    /\ child = "ready"
    /\ staleCaches' = pendingInvalidations
    /\ pendingInvalidations' = FALSE
    /\ loop' = "popping"
    /\ UNCHANGED <<serverVars, currentJob, result, watchdogJobStarted, statusVars,
                   childVars, refreshFailed, faults>>

\* A child that is gone or not initialised, or that cannot reach the database,
\* throws, and the loop starts over.
InvalidateCachesEnds ==
    /\ loop = "invalidating"
    /\ \/ /\ child = "ready"
          /\ staleCaches' = pendingInvalidations
          /\ loop' = "popping"
          /\ UNCHANGED <<refreshFailed, faults>>
       \/ /\ \/ child # "ready" /\ UNCHANGED <<refreshFailed, faults>>
             \/ child = "ready" /\ Fault /\ refreshFailed' = TRUE
          /\ loop' = "checking"
          /\ UNCHANGED staleCaches
    /\ UNCHANGED <<serverVars, currentJob, result, watchdogJobStarted, statusVars,
                   childVars, pendingInvalidations>>

\* Fault: a null is taken off an empty queue, and the job stays in the queue.
PopJobLeft ==
    /\ loop = "popping" \/ (loop = "woken" /\ ~pendingInvalidations)
    /\ IF nulls = 0 /\ jobs # <<>>
       THEN /\ currentJob' = Head(jobs)
            /\ running' = running \cup {Head(jobs)}
            /\ loop' = "fetched"
            /\ UNCHANGED <<jobs, nulls>>
       ELSE nulls' = nulls - 1 /\ loop' = "checking" /\ UNCHANGED <<currentJob, jobs, running>>
    /\ UNCHANGED <<notifyWorker, answer, wakeUp, result, watchdogJobStarted, statusVars,
                   childVars, cacheVars, faults>>

\* getNextJob: the first entry of the queue, which may be a null or missing.
PopJob ==
    /\ loop = "popping" \/ (loop = "woken" /\ ~pendingInvalidations)
    /\ IF nulls = 0 /\ jobs # <<>>
       THEN /\ currentJob' = Head(jobs)
            /\ jobs' = Tail(jobs)
            /\ running' = running \cup {Head(jobs)}
            /\ loop' = "fetched"
            /\ UNCHANGED nulls
       ELSE /\ nulls' = IF nulls > 0 THEN nulls - 1 ELSE 0
            /\ loop' = "checking"
            /\ UNCHANGED <<currentJob, jobs, running>>
    /\ UNCHANGED <<notifyWorker, answer, wakeUp, result, watchdogJobStarted, statusVars,
                   childVars, cacheVars, faults>>

\* runJobInWorker.  The state of the thread is not looked at again, so a child
\* that is not initialised, or not there, throws.
RunJob ==
    /\ loop = "fetched"
    /\ IF child = "ready"
       THEN /\ childJob' = currentJob
            /\ loop' = "running"
            /\ watchdogJobStarted' = TRUE
            /\ UNCHANGED result
       ELSE /\ loop' = "finished"
            /\ result' = "error"
            /\ UNCHANGED <<childJob, watchdogJobStarted>>
    /\ UNCHANGED <<serverVars, currentJob, statusVars, child, cacheVars, faults>>

\* A job of the name FORCE_CLEAR_CACHES is the loop's own: the changes it knows
\* of are taken off it, and the child is told to load everything again.
ForceClearCaches ==
    /\ loop = "fetched"
    /\ loop' = "clearing"
    /\ watchdogJobStarted' = TRUE
    /\ pendingInvalidations' = FALSE
    /\ UNCHANGED <<serverVars, currentJob, result, statusVars, childVars, staleCaches,
                   refreshFailed, faults>>

ForceClearCachesEnds ==
    /\ loop = "clearing"
    /\ \/ /\ child = "ready"
          /\ result' = "result"
          /\ staleCaches' = pendingInvalidations
          /\ refreshFailed' = FALSE
          /\ UNCHANGED faults
       \/ /\ \/ child # "ready" /\ UNCHANGED <<refreshFailed, faults>>
             \/ child = "ready" /\ Fault /\ refreshFailed' = TRUE
          /\ result' = "error"
          /\ UNCHANGED staleCaches
    /\ loop' = "finished"
    /\ watchdogJobStarted' = FALSE
    /\ UNCHANGED <<serverVars, currentJob, statusVars, childVars, pendingInvalidations>>

\* The child has run the job, or it has died while it did.
RunJobEnds ==
    /\ loop = "running"
    /\ result' = IF childJob = currentJob THEN "result" ELSE "error"
    /\ loop' = "finished"
    /\ childJob' = NoJob
    /\ watchdogJobStarted' = FALSE
    /\ UNCHANGED <<serverVars, currentJob, statusVars, child, cacheVars, faults>>

\* The job is reported to the server and its locks are freed.
ReportJob ==
    /\ loop = "finished"
    /\ JobFinished(currentJob, result)
    /\ loop' = "checking"
    /\ currentJob' = NoJob
    /\ UNCHANGED <<result, watchdogJobStarted, statusVars, childVars, cacheVars, faults>>

\* The watchdog finds that a job takes too long, and begins to restart the child.
WatchdogKills ==
    /\ watchdogJobStarted
    /\ ~terminate
    /\ watchdogJobStarted' = FALSE
    /\ watchdogRestarting' = TRUE
    /\ threadStatus' = "ManualRestarting"
    /\ child' = "killed"
    /\ childJob' = NoJob
    /\ UNCHANGED <<serverVars, loop, currentJob, result, terminate, cacheVars, faults>>

WatchdogRestartEnds ==
    /\ watchdogRestarting
    /\ watchdogRestarting' = FALSE
    /\ \/ ReplaceChild /\ UNCHANGED faults
       \/ Fault /\ UNCHANGED <<childVars, threadStatus>>
    /\ UNCHANGED <<serverVars, loopVars, terminate, cacheVars>>

\* terminate(): the loop is to stop when it is next at its top.
Terminate ==
    /\ loop # "down"
    /\ ~terminate
    /\ terminate' = TRUE
    /\ UNCHANGED <<serverVars, loopVars, threadStatus, watchdogRestarting, childVars,
                   cacheVars, faults>>

\* The loop exits, and terminateWorkerThread destroys the child.
LoopExits ==
    /\ loop = "checking"
    /\ terminate
    /\ loop' = "exited"
    /\ child' = "destroyed"
    /\ childJob' = NoJob
    /\ UNCHANGED <<serverVars, currentJob, result, watchdogJobStarted, statusVars,
                   cacheVars, faults>>

-----------------------------------------------------------------------------
(* The environment *)

\* A document that the child caches has changed: queueCacheInvalidation.
DatabaseChanges ==
    /\ loop # "down"
    /\ pendingInvalidations' = TRUE
    /\ staleCaches' = TRUE
    /\ UNCHANGED <<serverVars, loopVars, statusVars, childVars, refreshFailed, faults>>

\* The child crashes, 'thread_closed', which a manual restart ignores.
ThreadClosed ==
    /\ Fault
    /\ child \in {"uninitialised", "ready"}
    /\ child' = "closed"
    /\ childJob' = NoJob
    /\ IF threadStatus = "ManualRestarting"
       THEN UNCHANGED <<serverVars, threadStatus>>
       ELSE threadStatus' = "Closed" /\ InterruptJobStream
    /\ UNCHANGED <<loopVars, watchdogRestarting, terminate, cacheVars>>

\* threadedClass has started a crashed child again, 'restarted'.
ThreadRestarted ==
    /\ child = "closed"
    /\ child' = "uninitialised"
    /\ threadStatus' = "PendingInit"
    /\ InterruptJobStream
    /\ UNCHANGED <<loopVars, watchdogRestarting, terminate, childJob, cacheVars, faults>>

\* The worker process closes, and its child with it: the server answers what was
\* running, and keeps the queue.
ProcessClosed ==
    /\ Fault
    /\ loop # "down"
    /\ running' = {}
    /\ answer' = [j \in Job |-> IF j \in running THEN "error" ELSE answer[j]]
    /\ notifyWorker' = IF notifyWorker = "none" THEN "none" ELSE "stale"
    /\ wakeUp' = FALSE
    /\ loop' = "down"
    /\ currentJob' = NoJob
    /\ watchdogJobStarted' = FALSE
    /\ watchdogRestarting' = FALSE
    /\ terminate' = FALSE
    /\ pendingInvalidations' = FALSE
    /\ child' = "destroyed"
    /\ childJob' = NoJob
    /\ staleCaches' = FALSE
    /\ UNCHANGED <<jobs, nulls, result, threadStatus, refreshFailed>>

\* The worker process has started (again): run() creates the thread and its loop.
ProcessStarted ==
    /\ loop = "down"
    /\ loop' = "checking"
    /\ child' = "uninitialised"
    /\ threadStatus' = "PendingInit"
    /\ UNCHANGED <<serverVars, currentJob, result, watchdogJobStarted, watchdogRestarting,
                   terminate, childJob, cacheVars, faults>>

-----------------------------------------------------------------------------
LoopStep ==
    \/ RestartThread \/ RestartThreadEnds \/ InitWorker \/ InitWorkerEnds
    \/ WaitForNextJob \/ WokenUp \/ InvalidateCaches \/ InvalidateCachesEnds
    \/ PopJob \/ RunJob \/ ForceClearCaches \/ ForceClearCachesEnds
    \/ ReportJob \/ LoopExits

Watchdog == WatchdogKills \/ WatchdogRestartEnds

Environment ==
    \/ \E j \in Job : QueueJob(j)
    \/ Terminate \/ DatabaseChanges \/ ThreadClosed \/ ThreadRestarted
    \/ ProcessClosed \/ ProcessStarted

Next == LoopStep \/ RunJobEnds \/ Watchdog \/ Environment

Spec == Init /\ [][Next]_vars

\* What the runtime guarantees: calls between the processes return, a call to a
\* child that died fails, and threadedClass restarts what closed.  A job need not
\* end by itself, but until the thread is told to terminate the watchdog ends it.
Fairness ==
    /\ WF_vars(LoopStep)
    /\ WF_vars(childJob # currentJob /\ RunJobEnds)
    /\ WF_vars(~terminate /\ (RunJobEnds \/ WatchdogKills))
    /\ WF_vars(WatchdogRestartEnds)
    /\ WF_vars(ThreadRestarted)
    /\ WF_vars(ProcessStarted)

FairSpec == Spec /\ Fairness

-----------------------------------------------------------------------------
(* Properties *)

\* The queue, the loop and the child together are a job service: jobs start in
\* the order they were queued, one at a time and once, and are answered once,
\* whichever of the processes dies and whatever else answers first.
ImplementsJobService == Service!ServiceSpec

\* The server never waits for an answer that nobody is going to give: a job it
\* counts as running is the job that the loop works on.
NoOrphanedJob == running = IF currentJob = NoJob THEN {} ELSE {currentJob}

\* The loop does not sleep while there is work: its long-poll is the one that the
\* server will answer, and an entry in the queue means that the answer is on its
\* way, also when a poll of a dead process was answered in its place.
NoLostWakeUp ==
    loop = "waiting" => /\ notifyWorker = "current" \/ wakeUp
                        /\ nulls > 0 \/ jobs # <<>> => wakeUp

\* A change of the database is not forgotten, also when it comes while the child
\* refreshes its caches, starts or restarts: caches that miss a change are going
\* to be invalidated, unless the child has failed to do that.
NoForgottenChange ==
    child = "ready" /\ staleCaches /\ ~refreshFailed
        => pendingInvalidations \/ loop \in {"invalidating", "clearing"}

\* Whatever crashes, a queued job gets its answer, unless the thread is terminated.
EveryJobIsAnswered ==
    \A j \in Job : (j \in Service!Waiting) ~> (answer[j] # "none" \/ terminate)
=============================================================================
