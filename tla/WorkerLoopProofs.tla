-------------------------- MODULE WorkerLoopProofs --------------------------
(* Proofs about WorkerLoop, for every set of jobs and every number of faults. *)
EXTENDS WorkerLoop, TLAPS

-----------------------------------------------------------------------------
(* The inductive invariant *)

\* A job waits at one place of the queue, and only before it runs or is answered.
OneFate ==
    /\ \A a, b \in DOMAIN jobs : jobs[a] = jobs[b] => a = b
    /\ \A a \in DOMAIN jobs : jobs[a] \notin running /\ answer[jobs[a]] = "none"
    /\ \A j \in running : answer[j] = "none"

\* The loop works on a job from pop() to jobFinished().
LoopHasJob == currentJob # NoJob <=> loop \in {"fetched", "clearing", "running", "finished"}

\* The long-poll of this process belongs to a loop that waits, and is answered once.
PollOfWaitingLoop ==
    /\ notifyWorker = "current" \/ wakeUp => loop = "waiting"
    /\ ~(notifyWorker = "current" /\ wakeUp)

\* The type invariant in two parts: the flags, and all other variables.
FlagsOK ==
    /\ wakeUp \in BOOLEAN
    /\ watchdogJobStarted \in BOOLEAN
    /\ watchdogRestarting \in BOOLEAN
    /\ terminate \in BOOLEAN
    /\ pendingInvalidations \in BOOLEAN
    /\ staleCaches \in BOOLEAN
    /\ refreshFailed \in BOOLEAN

DataOK ==
    /\ jobs \in Seq(Job)
    /\ nulls \in Nat
    /\ notifyWorker \in {"none", "current", "stale"}
    /\ running \subseteq Job
    /\ answer \in [Job -> {"none", "result", "error"}]
    /\ loop \in LoopState
    /\ threadStatus \in ThreadStatus
    /\ currentJob \in Job \cup {NoJob}
    /\ result \in {"result", "error"}
    /\ child \in {"uninitialised", "ready", "closed", "killed", "destroyed"}
    /\ childJob \in Job \cup {NoJob}
    /\ faults \in 0..MaxFaults

ServiceInv == TypeOK /\ OneFate /\ LoopHasJob /\ NoOrphanedJob /\ PollOfWaitingLoop
                     /\ NoLostWakeUp

-----------------------------------------------------------------------------
(* The queue as a sequence *)

(* A job that is queued comes after all others, which keep their places. *)
LEMMA AppendFacts ==
    ASSUME NEW s \in Seq(Job), NEW j \in Job
    PROVE  /\ Append(s, j) \in Seq(Job)
           /\ Append(s, j) # <<>>
           /\ DOMAIN Append(s, j) = 1..(Len(s) + 1)
           /\ DOMAIN s = 1..Len(s)
           /\ \A i \in 1..Len(s) : Append(s, j)[i] = s[i]
           /\ Append(s, j)[Len(s) + 1] = j
OBVIOUS

(* Taking the first job leaves the others, each one place further on. *)
LEMMA TailFacts ==
    ASSUME NEW s \in Seq(Job), s # <<>>
    PROVE  /\ Head(s) = s[1]
           /\ s[1] \in Job
           /\ Tail(s) \in Seq(Job)
           /\ Len(s) \in Nat \ {0}
           /\ DOMAIN s = 1..Len(s)
           /\ DOMAIN Tail(s) = 1..(Len(s) - 1)
           /\ \A i \in 1..(Len(s) - 1) : Tail(s)[i] = s[i + 1]
OBVIOUS

-----------------------------------------------------------------------------
(* The invariant is preserved *)

LEMMA ServiceInvInit == Init => ServiceInv
<1> SUFFICES ASSUME Init PROVE ServiceInv
  OBVIOUS
<1>1. FlagsOK
  BY Zenon DEF Init, FlagsOK
<1>2. DataOK
  BY WorkerAssumption DEF Init, DataOK, LoopState, ThreadStatus
<1>3. OneFate /\ LoopHasJob /\ NoOrphanedJob /\ PollOfWaitingLoop /\ NoLostWakeUp
  BY DEF Init, OneFate, LoopHasJob, NoOrphanedJob, PollOfWaitingLoop, NoLostWakeUp
<1>4. QED
  BY <1>1, <1>2, <1>3 DEF TypeOK, FlagsOK, DataOK, ServiceInv

(* Every variable keeps its type. *)
LEMMA DataStep == ServiceInv /\ [Next]_vars => DataOK'
<1> SUFFICES ASSUME ServiceInv, [Next]_vars PROVE DataOK'
  OBVIOUS
<1>0. DataOK /\ LoopHasJob
  BY DEF ServiceInv, TypeOK, DataOK
<1> USE <1>0, WorkerAssumption DEF DataOK, LoopState, ThreadStatus, serverVars, loopVars,
        statusVars, childVars, cacheVars
<1>1. ASSUME NEW j \in Job, QueueJob(j) PROVE DataOK'
  BY <1>1, AppendFacts DEF QueueJob, Notify
<1>2. CASE PopJob
  <2>1. CASE nulls = 0 /\ jobs # <<>>
    <3>1. Head(jobs) \in Job /\ Tail(jobs) \in Seq(Job)
      BY <2>1, TailFacts
    <3>2. QED
      BY <1>2, <2>1, <3>1 DEF PopJob
  <2>2. CASE ~(nulls = 0 /\ jobs # <<>>)
    BY <1>2, <2>2 DEF PopJob
  <2>3. QED
    BY <2>1, <2>2
<1>3. CASE RestartThread
  BY <1>3 DEF RestartThread, Checks
<1>4. CASE RestartThreadEnds
  BY <1>4 DEF RestartThreadEnds, ReplaceChild, Fault
<1>5. CASE InitWorker
  BY <1>5 DEF InitWorker, Checks
<1>6. CASE InitWorkerEnds
  BY <1>6 DEF InitWorkerEnds, Fault
<1>7. CASE WaitForNextJob
  BY <1>7 DEF WaitForNextJob, Checks
<1>8. CASE WokenUp
  BY <1>8 DEF WokenUp
<1>9. CASE InvalidateCaches
  BY <1>9 DEF InvalidateCaches
<1>10. CASE InvalidateCachesEnds
  BY <1>10 DEF InvalidateCachesEnds, Fault
<1>11. CASE RunJob
  BY <1>11 DEF RunJob, LoopHasJob
<1>12. CASE ReportJob
  BY <1>12 DEF ReportJob, JobFinished, LoopHasJob
<1>13. CASE LoopExits
  BY <1>13 DEF LoopExits
<1>14. CASE RunJobEnds
  BY <1>14 DEF RunJobEnds
<1>15. CASE WatchdogKills
  BY <1>15 DEF WatchdogKills
<1>16. CASE WatchdogRestartEnds
  BY <1>16 DEF WatchdogRestartEnds, ReplaceChild, Fault
<1>17. CASE Terminate
  BY <1>17 DEF Terminate
<1>18. CASE DatabaseChanges
  BY <1>18 DEF DatabaseChanges
<1>19. CASE ThreadClosed
  BY <1>19 DEF ThreadClosed, Fault, InterruptJobStream, Notify
<1>20. CASE ThreadRestarted
  BY <1>20 DEF ThreadRestarted, InterruptJobStream, Notify
<1>21. CASE ProcessClosed
  BY <1>21 DEF ProcessClosed, Fault
<1>22. CASE ProcessStarted
  BY <1>22 DEF ProcessStarted
<1>23. CASE UNCHANGED vars
  BY <1>23 DEF vars
<1>24. CASE ForceClearCaches
  BY <1>24 DEF ForceClearCaches
<1>25. CASE ForceClearCachesEnds
  BY <1>25 DEF ForceClearCachesEnds, Fault
<1>26. QED
  BY <1>1, <1>2, <1>3, <1>4, <1>5, <1>6, <1>7, <1>8, <1>9, <1>10, <1>11, <1>12, <1>13,
     <1>14, <1>15, <1>16, <1>17, <1>18, <1>19, <1>20, <1>21, <1>22, <1>23, <1>24, <1>25
     DEF Next, LoopStep, Watchdog, Environment



LEMMA FlagsStep == ServiceInv /\ [Next]_vars => FlagsOK'
<1> SUFFICES ASSUME ServiceInv, [Next]_vars PROVE FlagsOK'
  OBVIOUS
<1>0. FlagsOK
  BY Zenon DEF ServiceInv, TypeOK, FlagsOK
<1> USE <1>0 DEF FlagsOK, serverVars, loopVars, statusVars, childVars, cacheVars
<1>1. ASSUME NEW j \in Job, QueueJob(j) PROVE FlagsOK'
  BY <1>1 DEF QueueJob, Notify
<1>2. CASE PopJob
  BY <1>2 DEF PopJob
<1>3. CASE RestartThread
  BY <1>3 DEF RestartThread, Checks
<1>4. CASE RestartThreadEnds
  BY <1>4 DEF RestartThreadEnds, ReplaceChild, Fault
<1>5. CASE InitWorker
  BY <1>5 DEF InitWorker, Checks
<1>6. CASE InitWorkerEnds
  BY <1>6 DEF InitWorkerEnds, Fault
<1>7. CASE WaitForNextJob
  BY <1>7 DEF WaitForNextJob, Checks
<1>8. CASE WokenUp
  BY <1>8 DEF WokenUp
<1>9. CASE InvalidateCaches
  BY <1>9 DEF InvalidateCaches
<1>10. CASE InvalidateCachesEnds
  BY <1>10 DEF InvalidateCachesEnds, Fault
<1>11. CASE RunJob
  BY <1>11 DEF RunJob
<1>12. CASE ReportJob
  BY <1>12 DEF ReportJob, JobFinished
<1>13. CASE LoopExits
  BY <1>13 DEF LoopExits
<1>14. CASE RunJobEnds
  BY <1>14 DEF RunJobEnds
<1>15. CASE WatchdogKills
  BY <1>15 DEF WatchdogKills
<1>16. CASE WatchdogRestartEnds
  BY <1>16 DEF WatchdogRestartEnds, ReplaceChild, Fault
<1>17. CASE Terminate
  BY <1>17 DEF Terminate
<1>18. CASE DatabaseChanges
  BY <1>18 DEF DatabaseChanges
<1>19. CASE ThreadClosed
  BY <1>19 DEF ThreadClosed, Fault, InterruptJobStream, Notify
<1>20. CASE ThreadRestarted
  BY <1>20 DEF ThreadRestarted, InterruptJobStream, Notify
<1>21. CASE ProcessClosed
  BY <1>21 DEF ProcessClosed, Fault
<1>22. CASE ProcessStarted
  BY <1>22 DEF ProcessStarted
<1>23. CASE UNCHANGED vars
  BY <1>23 DEF vars
<1>24. CASE ForceClearCaches
  BY <1>24 DEF ForceClearCaches
<1>25. CASE ForceClearCachesEnds
  BY <1>25 DEF ForceClearCachesEnds, Fault
<1>26. QED
  BY <1>1, <1>2, <1>3, <1>4, <1>5, <1>6, <1>7, <1>8, <1>9, <1>10, <1>11, <1>12, <1>13,
     <1>14, <1>15, <1>16, <1>17, <1>18, <1>19, <1>20, <1>21, <1>22, <1>23, <1>24, <1>25
     DEF Next, LoopStep, Watchdog, Environment

(* The loop has a job exactly while the server counts it as running, and the
   long-poll that the server knows belongs to a loop that waits. *)
LEMMA LoopInvStep ==
    ServiceInv /\ [Next]_vars
        => LoopHasJob' /\ NoOrphanedJob' /\ PollOfWaitingLoop' /\ NoLostWakeUp'
<1> DEFINE LoopInv == LoopHasJob /\ NoOrphanedJob /\ PollOfWaitingLoop /\ NoLostWakeUp
<1> SUFFICES ASSUME ServiceInv, [Next]_vars PROVE LoopInv'
  OBVIOUS
<1>0. DataOK /\ LoopInv
  BY DEF ServiceInv, TypeOK, DataOK
<1> USE <1>0, WorkerAssumption
    DEF DataOK, LoopHasJob, NoOrphanedJob, PollOfWaitingLoop, NoLostWakeUp,
        serverVars, loopVars, statusVars, childVars, cacheVars
<1>1. ASSUME NEW j \in Job, QueueJob(j) PROVE LoopInv'
  BY <1>1, AppendFacts DEF QueueJob, Notify
<1>2. CASE PopJob
  <2>1. CASE nulls = 0 /\ jobs # <<>>
    <3>1. Head(jobs) \in Job
      BY <2>1, TailFacts
    <3>2. QED
      BY <1>2, <2>1, <3>1 DEF PopJob
  <2>2. CASE ~(nulls = 0 /\ jobs # <<>>)
    BY <1>2, <2>2 DEF PopJob
  <2>3. QED
    BY <2>1, <2>2
<1>3. CASE RestartThread
  BY <1>3 DEF RestartThread, Checks
<1>4. CASE RestartThreadEnds
  BY <1>4 DEF RestartThreadEnds, ReplaceChild, Fault
<1>5. CASE InitWorker
  BY <1>5 DEF InitWorker, Checks
<1>6. CASE InitWorkerEnds
  BY <1>6 DEF InitWorkerEnds, Fault
<1>7. CASE WaitForNextJob
  BY <1>7 DEF WaitForNextJob, Checks
<1>8. CASE WokenUp
  BY <1>8 DEF WokenUp
<1>9. CASE InvalidateCaches
  BY <1>9 DEF InvalidateCaches
<1>10. CASE InvalidateCachesEnds
  BY <1>10 DEF InvalidateCachesEnds, Fault
<1>11. CASE RunJob
  BY <1>11 DEF RunJob
<1>12. CASE ReportJob
  BY <1>12 DEF ReportJob, JobFinished
<1>13. CASE LoopExits
  BY <1>13 DEF LoopExits
<1>14. CASE RunJobEnds
  BY <1>14 DEF RunJobEnds
<1>15. CASE WatchdogKills
  BY <1>15 DEF WatchdogKills
<1>16. CASE WatchdogRestartEnds
  BY <1>16 DEF WatchdogRestartEnds, ReplaceChild, Fault
<1>17. CASE Terminate
  BY <1>17 DEF Terminate
<1>18. CASE DatabaseChanges
  BY <1>18 DEF DatabaseChanges
<1>19. CASE ThreadClosed
  BY <1>19 DEF ThreadClosed, Fault, InterruptJobStream, Notify
<1>20. CASE ThreadRestarted
  BY <1>20 DEF ThreadRestarted, InterruptJobStream, Notify
<1>21. CASE ProcessClosed
  BY <1>21 DEF ProcessClosed, Fault
<1>22. CASE ProcessStarted
  BY <1>22 DEF ProcessStarted
<1>23. CASE UNCHANGED vars
  BY <1>23 DEF vars
<1>24. CASE ForceClearCaches
  BY <1>24 DEF ForceClearCaches
<1>25. CASE ForceClearCachesEnds
  BY <1>25 DEF ForceClearCachesEnds, Fault
<1>26. QED
  BY <1>1, <1>2, <1>3, <1>4, <1>5, <1>6, <1>7, <1>8, <1>9, <1>10, <1>11, <1>12, <1>13,
     <1>14, <1>15, <1>16, <1>17, <1>18, <1>19, <1>20, <1>21, <1>22, <1>23, <1>24, <1>25
     DEF Next, LoopStep, Watchdog, Environment

(* Which steps change what a caller can see. *)
LEMMA StepKinds ==
    ASSUME ServiceInv, [Next]_vars
    PROVE  \/ \E j \in Job : QueueJob(j)
           \/ PopJob
           \/ ReportJob
           \/ ProcessClosed
           \/ UNCHANGED <<jobs, running, answer>>
<1>1. CASE LoopStep
  BY <1>1 DEF LoopStep, RestartThread, RestartThreadEnds, InitWorker, InitWorkerEnds,
     WaitForNextJob, WokenUp, InvalidateCaches, InvalidateCachesEnds, RunJob, ForceClearCaches,
     ForceClearCachesEnds, LoopExits, serverVars
<1>2. CASE RunJobEnds \/ Watchdog
  BY <1>2 DEF RunJobEnds, Watchdog, WatchdogKills, WatchdogRestartEnds, serverVars
<1>3. CASE Environment
  BY <1>3 DEF Environment, Terminate, DatabaseChanges, ThreadClosed, ThreadRestarted,
     ProcessStarted, InterruptJobStream, serverVars
<1>4. CASE UNCHANGED vars
  BY <1>4 DEF vars, serverVars
<1>5. QED
  BY <1>1, <1>2, <1>3, <1>4 DEF Next

(* A job is never in the queue twice, nor queued while it runs or once it has been
   answered. *)
LEMMA OneFateStep == ServiceInv /\ [Next]_vars => OneFate'
<1> SUFFICES ASSUME ServiceInv, [Next]_vars PROVE OneFate'
  OBVIOUS
<1>0. OneFate /\ DataOK /\ LoopHasJob /\ NoOrphanedJob
  BY DEF ServiceInv, TypeOK, DataOK
<1>1. ASSUME NEW j \in Job, QueueJob(j) PROVE OneFate'
  BY <1>0, <1>1, AppendFacts DEF QueueJob, OneFate, DataOK
<1>2. CASE PopJob
  <2>1. CASE nulls = 0 /\ jobs # <<>>
    <3>1. /\ jobs' = Tail(jobs)
          /\ running' = running \cup {jobs[1]}
          /\ answer' = answer
      BY <1>0, <1>2, <2>1, TailFacts DEF PopJob, DataOK
    <3>2. /\ Len(jobs) \in Nat \ {0}
          /\ DOMAIN jobs = 1..Len(jobs)
          /\ DOMAIN jobs' = 1..(Len(jobs) - 1)
          /\ \A i \in 1..(Len(jobs) - 1) : jobs'[i] = jobs[i + 1]
      BY <1>0, <2>1, <3>1, TailFacts DEF DataOK
    <3>3. \A i \in 1..(Len(jobs) - 1) : i + 1 \in 1..Len(jobs) /\ i + 1 # 1
      BY <3>2
    <3>4. \A a, b \in DOMAIN jobs' : jobs'[a] = jobs'[b] => a = b
      BY <1>0, <3>2, <3>3 DEF OneFate
    <3>5. \A a \in DOMAIN jobs' : jobs'[a] \notin running' /\ answer'[jobs'[a]] = "none"
      BY <1>0, <3>1, <3>2, <3>3 DEF OneFate
    <3>6. \A j \in running' : answer'[j] = "none"
      BY <1>0, <3>1, <3>2 DEF OneFate
    <3>7. QED
      BY <3>4, <3>5, <3>6 DEF OneFate
  <2>2. CASE ~(nulls = 0 /\ jobs # <<>>)
    BY <1>0, <1>2, <2>2 DEF PopJob, OneFate
  <2>3. QED
    BY <2>1, <2>2
<1>3. CASE ReportJob
  BY <1>0, <1>3 DEF ReportJob, JobFinished, OneFate, DataOK
<1>4. CASE ProcessClosed
  BY <1>0, <1>4 DEF ProcessClosed, OneFate, DataOK
<1>5. CASE UNCHANGED <<jobs, running, answer>>
  BY <1>0, <1>5 DEF OneFate
<1>6. QED
  BY <1>1, <1>2, <1>3, <1>4, <1>5, StepKinds

THEOREM ServiceInvariant == Spec => []ServiceInv
<1>1. ServiceInv /\ [Next]_vars => ServiceInv'
  BY DataStep, FlagsStep, LoopInvStep, OneFateStep DEF ServiceInv, TypeOK, DataOK, FlagsOK
<1>2. QED
  BY ServiceInvInit, <1>1, PTL DEF Spec

-----------------------------------------------------------------------------
(* Theorems *)

(* Type correctness: no step of the server, the loop, the child or the environment
   takes a variable out of its type; in particular no null is taken off an empty
   queue. *)
THEOREM WorkerTypeCorrect == Spec => []TypeOK
<1>1. ServiceInv => TypeOK
  BY DEF ServiceInv
<1>2. QED
  BY <1>1, ServiceInvariant, PTL

(* waitForNextJob, queueJobInner and interruptJobStream never leave the loop asleep
   on a queue that has an entry, or on a poll that the server has forgotten. *)
THEOREM NoWakeUpIsLost == Spec => []NoLostWakeUp
<1>1. ServiceInv => NoLostWakeUp
  BY DEF ServiceInv
<1>2. QED
  BY <1>1, ServiceInvariant, PTL

(* getNextJob, jobFinished and the close of the process keep runningJobs in step with
   the loop: no job is left running that nobody works on. *)
THEOREM NoJobIsOrphaned == Spec => []NoOrphanedJob
<1>1. ServiceInv => NoOrphanedJob
  BY DEF ServiceInv
<1>2. QED
  BY <1>1, ServiceInvariant, PTL

(* queueCacheInvalidation, the two places that take the changes off the loop, and the
   initialisation of a child keep every change of the database on its way to the child
   that misses it, unless the child itself failed to refresh. *)
THEOREM NoChangeIsForgotten == Spec => []NoForgottenChange
<1>1. Init => NoForgottenChange
  BY DEF Init, NoForgottenChange
<1>2. NoForgottenChange /\ [Next]_vars => NoForgottenChange'
  <2> SUFFICES ASSUME NoForgottenChange, [Next]_vars PROVE NoForgottenChange'
    OBVIOUS
  <2> USE DEF NoForgottenChange, serverVars, loopVars, statusVars, childVars, cacheVars
  <2>1. CASE LoopStep
    <3>1. CASE InitWorkerEnds
      BY <3>1 DEF InitWorkerEnds
    <3>2. CASE InvalidateCaches
      BY <3>2 DEF InvalidateCaches
    <3>3. CASE InvalidateCachesEnds
      BY <3>3 DEF InvalidateCachesEnds
    <3>4. CASE ForceClearCaches
      BY <3>4 DEF ForceClearCaches
    <3>5. CASE ForceClearCachesEnds
      BY <3>5 DEF ForceClearCachesEnds
    <3>6. CASE RestartThread \/ RestartThreadEnds \/ LoopExits
      BY <3>6 DEF RestartThread, RestartThreadEnds, ReplaceChild, LoopExits, Checks
    <3>7. CASE InitWorker \/ WaitForNextJob \/ WokenUp \/ PopJob \/ RunJob \/ ReportJob
      BY <3>7 DEF InitWorker, WaitForNextJob, WokenUp, PopJob, RunJob, ReportJob, Checks
    <3>8. QED
      BY <2>1, <3>1, <3>2, <3>3, <3>4, <3>5, <3>6, <3>7 DEF LoopStep
  <2>2. CASE RunJobEnds \/ Watchdog
    BY <2>2 DEF RunJobEnds, Watchdog, WatchdogKills, WatchdogRestartEnds, ReplaceChild
  <2>3. CASE Environment
    BY <2>3 DEF Environment, QueueJob, Terminate, DatabaseChanges, ThreadClosed,
       ThreadRestarted, InterruptJobStream, ProcessClosed, ProcessStarted
  <2>4. CASE UNCHANGED vars
    BY <2>4 DEF vars
  <2>5. QED
    BY <2>1, <2>2, <2>3, <2>4 DEF Next
<1>3. QED
  BY <1>1, <1>2, PTL DEF Spec

(* Every step is a step of the job service, or changes nothing that it shows. *)
LEMMA ServiceStep ==
    ASSUME ServiceInv, [Next]_vars
    PROVE  [Service!ServiceNext]_(Service!serviceVars)
<1>0. OneFate /\ DataOK /\ LoopHasJob /\ NoOrphanedJob
  BY DEF ServiceInv, TypeOK, DataOK
<1>1. ASSUME NEW j \in Job, QueueJob(j) PROVE Service!ServiceNext
  <2>1. Service!Submit(j)
    BY <1>1 DEF QueueJob, Service!Submit, Service!Waiting
  <2>2. QED
    BY <2>1 DEF Service!ServiceNext
<1>2. CASE PopJob
  <2>1. CASE nulls = 0 /\ jobs # <<>>
    <3>1. running = {}
      BY <1>0, <1>2 DEF PopJob, LoopHasJob, NoOrphanedJob
    <3>2. Service!Start
      BY <1>2, <2>1, <3>1 DEF PopJob, Service!Start
    <3>3. QED
      BY <3>2 DEF Service!ServiceNext
  <2>2. CASE ~(nulls = 0 /\ jobs # <<>>)
    BY <1>2, <2>2 DEF PopJob, Service!serviceVars
  <2>3. QED
    BY <2>1, <2>2
<1>3. CASE ReportJob
  <2>1. currentJob \in Job /\ running = {currentJob} /\ result \in {"result", "error"}
    BY <1>0, <1>3 DEF ReportJob, LoopHasJob, NoOrphanedJob, DataOK
  <2>2. answer[currentJob] = "none"
    BY <1>0, <2>1 DEF OneFate
  <2>3. Service!Finish(currentJob, result)
    BY <1>3, <2>1, <2>2 DEF ReportJob, JobFinished, Service!Finish
  <2>4. QED
    BY <2>1, <2>3 DEF Service!ServiceNext
<1>4. CASE ProcessClosed
  <2>1. CASE running = {}
    <3>1. answer' = answer
      BY <1>0, <1>4, <2>1 DEF ProcessClosed, DataOK
    <3>2. QED
      BY <1>4, <2>1, <3>1 DEF ProcessClosed, Service!serviceVars
  <2>2. CASE running # {}
    <3>1. currentJob \in Job /\ running = {currentJob} /\ answer[currentJob] = "none"
      BY <1>0, <2>2 DEF NoOrphanedJob, DataOK, OneFate
    <3>2. answer' = [answer EXCEPT ![currentJob] = "error"]
      BY <1>0, <1>4, <3>1 DEF ProcessClosed, DataOK
    <3>3. Service!Finish(currentJob, "error")
      BY <1>4, <3>1, <3>2 DEF ProcessClosed, Service!Finish
    <3>4. QED
      BY <3>1, <3>3 DEF Service!ServiceNext
  <2>3. QED
    BY <2>1, <2>2
<1>5. CASE UNCHANGED <<jobs, running, answer>>
  BY <1>5 DEF Service!serviceVars
<1>6. QED
  BY <1>1, <1>2, <1>3, <1>4, <1>5, StepKinds

(* The server, the loop and the child implement the job service: in every behaviour,
   whatever closes, crashes or is interrupted, jobs are handed out in order, one at a
   time and once, and are answered once. *)
THEOREM WorkerImplementsJobService == Spec => ImplementsJobService
<1>1. Init => Service!ServiceInit
  BY DEF Init, Service!ServiceInit
<1>2. ServiceInv /\ [Next]_vars => [Service!ServiceNext]_(Service!serviceVars)
  BY ServiceStep
<1>3. QED
  BY <1>1, <1>2, ServiceInvariant, PTL
     DEF Spec, ImplementsJobService, Service!ServiceSpec
=============================================================================
