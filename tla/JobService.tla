----------------------------- MODULE JobService -----------------------------
(***************************************************************************)
(* What a job queue promises to those who queue jobs: jobs start in the    *)
(* order they were queued, one at a time, each at most once, and each gets *)
(* at most one answer, after it has started.                               *)
(***************************************************************************)
EXTENDS Naturals, Sequences

CONSTANT Job

VARIABLES queue,   \* the jobs that wait, in order
          active,  \* the job handed out and not yet answered, if any
          answer   \* what the caller of each job was told

serviceVars == <<queue, active, answer>>

Answer == {"none", "result", "error"}

Waiting == {queue[i] : i \in DOMAIN queue}

ServiceTypeOK ==
    /\ queue \in Seq(Job)
    /\ active \subseteq Job
    /\ answer \in [Job -> Answer]

ServiceInit ==
    /\ queue = <<>>
    /\ active = {}
    /\ answer = [j \in Job |-> "none"]

Submit(j) ==
    /\ j \notin Waiting \cup active
    /\ answer[j] = "none"
    /\ queue' = Append(queue, j)
    /\ UNCHANGED <<active, answer>>

Start ==
    /\ queue # <<>>
    /\ active = {}
    /\ active' = {Head(queue)}
    /\ queue' = Tail(queue)
    /\ UNCHANGED answer

Finish(j, a) ==
    /\ active = {j}
    /\ answer[j] = "none"
    /\ active' = {}
    /\ answer' = [answer EXCEPT ![j] = a]
    /\ UNCHANGED queue

ServiceNext ==
    \/ \E j \in Job : Submit(j)
    \/ Start
    \/ \E j \in Job : Finish(j, "result") \/ Finish(j, "error")

ServiceSpec == ServiceInit /\ [][ServiceNext]_serviceVars
=============================================================================
