-------------------------- MODULE ExternalMessages --------------------------
(***************************************************************************)
(* The queue of messages to external systems (Slack, RabbitMQ) of a        *)
(* studio.  Blueprints put messages into a collection; the runner in the   *)
(* events thread watches the collection, and fetches a batch of messages   *)
(* that are due and sends them concurrently, each with a timeout after     *)
(* which the send itself goes on.  Users hold, retry and remove messages   *)
(* in the same collection.                                                 *)
(***************************************************************************)
EXTENDS Naturals, FiniteSets

CONSTANTS Message,
          None,          \* a message that is not queued yet
          Gone,          \* a message that has been removed
          Limit,         \* of a batch: 100
          LimitAfterErrors,   \* of a batch after errors: 5
          MaxSends,      \* bound on the sends of each message
          Edited,        \* bound: messages that users and blueprints change
          MaxEdits,      \* bound on their changes
          Timed,         \* messages that have a retryUntil
          MaxFaults      \* bound on crashes and failures of the database and of the change stream

Doc == [later : BOOLEAN,     \* queueForLaterReason is set
        tried : {"never", "longAgo", "recently"},   \* lastTry, against the interval of a minute
        sent : BOOLEAN, hold : BOOLEAN, errorFatal : BOOLEAN, manualRetry : BOOLEAN,
        over : BOOLEAN]      \* retryUntil has passed

ASSUME MessagesAssumption ==
  /\ {Limit, LimitAfterErrors} \subseteq Nat \ {0}
  /\ MaxSends \in [Message -> Nat \ {0}] /\ Edited \subseteq Message
  /\ Timed \subseteq Message
  \* if a batch could be full of messages that are over and were never tried, nothing else is sent
  /\ IsFiniteSet(Timed) /\ Cardinality(Timed) < Limit
  /\ LimitAfterErrors <= Limit
  /\ {MaxEdits, MaxFaults} \subseteq Nat
  /\ None # Gone /\ Doc \cap {None, Gone} = {}     \* neither is a document

\* A call of sendMessage(), and the timeout around it.
Send == [stage : {"none", "marking", "sending", "recording", "failing", "failingForGood", "over"},
         late : {"no", "logging", "logged"}]
Attempt(m) == 1 .. MaxSends[m]

VARIABLES queue,      \* the ExternalMessageQueue collection
          send,       \* the sends of each message
          run,        \* doMessageQueue(): what it is doing
          batch,      \* the messages that it sends
          more,       \* probablyHasMoreToSend
          failed,     \* a send of this run has failed
          lastRunHadError,
          timer,      \* triggerTimeout is set
          open,       \* the change stream works
          notices,    \* inserted messages that the stream has not yet reported
          user,       \* what a user's call has read of a message and not yet written
          edits,      \* counts what users and blueprints do
          faults,     \* counts the failures
          delivered,  \* history: how often the receiver got each message, up to 2
          unsure,     \* history: messages of which a send ended without a known outcome
          forGood,    \* history: messages recorded as refused for good when nothing else of them
                      \* was under way, and not retried by a user
          heard       \* history: messages for which a run was triggered, until one has come to them

vars == <<queue, send, run, batch, more, failed, lastRunHadError, timer, open, notices, user,
          edits, faults, delivered, unsure, forGood, heard>>

runner == <<run, batch, more, failed, lastRunHadError>>
history == <<delivered, unsure, forGood>>

NoSend == [stage |-> "none", late |-> "no"]
NoUser == [op |-> "none"]

Idle == /\ run = "idle" /\ batch = {} /\ more = FALSE /\ failed = FALSE
        /\ open = TRUE /\ notices = {} /\ user = NoUser
        /\ delivered = [m \in Message |-> 0]
        /\ unsure = {} /\ forGood = {} /\ heard = {}

Init == /\ Idle
        /\ queue = [m \in Message |-> None]
        /\ send = [m \in Message |-> [k \in Attempt(m) |-> NoSend]]
        /\ lastRunHadError = FALSE
        /\ timer = TRUE     \* the constructor triggers a run
        /\ edits = 0 /\ faults = 0

-----------------------------------------------------------------------------

Queued(m) == queue[m] \notin {None, Gone}

\* Sets fields of a document; nothing happens to one that has been removed.
Set(m, doc) == queue' = [queue EXCEPT ![m] = IF Queued(m) THEN doc ELSE @]

Active(m, k) == send[m][k].stage \notin {"none", "over"}
Begun(m) == {k \in Attempt(m) : send[m][k].stage # "none"}
ModelStops(m) == Cardinality(Begun(m)) = MaxSends[m]    \* a bound, not the program

\* The query of doMessageQueue().
Due(m) ==
  /\ Queued(m) /\ ~ModelStops(m)
  /\ ~queue[m].sent /\ queue[m].tried # "recently"
  /\ ~queue[m].hold /\ ~queue[m].errorFatal /\ ~queue[m].later

\* Of a message that is fetched, is there still time to send it?
InTime(m) == ~queue[m].over \/ queue[m].manualRetry

\* Sorted by lastTry, of which a new message has none.
Batches(S, n) ==
  {B \in SUBSET S : /\ Cardinality(B) = IF Cardinality(S) < n THEN Cardinality(S) ELSE n
                    /\ \A m \in S \ B, b \in B : queue[m].tried = "never" => queue[b].tried = "never"}

(* What happens in the collection. *)

\* queueExternalMessages(): a new message.
Queue(m, later) ==
  /\ queue[m] = None /\ (later => m \in Edited)
  /\ queue' = [queue EXCEPT ![m] =
       [later |-> later, tried |-> "never", sent |-> FALSE, hold |-> FALSE,
        errorFatal |-> FALSE, manualRetry |-> FALSE, over |-> FALSE]]
  /\ notices' = IF open THEN notices \cup {m} ELSE notices
  /\ UNCHANGED <<send, runner, timer, open, user, edits, faults, history, heard>>

\* queueExternalMessages(): a queued one is overwritten, and released or not.
\* The change stream is not asked for the documents of updates, and leaves updates out.
Overwrite(m, later) ==
  /\ Queued(m) /\ m \in Edited /\ edits < MaxEdits
  /\ edits' = edits + 1
  /\ Set(m, [queue[m] EXCEPT !.later = later])
  /\ UNCHANGED <<send, runner, timer, open, notices, user, faults, history, heard>>

\* removeExternalMessage(), and the cleanup of what has expired.
Remove(m) ==
  /\ Queued(m) /\ m \in Edited /\ edits < MaxEdits
  /\ edits' = edits + 1
  /\ queue' = [queue EXCEPT ![m] = Gone]
  /\ notices' = notices \ {m}
  /\ UNCHANGED <<send, runner, timer, open, user, faults, history, heard>>

\* toggleHold() and retry() read the message first.
UserReads(m, op) ==
  /\ user = NoUser /\ Queued(m) /\ m \in Edited /\ edits < MaxEdits
  /\ edits' = edits + 1
  /\ user' = [op |-> op, m |-> m, hold |-> queue[m].hold, tried |-> queue[m].tried]
  /\ UNCHANGED <<queue, send, runner, timer, open, notices, faults, history, heard>>

ToggleHold ==
  /\ user.op = "toggleHold"
  /\ Set(user.m, [queue[user.m] EXCEPT !.hold = ~user.hold])
  /\ user' = NoUser
  /\ UNCHANGED <<send, runner, timer, open, notices, edits, faults, history, heard>>

\* Fault: the flags are unset instead of cleared.
RetryUnsets ==
  /\ user.op = "retry"
  /\ Set(user.m, [queue[user.m] EXCEPT
       !.manualRetry = TRUE, !.hold = None, !.errorFatal = None, !.tried = "longAgo"])
  /\ forGood' = forGood \ {user.m}
  /\ user' = NoUser
  /\ UNCHANGED <<send, runner, timer, open, notices, edits, faults, delivered, unsure, heard>>

\* lastTry is put back by a minute, as it was read.
Retry ==
  /\ user.op = "retry"
  /\ Set(user.m, [queue[user.m] EXCEPT
       !.manualRetry = TRUE, !.hold = FALSE, !.errorFatal = FALSE,
       !.tried = IF user.tried = "never" THEN @ ELSE "longAgo"])
  /\ forGood' = forGood \ {user.m}
  /\ user' = NoUser
  /\ UNCHANGED <<send, runner, timer, open, notices, edits, faults, delivered, unsure, heard>>

\* Time passes.  A run, with its timeouts, is over long before the minute is.
MinuteOver(m) ==
  /\ Queued(m) /\ queue[m].tried = "recently" /\ ~queue[m].sent
  /\ m \notin batch
  /\ Set(m, [queue[m] EXCEPT !.tried = "longAgo"])
  /\ UNCHANGED <<send, runner, timer, open, notices, user, edits, faults, history, heard>>

RetryUntilPasses(m) ==
  /\ Queued(m) /\ m \in Timed /\ ~queue[m].over
  /\ Set(m, [queue[m] EXCEPT !.over = TRUE])
  /\ UNCHANGED <<send, runner, timer, open, notices, user, edits, faults, history, heard>>

-----------------------------------------------------------------------------
(* The runner. *)

\* A change has been reported: triggerDoMessageQueue().
StreamDelivers(m) ==
  /\ open /\ m \in notices
  /\ notices' = notices \ {m}
  /\ timer' = TRUE
  /\ heard' = heard \cup {m}
  /\ UNCHANGED <<queue, send, runner, open, user, edits, faults, history>>

\* What happens until it is opened again is never reported, and opening triggers nothing.
StreamBreaks ==
  /\ open /\ faults < MaxFaults
  /\ faults' = faults + 1
  /\ open' = FALSE /\ notices' = {}
  /\ UNCHANGED <<queue, send, runner, timer, user, edits, history, heard>>

StreamReopens ==
  /\ ~open /\ open' = TRUE
  /\ UNCHANGED <<queue, send, runner, timer, notices, user, edits, faults, history, heard>>

\* While a run is going on the timer is only set again.
TimerFires ==
  /\ timer /\ run = "idle"
  /\ timer' = FALSE
  /\ run' = "fetching"
  /\ UNCHANGED <<queue, send, batch, more, failed, lastRunHadError, open, notices, user,
                 edits, faults, history, heard>>

Fetch ==
  /\ run = "fetching"
  /\ LET limit == IF lastRunHadError THEN LimitAfterErrors ELSE Limit
     IN \E B \in Batches({m \in Message : Due(m)}, limit) :
          /\ batch' = {m \in B : InTime(m)}
          /\ more' = (Cardinality(B) = limit)
          /\ heard' = {m \in heard \ B : Due(m)}
  /\ run' = "fetched"
  /\ UNCHANGED <<queue, send, failed, lastRunHadError, timer, open, notices, user, edits, faults,
                 history>>

\* The error is logged; nothing triggers another run.
FetchFails ==
  /\ run = "fetching" /\ faults < MaxFaults
  /\ faults' = faults + 1
  /\ run' = "idle" /\ heard' = {}
  /\ UNCHANGED <<queue, send, batch, more, failed, lastRunHadError, timer, open, notices, user,
                 edits, history>>

StartSends ==
  /\ run = "fetched"
  /\ run' = "sending" /\ failed' = FALSE
  /\ send' = [m \in Message |-> [k \in Attempt(m) |->
       IF m \in batch /\ k = Cardinality(Begun(m)) + 1
       THEN [stage |-> "marking", late |-> "no"] ELSE send[m][k]]]
  /\ UNCHANGED <<queue, batch, more, lastRunHadError, timer, open, notices, user, edits, faults,
                 history, heard>>

Step(m, k, stage) == send' = [send EXCEPT ![m][k].stage = stage]
Counts(m, k) == send[m][k].late = "no"     \* its run still waits for it

\* The time of the try is that of the fetch.
Mark(m, k) ==
  /\ send[m][k].stage = "marking"
  /\ Step(m, k, "sending")
  /\ \E t \in IF Counts(m, k) THEN {"recently"} ELSE {"recently", "longAgo"} :
       Set(m, [queue[m] EXCEPT !.tried = t, !.manualRetry = FALSE])
  /\ UNCHANGED <<runner, timer, open, notices, user, edits, faults, history, heard>>

Delivers(m) == delivered' = [delivered EXCEPT ![m] = IF @ = 0 THEN 1 ELSE 2]

Deliver(m, k) ==
  /\ send[m][k].stage = "sending"
  /\ Step(m, k, "recording") /\ Delivers(m)
  /\ UNCHANGED <<queue, runner, timer, open, notices, user, edits, faults, unsure, forGood, heard>>

\* The receiver or the way to it fails; FatalExternalMessageError says that it is for good.
Fail(m, k) ==
  /\ send[m][k].stage = "sending"
  /\ \E stage \in {"failing", "failingForGood"} : Step(m, k, stage)
  /\ UNCHANGED <<queue, runner, timer, open, notices, user, edits, faults, history, heard>>

\* The receiver has the message, and its answer is lost.
AnswerIsLost(m, k) ==
  /\ send[m][k].stage = "sending" /\ faults < MaxFaults
  /\ faults' = faults + 1
  /\ Step(m, k, "failing") /\ Delivers(m)
  /\ unsure' = unsure \cup {m}
  /\ UNCHANGED <<queue, runner, timer, open, notices, user, edits, forGood, heard>>

Record(m, k) ==
  /\ send[m][k].stage = "recording"
  /\ Step(m, k, "over")
  /\ Set(m, [queue[m] EXCEPT !.sent = TRUE])
  /\ UNCHANGED <<runner, timer, open, notices, user, edits, faults, history, heard>>

\* The update of the document that marks or records the send fails.
UpdateFails(m, k) ==
  /\ send[m][k].stage \in {"marking", "recording"} /\ faults < MaxFaults
  /\ faults' = faults + 1
  /\ Step(m, k, "failing")
  /\ unsure' = IF send[m][k].stage = "recording" THEN unsure \cup {m} ELSE unsure
  /\ UNCHANGED <<queue, runner, timer, open, notices, user, edits, delivered, forGood, heard>>

\* Nothing but its k-th send has still to write to a message: no other send or log of a timeout is
\* under way, nor has a run fetched the message that will send it.
Alone(m, k) ==
  /\ \A l \in Attempt(m) : send[m][l].late # "logging" /\ (l # k => ~Active(m, l))
  /\ ~(run = "fetched" /\ m \in batch)

IsRefusal(m, k) == send[m][k].stage = "failingForGood" /\ Alone(m, k)

\* Fault: errors of all kinds are logged alike.
LogErrorAlike(m, k) ==
  /\ send[m][k].stage \in {"failing", "failingForGood"}
  /\ Step(m, k, "over")
  /\ Set(m, [queue[m] EXCEPT !.errorFatal = FALSE])
  /\ failed' = (failed \/ Counts(m, k))
  /\ forGood' = IF IsRefusal(m, k) THEN forGood \cup {m} ELSE forGood
  /\ UNCHANGED <<run, batch, more, lastRunHadError, timer, open, notices, user, edits, faults,
                 delivered, unsure, heard>>

\* logMessageError(), also by a send that was timed out.
LogError(m, k) ==
  /\ send[m][k].stage \in {"failing", "failingForGood"}
  /\ Step(m, k, "over")
  /\ Set(m, [queue[m] EXCEPT !.errorFatal = (send[m][k].stage = "failingForGood")])
  /\ failed' = (failed \/ Counts(m, k))
  /\ forGood' = IF IsRefusal(m, k) THEN forGood \cup {m} ELSE forGood
  /\ UNCHANGED <<run, batch, more, lastRunHadError, timer, open, notices, user, edits, faults,
                 delivered, unsure, heard>>

LogErrorFails(m, k) ==
  /\ send[m][k].stage \in {"failing", "failingForGood"} /\ faults < MaxFaults
  /\ faults' = faults + 1
  /\ Step(m, k, "over")
  /\ failed' = (failed \/ Counts(m, k))
  /\ UNCHANGED <<queue, run, batch, more, lastRunHadError, timer, open, notices, user, edits,
                 history, heard>>

\* Fault: a send is awaited for as long as it takes.
NeverTimesOut(m, k) == FALSE

\* pTimeout(): the run gives the send up, and the send goes on.
TimesOut(m, k) ==
  /\ Active(m, k) /\ Counts(m, k)
  /\ IF send[m][k].stage = "sending" THEN UNCHANGED faults
     ELSE faults < MaxFaults /\ faults' = faults + 1     \* the database is slow
  /\ send' = [send EXCEPT ![m][k].late = "logging"]
  /\ unsure' = unsure \cup {m}
  /\ UNCHANGED <<queue, runner, timer, open, notices, user, edits, delivered, forGood, heard>>

\* logMessageError() with the error of the timeout.
LogTimeout(m, k) ==
  /\ send[m][k].late = "logging"
  /\ send' = [send EXCEPT ![m][k].late = "logged"]
  /\ Set(m, [queue[m] EXCEPT !.errorFatal = FALSE])
  /\ failed' = TRUE
  /\ UNCHANGED <<run, batch, more, lastRunHadError, timer, open, notices, user, edits, faults,
                 history, heard>>

Settled(m) == \A k \in Attempt(m) :
  (Active(m, k) => send[m][k].late = "logged") /\ send[m][k].late # "logging"

\* Fault: the run does not wait for the sends that it has started.
RunEndsEarly ==
  /\ run = "sending"
  /\ run' = "idle" /\ batch' = {} /\ more' = FALSE /\ failed' = FALSE
  /\ lastRunHadError' = failed
  /\ timer' = (timer \/ more)
  /\ UNCHANGED <<queue, send, open, notices, user, edits, faults, history, heard>>

\* Fault: a full batch is not followed by another.
RunEndsForGood ==
  /\ run = "sending" /\ \A m \in batch : Settled(m)
  /\ run' = "idle" /\ batch' = {} /\ more' = FALSE /\ failed' = FALSE
  /\ lastRunHadError' = failed
  /\ timer' = timer
  /\ UNCHANGED <<queue, send, open, notices, user, edits, faults, history, heard>>

RunEnds ==
  /\ run = "sending" /\ \A m \in batch : Settled(m)
  /\ run' = "idle" /\ batch' = {} /\ more' = FALSE /\ failed' = FALSE
  /\ lastRunHadError' = failed
  /\ timer' = (timer \/ more)
  /\ UNCHANGED <<queue, send, open, notices, user, edits, faults, history, heard>>

\* The thread crashes or is stopped, and a new runner starts.
Restart ==
  /\ faults < MaxFaults
  /\ faults' = faults + 1
  /\ unsure' = unsure \cup {m \in Message : \E k \in Attempt(m) : send[m][k].stage = "recording"}
  /\ send' = [m \in Message |-> [k \in Attempt(m) |->
       IF send[m][k].stage = "none" THEN NoSend ELSE [stage |-> "over", late |-> "no"]]]
  /\ run' = "idle" /\ batch' = {} /\ more' = FALSE /\ failed' = FALSE /\ lastRunHadError' = FALSE
  /\ timer' = TRUE /\ open' = TRUE /\ notices' = {}
  /\ heard' = {m \in Message : Queued(m)}
  /\ UNCHANGED <<queue, user, edits, delivered, forGood>>

-----------------------------------------------------------------------------

RunStep == TimerFires \/ Fetch \/ StartSends \/ RunEnds
OwnStep(m, k) == Mark(m, k) \/ Record(m, k) \/ LogError(m, k) \/ LogTimeout(m, k)
SendStep(m, k) ==
  \/ OwnStep(m, k) \/ Deliver(m, k) \/ Fail(m, k) \/ AnswerIsLost(m, k)
  \/ UpdateFails(m, k) \/ LogErrorFails(m, k) \/ TimesOut(m, k)

Next ==
  \/ \E m \in Message, later \in BOOLEAN : Queue(m, later) \/ Overwrite(m, later)
  \/ \E m \in Message : Remove(m) \/ MinuteOver(m) \/ RetryUntilPasses(m) \/ StreamDelivers(m)
  \/ \E m \in Message, op \in {"toggleHold", "retry"} : UserReads(m, op)
  \/ ToggleHold \/ Retry
  \/ StreamBreaks \/ StreamReopens
  \/ RunStep \/ FetchFails
  \/ \E m \in Message : \E k \in Attempt(m) : SendStep(m, k)
  \/ Restart

Spec == Init /\ [][Next]_vars

\* Timers fire, the database answers, changes are reported.  Nothing is asked of the receivers,
\* of users, of blueprints, or of the time between two tries.
Fairness ==
  /\ \A m \in Message : WF_vars(StreamDelivers(m))
  /\ WF_vars(RunStep)
  /\ \A m \in Message : \A k \in Attempt(m) :
       WF_vars(OwnStep(m, k) \/ (send[m][k].stage = "sending" /\ TimesOut(m, k)))

FairSpec == Spec /\ Fairness

-----------------------------------------------------------------------------

TypeOK ==
  /\ queue \in [Message -> Doc \cup {None, Gone}]
  /\ DOMAIN send = Message /\ \A m \in Message : send[m] \in [Attempt(m) -> Send]
  /\ run \in {"idle", "fetching", "fetched", "sending"}
  /\ batch \subseteq Message /\ notices \subseteq Message
  /\ {more, failed, lastRunHadError, timer, open} \subseteq BOOLEAN
  /\ edits \in 0 .. MaxEdits /\ faults \in 0 .. MaxFaults
  /\ delivered \in [Message -> 0 .. 2]
  /\ unsure \subseteq Message /\ forGood \subseteq Message /\ heard \subseteq Message

\* A message reaches its receiver twice only if a send of it has timed out, its answer was lost,
\* or it could not be recorded (doMessageQueue(), whatever users do to the message meanwhile).
DeliveredOnce == \A m \in Message : delivered[m] = 2 => m \in unsure

\* What its receiver has refused for good is not sent again until a user retries it, whatever was
\* lost, timed out or restarted before.  That is so if nothing else of the message was under way when
\* the refusal was recorded: the last that logs decides what the document says (logMessageError()).
FatalIsFinal == [][\A m \in forGood : Begun(m)' = Begun(m)]_vars

\* A run ends, even if the receivers of its messages never answer (pTimeout() in
\* doMessageQueue()); otherwise nothing would be sent any more.
RunsEnd == run # "idle" ~> run = "idle"

\* A message for which the runner was triggered, and which may be sent and is in time, is tried,
\* however many others are waiting and whatever the receivers do.
HeardMessageIsTried ==
  \A m \in Message : (m \in heard /\ Due(m) /\ InTime(m)) ~> ~(m \in heard /\ Due(m) /\ InTime(m))

\* A message that may be sent is tried (the code waits for the next new message: a violation).
DueMessageIsTried == \A m \in Message : (Due(m) /\ InTime(m)) ~> ~(Due(m) /\ InTime(m))
=============================================================================
