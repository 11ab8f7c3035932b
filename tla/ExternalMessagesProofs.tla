----------------------- MODULE ExternalMessagesProofs -----------------------
(* Proofs about the external message queue, for every set of messages, every *)
(* size of a batch and any number of sends, changes and failures.            *)
EXTENDS ExternalMessages, TLAPS

-----------------------------------------------------------------------------
(* Documents and sends.                                                      *)

Docs == [Message -> Doc \cup {None, Gone}]

Sends(s) == DOMAIN s = Message /\ \A m \in Message : s[m] \in [Attempt(m) -> Send]

Stages == {"none", "marking", "sending", "recording", "failing", "failingForGood", "over"}

(* An update of a document is one of that document, if it is still there.    *)
LEMMA SetEffect ==
  ASSUME queue \in Docs, NEW m \in Message, NEW doc, Queued(m) => doc \in Doc, Set(m, doc)
  PROVE  /\ queue' \in Docs
         /\ \A n \in Message \ {m} : queue'[n] = queue[n]
         /\ Queued(m) => queue'[m] = doc
         /\ ~Queued(m) => queue'[m] = queue[m]
         /\ queue[m] # None => queue'[m] # None
<1>1. \A n \in Message : queue'[n] = IF n = m /\ Queued(m) THEN doc ELSE queue[n]
  BY DEF Set, Docs
<1>2. queue' = [n \in Message |-> queue'[n]]
  BY DEF Set, Docs
<1>3. queue' \in Docs
  BY <1>1, <1>2 DEF Docs
<1> QED BY <1>1, <1>3, MessagesAssumption

(* A step of one send is none of another.                                    *)
LEMMA StepEffect ==
  ASSUME Sends(send), NEW m \in Message, NEW k \in Attempt(m), NEW stage \in Stages,
         Step(m, k, stage)
  PROVE  /\ Sends(send')
         /\ \A n \in Message \ {m} : send'[n] = send[n]
         /\ \A l \in Attempt(m) \ {k} : send'[m][l] = send[m][l]
         /\ send'[m][k].stage = stage /\ send'[m][k].late = send[m][k].late
<1> DEFINE one == [send[m][k] EXCEPT !.stage = stage]
           all == [send[m] EXCEPT ![k] = one]
<1>1. send' = [send EXCEPT ![m] = all]
  BY DEF Step
<1>2. send[m] \in [Attempt(m) -> Send]
  BY DEF Sends
<1>3. one \in Send /\ one.stage = stage /\ one.late = send[m][k].late
  BY <1>2 DEF Send, Stages
<1> HIDE DEF one
<1>4. all \in [Attempt(m) -> Send] /\ all[k] = one
      /\ \A l \in Attempt(m) \ {k} : all[l] = send[m][l]
  BY <1>2, <1>3
<1> HIDE DEF all
<1>5. /\ DOMAIN send' = Message /\ send'[m] = all
      /\ \A n \in Message \ {m} : send'[n] = send[n]
  BY <1>1 DEF Sends
<1> QED BY <1>3, <1>4, <1>5 DEF Sends

LateStep(m, k, late) == send' = [send EXCEPT ![m][k].late = late]

LEMMA LateEffect ==
  ASSUME Sends(send), NEW m \in Message, NEW k \in Attempt(m), NEW late \in {"no", "logging", "logged"},
         LateStep(m, k, late)
  PROVE  /\ Sends(send')
         /\ \A n \in Message \ {m} : send'[n] = send[n]
         /\ \A l \in Attempt(m) \ {k} : send'[m][l] = send[m][l]
         /\ send'[m][k].stage = send[m][k].stage /\ send'[m][k].late = late
<1> DEFINE one == [send[m][k] EXCEPT !.late = late]
           all == [send[m] EXCEPT ![k] = one]
<1>1. send' = [send EXCEPT ![m] = all]
  BY DEF LateStep
<1>2. send[m] \in [Attempt(m) -> Send]
  BY DEF Sends
<1>3. one \in Send /\ one.late = late /\ one.stage = send[m][k].stage
  BY <1>2 DEF Send
<1> HIDE DEF one
<1>4. all \in [Attempt(m) -> Send] /\ all[k] = one
      /\ \A l \in Attempt(m) \ {k} : all[l] = send[m][l]
  BY <1>2, <1>3
<1> HIDE DEF all
<1>5. /\ DOMAIN send' = Message /\ send'[m] = all
      /\ \A n \in Message \ {m} : send'[n] = send[n]
  BY <1>1 DEF Sends
<1> QED BY <1>3, <1>4, <1>5 DEF Sends

(* The sends of a new run, and those after a restart.                        *)
LEMMA StartEffect ==
  ASSUME Sends(send), StartSends
  PROVE  /\ Sends(send')
         /\ \A m \in Message : \A k \in Attempt(m) :
              send'[m][k] = IF m \in batch /\ k = Cardinality(Begun(m)) + 1
                            THEN [stage |-> "marking", late |-> "no"] ELSE send[m][k]
<1> DEFINE new(m, k) == IF m \in batch /\ k = Cardinality(Begun(m)) + 1
                        THEN [stage |-> "marking", late |-> "no"] ELSE send[m][k]
<1>1. send' = [m \in Message |-> [k \in Attempt(m) |-> new(m, k)]]
  BY DEF StartSends
<1>2. \A m \in Message : \A k \in Attempt(m) : new(m, k) \in Send
  BY DEF Sends, Send
<1>3. \A m \in Message : \A k \in Attempt(m) : send'[m][k] = new(m, k)
  BY <1>1
<1> HIDE DEF new
<1>4. Sends(send')
  BY <1>1, <1>2 DEF Sends
<1> QED BY <1>3, <1>4 DEF new

LEMMA RestartEffect ==
  ASSUME Sends(send), Restart
  PROVE  /\ Sends(send')
         /\ \A m \in Message : \A k \in Attempt(m) :
              send'[m][k] = IF send[m][k].stage = "none" THEN NoSend
                            ELSE [stage |-> "over", late |-> "no"]
<1> DEFINE new(m, k) == IF send[m][k].stage = "none" THEN NoSend
                        ELSE [stage |-> "over", late |-> "no"]
<1>1. send' = [m \in Message |-> [k \in Attempt(m) |-> new(m, k)]]
  BY DEF Restart
<1>2. \A m \in Message : \A k \in Attempt(m) : new(m, k) \in Send
  BY DEF Send, NoSend
<1>3. \A m \in Message : \A k \in Attempt(m) : send'[m][k] = new(m, k)
  BY <1>1
<1> HIDE DEF new
<1>4. Sends(send')
  BY <1>1, <1>2 DEF Sends
<1> QED BY <1>3, <1>4 DEF new

-----------------------------------------------------------------------------
(* The types.  A user's call has read a message, or there is none.           *)

UserOK == \/ user = NoUser
          \/ user \in [op : {"toggleHold", "retry"}, m : Message, hold : BOOLEAN,
                       tried : {"never", "longAgo", "recently"}]

RunnerOK == /\ run \in {"idle", "fetching", "fetched", "sending"} /\ batch \subseteq Message
            /\ more \in BOOLEAN /\ failed \in BOOLEAN /\ lastRunHadError \in BOOLEAN
            /\ timer \in BOOLEAN

StreamOK == /\ open \in BOOLEAN /\ notices \subseteq Message /\ heard \subseteq Message
            /\ edits \in 0 .. MaxEdits /\ faults \in 0 .. MaxFaults

HistoryOK == /\ delivered \in [Message -> 0 .. 2]
             /\ unsure \subseteq Message /\ forGood \subseteq Message

Typed == /\ queue \in Docs /\ Sends(send) /\ UserOK
         /\ RunnerOK /\ StreamOK /\ HistoryOK

LEMMA TypedIsTypeOK == Typed => TypeOK
BY DEF Typed, TypeOK, Docs, Sends, RunnerOK, StreamOK, HistoryOK

LEMMA TypedInit == Init => Typed
<1> SUFFICES ASSUME Init PROVE Typed
  OBVIOUS
<1>1. queue \in Docs /\ UserOK
  BY DEF Init, Docs, Idle, UserOK
<1>2. RunnerOK
  BY DEF Init, Idle, RunnerOK
<1>3. HistoryOK
  BY DEF Init, Idle, HistoryOK
<1>4. Sends(send)
  <2> DEFINE first(m) == [k \in Attempt(m) |-> NoSend]
  <2>1. NoSend \in Send
    BY DEF NoSend, Send
  <2>2. \A m \in Message : first(m) \in [Attempt(m) -> Send]
    BY <2>1
  <2>3. send = [m \in Message |-> first(m)]
    BY DEF Init
  <2> HIDE DEF first
  <2> QED BY <2>2, <2>3 DEF Sends
<1>5. StreamOK
  BY MessagesAssumption DEF Init, Idle, StreamOK
<1> QED BY <1>1, <1>2, <1>3, <1>4, <1>5 DEF Typed

(* What happens in the collection.                                           *)
LEMMA QueueTyped ==
  ASSUME Typed, NEW m \in Message, NEW later \in BOOLEAN, Queue(m, later)
  PROVE  Typed'
<1> DEFINE doc == [later |-> later, tried |-> "never", sent |-> FALSE, hold |-> FALSE,
                   errorFatal |-> FALSE, manualRetry |-> FALSE, over |-> FALSE]
<1>1. doc \in Doc
  BY DEF Doc
<1>2. queue' = [queue EXCEPT ![m] = doc]
  BY DEF Queue
<1> HIDE DEF doc
<1>3. queue' \in Docs
  BY <1>1, <1>2 DEF Typed, Docs
<1>4. StreamOK'
  BY DEF Typed, Queue, StreamOK
<1>5. Sends(send') /\ UserOK' /\ RunnerOK' /\ HistoryOK'
  BY DEF Typed, Queue, runner, history, Sends, UserOK, RunnerOK, HistoryOK
<1> QED BY <1>3, <1>4, <1>5 DEF Typed

LEMMA OverwriteTyped ==
  ASSUME Typed, NEW m \in Message, NEW later \in BOOLEAN, Overwrite(m, later)
  PROVE  Typed'
<1> DEFINE doc == [queue[m] EXCEPT !.later = later]
<1>1. Queued(m) => doc \in Doc
  BY DEF Typed, Docs, Doc, Queued
<1>2. Set(m, doc)
  BY DEF Overwrite
<1> HIDE DEF doc
<1>3. queue' \in Docs
  BY <1>1, <1>2, SetEffect DEF Typed
<1>4. StreamOK'
  BY MessagesAssumption DEF Typed, Overwrite, StreamOK
<1>5. Sends(send') /\ UserOK' /\ RunnerOK' /\ HistoryOK'
  BY DEF Typed, Overwrite, runner, history, Sends, UserOK, RunnerOK, HistoryOK
<1> QED BY <1>3, <1>4, <1>5 DEF Typed

LEMMA RemoveTyped ==
  ASSUME Typed, NEW m \in Message, Remove(m)
  PROVE  Typed'
<1>1. queue' \in Docs
  BY DEF Typed, Remove, Docs
<1>2. StreamOK'
  BY MessagesAssumption DEF Typed, Remove, StreamOK
<1>3. Sends(send') /\ UserOK' /\ RunnerOK' /\ HistoryOK'
  BY DEF Typed, Remove, runner, history, Sends, UserOK, RunnerOK, HistoryOK
<1> QED BY <1>1, <1>2, <1>3 DEF Typed

LEMMA UserReadsTyped ==
  ASSUME Typed, NEW m \in Message, NEW op \in {"toggleHold", "retry"}, UserReads(m, op)
  PROVE  Typed'
<1>1. UserOK'
  <2>1. queue[m] \in Doc
    BY DEF Typed, Docs, UserReads, Queued
  <2>2. queue[m].hold \in BOOLEAN /\ queue[m].tried \in {"never", "longAgo", "recently"}
    BY <2>1 DEF Doc
  <2>3. user' = [op |-> op, m |-> m, hold |-> queue[m].hold, tried |-> queue[m].tried]
    BY DEF UserReads
  <2> QED BY <2>2, <2>3 DEF UserOK
<1>2. StreamOK'
  BY MessagesAssumption DEF Typed, UserReads, StreamOK
<1>3. queue' \in Docs /\ Sends(send') /\ RunnerOK' /\ HistoryOK'
  BY DEF Typed, UserReads, runner, history, Sends, RunnerOK, HistoryOK
<1> QED BY <1>1, <1>2, <1>3 DEF Typed

LEMMA CallRead ==
  ASSUME UserOK, user.op # "none"
  PROVE  /\ user.m \in Message /\ user.hold \in BOOLEAN
         /\ user.tried \in {"never", "longAgo", "recently"}
BY DEF UserOK, NoUser

LEMMA ToggleHoldTyped ==
  ASSUME Typed, ToggleHold
  PROVE  Typed'
<1> DEFINE doc == [queue[user.m] EXCEPT !.hold = ~user.hold]
<1>1. user.m \in Message /\ user.hold \in BOOLEAN
  BY CallRead DEF Typed, ToggleHold
<1>2. Queued(user.m) => doc \in Doc
  BY <1>1 DEF Typed, Docs, Doc, Queued
<1>3. Set(user.m, doc)
  BY DEF ToggleHold
<1> HIDE DEF doc
<1>4. queue' \in Docs
  BY <1>1, <1>2, <1>3, SetEffect DEF Typed
<1>5. UserOK' /\ StreamOK' /\ Sends(send') /\ RunnerOK' /\ HistoryOK'
  BY DEF Typed, ToggleHold, runner, history, Sends, UserOK, RunnerOK, HistoryOK, StreamOK
<1> QED BY <1>4, <1>5 DEF Typed

LEMMA RetryTyped ==
  ASSUME Typed, Retry
  PROVE  Typed'
<1> DEFINE doc == [queue[user.m] EXCEPT
             !.manualRetry = TRUE, !.hold = FALSE, !.errorFatal = FALSE,
             !.tried = IF user.tried = "never" THEN @ ELSE "longAgo"]
<1>1. user.m \in Message
  BY CallRead DEF Typed, Retry
<1>2. Queued(user.m) => doc \in Doc
  BY <1>1 DEF Typed, Docs, Doc, Queued
<1>3. Set(user.m, doc)
  BY DEF Retry
<1> HIDE DEF doc
<1>4. queue' \in Docs
  BY <1>1, <1>2, <1>3, SetEffect DEF Typed
<1>5. UserOK' /\ StreamOK' /\ Sends(send') /\ RunnerOK' /\ HistoryOK'
  BY DEF Typed, Retry, runner, Sends, UserOK, RunnerOK, HistoryOK, StreamOK
<1> QED BY <1>4, <1>5 DEF Typed

LEMMA TimeTyped ==
  ASSUME Typed, NEW m \in Message, MinuteOver(m) \/ RetryUntilPasses(m)
  PROVE  Typed'
<1> DEFINE tried == [queue[m] EXCEPT !.tried = "longAgo"]
           passed == [queue[m] EXCEPT !.over = TRUE]
<1>1. Queued(m) => tried \in Doc /\ passed \in Doc
  BY DEF Typed, Docs, Doc, Queued
<1>2. Set(m, tried) \/ Set(m, passed)
  BY DEF MinuteOver, RetryUntilPasses
<1> HIDE DEF tried, passed
<1>3. queue' \in Docs
  BY <1>1, <1>2, SetEffect DEF Typed
<1>4. UNCHANGED <<send, user, run, batch, more, failed, lastRunHadError, timer, open, notices,
                  heard, edits, faults, delivered, unsure, forGood>>
  BY DEF MinuteOver, RetryUntilPasses, runner, history
<1>5. UserOK' /\ StreamOK' /\ Sends(send') /\ RunnerOK' /\ HistoryOK'
  BY <1>4 DEF Typed, Sends, UserOK, RunnerOK, HistoryOK, StreamOK
<1> QED BY <1>3, <1>5 DEF Typed

(* The runner.                                                               *)
LEMMA StreamTyped ==
  ASSUME Typed, (\E m \in Message : StreamDelivers(m)) \/ StreamBreaks \/ StreamReopens
  PROVE  Typed'
<1>1. UNCHANGED <<queue, send, user, delivered, unsure, forGood>>
  BY DEF StreamDelivers, StreamBreaks, StreamReopens, history
<1>2. RunnerOK'
  BY DEF Typed, StreamDelivers, StreamBreaks, StreamReopens, runner, RunnerOK
<1>3. StreamOK'
  <2>1. CASE \E m \in Message : StreamDelivers(m)
    BY <2>1 DEF Typed, StreamDelivers, StreamOK
  <2>2. CASE StreamBreaks
    <3>1. faults' \in 0 .. MaxFaults
      BY <2>2, MessagesAssumption DEF Typed, StreamBreaks, StreamOK
    <3>2. /\ open' = FALSE /\ notices' = {} /\ UNCHANGED <<heard, edits>>
      BY <2>2 DEF StreamBreaks
    <3> QED BY <3>1, <3>2 DEF Typed, StreamOK
  <2>3. CASE StreamReopens
    BY <2>3 DEF Typed, StreamReopens, StreamOK
  <2> QED BY <2>1, <2>2, <2>3
<1> QED BY <1>1, <1>2, <1>3 DEF Typed, Sends, UserOK, HistoryOK

LEMMA RunTyped ==
  ASSUME Typed, TimerFires \/ Fetch \/ FetchFails \/ RunEnds
  PROVE  Typed'
<1>1. UNCHANGED <<queue, send, user, delivered, unsure, forGood>>
  BY DEF TimerFires, Fetch, FetchFails, RunEnds, history
<1>2. RunnerOK' /\ StreamOK'
  <2>1. CASE TimerFires
    BY <2>1 DEF Typed, TimerFires, RunnerOK, StreamOK
  <2>2. CASE Fetch
    <3>1. batch' \subseteq Message /\ heard' \subseteq Message /\ more' \in BOOLEAN
      BY <2>2 DEF Typed, Fetch, Batches, StreamOK
    <3> QED BY <2>2, <3>1 DEF Typed, Fetch, RunnerOK, StreamOK
  <2>3. CASE FetchFails
    BY <2>3, MessagesAssumption DEF Typed, FetchFails, RunnerOK, StreamOK
  <2>4. CASE RunEnds
    BY <2>4 DEF Typed, RunEnds, RunnerOK, StreamOK
  <2> QED BY <2>1, <2>2, <2>3, <2>4
<1> QED BY <1>1, <1>2 DEF Typed, Sends, UserOK, HistoryOK

LEMMA StartTyped ==
  ASSUME Typed, StartSends
  PROVE  Typed'
<1>1. Sends(send')
  BY StartEffect DEF Typed
<1>2. UserOK' /\ StreamOK' /\ RunnerOK' /\ HistoryOK' /\ queue' \in Docs
  BY DEF Typed, StartSends, history, UserOK, RunnerOK, HistoryOK, StreamOK
<1> QED BY <1>1, <1>2 DEF Typed

LEMMA RestartTyped ==
  ASSUME Typed, Restart
  PROVE  Typed'
<1>1. Sends(send')
  BY RestartEffect DEF Typed
<1>2. StreamOK'
  BY MessagesAssumption DEF Typed, Restart, StreamOK
<1>3. UserOK' /\ RunnerOK' /\ HistoryOK' /\ queue' \in Docs
  BY DEF Typed, Restart, UserOK, RunnerOK, HistoryOK
<1> QED BY <1>1, <1>2, <1>3 DEF Typed

(* A step of a send moves that send, or its timeout, and updates its message *)
(* or nothing.                                                               *)
LEMMA SendMoves ==
  ASSUME NEW m \in Message, NEW k \in Attempt(m), SendStep(m, k)
  PROVE  \/ \E stage \in Stages \ {"none"} : Step(m, k, stage)
         \/ \E late \in {"logging", "logged"} : LateStep(m, k, late)
<1>1. CASE Mark(m, k)
  BY <1>1 DEF Mark, Stages
<1>2. CASE Deliver(m, k) \/ Fail(m, k)
  BY <1>2 DEF Deliver, Fail, Stages
<1>3. CASE AnswerIsLost(m, k) \/ UpdateFails(m, k)
  BY <1>3 DEF AnswerIsLost, UpdateFails, Stages
<1>4. CASE Record(m, k) \/ LogError(m, k) \/ LogErrorFails(m, k)
  BY <1>4 DEF Record, LogError, LogErrorFails, Stages
<1>5. CASE TimesOut(m, k) \/ LogTimeout(m, k)
  BY <1>5 DEF TimesOut, LogTimeout, LateStep
<1> QED BY <1>1, <1>2, <1>3, <1>4, <1>5 DEF SendStep, OwnStep

LEMMA SendQueue ==
  ASSUME queue \in Docs, NEW m \in Message, NEW k \in Attempt(m), SendStep(m, k)
  PROVE  /\ queue' \in Docs
         /\ \A n \in Message \ {m} : queue'[n] = queue[n]
         /\ queue[m] # None => queue'[m] # None
<1> DEFINE mark(t) == [queue[m] EXCEPT !.tried = t, !.manualRetry = FALSE]
           record == [queue[m] EXCEPT !.sent = TRUE]
           log(fatal) == [queue[m] EXCEPT !.errorFatal = fatal]
<1>1. Queued(m) => queue[m] \in Doc
  BY DEF Docs, Queued
<1>2. CASE Mark(m, k)
  <2>1. PICK t \in {"recently", "longAgo"} : Set(m, mark(t))
    BY <1>2 DEF Mark
  <2>2. Queued(m) => mark(t) \in Doc
    BY <1>1 DEF Doc
  <2> HIDE DEF mark
  <2> QED BY <2>1, <2>2, SetEffect
<1>3. CASE Record(m, k)
  <2>1. Set(m, record)
    BY <1>3 DEF Record
  <2>2. Queued(m) => record \in Doc
    BY <1>1 DEF Doc
  <2> HIDE DEF record
  <2> QED BY <2>1, <2>2, SetEffect
<1>4. CASE LogError(m, k) \/ LogTimeout(m, k)
  <2>1. PICK fatal \in BOOLEAN : Set(m, log(fatal))
    BY <1>4 DEF LogError, LogTimeout
  <2>2. Queued(m) => log(fatal) \in Doc
    BY <1>1 DEF Doc
  <2> HIDE DEF log
  <2> QED BY <2>1, <2>2, SetEffect
<1>5. CASE Deliver(m, k) \/ Fail(m, k)
  BY <1>5 DEF Deliver, Fail
<1>6. CASE AnswerIsLost(m, k) \/ UpdateFails(m, k)
  BY <1>6 DEF AnswerIsLost, UpdateFails
<1>7. CASE LogErrorFails(m, k) \/ TimesOut(m, k)
  BY <1>7 DEF LogErrorFails, TimesOut
<1> QED BY <1>2, <1>3, <1>4, <1>5, <1>6, <1>7 DEF SendStep, OwnStep

LEMMA SendFrame ==
  ASSUME NEW m \in Message, NEW k \in Attempt(m), SendStep(m, k)
  PROVE  UNCHANGED <<run, batch, more, lastRunHadError, timer, open, notices, user, edits, heard>>
<1>1. CASE Mark(m, k) \/ Record(m, k)
  BY <1>1 DEF Mark, Record, runner
<1>2. CASE LogError(m, k) \/ LogTimeout(m, k)
  BY <1>2 DEF LogError, LogTimeout
<1>3. CASE Deliver(m, k) \/ Fail(m, k)
  BY <1>3 DEF Deliver, Fail, runner
<1>4. CASE AnswerIsLost(m, k) \/ UpdateFails(m, k)
  BY <1>4 DEF AnswerIsLost, UpdateFails, runner
<1>5. CASE LogErrorFails(m, k) \/ TimesOut(m, k)
  BY <1>5 DEF LogErrorFails, TimesOut, runner
<1> QED BY <1>1, <1>2, <1>3, <1>4, <1>5 DEF SendStep, OwnStep

LEMMA SendFailed ==
  ASSUME failed \in BOOLEAN, NEW m \in Message, NEW k \in Attempt(m), SendStep(m, k)
  PROVE  failed' \in BOOLEAN
<1>1. CASE Mark(m, k) \/ Record(m, k)
  BY <1>1 DEF Mark, Record, runner
<1>2. CASE LogError(m, k)
  <2>1. Counts(m, k) \in BOOLEAN
    BY DEF Counts
  <2> QED BY <1>2, <2>1 DEF LogError
<1>3. CASE LogTimeout(m, k)
  BY <1>3 DEF LogTimeout
<1>4. CASE Deliver(m, k) \/ Fail(m, k)
  BY <1>4 DEF Deliver, Fail, runner
<1>5. CASE AnswerIsLost(m, k) \/ UpdateFails(m, k)
  BY <1>5 DEF AnswerIsLost, UpdateFails, runner
<1>6. CASE LogErrorFails(m, k)
  <2>1. Counts(m, k) \in BOOLEAN
    BY DEF Counts
  <2> QED BY <1>6, <2>1 DEF LogErrorFails
<1>7. CASE TimesOut(m, k)
  BY <1>7 DEF TimesOut, runner
<1> QED BY <1>1, <1>2, <1>3, <1>4, <1>5, <1>6, <1>7 DEF SendStep, OwnStep

LEMMA SendFaults ==
  ASSUME faults \in 0 .. MaxFaults, NEW m \in Message, NEW k \in Attempt(m), SendStep(m, k)
  PROVE  faults' \in 0 .. MaxFaults
<1>1. faults' = faults \/ (faults < MaxFaults /\ faults' = faults + 1)
  <2>1. CASE Mark(m, k) \/ Record(m, k) \/ LogError(m, k) \/ LogTimeout(m, k)
    BY <2>1 DEF Mark, Record, LogError, LogTimeout
  <2>2. CASE Deliver(m, k) \/ Fail(m, k) \/ AnswerIsLost(m, k)
    BY <2>2 DEF Deliver, Fail, AnswerIsLost
  <2>3. CASE UpdateFails(m, k) \/ LogErrorFails(m, k)
    BY <2>3 DEF UpdateFails, LogErrorFails
  <2>4. CASE TimesOut(m, k)
    BY <2>4 DEF TimesOut
  <2> QED BY <2>1, <2>2, <2>3, <2>4 DEF SendStep, OwnStep
<1> QED BY <1>1, MessagesAssumption

(* How a receiver gets a message.                                            *)
LEMMA DeliversEffect ==
  ASSUME delivered \in [Message -> 0 .. 2], NEW m \in Message, Delivers(m)
  PROVE  /\ delivered' \in [Message -> 0 .. 2]
         /\ \A n \in Message \ {m} : delivered'[n] = delivered[n]
         /\ delivered[m] = 0 => delivered'[m] = 1
BY DEF Delivers

LEMMA SendHistory ==
  ASSUME HistoryOK, NEW m \in Message, NEW k \in Attempt(m), SendStep(m, k)
  PROVE  /\ HistoryOK'
         /\ unsure \subseteq unsure' /\ unsure' \subseteq unsure \cup {m}
         /\ forGood' \subseteq forGood \cup {m}
         /\ \A n \in Message \ {m} : delivered'[n] = delivered[n]
<1>1. CASE Mark(m, k) \/ Record(m, k) \/ LogTimeout(m, k)
  BY <1>1 DEF Mark, Record, LogTimeout, history, HistoryOK
<1>2. CASE Fail(m, k) \/ LogErrorFails(m, k)
  BY <1>2 DEF Fail, LogErrorFails, history, HistoryOK
<1>3. CASE Deliver(m, k)
  BY <1>3, DeliversEffect DEF Deliver, HistoryOK
<1>4. CASE AnswerIsLost(m, k)
  BY <1>4, DeliversEffect DEF AnswerIsLost, HistoryOK
<1>5. CASE UpdateFails(m, k) \/ TimesOut(m, k)
  BY <1>5 DEF UpdateFails, TimesOut, HistoryOK
<1>6. CASE LogError(m, k)
  BY <1>6 DEF LogError, HistoryOK
<1> QED BY <1>1, <1>2, <1>3, <1>4, <1>5, <1>6 DEF SendStep, OwnStep

LEMMA SendTyped ==
  ASSUME Typed, NEW m \in Message, NEW k \in Attempt(m), SendStep(m, k)
  PROVE  Typed'
<1>1. Sends(send')
  BY SendMoves, StepEffect, LateEffect DEF Typed
<1>2. queue' \in Docs
  BY SendQueue DEF Typed
<1>3. HistoryOK'
  BY SendHistory DEF Typed
<1>4. UserOK'
  BY SendFrame DEF Typed, UserOK
<1>5. RunnerOK'
  BY SendFrame, SendFailed DEF Typed, RunnerOK
<1>6. StreamOK'
  BY SendFrame, SendFaults DEF Typed, StreamOK
<1> QED BY <1>1, <1>2, <1>3, <1>4, <1>5, <1>6 DEF Typed

LEMMA TypedStep == Typed /\ [Next]_vars => Typed'
<1> SUFFICES ASSUME Typed, [Next]_vars PROVE Typed'
  OBVIOUS
<1>1. ASSUME NEW m \in Message, NEW later \in BOOLEAN, Queue(m, later) \/ Overwrite(m, later)
      PROVE  Typed'
  BY <1>1, QueueTyped, OverwriteTyped
<1>2. ASSUME NEW m \in Message,
             Remove(m) \/ MinuteOver(m) \/ RetryUntilPasses(m) \/ StreamDelivers(m)
      PROVE  Typed'
  BY <1>2, RemoveTyped, TimeTyped, StreamTyped
<1>3. ASSUME NEW m \in Message, NEW op \in {"toggleHold", "retry"}, UserReads(m, op)
      PROVE  Typed'
  BY <1>3, UserReadsTyped
<1>4. CASE ToggleHold \/ Retry
  BY <1>4, ToggleHoldTyped, RetryTyped
<1>5. CASE StreamBreaks \/ StreamReopens
  BY <1>5, StreamTyped
<1>6. CASE RunStep \/ FetchFails
  BY <1>6, RunTyped, StartTyped DEF RunStep
<1>7. ASSUME NEW m \in Message, NEW k \in Attempt(m), SendStep(m, k)
      PROVE  Typed'
  BY <1>7, SendTyped
<1>8. CASE Restart
  BY <1>8, RestartTyped
<1>9. CASE UNCHANGED vars
  BY <1>9 DEF vars, runner, history, Typed, Sends, UserOK, RunnerOK, StreamOK, HistoryOK
<1> QED BY <1>1, <1>2, <1>3, <1>4, <1>5, <1>6, <1>7, <1>8, <1>9 DEF Next

(* A document is never a half-written one: whatever users, blueprints and    *)
(* late sends write to a message, removed ones included, in whatever order.  *)
THEOREM TypeCorrect == Spec => []TypeOK
<1>1. Typed => TypeOK
  BY TypedIsTypeOK
<1> QED BY TypedInit, TypedStep, <1>1, PTL DEF Spec

-----------------------------------------------------------------------------
(* The inductive invariant, for each message.  A run waits for each send of  *)
(* its batch until the send is over or is given up, so that of a message     *)
(* whose sends all have a known outcome one is under way at a time, and none *)
(* outlives its run.  When such a message is delivered, its document says so *)
(* before the next batch is read, or is gone: the message is shut, not in a  *)
(* batch that is about to be sent.  A message that was refused for good, in  *)
(* doubt or not, is shut as well, and nothing is left that writes to it.     *)

Waited(m, k) == Active(m, k) /\ Counts(m, k)

Shut(m) == queue[m] # None /\ ~(run = "fetched" /\ m \in batch)

Known(m) ==
  (m \in batch \/ \E k \in Attempt(m) : send[m][k].stage # "none") => queue[m] # None

RunWaits(m) ==
  /\ \A k \in Attempt(m) : Waited(m, k) => run = "sending" /\ m \in batch
  /\ \A k, l \in Attempt(m) : Waited(m, k) /\ Waited(m, l) => k = l

DeliveredIsDone(m) == delivered[m] # 0 =>
  /\ delivered[m] = 1 /\ Shut(m)
  /\ \A k \in Attempt(m) : Active(m, k) => send[m][k].stage = "recording"
  /\ Queued(m) => (queue[m].sent \/ \E k \in Attempt(m) : Active(m, k))

RefusedIsDone(m) == m \in forGood =>
  /\ Shut(m) /\ \A k \in Attempt(m) : ~Active(m, k) /\ send[m][k].late # "logging"
  /\ Queued(m) => queue[m].errorFatal

Certain(m) == m \notin unsure =>
  (\A k \in Attempt(m) : Counts(m, k)) /\ DeliveredIsDone(m)

SafeOf(m) == Known(m) /\ RunWaits(m) /\ Certain(m) /\ RefusedIsDone(m)

NoBatch == run \in {"idle", "fetching"} => batch = {}

Safe == NoBatch /\ \A m \in Message : SafeOf(m)

IInv == Typed /\ Safe

LEMMA SafeInit == Init => Safe
<1> SUFFICES ASSUME Init PROVE Safe
  OBVIOUS
<1>1. NoBatch
  BY DEF Init, Idle, NoBatch
<1>2. ASSUME NEW m \in Message PROVE SafeOf(m)
  <2>1. /\ \A k \in Attempt(m) : send[m][k].stage = "none" /\ send[m][k].late = "no"
        /\ delivered[m] = 0 /\ m \notin forGood /\ m \notin batch
    BY DEF Init, Idle, NoSend
  <2>2. \A k \in Attempt(m) : ~Active(m, k) /\ Counts(m, k)
    BY <2>1 DEF Active, Counts
  <2> QED BY <2>1, <2>2 DEF SafeOf, Known, RunWaits, Certain, DeliveredIsDone, RefusedIsDone, Waited
<1> QED BY <1>1, <1>2 DEF Safe

(* What may be written to a message that is not sent meanwhile: a document   *)
(* is not created anew, and does not lose what was recorded of its sends,    *)
(* unless a user retries it.                                                 *)
Kept(m) == queue[m] # None =>
  /\ queue'[m] # None
  /\ Queued(m)' => /\ Queued(m) /\ (queue[m].sent => queue'[m].sent)
                   /\ (queue[m].errorFatal /\ m \in forGood' => queue'[m].errorFatal)

LEMMA QuietKeeps ==
  ASSUME NEW m \in Message, SafeOf(m), Kept(m), send'[m] = send[m], run' = run, batch' = batch,
         delivered'[m] = delivered[m], m \in unsure' <=> m \in unsure, m \in forGood' => m \in forGood
  PROVE  SafeOf(m)'
<1>1. \A k \in Attempt(m) : /\ Active(m, k)' = Active(m, k) /\ Counts(m, k)' = Counts(m, k)
                            /\ Waited(m, k)' = Waited(m, k)
  BY DEF Active, Counts, Waited
<1>2. Known(m)' /\ RunWaits(m)'
  BY <1>1 DEF SafeOf, Known, RunWaits, Kept
<1>3. Shut(m) => Shut(m)'
  BY DEF Shut, Kept
<1>4. m \notin unsure => DeliveredIsDone(m)'
  BY <1>1, <1>3 DEF SafeOf, Certain, DeliveredIsDone, Kept, Shut
<1>5. RefusedIsDone(m)'
  BY <1>1, <1>3 DEF SafeOf, RefusedIsDone, Kept, Shut
<1> QED BY <1>1, <1>2, <1>4, <1>5 DEF SafeOf, Certain

(* Changes in the collection and of the stream.                              *)
LEMMA SetKeeps ==
  ASSUME queue \in Docs, NEW m \in Message, NEW doc, Set(m, doc),
         Queued(m) => /\ doc \in Doc /\ (queue[m].sent => doc.sent)
                      /\ (queue[m].errorFatal /\ m \in forGood' => doc.errorFatal)
  PROVE  \A n \in Message : Kept(n)
<1>1. /\ queue' \in Docs /\ (Queued(m) => queue'[m] = doc)
      /\ (~Queued(m) => queue'[m] = queue[m])
      /\ \A n \in Message \ {m} : queue'[n] = queue[n]
  BY SetEffect
<1>2. doc \in Doc => doc \notin {None, Gone}
  BY MessagesAssumption
<1> QED BY <1>1, <1>2 DEF Kept, Queued

Quiet == /\ UNCHANGED <<send, run, batch, delivered, unsure>> /\ forGood' \subseteq forGood
         /\ \A m \in Message : Kept(m)

LEMMA QuietSafe ==
  ASSUME Safe, Quiet
  PROVE  Safe'
<1>1. NoBatch'
  BY DEF Safe, Quiet, NoBatch
<1>2. ASSUME NEW m \in Message PROVE SafeOf(m)'
  <2>1. /\ SafeOf(m) /\ Kept(m) /\ send'[m] = send[m] /\ run' = run /\ batch' = batch
        /\ delivered'[m] = delivered[m] /\ (m \in unsure' <=> m \in unsure)
        /\ (m \in forGood' => m \in forGood)
    BY DEF Safe, Quiet
  <2> QED BY <2>1, QuietKeeps
<1> QED BY <1>1, <1>2 DEF Safe

LEMMA SameQueueKeeps == queue' = queue => \A m \in Message : Kept(m)
BY DEF Kept, Queued

LEMMA QueueIsQuiet ==
  ASSUME Typed, NEW m \in Message, NEW later \in BOOLEAN, Queue(m, later)
  PROVE  Quiet
<1>1. queue[m] = None /\ \A n \in Message \ {m} : queue'[n] = queue[n]
  BY DEF Queue, Typed, Docs
<1>2. \A n \in Message : Kept(n)
  BY <1>1 DEF Kept, Queued
<1> QED BY <1>2 DEF Queue, runner, history, Quiet

LEMMA OverwriteIsQuiet ==
  ASSUME Typed, NEW m \in Message, NEW later \in BOOLEAN, Overwrite(m, later)
  PROVE  Quiet
<1> DEFINE doc == [queue[m] EXCEPT !.later = later]
<1>1. Queued(m) => doc \in Doc /\ doc.sent = queue[m].sent /\ doc.errorFatal = queue[m].errorFatal
  BY DEF Typed, Docs, Doc, Queued
<1>2. Set(m, doc)
  BY DEF Overwrite
<1> HIDE DEF doc
<1>3. \A n \in Message : Kept(n)
  BY <1>1, <1>2, SetKeeps DEF Typed
<1> QED BY <1>3 DEF Overwrite, runner, history, Quiet

LEMMA RemoveIsQuiet ==
  ASSUME Typed, NEW m \in Message, Remove(m)
  PROVE  Quiet
<1>1. queue'[m] = Gone /\ \A n \in Message \ {m} : queue'[n] = queue[n]
  BY DEF Remove, Typed, Docs
<1>2. \A n \in Message : Kept(n)
  BY <1>1, MessagesAssumption DEF Kept, Queued
<1> QED BY <1>2 DEF Remove, runner, history, Quiet

LEMMA ToggleHoldIsQuiet ==
  ASSUME Typed, ToggleHold
  PROVE  Quiet
<1> DEFINE doc == [queue[user.m] EXCEPT !.hold = ~user.hold]
<1>1. user.m \in Message /\ user.hold \in BOOLEAN
  BY CallRead DEF Typed, ToggleHold
<1>2. Queued(user.m) => /\ doc \in Doc /\ doc.sent = queue[user.m].sent
                        /\ doc.errorFatal = queue[user.m].errorFatal
  BY <1>1 DEF Typed, Docs, Doc, Queued
<1>3. Set(user.m, doc)
  BY DEF ToggleHold
<1> HIDE DEF doc
<1>4. \A n \in Message : Kept(n)
  BY <1>1, <1>2, <1>3, SetKeeps DEF Typed
<1> QED BY <1>4 DEF ToggleHold, runner, history, Quiet

(* A retry forgets that the message was refused, with its refusal.           *)
LEMMA RetryIsQuiet ==
  ASSUME Typed, Retry
  PROVE  Quiet
<1> DEFINE doc == [queue[user.m] EXCEPT
             !.manualRetry = TRUE, !.hold = FALSE, !.errorFatal = FALSE,
             !.tried = IF user.tried = "never" THEN @ ELSE "longAgo"]
<1>1. user.m \in Message
  BY CallRead DEF Typed, Retry
<1>2. Queued(user.m) => doc \in Doc /\ doc.sent = queue[user.m].sent
  BY <1>1 DEF Typed, Docs, Doc, Queued
<1>3. Set(user.m, doc)
  BY DEF Retry
<1>4. user.m \notin forGood' /\ forGood' \subseteq forGood
  BY DEF Retry
<1> HIDE DEF doc
<1>5. \A n \in Message : Kept(n)
  BY <1>1, <1>2, <1>3, <1>4, SetKeeps DEF Typed
<1> QED BY <1>4, <1>5 DEF Retry, runner, Quiet

LEMMA TimeIsQuiet ==
  ASSUME Typed, NEW m \in Message, MinuteOver(m) \/ RetryUntilPasses(m)
  PROVE  Quiet
<1> DEFINE tried == [queue[m] EXCEPT !.tried = "longAgo"]
           passed == [queue[m] EXCEPT !.over = TRUE]
<1>1. Queued(m) => /\ tried \in Doc /\ tried.sent = queue[m].sent
                   /\ tried.errorFatal = queue[m].errorFatal
  BY DEF Typed, Docs, Doc, Queued
<1>2. Queued(m) => /\ passed \in Doc /\ passed.sent = queue[m].sent
                   /\ passed.errorFatal = queue[m].errorFatal
  BY DEF Typed, Docs, Doc, Queued
<1>3. Set(m, tried) \/ Set(m, passed)
  BY DEF MinuteOver, RetryUntilPasses
<1> HIDE DEF tried, passed
<1>4. \A n \in Message : Kept(n)
  BY <1>1, <1>2, <1>3, SetKeeps DEF Typed
<1> QED BY <1>4 DEF MinuteOver, RetryUntilPasses, runner, history, Quiet

LEMMA OthersAreQuiet ==
  ASSUME \/ \E m \in Message, op \in {"toggleHold", "retry"} : UserReads(m, op)
         \/ \E m \in Message : StreamDelivers(m)
         \/ StreamBreaks \/ StreamReopens \/ UNCHANGED vars
  PROVE  Quiet
<1>1. UNCHANGED <<queue, send, run, batch, delivered, unsure, forGood>>
  BY DEF UserReads, StreamDelivers, StreamBreaks, StreamReopens, vars, runner, history
<1> QED BY <1>1, SameQueueKeeps DEF Quiet

(* The steps of the sends.                                                   *)
LEMMA SendKeepsOthers ==
  ASSUME Typed, Safe, NEW m \in Message, NEW k \in Attempt(m), SendStep(m, k),
         NEW n \in Message \ {m}
  PROVE  SafeOf(n)'
<1>1. queue'[n] = queue[n]
  BY SendQueue DEF Typed
<1>2. Kept(n)
  BY <1>1 DEF Kept, Queued
<1>3. send'[n] = send[n]
  BY SendMoves, StepEffect, LateEffect DEF Typed
<1>4. run' = run /\ batch' = batch
  BY SendFrame
<1>5. /\ delivered'[n] = delivered[n] /\ (n \in unsure' <=> n \in unsure)
      /\ (n \in forGood' => n \in forGood)
  BY SendHistory DEF Typed
<1>6. SafeOf(n)
  BY DEF Safe
<1> QED BY <1>2, <1>3, <1>4, <1>5, <1>6, QuietKeeps

(* The message that is sent.                                                 *)
LEMMA ActiveIsNotRefused ==
  ASSUME NEW m \in Message, NEW k \in Attempt(m), SafeOf(m), Active(m, k)
  PROVE  m \notin forGood
BY DEF SafeOf, RefusedIsDone

LEMMA ActiveFacts ==
  ASSUME NEW m \in Message, NEW k \in Attempt(m), SafeOf(m), Active(m, k), m \notin unsure
  PROVE  /\ run = "sending" /\ m \in batch /\ queue[m] # None /\ Counts(m, k)
         /\ \A l \in Attempt(m) \ {k} : ~Active(m, l)
         /\ delivered[m] # 0 => delivered[m] = 1 /\ send[m][k].stage = "recording"
<1>1. \A l \in Attempt(m) : Active(m, l) => Waited(m, l)
  BY DEF SafeOf, Certain, Waited
<1>2. /\ run = "sending" /\ m \in batch /\ Counts(m, k)
      /\ \A l \in Attempt(m) \ {k} : ~Active(m, l)
  BY <1>1 DEF SafeOf, RunWaits, Waited
<1>3. queue[m] # None
  BY <1>2 DEF SafeOf, Known
<1>4. delivered[m] # 0 => delivered[m] = 1 /\ send[m][k].stage = "recording"
  BY DEF SafeOf, Certain, DeliveredIsDone
<1> QED BY <1>2, <1>3, <1>4

(* One of its sends moves: what has to hold of it afterwards, of the         *)
(* delivery if it was not unsure before and is not now.                      *)
DeliveryIsNoted(m, k) == delivered'[m] # 0 =>
  /\ delivered'[m] = 1
  /\ \/ send'[m][k].stage = "recording"
     \/ ~Active(m, k)' /\ (Queued(m)' => queue'[m].sent)

RefusalIsNoted(m, k) == m \in forGood' =>
  /\ Alone(m, k) /\ ~Active(m, k)' /\ send'[m][k].late # "logging"
  /\ Queued(m)' => queue'[m].errorFatal

LEMMA NoRefusal ==
  ASSUME NEW m \in Message, NEW k \in Attempt(m), SafeOf(m), Active(m, k), UNCHANGED forGood
  PROVE  RefusalIsNoted(m, k)
BY ActiveIsNotRefused DEF RefusalIsNoted

LEMMA MoveKeeps ==
  ASSUME NEW m \in Message, NEW k \in Attempt(m), SafeOf(m), Active(m, k),
         run' = run, batch' = batch, queue[m] # None => queue'[m] # None,
         m \in unsure => m \in unsure',
         \A l \in Attempt(m) \ {k} : send'[m][l] = send[m][l],
         Waited(m, k)' => Waited(m, k),
         m \notin unsure' => Counts(m, k)' /\ DeliveryIsNoted(m, k),
         RefusalIsNoted(m, k)
  PROVE  SafeOf(m)'
<1>1. \A l \in Attempt(m) \ {k} : /\ Active(m, l)' = Active(m, l) /\ Counts(m, l)' = Counts(m, l)
                                  /\ Waited(m, l)' = Waited(m, l)
  BY DEF Active, Counts, Waited
<1>2. \A l \in Attempt(m) : Waited(m, l)' => Waited(m, l)
  BY <1>1
<1>3. RunWaits(m)'
  BY <1>2 DEF SafeOf, RunWaits
<1>4. queue[m] # None
  BY DEF SafeOf, Known, Active
<1>5. Known(m)'
  BY <1>4 DEF Known
<1>6. Certain(m)'
  <2> SUFFICES ASSUME m \notin unsure'
               PROVE  (\A l \in Attempt(m) : Counts(m, l)') /\ DeliveredIsDone(m)'
    BY DEF Certain
  <2>1. /\ run = "sending" /\ \A l \in Attempt(m) \ {k} : ~Active(m, l)
    BY ActiveFacts
  <2>2. \A l \in Attempt(m) : Counts(m, l)'
    BY <1>1 DEF SafeOf, Certain
  <2>3. Shut(m)'
    BY <1>4, <2>1 DEF Shut
  <2>4. DeliveredIsDone(m)'
    <3> SUFFICES ASSUME delivered'[m] # 0 PROVE DeliveredIsDone(m)'
      BY DEF DeliveredIsDone
    <3>1. CASE send'[m][k].stage = "recording"
      <4>1. Active(m, k)'
        BY <3>1 DEF Active
      <4>2. \A l \in Attempt(m) : Active(m, l)' => l = k
        BY <1>1, <2>1
      <4> QED BY <2>3, <3>1, <4>1, <4>2 DEF DeliveredIsDone, DeliveryIsNoted
    <3>2. CASE ~Active(m, k)' /\ (Queued(m)' => queue'[m].sent)
      <4>1. \A l \in Attempt(m) : ~Active(m, l)'
        BY <1>1, <2>1, <3>2
      <4> QED BY <2>3, <3>2, <4>1 DEF DeliveredIsDone, DeliveryIsNoted
    <3> QED BY <3>1, <3>2 DEF DeliveryIsNoted
  <2> QED BY <2>2, <2>4
<1>7. RefusedIsDone(m)'
  <2> SUFFICES ASSUME m \in forGood' PROVE RefusedIsDone(m)'
    BY DEF RefusedIsDone
  <2>1. Shut(m)'
    BY <1>4 DEF Shut, Alone, RefusalIsNoted
  <2>2. \A l \in Attempt(m) \ {k} : ~Active(m, l)' /\ send'[m][l].late # "logging"
    BY <1>1 DEF Alone, RefusalIsNoted
  <2> QED BY <2>1, <2>2 DEF RefusedIsDone, RefusalIsNoted
<1> QED BY <1>3, <1>5, <1>6, <1>7 DEF SafeOf

LEMMA SendKeepsOwn ==
  ASSUME Typed, NEW m \in Message, NEW k \in Attempt(m), SafeOf(m), SendStep(m, k), Active(m, k),
         Waited(m, k)' => Waited(m, k),
         m \notin unsure' => Counts(m, k)' /\ DeliveryIsNoted(m, k),
         RefusalIsNoted(m, k)
  PROVE  SafeOf(m)'
<1>1. run' = run /\ batch' = batch
  BY SendFrame
<1>2. queue[m] # None => queue'[m] # None
  BY SendQueue DEF Typed
<1>3. m \in unsure => m \in unsure'
  BY SendHistory DEF Typed
<1>4. \A l \in Attempt(m) \ {k} : send'[m][l] = send[m][l]
  BY SendMoves, StepEffect, LateEffect DEF Typed
<1> QED BY <1>1, <1>2, <1>3, <1>4, MoveKeeps

(* A step to a stage: the run waits as before, and what is certain now was.  *)
LEMMA StageKeeps ==
  ASSUME Typed, NEW m \in Message, NEW k \in Attempt(m), SafeOf(m), SendStep(m, k), Active(m, k),
         NEW stage \in Stages, Step(m, k, stage),
         m \notin unsure /\ m \notin unsure' => DeliveryIsNoted(m, k),
         RefusalIsNoted(m, k)
  PROVE  SafeOf(m)'
<1>1. send'[m][k].late = send[m][k].late
  BY StepEffect DEF Typed
<1>2. Waited(m, k)' => Waited(m, k)
  BY <1>1 DEF Waited, Counts
<1>3. unsure \subseteq unsure'
  BY SendHistory DEF Typed
<1>4. m \notin unsure' => Counts(m, k)'
  BY <1>1, <1>3, ActiveFacts DEF Counts
<1> QED BY <1>2, <1>3, <1>4, SendKeepsOwn

LEMMA MarkKeeps ==
  ASSUME Typed, NEW m \in Message, NEW k \in Attempt(m), SafeOf(m), Mark(m, k) \/ Fail(m, k)
  PROVE  SafeOf(m)'
<1>1. /\ send[m][k].stage \in {"marking", "sending"} /\ UNCHANGED <<delivered, unsure, forGood>>
      /\ \E stage \in {"sending", "failing", "failingForGood"} : Step(m, k, stage)
  BY DEF Mark, Fail, history
<1>2. Active(m, k)
  BY <1>1 DEF Active
<1>3. PICK stage \in Stages : Step(m, k, stage)
  BY <1>1 DEF Stages
<1>4. m \notin unsure => DeliveryIsNoted(m, k)
  BY <1>1, <1>2, ActiveFacts DEF DeliveryIsNoted
<1>5. RefusalIsNoted(m, k)
  BY <1>1, <1>2, NoRefusal
<1> QED BY <1>2, <1>3, <1>4, <1>5, StageKeeps DEF SendStep, OwnStep

LEMMA DeliverKeeps ==
  ASSUME Typed, NEW m \in Message, NEW k \in Attempt(m), SafeOf(m), Deliver(m, k)
  PROVE  SafeOf(m)'
<1>1. Active(m, k)
  BY DEF Active, Deliver
<1>2. Step(m, k, "recording") /\ "recording" \in Stages
  BY DEF Deliver, Stages
<1>3. send'[m][k].stage = "recording"
  BY <1>2, StepEffect DEF Typed
<1>4. m \notin unsure => DeliveryIsNoted(m, k)
  <2>1. m \notin unsure => delivered[m] = 0
    BY <1>1, ActiveFacts DEF Deliver
  <2>2. delivered[m] = 0 => delivered'[m] = 1
    BY DeliversEffect DEF Typed, HistoryOK, Deliver
  <2> QED BY <1>3, <2>1, <2>2 DEF DeliveryIsNoted
<1>5. RefusalIsNoted(m, k)
  BY <1>1, NoRefusal DEF Deliver
<1> QED BY <1>1, <1>2, <1>4, <1>5, StageKeeps DEF SendStep

(* A send whose outcome is lost makes its message unsure.                    *)
LEMMA LosesKeeps ==
  ASSUME Typed, NEW m \in Message, NEW k \in Attempt(m), SafeOf(m),
         AnswerIsLost(m, k) \/ UpdateFails(m, k)
  PROVE  SafeOf(m)'
<1>1. /\ send[m][k].stage \in {"marking", "sending", "recording"}
      /\ Step(m, k, "failing") /\ "failing" \in Stages
  BY DEF AnswerIsLost, UpdateFails, Stages
<1>2. Active(m, k)
  BY <1>1 DEF Active
<1>3. m \notin unsure' => send[m][k].stage = "marking" /\ UNCHANGED delivered
  BY DEF AnswerIsLost, UpdateFails
<1>4. m \notin unsure /\ m \notin unsure' => DeliveryIsNoted(m, k)
  BY <1>2, <1>3, ActiveFacts DEF DeliveryIsNoted
<1>5. RefusalIsNoted(m, k)
  BY <1>2, NoRefusal DEF AnswerIsLost, UpdateFails
<1> QED BY <1>1, <1>2, <1>4, <1>5, StageKeeps DEF SendStep

LEMMA RecordKeeps ==
  ASSUME Typed, NEW m \in Message, NEW k \in Attempt(m), SafeOf(m), Record(m, k)
  PROVE  SafeOf(m)'
<1> DEFINE record == [queue[m] EXCEPT !.sent = TRUE]
<1>1. Active(m, k)
  BY DEF Active, Record
<1>2. Step(m, k, "over") /\ "over" \in Stages
  BY DEF Record, Stages
<1>3. ~Active(m, k)'
  BY <1>2, StepEffect DEF Typed, Active
<1>4. Queued(m)' => queue'[m].sent
  <2>1. Queued(m) => record \in Doc /\ record.sent
    BY DEF Typed, Docs, Doc, Queued
  <2>2. Set(m, record)
    BY DEF Record
  <2> HIDE DEF record
  <2> QED BY <2>1, <2>2, SetEffect DEF Typed, Queued
<1>5. UNCHANGED <<delivered, forGood>>
  BY DEF Record, history
<1>6. m \notin unsure => DeliveryIsNoted(m, k)
  BY <1>1, <1>3, <1>4, <1>5, ActiveFacts DEF DeliveryIsNoted
<1>7. RefusalIsNoted(m, k)
  BY <1>1, <1>5, NoRefusal
<1> QED BY <1>1, <1>2, <1>6, <1>7, StageKeeps DEF SendStep, OwnStep

LEMMA LogErrorKeeps ==
  ASSUME Typed, NEW m \in Message, NEW k \in Attempt(m), SafeOf(m),
         LogError(m, k) \/ LogErrorFails(m, k)
  PROVE  SafeOf(m)'
<1> DEFINE fatal == send[m][k].stage = "failingForGood"
           log == [queue[m] EXCEPT !.errorFatal = fatal]
<1>1. /\ send[m][k].stage \in {"failing", "failingForGood"}
      /\ Step(m, k, "over") /\ "over" \in Stages /\ UNCHANGED <<delivered, unsure>>
  BY DEF LogError, LogErrorFails, Stages, history
<1>2. Active(m, k)
  BY <1>1 DEF Active
<1>3. ~Active(m, k)' /\ send'[m][k].late = send[m][k].late
  BY <1>1, StepEffect DEF Typed, Active
<1>4. m \notin unsure => DeliveryIsNoted(m, k)
  BY <1>1, <1>2, ActiveFacts DEF DeliveryIsNoted
<1>5. RefusalIsNoted(m, k)
  <2>1. CASE LogErrorFails(m, k)
    BY <1>2, <2>1, NoRefusal DEF LogErrorFails, history
  <2>2. CASE LogError(m, k) /\ ~IsRefusal(m, k)
    BY <1>2, <2>2, NoRefusal DEF LogError
  <2>3. CASE LogError(m, k) /\ IsRefusal(m, k)
    <3>1. Queued(m) => log \in Doc /\ log.errorFatal
      BY <2>3 DEF Typed, Docs, Doc, Queued, IsRefusal
    <3>2. Set(m, log)
      BY <2>3 DEF LogError
    <3> HIDE DEF log, fatal
    <3>3. Queued(m)' => queue'[m].errorFatal
      BY <3>1, <3>2, SetEffect DEF Typed, Queued
    <3>4. Alone(m, k) /\ send[m][k].late # "logging"
      BY <2>3 DEF IsRefusal, Alone
    <3> QED BY <1>3, <3>3, <3>4 DEF RefusalIsNoted
  <2> QED BY <1>1, <2>1, <2>2, <2>3
<1> QED BY <1>1, <1>2, <1>4, <1>5, StageKeeps DEF SendStep, OwnStep

LEMMA TimesOutKeeps ==
  ASSUME Typed, NEW m \in Message, NEW k \in Attempt(m), SafeOf(m), TimesOut(m, k)
  PROVE  SafeOf(m)'
<1>1. LateStep(m, k, "logging") /\ m \in unsure' /\ Active(m, k) /\ UNCHANGED forGood
  BY DEF TimesOut, LateStep
<1>2. send'[m][k].late = "logging"
  BY <1>1, LateEffect DEF Typed
<1>3. ~Waited(m, k)'
  BY <1>2 DEF Waited, Counts
<1> QED BY <1>1, <1>3, NoRefusal, SendKeepsOwn DEF SendStep

(* The send whose timeout is logged may have ended before.                   *)
LEMMA LogTimeoutKeeps ==
  ASSUME Typed, NEW m \in Message, NEW k \in Attempt(m), SafeOf(m), LogTimeout(m, k)
  PROVE  SafeOf(m)'
<1>1. send[m][k].late = "logging" /\ LateStep(m, k, "logged") /\ UNCHANGED <<run, batch, unsure, forGood>>
  BY DEF LogTimeout, LateStep, history
<1>2. m \in unsure'
  BY <1>1 DEF SafeOf, Certain, Counts
<1>3. /\ send'[m][k].late = "logged" /\ send'[m][k].stage = send[m][k].stage
      /\ \A l \in Attempt(m) \ {k} : send'[m][l] = send[m][l]
  BY <1>1, LateEffect DEF Typed
<1>4. \A l \in Attempt(m) : Waited(m, l)' => Waited(m, l)
  BY <1>3 DEF Waited, Counts, Active
<1>5. RunWaits(m)'
  BY <1>1, <1>4 DEF SafeOf, RunWaits
<1>6. queue[m] # None => queue'[m] # None
  BY SendQueue DEF Typed, SendStep, OwnStep
<1>7. \A l \in Attempt(m) : send'[m][l].stage = send[m][l].stage
  BY <1>3
<1>8. Known(m)'
  BY <1>1, <1>6, <1>7 DEF SafeOf, Known
<1>9. m \notin forGood'
  BY <1>1 DEF SafeOf, RefusedIsDone
<1> QED BY <1>2, <1>5, <1>8, <1>9 DEF SafeOf, Certain, RefusedIsDone

LEMMA SendSafe ==
  ASSUME Typed, Safe, NEW m \in Message, NEW k \in Attempt(m), SendStep(m, k)
  PROVE  Safe'
<1>1. NoBatch'
  BY SendFrame DEF Safe, NoBatch
<1>2. SafeOf(m)
  BY DEF Safe
<1>3. SafeOf(m)'
  <2>1. CASE Mark(m, k) \/ Fail(m, k) \/ Deliver(m, k)
    BY <1>2, <2>1, MarkKeeps, DeliverKeeps
  <2>2. CASE AnswerIsLost(m, k) \/ UpdateFails(m, k) \/ Record(m, k)
    BY <1>2, <2>2, LosesKeeps, RecordKeeps
  <2>3. CASE LogError(m, k) \/ LogErrorFails(m, k)
    BY <1>2, <2>3, LogErrorKeeps
  <2>4. CASE TimesOut(m, k) \/ LogTimeout(m, k)
    BY <1>2, <2>4, TimesOutKeeps, LogTimeoutKeeps
  <2> QED BY <2>1, <2>2, <2>3, <2>4 DEF SendStep, OwnStep
<1> QED BY <1>1, <1>3, SendKeepsOthers DEF Safe

(* The steps of a run.                                                       *)
LEMMA NobodyIsWaited ==
  ASSUME NEW m \in Message, SafeOf(m), run # "sending"
  PROVE  /\ \A k \in Attempt(m) : ~Waited(m, k)
         /\ m \notin unsure => \A k \in Attempt(m) : ~Active(m, k)
BY DEF SafeOf, RunWaits, Certain, Waited

(* A batch is emptied, or is not there, and the sends stay: what holds of a  *)
(* message holds on, if no send of it is waited for.                         *)
LEMMA NoRunKeeps ==
  ASSUME NEW m \in Message, SafeOf(m), UNCHANGED <<queue, send, delivered, unsure, forGood>>,
         \A k \in Attempt(m) : ~Waited(m, k), m \notin batch'
  PROVE  SafeOf(m)'
<1>1. /\ Queued(m)' = Queued(m)
      /\ \A k \in Attempt(m) : /\ Active(m, k)' = Active(m, k) /\ Counts(m, k)' = Counts(m, k)
                               /\ Waited(m, k)' = Waited(m, k)
  BY DEF Queued, Active, Counts, Waited
<1>2. Known(m)' /\ RunWaits(m)'
  BY <1>1 DEF SafeOf, Known, RunWaits
<1>3. Shut(m) => Shut(m)'
  BY DEF Shut
<1>4. m \notin unsure => DeliveredIsDone(m)'
  BY <1>1, <1>3 DEF SafeOf, Certain, DeliveredIsDone
<1>5. RefusedIsDone(m)'
  BY <1>1, <1>3 DEF SafeOf, RefusedIsDone
<1> QED BY <1>1, <1>2, <1>4, <1>5 DEF SafeOf, Certain

LEMMA NoFetchSafe ==
  ASSUME Typed, Safe, TimerFires \/ FetchFails
  PROVE  Safe'
<1>1. /\ run \in {"idle", "fetching"} /\ run' \in {"idle", "fetching"}
      /\ UNCHANGED <<queue, send, batch, delivered, unsure, forGood>>
  BY DEF TimerFires, FetchFails, history
<1>2. batch = {} /\ batch' = {}
  BY <1>1 DEF Safe, NoBatch
<1>3. ASSUME NEW m \in Message PROVE SafeOf(m)'
  <2>1. SafeOf(m) /\ m \notin batch'
    BY <1>2 DEF Safe
  <2>2. \A k \in Attempt(m) : ~Waited(m, k)
    BY <1>1, <2>1, NobodyIsWaited
  <2> QED BY <1>1, <2>1, <2>2, NoRunKeeps
<1> QED BY <1>2, <1>3 DEF Safe, NoBatch

LEMMA RunEndsSafe ==
  ASSUME Typed, Safe, RunEnds
  PROVE  Safe'
<1>1. /\ run = "sending" /\ batch' = {} /\ UNCHANGED <<queue, send, delivered, unsure, forGood>>
  BY DEF RunEnds, history
<1>2. ASSUME NEW m \in Message PROVE SafeOf(m)'
  <2>1. SafeOf(m) /\ m \notin batch'
    BY <1>1 DEF Safe
  <2>2. \A k \in Attempt(m) : ~Waited(m, k)
    <3>1. m \in batch => \A k \in Attempt(m) : ~Waited(m, k)
      BY DEF RunEnds, Settled, Waited, Counts
    <3> QED BY <2>1, <3>1 DEF SafeOf, RunWaits
  <2> QED BY <1>1, <2>1, <2>2, NoRunKeeps
<1> QED BY <1>1, <1>2 DEF Safe, NoBatch

(* What is fetched is due, so neither delivered nor refused for good.        *)
LEMMA FetchSafe ==
  ASSUME Typed, Safe, Fetch
  PROVE  Safe'
<1>1. /\ run = "fetching" /\ run' = "fetched"
      /\ UNCHANGED <<queue, send, delivered, unsure, forGood>>
  BY DEF Fetch, history
<1>2. \A m \in batch' : m \in Message /\ Due(m)
  BY DEF Fetch, Batches
<1>3. ASSUME NEW m \in Message PROVE SafeOf(m)'
  <2>1. SafeOf(m)
    BY DEF Safe
  <2>2. /\ \A k \in Attempt(m) : ~Waited(m, k)
        /\ m \notin unsure => \A k \in Attempt(m) : ~Active(m, k)
    BY <1>1, <2>1, NobodyIsWaited
  <2>3. CASE m \notin batch'
    BY <1>1, <2>1, <2>2, <2>3, NoRunKeeps
  <2>4. CASE m \in batch'
    <3>1. Queued(m) /\ queue[m] # None /\ ~queue[m].sent /\ ~queue[m].errorFatal
      BY <1>2, <2>4 DEF Due, Queued
    <3>2. m \notin forGood /\ (m \notin unsure => delivered[m] = 0)
      BY <2>1, <2>2, <3>1 DEF SafeOf, Certain, DeliveredIsDone, RefusedIsDone
    <3>3. \A k \in Attempt(m) : ~Waited(m, k)' /\ Counts(m, k)' = Counts(m, k)
      BY <1>1, <2>2 DEF Waited, Active, Counts
    <3>4. Known(m)' /\ RunWaits(m)'
      BY <1>1, <3>1, <3>3 DEF Known, RunWaits
    <3>5. Certain(m)' /\ RefusedIsDone(m)'
      BY <1>1, <2>1, <3>2, <3>3 DEF SafeOf, Certain, DeliveredIsDone, RefusedIsDone
    <3> QED BY <3>4, <3>5 DEF SafeOf
  <2> QED BY <2>3, <2>4
<1> QED BY <1>1, <1>3 DEF Safe, NoBatch

(* The sends of a batch start when none of its messages has one under way.   *)
LEMMA StartSafe ==
  ASSUME Typed, Safe, StartSends
  PROVE  Safe'
<1>1. /\ run = "fetched" /\ run' = "sending" /\ batch' = batch
      /\ UNCHANGED <<queue, delivered, unsure, forGood>>
  BY DEF StartSends, history
<1>2. ASSUME NEW m \in Message PROVE SafeOf(m)'
  <2> DEFINE new == Cardinality(Begun(m)) + 1
  <2>1. SafeOf(m)
    BY DEF Safe
  <2>2. \A k \in Attempt(m) : send'[m][k] = IF m \in batch /\ k = new
                              THEN [stage |-> "marking", late |-> "no"] ELSE send[m][k]
    BY StartEffect DEF Typed
  <2> HIDE DEF new
  <2>3. /\ \A k \in Attempt(m) : ~Waited(m, k)
        /\ m \notin unsure => \A k \in Attempt(m) : ~Active(m, k)
    BY <1>1, <2>1, NobodyIsWaited
  <2>4. CASE m \notin batch
    <3>1. \A k \in Attempt(m) : send'[m][k] = send[m][k]
      BY <2>2, <2>4
    <3>2. \A k \in Attempt(m) : /\ Active(m, k)' = Active(m, k) /\ Counts(m, k)' = Counts(m, k)
                                /\ ~Waited(m, k)'
      BY <2>3, <3>1 DEF Active, Counts, Waited
    <3>3. Known(m)' /\ RunWaits(m)'
      BY <1>1, <2>1, <3>1, <3>2 DEF SafeOf, Known, RunWaits
    <3>4. Shut(m) => Shut(m)'
      BY <1>1 DEF Shut
    <3>5. m \notin unsure => DeliveredIsDone(m)'
      BY <1>1, <2>1, <3>1, <3>2, <3>4 DEF SafeOf, Certain, DeliveredIsDone, Queued
    <3>6. RefusedIsDone(m)'
      BY <1>1, <2>1, <3>1, <3>2, <3>4 DEF SafeOf, RefusedIsDone, Queued
    <3> QED BY <1>1, <2>1, <3>2, <3>3, <3>5, <3>6 DEF SafeOf, Certain
  <2>5. CASE m \in batch
    <3>1. \A k \in Attempt(m) : /\ Waited(m, k)' => k = new
                                /\ Counts(m, k) => Counts(m, k)'
      BY <2>2, <2>3 DEF Active, Counts, Waited
    <3>2. RunWaits(m)'
      BY <1>1, <2>5, <3>1 DEF RunWaits
    <3>3. queue[m] # None
      BY <2>1, <2>5 DEF SafeOf, Known
    <3>4. Known(m)'
      BY <1>1, <3>3 DEF Known
    <3>5. m \notin forGood /\ (m \notin unsure => delivered[m] = 0)
      BY <1>1, <2>1, <2>5 DEF SafeOf, Certain, DeliveredIsDone, RefusedIsDone, Shut
    <3>6. Certain(m)' /\ RefusedIsDone(m)'
      BY <1>1, <2>1, <3>1, <3>5 DEF SafeOf, Certain, DeliveredIsDone, RefusedIsDone
    <3> QED BY <3>2, <3>4, <3>6 DEF SafeOf
  <2> QED BY <2>4, <2>5
<1> QED BY <1>1, <1>2 DEF Safe, NoBatch

(* After a restart no send is under way, and what was not recorded is unsure. *)
LEMMA RestartSafe ==
  ASSUME Typed, Safe, Restart
  PROVE  Safe'
<1>1. run' = "idle" /\ batch' = {} /\ UNCHANGED <<queue, delivered, forGood>>
  BY DEF Restart
<1>2. ASSUME NEW m \in Message PROVE SafeOf(m)'
  <2>1. SafeOf(m)
    BY DEF Safe
  <2>2. \A k \in Attempt(m) : send'[m][k] = IF send[m][k].stage = "none" THEN NoSend
                                            ELSE [stage |-> "over", late |-> "no"]
    BY RestartEffect DEF Typed
  <2>3. \A k \in Attempt(m) : /\ ~Active(m, k)' /\ Counts(m, k)' /\ ~Waited(m, k)'
                              /\ (send[m][k].stage = "none" => send'[m][k].stage = "none")
                              /\ send'[m][k].late = "no"
    BY <2>2 DEF Active, Counts, Waited, NoSend
  <2>4. Known(m)' /\ RunWaits(m)'
    BY <1>1, <2>1, <2>3 DEF SafeOf, Known, RunWaits
  <2>5. m \notin unsure' => m \notin unsure /\ \A k \in Attempt(m) : send[m][k].stage # "recording"
    BY DEF Restart
  <2>6. Shut(m) => Shut(m)'
    BY <1>1 DEF Shut
  <2>7. m \notin unsure' => DeliveredIsDone(m)'
    <3> SUFFICES ASSUME m \notin unsure', delivered'[m] # 0 PROVE DeliveredIsDone(m)'
      BY DEF DeliveredIsDone
    <3>1. DeliveredIsDone(m)
      BY <2>1, <2>5 DEF SafeOf, Certain
    <3>2. \A k \in Attempt(m) : ~Active(m, k)
      BY <1>1, <2>5, <3>1 DEF DeliveredIsDone
    <3> QED BY <1>1, <2>3, <2>6, <3>1, <3>2 DEF DeliveredIsDone, Queued
  <2>8. RefusedIsDone(m)'
    BY <1>1, <2>1, <2>3, <2>6 DEF SafeOf, RefusedIsDone, Queued
  <2> QED BY <2>3, <2>4, <2>7, <2>8 DEF SafeOf, Certain
<1> QED BY <1>1, <1>2 DEF Safe, NoBatch

LEMMA SafeStep ==
  ASSUME IInv, [Next]_vars
  PROVE  Safe'
<1> USE DEF IInv
<1>1. ASSUME NEW m \in Message, NEW later \in BOOLEAN, Queue(m, later) \/ Overwrite(m, later)
      PROVE  Quiet
  BY <1>1, QueueIsQuiet, OverwriteIsQuiet
<1>2. ASSUME NEW m \in Message,
             Remove(m) \/ MinuteOver(m) \/ RetryUntilPasses(m) \/ StreamDelivers(m)
      PROVE  Quiet
  BY <1>2, RemoveIsQuiet, TimeIsQuiet, OthersAreQuiet
<1>3. CASE \/ \E m \in Message, op \in {"toggleHold", "retry"} : UserReads(m, op)
           \/ StreamBreaks \/ StreamReopens \/ UNCHANGED vars
  BY <1>3, OthersAreQuiet, QuietSafe
<1>4. CASE ToggleHold \/ Retry
  BY <1>4, ToggleHoldIsQuiet, RetryIsQuiet, QuietSafe
<1>5. CASE RunStep \/ FetchFails
  BY <1>5, NoFetchSafe, FetchSafe, StartSafe, RunEndsSafe DEF RunStep
<1>6. ASSUME NEW m \in Message, NEW k \in Attempt(m), SendStep(m, k)
      PROVE  Safe'
  BY <1>6, SendSafe
<1>7. CASE Restart
  BY <1>7, RestartSafe
<1> QED BY <1>1, <1>2, <1>3, <1>4, <1>5, <1>6, <1>7, QuietSafe DEF Next

THEOREM Invariance == Spec => []IInv
<1>1. Init => IInv
  BY TypedInit, SafeInit DEF IInv
<1>2. IInv /\ [Next]_vars => IInv'
  BY TypedStep, SafeStep DEF IInv
<1> QED BY <1>1, <1>2, PTL DEF Spec

(* However many messages, sends and failures there are, and whatever users   *)
(* do meanwhile: a message that reached its receiver twice had a send that   *)
(* timed out, whose answer was lost, or which could not be recorded.         *)
THEOREM NeverTwice == Spec => []DeliveredOnce
<1>1. ASSUME IInv PROVE DeliveredOnce
  BY <1>1 DEF IInv, Safe, SafeOf, Certain, DeliveredIsDone, DeliveredOnce
<1> QED BY <1>1, Invariance, PTL

-----------------------------------------------------------------------------
(* Which steps begin a send: those that start a run's.                       *)
LEMMA SameBegun ==
  ASSUME NEW m \in Message,
         \A k \in Attempt(m) : send'[m][k].stage = "none" <=> send[m][k].stage = "none"
  PROVE  Begun(m)' = Begun(m)
BY DEF Begun

LEMMA SendBeginsNone ==
  ASSUME Typed, NEW n \in Message, NEW k \in Attempt(n), SendStep(n, k), SafeOf(n),
         NEW m \in forGood
  PROVE  Begun(m)' = Begun(m)
<1>1. m \in Message
  BY DEF Typed, HistoryOK
<1>2. CASE m # n
  <2>1. send'[m] = send[m]
    BY <1>1, <1>2, SendMoves, StepEffect, LateEffect DEF Typed
  <2> QED BY <1>1, <2>1, SameBegun
<1>3. CASE m = n
  <2>1. ~Active(n, k) /\ send[n][k].late # "logging"
    BY <1>3 DEF SafeOf, RefusedIsDone
  <2>2. send[n][k].stage \in {"none", "over"}
    BY <2>1 DEF Active
  <2>3. ~Mark(n, k) /\ ~Record(n, k) /\ ~LogError(n, k) /\ ~LogTimeout(n, k)
    BY <2>1, <2>2 DEF Mark, Record, LogError, LogTimeout
  <2>4. ~Deliver(n, k) /\ ~Fail(n, k) /\ ~AnswerIsLost(n, k)
    BY <2>2 DEF Deliver, Fail, AnswerIsLost
  <2>5. ~UpdateFails(n, k) /\ ~LogErrorFails(n, k) /\ ~TimesOut(n, k)
    BY <2>1, <2>2 DEF UpdateFails, LogErrorFails, TimesOut
  <2> QED BY <2>3, <2>4, <2>5 DEF SendStep, OwnStep
<1> QED BY <1>2, <1>3

LEMMA StartBeginsNone ==
  ASSUME IInv, StartSends, NEW m \in forGood
  PROVE  Begun(m)' = Begun(m)
<1>1. m \in Message
  BY DEF IInv, Typed, HistoryOK
<1>2. m \notin batch
  BY <1>1 DEF IInv, Safe, SafeOf, RefusedIsDone, Shut, StartSends
<1>3. \A k \in Attempt(m) : send'[m][k] = send[m][k]
  BY <1>1, <1>2, StartEffect DEF IInv, Typed
<1> QED BY <1>1, <1>3, SameBegun

LEMMA RestartBeginsNone ==
  ASSUME Typed, Restart, NEW m \in Message
  PROVE  Begun(m)' = Begun(m)
<1>1. \A k \in Attempt(m) : send'[m][k] = IF send[m][k].stage = "none" THEN NoSend
                                          ELSE [stage |-> "over", late |-> "no"]
  BY RestartEffect DEF Typed
<1>2. \A k \in Attempt(m) : send'[m][k].stage = "none" <=> send[m][k].stage = "none"
  BY <1>1 DEF NoSend
<1> QED BY <1>2, SameBegun

LEMMA OthersBeginNone ==
  ASSUME Typed, [Next]_vars
  PROVE  \/ UNCHANGED send
         \/ \E m \in Message : \E k \in Attempt(m) : SendStep(m, k)
         \/ StartSends \/ Restart
<1>1. ASSUME NEW m \in Message, NEW later \in BOOLEAN, Queue(m, later) \/ Overwrite(m, later)
      PROVE  UNCHANGED send
  BY <1>1 DEF Queue, Overwrite
<1>2. ASSUME NEW m \in Message,
             Remove(m) \/ MinuteOver(m) \/ RetryUntilPasses(m) \/ StreamDelivers(m)
      PROVE  UNCHANGED send
  BY <1>2 DEF Remove, MinuteOver, RetryUntilPasses, StreamDelivers
<1>3. CASE \/ \E m \in Message, op \in {"toggleHold", "retry"} : UserReads(m, op)
           \/ StreamBreaks \/ StreamReopens \/ UNCHANGED vars
  BY <1>3 DEF UserReads, StreamBreaks, StreamReopens, vars
<1>4. CASE ToggleHold \/ Retry
  BY <1>4 DEF ToggleHold, Retry
<1>5. CASE TimerFires \/ Fetch \/ FetchFails \/ RunEnds
  BY <1>5 DEF TimerFires, Fetch, FetchFails, RunEnds
<1> QED BY <1>1, <1>2, <1>3, <1>4, <1>5 DEF Next, RunStep

(* A message that its receiver has refused for good is not tried again by    *)
(* any run until a user retries it, whatever timed out, was lost or was      *)
(* restarted before, and whatever else users and blueprints do to it: in     *)
(* forGood are the messages of which nothing else was under way when the     *)
(* refusal was recorded (doMessageQueue(), logMessageError()).               *)
THEOREM RefusedForGood == Spec => FatalIsFinal
<1>1. ASSUME IInv, [Next]_vars
      PROVE  \A m \in forGood : Begun(m)' = Begun(m)
  <2> SUFFICES ASSUME NEW m \in forGood
               PROVE  Begun(m)' = Begun(m)
    OBVIOUS
  <2>1. m \in Message /\ Typed
    BY <1>1 DEF IInv, Typed, HistoryOK
  <2>2. CASE UNCHANGED send
    BY <2>1, <2>2, SameBegun
  <2>3. ASSUME NEW n \in Message, NEW k \in Attempt(n), SendStep(n, k)
        PROVE  Begun(m)' = Begun(m)
    BY <1>1, <2>1, <2>3, SendBeginsNone DEF IInv, Safe
  <2>4. CASE StartSends \/ Restart
    BY <1>1, <2>1, <2>4, StartBeginsNone, RestartBeginsNone
  <2> QED BY <1>1, <2>1, <2>2, <2>3, <2>4, OthersBeginNone
<1>2. IInv /\ [Next]_vars => [\A m \in forGood : Begun(m)' = Begun(m)]_vars
  BY <1>1
<1> QED BY <1>2, Invariance, PTL DEF Spec, FatalIsFinal

=============================================================================
