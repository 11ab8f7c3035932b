--------------------------- MODULE DeviceCommand ----------------------------
(* One command to a peripheral device: a document in a collection that the   *)
(* caller inserts, the gateway of the device executes and replies to, and    *)
(* the caller removes when it has the reply, or has waited for too long.     *)
(* Commands have nothing in common with each other, so one is enough.        *)
(*                                                                           *)
(* The same code is in the Meteor server (executeFunction.ts), with an       *)
(* observer of the document, and in the job worker (peripheralDevice.ts),    *)
(* with a change stream, that opens while the document is being inserted and *)
(* that may fail.  A call of the database is two steps, so that everything   *)
(* else can happen before its answer.                                        *)
(*                                                                           *)
(* Times are two marks that the command passes: its own timeout, and the     *)
(* age of 20 seconds at which the server removes it.  The timer fires when   *)
(* the clock has passed the timeout, and a change stream opens before it.    *)

VARIABLES
    kind,      \* whether the job worker calls, and the timeout is beyond the 20 s
    caller,    \* what has become of the promise (result, completed)
    document,  \* the PeripheralDeviceCommand
    timer,     \* timeoutCheck
    watch,     \* the observer or change stream
    unseen,    \* a change that the watch is still to tell of
    check,     \* checkReply: what it has read, "none" when it is not running
    pending,   \* checkReply was called while it was running
    expired,   \* the timeout of the command has passed
    old,       \* the 20 seconds have passed
    removing,  \* the removal of the document is on its way
    gateway,   \* what the gateway does with the command (_executedFunctions)
    spoiled    \* history: a read failed, or the document was taken away early

callerVars == <<caller, timer, watch, unseen, check, pending, removing>>
vars == <<kind, callerVars, document, expired, old, gateway, spoiled>>

Outcomes == {"answered", "timed out", "failed", "lost"}

Stored == {"sent", "replied"}

Init ==
    /\ kind \in [inWorker : BOOLEAN, long : BOOLEAN]
    /\ caller = "none" /\ document = "none" /\ timer = "off" /\ watch = "off"
    /\ unseen = FALSE /\ check = "none" /\ pending = FALSE /\ removing = FALSE
    /\ expired = FALSE /\ old = FALSE
    /\ gateway = "unknown" /\ spoiled = FALSE

-----------------------------------------------------------------------------
(* The caller.                                                               *)

(* Watch, set the timer, and insert the document.                            *)
Execute ==
    /\ caller = "none"
    /\ caller' = "waiting"
    /\ watch' = IF kind.inWorker THEN "opening" ELSE "on"
    /\ timer' = "set"
    /\ document' = "inserting"
    /\ UNCHANGED <<kind, unseen, check, pending, expired, old, removing, gateway, spoiled>>

StreamOpens ==
    /\ watch = "opening"
    /\ watch' = "on"
    /\ UNCHANGED <<kind, caller, timer, unseen, check, pending, removing, document,
                   expired, old, gateway, spoiled>>

(* A change of the document, for those that watch it.                        *)
Changed == unseen' = (unseen \/ watch = "on")

Inserted ==
    /\ document = "inserting"
    /\ document' = "sent"
    /\ Changed
    /\ UNCHANGED <<kind, caller, timer, watch, check, pending, removing, expired,
                   old, gateway, spoiled>>

(* The call throws, whether or not the document is there after all; the      *)
(* timer is left.                                                            *)
InsertFails ==
    /\ document = "inserting"
    /\ document' \in {"sent", "removed"}
    /\ caller' = "failed"
    /\ watch' = "off" /\ unseen' = FALSE
    /\ UNCHANGED <<kind, timer, check, pending, removing, expired, old, gateway, spoiled>>

(* Fault: a call while another is running is forgotten.                      *)
DoCheckReplyIfIdle ==
    /\ check' = IF check = "none" THEN "reading" ELSE check
    /\ pending' = FALSE

DoCheckReply ==
    IF check = "none"
    THEN check' = "reading" /\ pending' = FALSE
    ELSE check' = check /\ pending' = TRUE

ChangeSeen ==
    /\ unseen
    /\ unseen' = FALSE
    /\ DoCheckReply
    /\ UNCHANGED <<kind, caller, timer, watch, removing, document, expired, old,
                   gateway, spoiled>>

TimerFires ==
    /\ timer = "set" /\ expired
    /\ timer' = "fired"
    /\ DoCheckReply
    /\ UNCHANGED <<kind, caller, watch, unseen, removing, document, expired, old,
                   gateway, spoiled>>

Found == IF document \in Stored THEN document ELSE "nothing"

(* The database answers findOne.                                             *)
CheckReads ==
    /\ check = "reading"
    /\ check' = Found
    /\ UNCHANGED <<kind, caller, timer, watch, unseen, pending, removing, document,
                   expired, old, gateway, spoiled>>

(* Fault: a call that came in meanwhile is left pending.                     *)
FinallyLeft == check' = "none" /\ pending' = pending

(* The finally of checkReply.                                                *)
Finally ==
    /\ check' = IF pending THEN "reading" ELSE "none"
    /\ pending' = FALSE

(* findOne fails, and nothing is done; bound: it does so once.               *)
ReadFails ==
    /\ check = "reading" /\ ~spoiled
    /\ spoiled' = TRUE
    /\ Finally
    /\ UNCHANGED <<kind, caller, timer, watch, unseen, removing, document, expired,
                   old, gateway>>

(* cleanup, and then the result unless there is one.                         *)
Settle(outcome) ==
    /\ timer' = "off" /\ watch' = "off" /\ unseen' = FALSE
    /\ removing' = TRUE
    /\ caller' = IF caller = "waiting" THEN outcome ELSE caller

(* Fault: the time is not looked at.                                         *)
NeverTooLate == FALSE

TooLate == expired

CheckEnds ==
    /\ check \in {"nothing", "sent", "replied"}
    /\ \/ check = "replied" /\ Settle("answered")
       \/ check = "sent" /\ TooLate /\ Settle("timed out")
       \/ /\ check = "nothing" \/ (check = "sent" /\ ~TooLate)
          /\ UNCHANGED <<caller, timer, watch, unseen, removing>>
    /\ Finally
    /\ UNCHANGED <<kind, document, expired, old, gateway, spoiled>>

(* The removal by cleanup arrives, or fails.                                 *)
CleanupRemoves ==
    /\ removing
    /\ removing' = FALSE
    /\ document' \in {document, "removed"}
    /\ UNCHANGED <<kind, caller, timer, watch, unseen, check, pending, expired, old,
                   gateway, spoiled>>

(* The 'error' of a change stream: the caller is told, the timer is left.    *)
StreamFails ==
    /\ kind.inWorker /\ watch # "off"
    /\ watch' = "off" /\ unseen' = FALSE
    /\ caller' = IF caller = "waiting" THEN "failed" ELSE caller
    /\ UNCHANGED <<kind, timer, check, pending, removing, document, expired, old,
                   gateway, spoiled>>

(* The process of the caller ends, whatever it has asked of the database.    *)
CallerDies ==
    /\ caller # "none" /\ caller # "lost"
    /\ caller' = IF caller = "waiting" THEN "lost" ELSE caller
    /\ timer' = "off" /\ watch' = "off" /\ unseen' = FALSE
    /\ check' = "none" /\ pending' = FALSE /\ removing' = FALSE
    /\ IF document = "inserting" THEN document' \in {"sent", "removed"}
       ELSE document' \in {document} \cup (IF removing THEN {"removed"} ELSE {})
    /\ UNCHANGED <<kind, expired, old, gateway, spoiled>>

-----------------------------------------------------------------------------
(* The gateway.                                                              *)

(* A command that is not among the executed ones is executed.                *)
ExecuteFunction ==
    /\ document \in Stored /\ gateway = "unknown"
    /\ gateway' = "executing"
    /\ UNCHANGED <<kind, callerVars, document, expired, old, spoiled>>

(* functionReply updates the document, if it is still there; the call may    *)
(* also get lost.                                                            *)
FunctionReply ==
    /\ gateway = "executing"
    /\ gateway' = "executed"
    /\ \/ /\ document \in Stored
          /\ document' = "replied"
          /\ Changed
       \/ UNCHANGED <<document, unseen>>
    /\ UNCHANGED <<kind, caller, timer, watch, check, pending, removing, expired, old,
                   spoiled>>

(* It has forgotten what it executed; a command that it cannot execute it    *)
(* never remembers.                                                          *)
GatewayRestarts ==
    /\ gateway # "unknown"
    /\ gateway' = "unknown"
    /\ UNCHANGED <<kind, callerVars, document, expired, old, spoiled>>

-----------------------------------------------------------------------------
(* The server removes what is old, and what is of a device that is removed.  *)

(* Fault: what has a reply is left.                                          *)
OldAndUnanswered == old /\ document = "sent"

Lingering == old /\ document \in Stored

(* Only with a long timeout may the caller still want what is removed.       *)
RemoveOldCommands ==
    /\ Lingering
    /\ document' = "removed"
    /\ spoiled' = (spoiled \/ kind.long)
    /\ UNCHANGED <<kind, callerVars, expired, old, gateway>>

RemovePeripheralDevice ==
    /\ document \in Stored
    /\ document' = "removed"
    /\ spoiled' = TRUE
    /\ UNCHANGED <<kind, callerVars, expired, old, gateway>>

(* The caller of a command with a short timeout has done all that it will do *)
(* long before the 20 seconds.                                               *)
DoneByThen ==
    /\ expired /\ timer # "set" /\ document # "inserting"
    /\ check = "none" /\ ~unseen /\ ~removing

TimePasses ==
    /\ caller # "none"
    /\ \/ ~expired /\ watch # "opening" /\ expired' = TRUE /\ UNCHANGED old
       \/ ~old /\ (kind.long \/ DoneByThen) /\ old' = TRUE /\ UNCHANGED expired
    /\ UNCHANGED <<kind, callerVars, document, gateway, spoiled>>

-----------------------------------------------------------------------------
CallerStep ==
    \/ StreamOpens \/ Inserted \/ ChangeSeen \/ TimerFires \/ CheckReads \/ CheckEnds
    \/ CleanupRemoves

Next ==
    \/ Execute \/ CallerStep \/ RemoveOldCommands \/ TimePasses
    \/ InsertFails \/ ReadFails \/ StreamFails \/ CallerDies
    \/ ExecuteFunction \/ FunctionReply \/ GatewayRestarts \/ RemovePeripheralDevice

Spec == Init /\ [][Next]_vars

(* The event loop of the caller gets to each callback and the database to    *)
(* each call, as long as the caller does not die; time passes, and the       *)
(* server looks for old commands every five minutes.  Nothing is asked of    *)
(* the gateway.                                                              *)
FairSpec ==
    /\ Spec
    /\ WF_vars(StreamOpens) /\ WF_vars(Inserted) /\ WF_vars(ChangeSeen)
    /\ WF_vars(TimerFires) /\ WF_vars(CheckReads) /\ WF_vars(CheckEnds)
    /\ WF_vars(CleanupRemoves) /\ WF_vars(TimePasses) /\ WF_vars(RemoveOldCommands)

-----------------------------------------------------------------------------
TypeOK ==
    /\ kind \in [inWorker : BOOLEAN, long : BOOLEAN]
    /\ caller \in {"none", "waiting"} \cup Outcomes
    /\ document \in {"none", "inserting", "removed"} \cup Stored
    /\ timer \in {"off", "set", "fired"}
    /\ watch \in {"off", "opening", "on"}
    /\ check \in {"none", "reading", "nothing"} \cup Stored
    /\ unseen \in BOOLEAN /\ pending \in BOOLEAN /\ removing \in BOOLEAN
    /\ expired \in BOOLEAN /\ old \in BOOLEAN /\ spoiled \in BOOLEAN
    /\ gateway \in {"unknown", "executing", "executed"}

(* Nobody waits for nothing: while the caller waits there is always a step   *)
(* of its own to come that can end the waiting, the insertion, the timer, a  *)
(* change to be told of, a check that is to be run again, or one that is to  *)
(* end with a result; also when the checks for a change and for the timeout  *)
(* overlap.                                                                  *)
SomethingWillAnswer ==
    caller = "waiting" /\ ~spoiled =>
        \/ document = "inserting" \/ timer = "set" \/ unseen
        \/ check # "none" /\ pending
        \/ check \in {"reading", "replied"} \/ (check = "sent" /\ expired)

(* In the server a reply that has arrived is not left to the timer: it will  *)
(* be read because of itself.                                                *)
ReplyIsNotLeftToTheTimer ==
    ~kind.inWorker /\ caller = "waiting" /\ document = "replied" /\ ~spoiled =>
        unseen \/ (check # "none" /\ pending) \/ check \in {"reading", "replied"}

(* Each caller gets an answer, or is told that there is none; unless the     *)
(* database failed it or its document was taken away early, with the device  *)
(* or because of an age that is less than its timeout.                       *)
EveryCallerIsAnswered == (caller = "waiting") ~> (caller # "waiting" \/ spoiled)

(* Whoever dies, no document stays in the collection.                        *)
EveryDocumentIsRemoved == (document \in Stored) ~> (document = "removed")
=============================================================================
