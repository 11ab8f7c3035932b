------------------------ MODULE DeviceCommandProofs -------------------------
(* That nobody waits for nothing, and no reply is left to the timer, in the  *)
(* server and in the worker, however the callbacks and calls interleave.     *)
EXTENDS DeviceCommand, TLAPS

-----------------------------------------------------------------------------
(* The inductive invariant.                                                  *)

(* The type invariant in two parts: the flags, and all other variables.      *)
FlagsOK ==
    /\ unseen \in BOOLEAN /\ pending \in BOOLEAN /\ removing \in BOOLEAN
    /\ expired \in BOOLEAN /\ old \in BOOLEAN /\ spoiled \in BOOLEAN

DataOK ==
    /\ kind \in [inWorker : BOOLEAN, long : BOOLEAN]
    /\ caller \in {"none", "waiting"} \cup Outcomes
    /\ document \in {"none", "inserting", "removed"} \cup Stored
    /\ timer \in {"off", "set", "fired"}
    /\ watch \in {"off", "opening", "on"}
    /\ check \in {"none", "reading", "nothing"} \cup Stored
    /\ gateway \in {"unknown", "executing", "executed"}

(* The timer fires after the timeout, and the change stream is open by then. *)
TimerIsNotEarly == (timer = "fired") => expired

StreamIsOpenByThen == expired => (watch # "opening")

NothingBeforeTheCall ==
    (caller = "none") =>
        (/\ document = "none" /\ timer = "off" /\ check = "none"
         /\ ~unseen /\ ~removing /\ ~expired /\ ~old)

(* A short timeout is over before the 20 seconds, with whatever comes of it. *)
ShortIsOver == old /\ ~kind.long => caller # "waiting" \/ spoiled

(* What a caller that waits has: a timer that has not been cleared, a watch, *)
(* and, unless it was taken away, its document; nothing of it is cleaned up. *)
WaitingHolds ==
    caller = "waiting" =>
        /\ timer # "off" /\ watch # "off" /\ ~removing
        /\ ~kind.inWorker => watch = "on"
        /\ ~spoiled => document \in {"inserting"} \cup Stored

(* A check that read before the insertion is not the last one.               *)
NotTheLastCheck ==
    caller = "waiting" /\ ~spoiled /\ check = "nothing" =>
        document = "inserting" \/ timer = "set" \/ unseen \/ pending

IInv ==
    /\ FlagsOK /\ DataOK /\ TimerIsNotEarly /\ StreamIsOpenByThen
    /\ NothingBeforeTheCall /\ ShortIsOver /\ WaitingHolds /\ NotTheLastCheck
    /\ SomethingWillAnswer /\ ReplyIsNotLeftToTheTimer

LEMMA InitIInv == Init => IInv
<1> SUFFICES ASSUME Init PROVE IInv
  OBVIOUS
<1>1. FlagsOK
  BY Zenon DEF Init, FlagsOK
<1>2. DataOK
  BY DEF Init, DataOK, Stored, Outcomes
<1>3. /\ TimerIsNotEarly /\ StreamIsOpenByThen /\ NothingBeforeTheCall
      /\ ShortIsOver /\ WaitingHolds /\ NotTheLastCheck
      /\ SomethingWillAnswer /\ ReplyIsNotLeftToTheTimer
  BY DEF Init, TimerIsNotEarly, StreamIsOpenByThen, NothingBeforeTheCall,
         ShortIsOver, WaitingHolds, NotTheLastCheck, SomethingWillAnswer,
         ReplyIsNotLeftToTheTimer
<1>4. QED
  BY <1>1, <1>2, <1>3 DEF IInv

-----------------------------------------------------------------------------
(* Every step preserves it.                                                  *)

(* Every flag stays a flag.                                                  *)
LEMMA FlagsStep == FlagsOK /\ [Next]_vars => FlagsOK'
<1> SUFFICES ASSUME FlagsOK, [Next]_vars
             PROVE  FlagsOK'
  OBVIOUS
<1> USE DEF FlagsOK, callerVars
<1>1. CASE Execute
  BY Zenon, <1>1 DEF Execute
<1>2. CASE StreamOpens
  BY Zenon, <1>2 DEF StreamOpens
<1>3. CASE Inserted
  BY Zenon, <1>3 DEF Inserted, Changed
<1>4. CASE ChangeSeen
  BY Zenon, <1>4 DEF ChangeSeen, DoCheckReply
<1>5. CASE TimerFires
  BY Zenon, <1>5 DEF TimerFires, DoCheckReply
<1>6. CASE CheckReads
  BY Zenon, <1>6 DEF CheckReads, Found
<1>7. CASE CheckEnds
  BY Zenon, <1>7 DEF CheckEnds, Settle, TooLate, Finally
<1>8. CASE CleanupRemoves
  BY Zenon, <1>8 DEF CleanupRemoves
<1>9. CASE RemoveOldCommands
  BY Zenon, <1>9 DEF RemoveOldCommands, Lingering
<1>10. CASE TimePasses
  BY Zenon, <1>10 DEF TimePasses
<1>11. CASE InsertFails
  BY Zenon, <1>11 DEF InsertFails
<1>12. CASE ReadFails
  BY Zenon, <1>12 DEF ReadFails, Finally
<1>13. CASE StreamFails
  BY Zenon, <1>13 DEF StreamFails
<1>14. CASE CallerDies
  BY Zenon, <1>14 DEF CallerDies
<1>15. CASE ExecuteFunction
  BY Zenon, <1>15 DEF ExecuteFunction
<1>16. CASE FunctionReply
  BY Zenon, <1>16 DEF FunctionReply, Changed
<1>17. CASE GatewayRestarts
  BY Zenon, <1>17 DEF GatewayRestarts
<1>18. CASE RemovePeripheralDevice
  BY Zenon, <1>18 DEF RemovePeripheralDevice
<1>19. CASE UNCHANGED vars
  BY Zenon, <1>19 DEF vars
<1> QED
  BY <1>1, <1>2, <1>3, <1>4, <1>5, <1>6, <1>7, <1>8, <1>9, <1>10, <1>11,
     <1>12, <1>13, <1>14, <1>15, <1>16, <1>17, <1>18, <1>19
     DEF Next, CallerStep

(* Every other variable keeps its type.                                      *)
LEMMA DataStep == DataOK /\ [Next]_vars => DataOK'
<1> SUFFICES ASSUME DataOK, [Next]_vars
             PROVE  DataOK'
  OBVIOUS
<1> USE DEF DataOK, callerVars
<1>1. CASE Execute
  BY ZenonT(30), <1>1 DEF Execute, Stored, Outcomes
<1>2. CASE StreamOpens
  BY ZenonT(30), <1>2 DEF StreamOpens, Stored, Outcomes
<1>3. CASE Inserted
  BY ZenonT(30), <1>3 DEF Inserted, Changed, Stored, Outcomes
<1>4. CASE ChangeSeen
  BY <1>4 DEF ChangeSeen, DoCheckReply
<1>5. CASE TimerFires
  BY ZenonT(30), <1>5 DEF TimerFires, DoCheckReply, Stored, Outcomes
<1>6. CASE CheckReads
  BY ZenonT(30), <1>6 DEF CheckReads, Found, Stored, Outcomes
<1>7. CASE CheckEnds
  BY ZenonT(30), <1>7 DEF CheckEnds, Settle, TooLate, Finally, Stored, Outcomes
<1>8. CASE CleanupRemoves
  BY ZenonT(30), <1>8 DEF CleanupRemoves, Stored, Outcomes
<1>9. CASE RemoveOldCommands
  BY ZenonT(30), <1>9 DEF RemoveOldCommands, Lingering, Stored, Outcomes
<1>10. CASE TimePasses
  BY ZenonT(30), <1>10 DEF TimePasses, Stored, Outcomes
<1>11. CASE InsertFails
  BY ZenonT(30), <1>11 DEF InsertFails, Stored, Outcomes
<1>12. CASE ReadFails
  BY ZenonT(30), <1>12 DEF ReadFails, Finally, Stored, Outcomes
<1>13. CASE StreamFails
  BY ZenonT(30), <1>13 DEF StreamFails, Stored, Outcomes
<1>14. CASE CallerDies
  BY ZenonT(30), <1>14 DEF CallerDies, Stored, Outcomes
<1>15. CASE ExecuteFunction
  BY ZenonT(30), <1>15 DEF ExecuteFunction, Stored, Outcomes
<1>16. CASE FunctionReply
  BY ZenonT(30), <1>16 DEF FunctionReply, Changed, Stored, Outcomes
<1>17. CASE GatewayRestarts
  BY ZenonT(30), <1>17 DEF GatewayRestarts, Stored, Outcomes
<1>18. CASE RemovePeripheralDevice
  BY ZenonT(30), <1>18 DEF RemovePeripheralDevice, Stored, Outcomes
<1>19. CASE UNCHANGED vars
  BY <1>19 DEF vars
<1> QED
  BY <1>1, <1>2, <1>3, <1>4, <1>5, <1>6, <1>7, <1>8, <1>9, <1>10, <1>11,
     <1>12, <1>13, <1>14, <1>15, <1>16, <1>17, <1>18, <1>19
     DEF Next, CallerStep

(* A timer that has fired was not early.                                     *)
LEMMA TimerIsNotEarlyStep ==
    /\ FlagsOK /\ TimerIsNotEarly /\ [Next]_vars
    => TimerIsNotEarly'
<1> SUFFICES ASSUME FlagsOK, TimerIsNotEarly, [Next]_vars
             PROVE  TimerIsNotEarly'
  OBVIOUS
<1> USE DEF FlagsOK, TimerIsNotEarly, callerVars
<1>1. CASE Execute
  BY <1>1 DEF Execute
<1>2. CASE StreamOpens
  BY <1>2 DEF StreamOpens
<1>3. CASE Inserted
  BY <1>3 DEF Inserted, Changed
<1>4. CASE ChangeSeen
  BY <1>4 DEF ChangeSeen, DoCheckReply
<1>5. CASE TimerFires
  BY <1>5 DEF TimerFires, DoCheckReply
<1>6. CASE CheckReads
  BY <1>6 DEF CheckReads, Found
<1>7. CASE CheckEnds
  BY <1>7 DEF CheckEnds, Settle, TooLate, Finally
<1>8. CASE CleanupRemoves
  BY <1>8 DEF CleanupRemoves
<1>9. CASE RemoveOldCommands
  BY <1>9 DEF RemoveOldCommands, Lingering
<1>10. CASE TimePasses
  BY <1>10 DEF TimePasses
<1>11. CASE InsertFails
  BY <1>11 DEF InsertFails
<1>12. CASE ReadFails
  BY <1>12 DEF ReadFails, Finally
<1>13. CASE StreamFails
  BY <1>13 DEF StreamFails
<1>14. CASE CallerDies
  BY <1>14 DEF CallerDies
<1>15. CASE ExecuteFunction
  BY <1>15 DEF ExecuteFunction
<1>16. CASE FunctionReply
  BY <1>16 DEF FunctionReply, Changed
<1>17. CASE GatewayRestarts
  BY <1>17 DEF GatewayRestarts
<1>18. CASE RemovePeripheralDevice
  BY <1>18 DEF RemovePeripheralDevice
<1>19. CASE UNCHANGED vars
  BY <1>19 DEF vars
<1> QED
  BY <1>1, <1>2, <1>3, <1>4, <1>5, <1>6, <1>7, <1>8, <1>9, <1>10, <1>11,
     <1>12, <1>13, <1>14, <1>15, <1>16, <1>17, <1>18, <1>19
     DEF Next, CallerStep

(* No stream opens after the timeout.                                        *)
LEMMA StreamIsOpenByThenStep ==
    /\ FlagsOK /\ NothingBeforeTheCall /\ StreamIsOpenByThen /\ [Next]_vars
    => StreamIsOpenByThen'
<1> SUFFICES ASSUME FlagsOK, NothingBeforeTheCall, StreamIsOpenByThen,
                    [Next]_vars
             PROVE  StreamIsOpenByThen'
  OBVIOUS
<1> USE DEF FlagsOK, NothingBeforeTheCall, StreamIsOpenByThen, callerVars
<1>1. CASE Execute
  BY <1>1 DEF Execute
<1>2. CASE StreamOpens
  BY <1>2 DEF StreamOpens
<1>3. CASE Inserted
  BY <1>3 DEF Inserted, Changed
<1>4. CASE ChangeSeen
  BY <1>4 DEF ChangeSeen, DoCheckReply
<1>5. CASE TimerFires
  BY <1>5 DEF TimerFires, DoCheckReply
<1>6. CASE CheckReads
  BY <1>6 DEF CheckReads, Found
<1>7. CASE CheckEnds
  BY <1>7 DEF CheckEnds, Settle, TooLate, Finally
<1>8. CASE CleanupRemoves
  BY <1>8 DEF CleanupRemoves
<1>9. CASE RemoveOldCommands
  BY <1>9 DEF RemoveOldCommands, Lingering
<1>10. CASE TimePasses
  BY <1>10 DEF TimePasses
<1>11. CASE InsertFails
  BY <1>11 DEF InsertFails
<1>12. CASE ReadFails
  BY <1>12 DEF ReadFails, Finally
<1>13. CASE StreamFails
  BY <1>13 DEF StreamFails
<1>14. CASE CallerDies
  BY <1>14 DEF CallerDies
<1>15. CASE ExecuteFunction
  BY <1>15 DEF ExecuteFunction
<1>16. CASE FunctionReply
  BY <1>16 DEF FunctionReply, Changed
<1>17. CASE GatewayRestarts
  BY <1>17 DEF GatewayRestarts
<1>18. CASE RemovePeripheralDevice
  BY <1>18 DEF RemovePeripheralDevice
<1>19. CASE UNCHANGED vars
  BY <1>19 DEF vars
<1> QED
  BY <1>1, <1>2, <1>3, <1>4, <1>5, <1>6, <1>7, <1>8, <1>9, <1>10, <1>11,
     <1>12, <1>13, <1>14, <1>15, <1>16, <1>17, <1>18, <1>19
     DEF Next, CallerStep

(* The call comes first.                                                     *)
LEMMA NothingBeforeCallStep ==
    /\ FlagsOK /\ NothingBeforeTheCall /\ [Next]_vars
    => NothingBeforeTheCall'
<1> SUFFICES ASSUME FlagsOK, NothingBeforeTheCall, [Next]_vars
             PROVE  NothingBeforeTheCall'
  OBVIOUS
<1> USE DEF FlagsOK, NothingBeforeTheCall, Stored, callerVars
<1>1. CASE Execute
  BY <1>1 DEF Execute
<1>2. CASE StreamOpens
  BY <1>2 DEF StreamOpens
<1>3. CASE Inserted
  BY <1>3 DEF Inserted, Changed
<1>4. CASE ChangeSeen
  BY <1>4 DEF ChangeSeen, DoCheckReply
<1>5. CASE TimerFires
  BY <1>5 DEF TimerFires, DoCheckReply
<1>6. CASE CheckReads
  BY <1>6 DEF CheckReads, Found
<1>7. CASE CheckEnds
  BY <1>7 DEF CheckEnds, Settle, TooLate, Finally
<1>8. CASE CleanupRemoves
  BY <1>8 DEF CleanupRemoves
<1>9. CASE RemoveOldCommands
  BY <1>9 DEF RemoveOldCommands, Lingering
<1>10. CASE TimePasses
  BY <1>10 DEF TimePasses
<1>11. CASE InsertFails
  BY <1>11 DEF InsertFails
<1>12. CASE ReadFails
  BY <1>12 DEF ReadFails, Finally
<1>13. CASE StreamFails
  BY <1>13 DEF StreamFails
<1>14. CASE CallerDies
  BY <1>14 DEF CallerDies
<1>15. CASE ExecuteFunction
  BY <1>15 DEF ExecuteFunction
<1>16. CASE FunctionReply
  BY <1>16 DEF FunctionReply, Changed
<1>17. CASE GatewayRestarts
  BY <1>17 DEF GatewayRestarts
<1>18. CASE RemovePeripheralDevice
  BY <1>18 DEF RemovePeripheralDevice
<1>19. CASE UNCHANGED vars
  BY <1>19 DEF vars
<1> QED
  BY <1>1, <1>2, <1>3, <1>4, <1>5, <1>6, <1>7, <1>8, <1>9, <1>10, <1>11,
     <1>12, <1>13, <1>14, <1>15, <1>16, <1>17, <1>18, <1>19
     DEF Next, CallerStep

(* What a caller with a short timeout has done in time stays done.           *)
LEMMA ShortIsOverStep ==
    /\ FlagsOK /\ NothingBeforeTheCall /\ ShortIsOver
    /\ SomethingWillAnswer /\ [Next]_vars
    => ShortIsOver'
<1> SUFFICES ASSUME FlagsOK, NothingBeforeTheCall, ShortIsOver,
                    SomethingWillAnswer, [Next]_vars
             PROVE  ShortIsOver'
  OBVIOUS
<1> USE DEF FlagsOK, NothingBeforeTheCall, ShortIsOver, callerVars
<1>1. CASE Execute
  BY <1>1 DEF Execute
<1>2. CASE StreamOpens
  BY <1>2 DEF StreamOpens
<1>3. CASE Inserted
  BY <1>3 DEF Inserted, Changed
<1>4. CASE ChangeSeen
  BY <1>4 DEF ChangeSeen, DoCheckReply
<1>5. CASE TimerFires
  BY <1>5 DEF TimerFires, DoCheckReply
<1>6. CASE CheckReads
  BY <1>6 DEF CheckReads, Found
<1>7. CASE CheckEnds
  BY <1>7 DEF CheckEnds, Settle, TooLate, Finally
<1>8. CASE CleanupRemoves
  BY <1>8 DEF CleanupRemoves
<1>9. CASE RemoveOldCommands
  BY <1>9 DEF RemoveOldCommands, Lingering
<1>10. CASE TimePasses
  BY <1>10 DEF TimePasses, DoneByThen, SomethingWillAnswer
<1>11. CASE InsertFails
  BY <1>11 DEF InsertFails
<1>12. CASE ReadFails
  BY <1>12 DEF ReadFails, Finally
<1>13. CASE StreamFails
  BY <1>13 DEF StreamFails
<1>14. CASE CallerDies
  BY <1>14 DEF CallerDies
<1>15. CASE ExecuteFunction
  BY <1>15 DEF ExecuteFunction
<1>16. CASE FunctionReply
  BY <1>16 DEF FunctionReply, Changed
<1>17. CASE GatewayRestarts
  BY <1>17 DEF GatewayRestarts
<1>18. CASE RemovePeripheralDevice
  BY <1>18 DEF RemovePeripheralDevice
<1>19. CASE UNCHANGED vars
  BY <1>19 DEF vars
<1> QED
  BY <1>1, <1>2, <1>3, <1>4, <1>5, <1>6, <1>7, <1>8, <1>9, <1>10, <1>11,
     <1>12, <1>13, <1>14, <1>15, <1>16, <1>17, <1>18, <1>19
     DEF Next, CallerStep

(* What a waiting caller has is not taken from it.                           *)
LEMMA WaitingHoldsStep ==
    /\ FlagsOK /\ NothingBeforeTheCall /\ ShortIsOver /\ WaitingHolds
    /\ [Next]_vars
    => WaitingHolds'
<1> SUFFICES ASSUME FlagsOK, NothingBeforeTheCall, ShortIsOver, WaitingHolds,
                    [Next]_vars
             PROVE  WaitingHolds'
  OBVIOUS
<1> USE DEF FlagsOK, NothingBeforeTheCall, ShortIsOver, WaitingHolds, Stored,
            callerVars
<1>1. CASE Execute
  BY <1>1 DEF Execute
<1>2. CASE StreamOpens
  BY <1>2 DEF StreamOpens
<1>3. CASE Inserted
  BY <1>3 DEF Inserted, Changed
<1>4. CASE ChangeSeen
  BY <1>4 DEF ChangeSeen, DoCheckReply
<1>5. CASE TimerFires
  BY <1>5 DEF TimerFires, DoCheckReply
<1>6. CASE CheckReads
  BY <1>6 DEF CheckReads, Found
<1>7. CASE CheckEnds
  BY <1>7 DEF CheckEnds, Settle, TooLate, Finally
<1>8. CASE CleanupRemoves
  BY <1>8 DEF CleanupRemoves
<1>9. CASE RemoveOldCommands
  BY <1>9 DEF RemoveOldCommands, Lingering
<1>10. CASE TimePasses
  BY <1>10 DEF TimePasses
<1>11. CASE InsertFails
  BY <1>11 DEF InsertFails
<1>12. CASE ReadFails
  BY <1>12 DEF ReadFails, Finally
<1>13. CASE StreamFails
  BY <1>13 DEF StreamFails
<1>14. CASE CallerDies
  BY <1>14 DEF CallerDies
<1>15. CASE ExecuteFunction
  BY <1>15 DEF ExecuteFunction
<1>16. CASE FunctionReply
  BY <1>16 DEF FunctionReply, Changed
<1>17. CASE GatewayRestarts
  BY <1>17 DEF GatewayRestarts
<1>18. CASE RemovePeripheralDevice
  BY <1>18 DEF RemovePeripheralDevice
<1>19. CASE UNCHANGED vars
  BY <1>19 DEF vars
<1> QED
  BY <1>1, <1>2, <1>3, <1>4, <1>5, <1>6, <1>7, <1>8, <1>9, <1>10, <1>11,
     <1>12, <1>13, <1>14, <1>15, <1>16, <1>17, <1>18, <1>19
     DEF Next, CallerStep

(* A check that missed the insertion is followed by another one.             *)
LEMMA NotTheLastCheckStep ==
    /\ FlagsOK /\ DataOK /\ TimerIsNotEarly /\ StreamIsOpenByThen
    /\ WaitingHolds /\ NotTheLastCheck /\ [Next]_vars
    => NotTheLastCheck'
<1> SUFFICES ASSUME FlagsOK, DataOK, TimerIsNotEarly, StreamIsOpenByThen,
                    WaitingHolds, NotTheLastCheck, [Next]_vars
             PROVE  NotTheLastCheck'
  OBVIOUS
<1> USE DEF FlagsOK, DataOK, TimerIsNotEarly, StreamIsOpenByThen,
            WaitingHolds, NotTheLastCheck, Stored,             Outcomes,
            callerVars
<1>1. CASE Execute
  BY <1>1 DEF Execute
<1>2. CASE StreamOpens
  BY <1>2 DEF StreamOpens
<1>3. CASE Inserted
  BY <1>3 DEF Inserted, Changed
<1>4. CASE ChangeSeen
  BY <1>4 DEF ChangeSeen, DoCheckReply
<1>5. CASE TimerFires
  BY <1>5 DEF TimerFires, DoCheckReply
<1>6. CASE CheckReads
  BY <1>6 DEF CheckReads, Found
<1>7. CASE CheckEnds
  BY <1>7 DEF CheckEnds, Settle, TooLate, Finally
<1>8. CASE CleanupRemoves
  BY <1>8 DEF CleanupRemoves
<1>9. CASE RemoveOldCommands
  BY <1>9 DEF RemoveOldCommands, Lingering
<1>10. CASE TimePasses
  BY <1>10 DEF TimePasses
<1>11. CASE InsertFails
  BY <1>11 DEF InsertFails
<1>12. CASE ReadFails
  BY <1>12 DEF ReadFails, Finally
<1>13. CASE StreamFails
  BY <1>13 DEF StreamFails
<1>14. CASE CallerDies
  BY <1>14 DEF CallerDies
<1>15. CASE ExecuteFunction
  BY <1>15 DEF ExecuteFunction
<1>16. CASE FunctionReply
  BY <1>16 DEF FunctionReply, Changed
<1>17. CASE GatewayRestarts
  BY <1>17 DEF GatewayRestarts
<1>18. CASE RemovePeripheralDevice
  BY <1>18 DEF RemovePeripheralDevice
<1>19. CASE UNCHANGED vars
  BY <1>19 DEF vars
<1> QED
  BY <1>1, <1>2, <1>3, <1>4, <1>5, <1>6, <1>7, <1>8, <1>9, <1>10, <1>11,
     <1>12, <1>13, <1>14, <1>15, <1>16, <1>17, <1>18, <1>19
     DEF Next, CallerStep

(* What is to end the waiting does so, or leaves it to something else.       *)
LEMMA SomethingWillAnswerStep ==
    /\ FlagsOK /\ DataOK /\ TimerIsNotEarly /\ StreamIsOpenByThen
    /\ WaitingHolds /\ NotTheLastCheck /\ SomethingWillAnswer
    /\ [Next]_vars
    => SomethingWillAnswer'
<1> SUFFICES ASSUME FlagsOK, DataOK, TimerIsNotEarly, StreamIsOpenByThen,
                    WaitingHolds, NotTheLastCheck, SomethingWillAnswer,
                    [Next]_vars
             PROVE  SomethingWillAnswer'
  OBVIOUS
<1> USE DEF FlagsOK, DataOK, TimerIsNotEarly, StreamIsOpenByThen,
            WaitingHolds, NotTheLastCheck, Stored,             Outcomes,
            callerVars, SomethingWillAnswer
<1>1. CASE Execute
  BY <1>1 DEF Execute
<1>2. CASE StreamOpens
  BY <1>2 DEF StreamOpens
<1>3. CASE Inserted
  BY <1>3 DEF Inserted, Changed
<1>4. CASE ChangeSeen
  BY <1>4 DEF ChangeSeen, DoCheckReply
<1>5. CASE TimerFires
  BY <1>5 DEF TimerFires, DoCheckReply
<1>6. CASE CheckReads
  BY <1>6 DEF CheckReads, Found
<1>7. CASE CheckEnds
  <2>1. check' = IF pending THEN "reading" ELSE "none"
    BY <1>7 DEF CheckEnds, Finally
  <2>2. CASE caller' # "waiting"
    BY <2>2
  <2>3. CASE caller' = "waiting" /\ pending
    BY <2>1, <2>3
  <2>4. CASE caller' = "waiting" /\ ~pending
    <3>1. /\ check = "nothing" \/ (check = "sent" /\ ~expired)
          /\ UNCHANGED <<caller, timer, unseen, document, spoiled>>
      BY <1>7, <2>4 DEF CheckEnds, Settle, TooLate
    <3>2. QED
      BY <2>4, <3>1
  <2>5. QED
    BY <2>2, <2>3, <2>4
<1>8. CASE CleanupRemoves
  BY <1>8 DEF CleanupRemoves
<1>9. CASE RemoveOldCommands
  BY <1>9 DEF RemoveOldCommands, Lingering
<1>10. CASE TimePasses
  BY <1>10 DEF TimePasses
<1>11. CASE InsertFails
  BY <1>11 DEF InsertFails
<1>12. CASE ReadFails
  BY <1>12 DEF ReadFails, Finally
<1>13. CASE StreamFails
  BY <1>13 DEF StreamFails
<1>14. CASE CallerDies
  BY <1>14 DEF CallerDies
<1>15. CASE ExecuteFunction
  BY <1>15 DEF ExecuteFunction
<1>16. CASE FunctionReply
  BY <1>16 DEF FunctionReply, Changed
<1>17. CASE GatewayRestarts
  BY <1>17 DEF GatewayRestarts
<1>18. CASE RemovePeripheralDevice
  BY <1>18 DEF RemovePeripheralDevice
<1>19. CASE UNCHANGED vars
  BY <1>19 DEF vars
<1> QED
  BY <1>1, <1>2, <1>3, <1>4, <1>5, <1>6, <1>7, <1>8, <1>9, <1>10, <1>11,
     <1>12, <1>13, <1>14, <1>15, <1>16, <1>17, <1>18, <1>19
     DEF Next, CallerStep

(* The same for a reply in the server.                                       *)
LEMMA ReplyStep ==
    /\ FlagsOK /\ DataOK /\ WaitingHolds /\ ReplyIsNotLeftToTheTimer
    /\ [Next]_vars
    => ReplyIsNotLeftToTheTimer'
<1> SUFFICES ASSUME FlagsOK, DataOK, WaitingHolds, ReplyIsNotLeftToTheTimer,
                    [Next]_vars
             PROVE  ReplyIsNotLeftToTheTimer'
  OBVIOUS
<1> USE DEF FlagsOK, DataOK, WaitingHolds, Stored, Outcomes, callerVars,
            ReplyIsNotLeftToTheTimer
<1>1. CASE Execute
  BY <1>1 DEF Execute
<1>2. CASE StreamOpens
  BY <1>2 DEF StreamOpens
<1>3. CASE Inserted
  BY <1>3 DEF Inserted, Changed
<1>4. CASE ChangeSeen
  BY <1>4 DEF ChangeSeen, DoCheckReply
<1>5. CASE TimerFires
  BY <1>5 DEF TimerFires, DoCheckReply
<1>6. CASE CheckReads
  BY <1>6 DEF CheckReads, Found
<1>7. CASE CheckEnds
  <2>1. check' = IF pending THEN "reading" ELSE "none"
    BY <1>7 DEF CheckEnds, Finally
  <2>2. CASE caller' # "waiting"
    BY <2>2
  <2>3. CASE caller' = "waiting" /\ pending
    BY <2>1, <2>3
  <2>4. CASE caller' = "waiting" /\ ~pending
    <3>1. /\ check # "replied" /\ check # "reading"
          /\ UNCHANGED <<kind, caller, unseen, document, spoiled>>
      BY <1>7, <2>4 DEF CheckEnds, Settle, TooLate
    <3>2. QED
      BY <2>4, <3>1
  <2>5. QED
    BY <2>2, <2>3, <2>4
<1>8. CASE CleanupRemoves
  BY <1>8 DEF CleanupRemoves
<1>9. CASE RemoveOldCommands
  BY <1>9 DEF RemoveOldCommands, Lingering
<1>10. CASE TimePasses
  BY <1>10 DEF TimePasses
<1>11. CASE InsertFails
  BY <1>11 DEF InsertFails
<1>12. CASE ReadFails
  BY <1>12 DEF ReadFails, Finally
<1>13. CASE StreamFails
  BY <1>13 DEF StreamFails
<1>14. CASE CallerDies
  BY <1>14 DEF CallerDies
<1>15. CASE ExecuteFunction
  BY <1>15 DEF ExecuteFunction
<1>16. CASE FunctionReply
  <2>1. UNCHANGED <<kind, caller, watch, check, pending, spoiled>>
    BY <1>16 DEF FunctionReply
  <2>2. CASE UNCHANGED <<document, unseen>>
    BY <2>1, <2>2
  <2>3. CASE Changed
    <3>1. CASE watch = "on"
      BY <2>3, <3>1 DEF Changed
    <3>2. CASE watch # "on"
      BY <2>1, <3>2
    <3>3. QED
      BY <3>1, <3>2
  <2>4. QED
    BY <1>16, <2>2, <2>3 DEF FunctionReply
<1>17. CASE GatewayRestarts
  BY <1>17 DEF GatewayRestarts
<1>18. CASE RemovePeripheralDevice
  BY <1>18 DEF RemovePeripheralDevice
<1>19. CASE UNCHANGED vars
  BY <1>19 DEF vars
<1> QED
  BY <1>1, <1>2, <1>3, <1>4, <1>5, <1>6, <1>7, <1>8, <1>9, <1>10, <1>11,
     <1>12, <1>13, <1>14, <1>15, <1>16, <1>17, <1>18, <1>19
     DEF Next, CallerStep

LEMMA Invariance == Spec => []IInv
<1>1. IInv /\ [Next]_vars => IInv'
  BY FlagsStep, DataStep, TimerIsNotEarlyStep, StreamIsOpenByThenStep,
     NothingBeforeCallStep, ShortIsOverStep, WaitingHoldsStep,
     NotTheLastCheckStep, SomethingWillAnswerStep, ReplyStep DEF IInv
<1>2. QED
  BY InitIInv, <1>1, PTL DEF Spec

-----------------------------------------------------------------------------
(* The type invariant of the command.                                        *)
THEOREM CommandTypeCorrect == Spec => []TypeOK
<1>1. IInv => TypeOK
  BY DEF IInv, FlagsOK, DataOK, TypeOK
<1>2. QED
  BY Invariance, <1>1, PTL

(* While the caller waits, something that ends the waiting is to come,       *)
(* unless a read failed or its document was taken away: checkReply and its   *)
(* flags lose neither a change nor the timeout.                              *)
THEOREM NobodyWaitsForNothing == Spec => []SomethingWillAnswer
<1>1. IInv => SomethingWillAnswer
  BY DEF IInv
<1>2. QED
  BY Invariance, <1>1, PTL

(* In the server, a reply that has arrived is going to be read because of    *)
(* itself, not only when the timer fires.                                    *)
THEOREM RepliesAreSeen == Spec => []ReplyIsNotLeftToTheTimer
<1>1. IInv => ReplyIsNotLeftToTheTimer
  BY DEF IInv
<1>2. QED
  BY Invariance, <1>1, PTL
=============================================================================
