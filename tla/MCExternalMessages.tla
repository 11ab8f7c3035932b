------------------------- MODULE MCExternalMessages -------------------------
(* One message with changes and failures; or two without, after the first   *)
(* try of another has failed, so that the next batch is of one message only. *)
EXTENDS ExternalMessages, TLC

CONSTANTS m1, m2, m3

MCMessage == {m1, m2, m3}
MCMaxSends == m1 :> 2 @@ m2 :> 1 @@ m3 :> 1

OneMessage == /\ Idle
              /\ queue = [m \in Message |-> IF m = m1 THEN None ELSE Gone]
              /\ send = [m \in Message |-> [k \in Attempt(m) |-> NoSend]]
              /\ lastRunHadError = FALSE
              /\ timer = TRUE
              /\ edits = 0 /\ faults = 0

\* A state that Init leads to: m1 was tried, and removed.
AfterFailure == /\ Idle
                /\ queue = [m \in Message |-> IF m = m1 THEN Gone ELSE None]
                /\ send = [m \in Message |-> [k \in Attempt(m) |->
                     IF m = m1 /\ k = 1 THEN [stage |-> "over", late |-> "no"] ELSE NoSend]]
                /\ lastRunHadError = TRUE
                /\ timer = FALSE
                /\ edits = MaxEdits /\ faults = MaxFaults

MCInit == OneMessage \/ AfterFailure
MCSpec == MCInit /\ [][Next]_vars /\ Fairness

\* For a single message.
MCTwoSends == m1 :> 2
=============================================================================
