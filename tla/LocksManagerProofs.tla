------------------------- MODULE LocksManagerProofs -------------------------
(* Proofs about LocksManager, for every set of threads, resources and locks. *)
EXTENDS LocksManager, WellFoundedInduction, TLAPS

-----------------------------------------------------------------------------
(* The parent's queues *)

(* A non-empty set of places has a first one. *)
LEMMA NatMin ==
    ASSUME NEW T \in SUBSET Nat, T # {}
    PROVE  \E x \in T : \A y \in T : x <= y
<1> DEFINE Less == {ss \in Nat \X Nat : ss[1] < ss[2]}
<1>1. IsWellFoundedOn(Less, Nat)
  BY NatLessThanWellFounded DEF OpToRel
<1> HIDE DEF Less
<1>2. \E x \in T : \A y \in T : ~(<<y, x>> \in Less)
  BY <1>1, WFMin
<1>3. \A x, y \in Nat : ~(<<y, x>> \in Less) => x <= y
  BY DEF Less
<1>4. QED
  BY <1>2, <1>3

(* The head of a non-empty queue is one of the requests in it. *)
LEMMA OldestIsQueued ==
    ASSUME NEW queue \in SUBSET LockId, queue # {}, NEW at \in [LockId -> Nat]
    PROVE  Oldest(queue, at) \in queue
<1> DEFINE places == {at[l] : l \in queue}
<1>1. places \in SUBSET Nat /\ places # {}
  OBVIOUS
<1>2. \E x \in places : \A y \in places : x <= y
  BY <1>1, NatMin
<1>3. \E l \in queue : \A k \in queue : at[l] <= at[k]
  BY <1>2
<1>4. QED
  BY <1>3 DEF Oldest

\* The effect of lockNextWorker on holders h, queues q and messages changes.
Serves(R, h, q, changes) ==
    /\ holder' \in [Resource -> LockId \cup {NoLock}]
    /\ waitingWorkers' \in [Resource -> SUBSET LockId]
    /\ lockChanges' \in SUBSET Change
    /\ \A r \in Resource :
         \/ /\ r \in R /\ h[r] = NoLock
            /\ holder'[r] \in q[r]
            /\ waitingWorkers'[r] = q[r] \ {holder'[r]}
            /\ Grant(holder'[r]) \in lockChanges'
         \/ /\ r \in R /\ h[r] = NoLock => q[r] = {}
            /\ holder'[r] = h[r]
            /\ waitingWorkers'[r] = q[r]
    /\ \A m \in lockChanges' :
         \/ m \in changes
         \/ \E r \in R : /\ h[r] = NoLock
                         /\ holder'[r] \in q[r]
                         /\ m = Grant(holder'[r])
    /\ changes \subseteq lockChanges'

(* What lockNextWorker does to the resources it is called for: the new holder
   of a resource that is served comes from its queue and is told so, and
   nothing else changes. *)
LEMMA ServeFacts ==
    ASSUME NEW R \in SUBSET Resource, NEW h \in [Resource -> LockId \cup {NoLock}],
           NEW q \in [Resource -> SUBSET LockId], NEW at \in [LockId -> Nat],
           NEW changes \in SUBSET Change,
           LockNextWorker(R, h, q, at, changes)
    PROVE  Serves(R, h, q, changes)
<1> DEFINE served == Served(R, h, q)
<1>1. \A r \in served : /\ r \in R
                        /\ h[r] = NoLock
                        /\ Oldest(q[r], at) \in q[r]
  BY OldestIsQueued DEF Served
<1>2. \A r \in Resource : r \in R /\ h[r] = NoLock /\ q[r] # {} => r \in served
  BY DEF Served
<1> HIDE DEF served
<1>3. /\ holder' = [r \in Resource |->
                        IF r \in served THEN Oldest(q[r], at) ELSE h[r]]
      /\ waitingWorkers' = [r \in Resource |->
                        IF r \in served THEN q[r] \ {Oldest(q[r], at)} ELSE q[r]]
      /\ lockChanges' = changes \cup {Grant(Oldest(q[r], at)) : r \in served}
  BY DEF LockNextWorker, served
<1>4. /\ \A r \in served : holder'[r] = Oldest(q[r], at)
      /\ \A r \in Resource \ served : holder'[r] = h[r]
  BY <1>1, <1>3
<1>5. holder' \in [Resource -> LockId \cup {NoLock}]
  BY <1>1, <1>3
<1>6. waitingWorkers' \in [Resource -> SUBSET LockId]
  BY <1>1, <1>3
<1>7. lockChanges' = changes \cup {Grant(holder'[r]) : r \in served}
  BY <1>3, <1>4
<1>8. \A r \in served : Grant(holder'[r]) \in Change
  BY <1>1, <1>4 DEF Grant, Change
<1>9. \A r \in Resource : r \in served =>
            /\ r \in R /\ h[r] = NoLock
            /\ holder'[r] \in q[r]
            /\ waitingWorkers'[r] = q[r] \ {holder'[r]}
            /\ Grant(holder'[r]) \in lockChanges'
  BY <1>1, <1>3, <1>4, <1>7
<1>10. \A r \in Resource : r \notin served =>
            /\ (r \in R /\ h[r] = NoLock) => q[r] = {}
            /\ holder'[r] = h[r]
            /\ waitingWorkers'[r] = q[r]
  BY <1>2, <1>3
<1>11. \A m \in lockChanges' :
                \/ m \in changes
                \/ \E r \in R : /\ h[r] = NoLock
                                /\ holder'[r] \in q[r]
                                /\ m = Grant(holder'[r])
  BY <1>1, <1>4, <1>7
<1>12. QED
  BY <1>5, <1>6, <1>7, <1>8, <1>9, <1>10, <1>11 DEF Serves

-----------------------------------------------------------------------------
(* The inductive invariant *)

\* What the parent knows of a request is about the resource it asked for.
ParentKnowsRequests ==
    \A r \in Resource :
        /\ holder[r] # NoLock => /\ resourceOf[holder[r]] = r
                                 /\ lockState[holder[r]] # "unused"
        /\ \A l \in waitingWorkers[r] : /\ resourceOf[l] = r
                                         /\ lockState[l] # "unused"

\* Messages are about requests that were made.  Only a request that gave its
\* lock up asks for the unlock, and a grant fails only after its request died.
MessagesOfRequests ==
    /\ \A e \in lockEvents :
          /\ lockState[e.lockId] # "unused"
          /\ e.event = "unlock" => lockState[e.lockId] \in {"releasing", "done"}
    /\ \A m \in lockChanges : lockState[m.lockId] # "unused"
    /\ \A l \in rejected : lockState[l] = "done"

\* A child has live requests, and a running job, only while it is initialised.
LiveChild ==
    /\ \A l \in LockId : lockState[l] \in Alive => child[owner[l]] = "ready"
    /\ \A t \in Thread : job[t] = "running" => child[t] = "ready"

\* A request that owns its resource, or will when its grant arrives, is the
\* holder in the parent, unless the parent took the lock back.
OwnerIsHolder ==
    /\ \A l \in LockId : lockState[l] = "held" /\ l \notin takenBack
                            => holder[resourceOf[l]] = l
    /\ \A m \in lockChanges :
          m.locked /\ lockState[m.lockId] = "aquiring" /\ m.lockId \notin takenBack
              => holder[resourceOf[m.lockId]] = m.lockId

ExclusionInv ==
    /\ TypeOK
    /\ ParentKnowsRequests
    /\ MessagesOfRequests
    /\ LiveChild
    /\ OwnerIsHolder
    /\ NoWaiterOfAFreeResource

\* The part of the invariant that lockNextWorker is concerned with, of the
\* holders, queues and messages that a call starts from, and after the call.
OwnershipBefore(R, h, q, changes) ==
    /\ \A r \in Resource :
          /\ h[r] # NoLock => /\ resourceOf[h[r]] = r
                             /\ lockState[h[r]] # "unused"
          /\ \A l \in q[r] : /\ resourceOf[l] = r
                             /\ lockState[l] # "unused"
          /\ r \notin R /\ h[r] = NoLock => q[r] = {}
    /\ \A l \in LockId : lockState[l] = "held" /\ l \notin takenBack'
                            => h[resourceOf[l]] = l
    /\ \A m \in changes :
          /\ lockState[m.lockId] # "unused"
          /\ m.locked /\ lockState[m.lockId] = "aquiring" /\ m.lockId \notin takenBack'
                => h[resourceOf[m.lockId]] = m.lockId

OwnershipAfter ==
    /\ ParentKnowsRequests'
    /\ OwnerIsHolder'
    /\ \A m \in lockChanges' : lockState'[m.lockId] # "unused"
    /\ NoWaiterOfAFreeResource'
    /\ holder' \in [Resource -> LockId \cup {NoLock}]
    /\ waitingWorkers' \in [Resource -> SUBSET LockId]
    /\ lockChanges' \in SUBSET Change

(* lockNextWorker keeps that part of the invariant. *)
LEMMA ServeKeepsOwnership ==
    ASSUME TypeOK, lockState' = lockState, resourceOf' = resourceOf,
           NEW R \in SUBSET Resource, NEW h \in [Resource -> LockId \cup {NoLock}],
           NEW q \in [Resource -> SUBSET LockId], NEW at \in [LockId -> Nat],
           NEW changes \in SUBSET Change,
           LockNextWorker(R, h, q, at, changes),
           OwnershipBefore(R, h, q, changes)
    PROVE  OwnershipAfter
<1> USE DEF OwnershipBefore
<1>1. Serves(R, h, q, changes)
  BY ServeFacts
<1>2. \A r \in Resource : h[r] # NoLock => holder'[r] = h[r]
  BY <1>1 DEF Serves
<1>3. \A l \in LockId : l # NoLock
  BY LocksAssumption
<1>4. ParentKnowsRequests'
  BY <1>1, <1>2 DEF Serves, ParentKnowsRequests
<1>5. \A m \in lockChanges' : lockState'[m.lockId] # "unused"
  BY <1>1 DEF Serves, Grant
<1>6. \A m \in lockChanges' :
          m.locked /\ lockState[m.lockId] = "aquiring" /\ m.lockId \notin takenBack'
              => holder'[resourceOf[m.lockId]] = m.lockId
  <2> SUFFICES ASSUME NEW m \in lockChanges', m.locked,
                      lockState[m.lockId] = "aquiring", m.lockId \notin takenBack'
               PROVE  holder'[resourceOf[m.lockId]] = m.lockId
    OBVIOUS
  <2>1. CASE m \in changes
    BY <2>1, <1>2, <1>3 DEF TypeOK, Change
  <2>2. CASE \E r \in R : /\ h[r] = NoLock
                          /\ holder'[r] \in q[r]
                          /\ m = Grant(holder'[r])
    BY <2>2 DEF Grant
  <2>3. QED
    BY <2>1, <2>2, <1>1 DEF Serves
<1>7. \A l \in LockId : lockState[l] = "held" /\ l \notin takenBack'
            => holder'[resourceOf[l]] = l
  BY <1>2, <1>3 DEF TypeOK
<1>8. OwnerIsHolder'
  BY <1>6, <1>7 DEF OwnerIsHolder
<1>9. NoWaiterOfAFreeResource'
  BY <1>1, <1>3 DEF Serves, NoWaiterOfAFreeResource
<1>10. QED
  BY <1>1, <1>4, <1>5, <1>8, <1>9 DEF Serves, OwnershipAfter

-----------------------------------------------------------------------------
(* The invariant is preserved *)

LEMMA ExclusionInit == Init => ExclusionInv
<1> SUFFICES ASSUME Init PROVE ExclusionInv
  OBVIOUS
<1>1. TypeOK
  BY LocksAssumption DEF Init, TypeOK, Alive
<1>2. QED
  BY <1>1 DEF Init, ExclusionInv, ParentKnowsRequests, MessagesOfRequests, LiveChild,
              OwnerIsHolder, NoWaiterOfAFreeResource, Alive

(* The handlers of lock events and of failed grants. *)
LEMMA ExclusionHandleLock ==
    ASSUME ExclusionInv, NEW l \in LockId, HandleLock(l)
    PROVE  ExclusionInv'
<1> DEFINE r == resourceOf[l]
           q == [waitingWorkers EXCEPT ![r] = @ \cup {l}]
           at == [queuedAt EXCEPT ![l] = NextTicket]
<1> USE DEF ExclusionInv
<1>1. /\ r \in Resource
      /\ q \in [Resource -> SUBSET LockId]
      /\ at \in [LockId -> Nat]
      /\ NextTicket \in Nat
  BY DEF TypeOK, NextTicket
<1>2. /\ [event |-> "lock", lockId |-> l] \in lockEvents
      /\ lockEvents' \subseteq lockEvents
      /\ queuedAt' = at
      /\ lastTicket' = NextTicket
      /\ LockNextWorker({r}, holder, q, at, lockChanges)
      /\ UNCHANGED <<rejected, lockState, requestVars, threadVars, takenBack>>
  BY DEF HandleLock
<1>3. UNCHANGED <<lockState, resourceOf, takenBack>>
  BY <1>2 DEF requestVars
<1>4. OwnershipBefore({r}, holder, q, lockChanges)
  BY <1>1, <1>2, <1>3 DEF OwnershipBefore, TypeOK, ParentKnowsRequests, MessagesOfRequests,
                          OwnerIsHolder, NoWaiterOfAFreeResource
<1> HIDE DEF q, at
<1>5. OwnershipAfter
  BY <1>1, <1>2, <1>3, <1>4, ServeKeepsOwnership DEF TypeOK
<1>6. TypeOK'
  BY <1>1, <1>2, <1>5 DEF TypeOK, requestVars, threadVars, OwnershipAfter
<1>7. MessagesOfRequests' /\ LiveChild'
  BY <1>2, <1>5 DEF MessagesOfRequests, LiveChild, requestVars, threadVars, OwnershipAfter
<1>8. QED
  BY <1>5, <1>6, <1>7 DEF OwnershipAfter

LEMMA ExclusionHandleUnlock ==
    ASSUME ExclusionInv, NEW l \in LockId, HandleUnlock(l)
    PROVE  ExclusionInv'
<1> DEFINE r == resourceOf[l]
           h == IF holder[r] = l THEN [holder EXCEPT ![r] = NoLock] ELSE holder
           changes == lockChanges \cup (IF holder[r] = l THEN {Unlocked(l)} ELSE {})
<1> USE DEF ExclusionInv
<1>1. /\ r \in Resource
      /\ h \in [Resource -> LockId \cup {NoLock}]
      /\ changes \in SUBSET Change
  <2>1. Unlocked(l) \in Change
    BY DEF Unlocked, Change
  <2>2. changes \in SUBSET Change
    BY <2>1 DEF TypeOK
  <2>3. QED
    BY <2>2 DEF TypeOK
<1>2. /\ [event |-> "unlock", lockId |-> l] \in lockEvents
      /\ lockEvents' \subseteq lockEvents
      /\ LockNextWorker({r}, h, waitingWorkers, queuedAt, changes)
      /\ UNCHANGED <<queuedAt, lastTicket, rejected, lockState, requestVars,
                     threadVars, takenBack>>
  BY DEF HandleUnlock
<1>3. UNCHANGED <<lockState, resourceOf, takenBack>>
  BY <1>2 DEF requestVars
<1>4. lockState[l] \in {"releasing", "done"}
  BY <1>2 DEF MessagesOfRequests
<1>5. OwnershipBefore({r}, h, waitingWorkers, changes)
  <2>1. \A x \in Resource : h[x] # NoLock => h[x] = holder[x]
    BY DEF TypeOK
  <2>2. \A k \in LockId : k # l /\ holder[resourceOf[k]] = k => h[resourceOf[k]] = k
    BY LocksAssumption DEF TypeOK
  <2>3. \A x \in Resource : x # r => h[x] = holder[x]
    BY DEF TypeOK
  <2>4. \A m \in changes : m \in lockChanges \/ (m.lockId = l /\ ~m.locked)
    BY DEF Unlocked
  <2>5. \A m \in lockChanges : m.lockId \in LockId
    BY DEF TypeOK, Change
  <2> HIDE DEF h, changes
  <2>6. \A x \in Resource :
            /\ h[x] # NoLock => /\ resourceOf[h[x]] = x
                               /\ lockState[h[x]] # "unused"
            /\ \A k \in waitingWorkers[x] : /\ resourceOf[k] = x
                                            /\ lockState[k] # "unused"
            /\ x \notin {r} /\ h[x] = NoLock => waitingWorkers[x] = {}
    BY <2>1, <2>3 DEF ParentKnowsRequests, NoWaiterOfAFreeResource
  <2>7. \A k \in LockId : lockState[k] = "held" /\ k \notin takenBack'
                            => h[resourceOf[k]] = k
    BY <1>3, <1>4, <2>2 DEF OwnerIsHolder
  <2>8. \A m \in changes :
            /\ lockState[m.lockId] # "unused"
            /\ m.locked /\ lockState[m.lockId] = "aquiring" /\ m.lockId \notin takenBack'
                  => h[resourceOf[m.lockId]] = m.lockId
    BY <1>3, <1>4, <2>2, <2>4, <2>5 DEF OwnerIsHolder, MessagesOfRequests
  <2>9. QED
    BY <2>6, <2>7, <2>8 DEF OwnershipBefore
<1> HIDE DEF h, changes
<1>6. OwnershipAfter
  BY <1>1, <1>2, <1>3, <1>5, ServeKeepsOwnership DEF TypeOK
<1>7. TypeOK'
  BY <1>1, <1>2, <1>6 DEF TypeOK, requestVars, threadVars, OwnershipAfter
<1>8. MessagesOfRequests' /\ LiveChild'
  BY <1>2, <1>6 DEF MessagesOfRequests, LiveChild, requestVars, threadVars, OwnershipAfter
<1>9. QED
  BY <1>6, <1>7, <1>8 DEF OwnershipAfter

LEMMA ExclusionGrantRejected ==
    ASSUME ExclusionInv, NEW l \in LockId, GrantRejected(l)
    PROVE  ExclusionInv'
<1> DEFINE r == resourceOf[l]
           h == [holder EXCEPT ![r] = NoLock]
<1> USE DEF ExclusionInv
<1>1. /\ l \in rejected
      /\ rejected' \subseteq rejected
      /\ UNCHANGED <<queuedAt, lastTicket, lockEvents, lockState, requestVars,
                     threadVars, takenBack>>
  BY DEF GrantRejected
<1>2. lockState[l] = "done"
  BY <1>1 DEF MessagesOfRequests
<1>3. CASE holder[r] # l
  <2>1. UNCHANGED <<holder, waitingWorkers, lockChanges>>
    BY <1>3 DEF GrantRejected
  <2>2. QED
    BY <1>1, <2>1 DEF TypeOK, requestVars, threadVars, ParentKnowsRequests,
       MessagesOfRequests, LiveChild, OwnerIsHolder, NoWaiterOfAFreeResource
<1>4. CASE holder[r] = l
  <2>1. LockNextWorker({r}, h, waitingWorkers, queuedAt, lockChanges)
    BY <1>4 DEF GrantRejected
  <2>2. /\ r \in Resource
        /\ h \in [Resource -> LockId \cup {NoLock}]
        /\ UNCHANGED <<lockState, resourceOf, takenBack>>
    BY <1>1 DEF TypeOK, requestVars
  <2>3. OwnershipBefore({r}, h, waitingWorkers, lockChanges)
    BY <1>2, <1>4, <2>2, LocksAssumption
       DEF OwnershipBefore, TypeOK, ParentKnowsRequests, MessagesOfRequests,
           OwnerIsHolder, NoWaiterOfAFreeResource, Change
  <2> HIDE DEF h
  <2>4. OwnershipAfter
    BY <2>1, <2>2, <2>3, ServeKeepsOwnership DEF TypeOK
  <2>5. TypeOK'
    BY <1>1, <2>4 DEF TypeOK, requestVars, threadVars, OwnershipAfter
  <2>6. MessagesOfRequests' /\ LiveChild'
    BY <1>1, <2>4 DEF MessagesOfRequests, LiveChild, requestVars, threadVars,
                      OwnershipAfter
  <2>7. QED
    BY <2>4, <2>5, <2>6 DEF OwnershipAfter
<1>5. QED
  BY <1>3, <1>4

(* Taking all locks of a thread back, at the end of its job or at shutdown. *)
LEMMA ExclusionReleaseAll ==
    ASSUME ExclusionInv, NEW t \in Thread, ReleaseAllForThread(t),
           UNCHANGED <<lockState, requestVars>>
    PROVE  /\ OwnershipAfter
           /\ takenBack' \in SUBSET LockId
           /\ queuedAt' = queuedAt /\ lastTicket' = lastTicket
<1> DEFINE R == HeldBy(t)
           h == [r \in Resource |-> IF r \in R THEN NoLock ELSE holder[r]]
           q == QueuesWithout(t)
<1> USE DEF ExclusionInv
<1>1. /\ R \in SUBSET Resource
      /\ h \in [Resource -> LockId \cup {NoLock}]
      /\ q \in [Resource -> SUBSET LockId]
      /\ \A r \in Resource : q[r] \subseteq waitingWorkers[r]
      /\ \A r \in R : holder[r] \in LockId
  BY DEF TypeOK, HeldBy, QueuesWithout
<1>2. /\ LockNextWorker(R, h, q, queuedAt, lockChanges)
      /\ takenBack' = takenBack \cup {holder[r] : r \in R}
      /\ queuedAt' = queuedAt /\ lastTicket' = lastTicket
  BY DEF ReleaseAllForThread
<1>3. takenBack' \in SUBSET LockId
  BY <1>1, <1>2 DEF TypeOK
<1>4. lockState' = lockState /\ resourceOf' = resourceOf
  BY DEF requestVars
<1> HIDE DEF R, q
<1>5. OwnershipBefore(R, h, q, lockChanges)
  <2>1. \A r \in Resource : r \in R \/ h[r] = holder[r]
    OBVIOUS
  <2>2. \A r \in R : holder[r] \in takenBack'
    BY <1>2
  <2>3. \A l \in LockId : holder[resourceOf[l]] = l /\ l \notin takenBack'
            => h[resourceOf[l]] = l
    BY <2>1, <2>2 DEF TypeOK
  <2>4. takenBack \subseteq takenBack'
    BY <1>2
  <2>5. \A r \in Resource :
            /\ h[r] # NoLock => /\ resourceOf[h[r]] = r
                               /\ lockState[h[r]] # "unused"
            /\ \A l \in q[r] : /\ resourceOf[l] = r
                               /\ lockState[l] # "unused"
            /\ r \notin R /\ h[r] = NoLock => q[r] = {}
    BY <1>1 DEF ParentKnowsRequests, NoWaiterOfAFreeResource
  <2>6. \A l \in LockId : lockState[l] = "held" /\ l \notin takenBack'
                            => h[resourceOf[l]] = l
    BY <2>3, <2>4 DEF OwnerIsHolder
  <2>7. \A m \in lockChanges :
          /\ lockState[m.lockId] # "unused"
          /\ m.locked /\ lockState[m.lockId] = "aquiring" /\ m.lockId \notin takenBack'
                => h[resourceOf[m.lockId]] = m.lockId
    BY <2>3, <2>4 DEF OwnerIsHolder, MessagesOfRequests, TypeOK, Change
  <2>8. QED
    BY <2>5, <2>6, <2>7 DEF OwnershipBefore
<1> HIDE DEF h
<1>6. OwnershipAfter
  BY <1>1, <1>2, <1>4, <1>5, ServeKeepsOwnership DEF TypeOK
<1>7. QED
  BY <1>2, <1>3, <1>6

(* The steps of a child leave the parent's data alone. *)
LEMMA ExclusionAquire ==
    ASSUME ExclusionInv, NEW t \in Thread, NEW r \in Resource, NEW l \in LockId,
           Aquire(t, r, l)
    PROVE  ExclusionInv'
<1> USE DEF ExclusionInv, Aquire, parentVars, threadVars
<1>1. TypeOK'
  BY DEF TypeOK, Alive, Event
<1>2. ParentKnowsRequests' /\ NoWaiterOfAFreeResource'
  BY DEF TypeOK, ParentKnowsRequests, NoWaiterOfAFreeResource
<1>3. MessagesOfRequests'
  BY DEF TypeOK, MessagesOfRequests, Event, Change
<1>4. LiveChild'
  BY DEF TypeOK, LiveChild
<1>5. OwnerIsHolder'
  BY DEF TypeOK, OwnerIsHolder, MessagesOfRequests, Change
<1>6. QED
  BY <1>1, <1>2, <1>3, <1>4, <1>5

LEMMA ExclusionRequestSteps ==
    ASSUME ExclusionInv, NEW l \in LockId,
           AquireTimesOut(l) \/ Release(l) \/ ReleaseTimesOut(l)
    PROVE  ExclusionInv'
<1> USE DEF ExclusionInv, AquireTimesOut, Release, ReleaseTimesOut, parentVars,
            requestVars, threadVars
<1>1. TypeOK'
  BY DEF TypeOK, Alive, Event
<1>2. ParentKnowsRequests' /\ NoWaiterOfAFreeResource'
  BY DEF TypeOK, ParentKnowsRequests, NoWaiterOfAFreeResource
<1>3. MessagesOfRequests'
  BY DEF TypeOK, MessagesOfRequests, Event, Change
<1>4. LiveChild'
  BY DEF TypeOK, LiveChild, Alive
<1>5. OwnerIsHolder'
  BY DEF TypeOK, OwnerIsHolder, Change
<1>6. QED
  BY <1>1, <1>2, <1>3, <1>4, <1>5

LEMMA ExclusionLockChange ==
    ASSUME ExclusionInv, NEW m \in lockChanges, LockChange(m)
    PROVE  ExclusionInv'
<1> USE DEF ExclusionInv
<1>1. /\ m.lockId \in LockId
      /\ lockChanges' = lockChanges \ {m}
      /\ UNCHANGED <<parentVars, lockEvents, rejected, requestVars, threadVars, takenBack>>
      /\ child[owner[m.lockId]] = "ready"
  BY DEF TypeOK, Change, LockChange
<1>2. /\ lockState' \in [LockId -> Alive \cup {"unused", "done"}]
      /\ \A l \in LockId : l # m.lockId => lockState'[l] = lockState[l]
      /\ \/ lockState[m.lockId] = "aquiring" /\ m.locked /\ lockState'[m.lockId] = "held"
         \/ lockState[m.lockId] \in {"aquiring", "releasing"} /\ lockState'[m.lockId] = "done"
         \/ lockState'[m.lockId] = lockState[m.lockId]
  BY <1>1 DEF LockChange, TypeOK, Alive
<1>3. TypeOK'
  BY <1>1, <1>2 DEF TypeOK, parentVars, requestVars, threadVars
<1>4. ParentKnowsRequests' /\ NoWaiterOfAFreeResource'
  BY <1>1, <1>2 DEF TypeOK, ParentKnowsRequests, NoWaiterOfAFreeResource, parentVars,
                    requestVars
<1>5. MessagesOfRequests'
  BY <1>1, <1>2 DEF TypeOK, MessagesOfRequests, Event, Change
<1>6. LiveChild'
  BY <1>1, <1>2 DEF TypeOK, LiveChild, Alive, threadVars, requestVars
<1>7. OwnerIsHolder'
  BY <1>1, <1>2 DEF TypeOK, OwnerIsHolder, Change, parentVars, requestVars
<1>8. QED
  BY <1>3, <1>4, <1>5, <1>6, <1>7

LEMMA ExclusionLockChangeFails ==
    ASSUME ExclusionInv, NEW m \in lockChanges, LockChangeFails(m)
    PROVE  ExclusionInv'
<1> USE DEF ExclusionInv, LockChangeFails, parentVars, requestVars, threadVars
<1>1. m.lockId \in LockId /\ lockState[m.lockId] = "done"
  BY DEF TypeOK, Change, LiveChild, MessagesOfRequests, Alive
<1>2. GrantsAmong({m}) \subseteq {m.lockId}
  BY DEF GrantsAmong, Grant
<1>3. TypeOK'
  BY <1>1, <1>2 DEF TypeOK
<1>4. MessagesOfRequests'
  BY <1>1, <1>2 DEF MessagesOfRequests
<1>5. QED
  BY <1>3, <1>4 DEF ParentKnowsRequests, LiveChild, OwnerIsHolder, NoWaiterOfAFreeResource

LEMMA ExclusionJobSteps ==
    ASSUME ExclusionInv, NEW t \in Thread, RunJob(t) \/ JobReturns(t) \/ InitWorker(t)
    PROVE  ExclusionInv'
<1> USE DEF ExclusionInv, RunJob, JobReturns, InitWorker, parentVars, requestVars
<1>1. TypeOK'
  BY DEF TypeOK
<1>2. LiveChild'
  BY DEF TypeOK, LiveChild
<1>3. QED
  BY <1>1, <1>2 DEF ParentKnowsRequests, MessagesOfRequests, OwnerIsHolder,
                    NoWaiterOfAFreeResource

(* The steps that take a thread's locks back. *)
LEMMA ExclusionJobEnds ==
    ASSUME ExclusionInv, NEW t \in Thread, JobFinished(t) \/ Terminate(t)
    PROVE  ExclusionInv'
<1> USE DEF ExclusionInv
<1>1. /\ ReleaseAllForThread(t)
      /\ UNCHANGED <<lockEvents, rejected, lockState, requestVars, child>>
      /\ terminating' \in SUBSET Thread
      /\ job' = job \/ job' = [job EXCEPT ![t] = "idle"]
  BY DEF JobFinished, Terminate, TypeOK
<1>2. /\ OwnershipAfter
      /\ takenBack' \in SUBSET LockId
      /\ queuedAt' = queuedAt /\ lastTicket' = lastTicket
  BY <1>1, ExclusionReleaseAll
<1>3. job' \in [Thread -> {"idle", "running", "returned"}]
      /\ \A x \in Thread : job'[x] = "running" => job[x] = "running"
  BY <1>1 DEF TypeOK
<1>4. TypeOK'
  BY <1>1, <1>2, <1>3 DEF TypeOK, requestVars, OwnershipAfter
<1>5. MessagesOfRequests' /\ LiveChild'
  BY <1>1, <1>2, <1>3 DEF MessagesOfRequests, LiveChild, requestVars, OwnershipAfter
<1>6. QED
  BY <1>2, <1>4, <1>5 DEF OwnershipAfter

(* The steps in which a child dies, and its requests with it. *)
LEMMA ExclusionThreadRestarts ==
    ASSUME ExclusionInv, NEW t \in Thread, ThreadRestarts(t)
    PROVE  ExclusionInv'
<1> DEFINE failed == {m \in lockChanges : owner[m.lockId] = t}
<1> USE DEF ExclusionInv
<1>1. /\ child' = [child EXCEPT ![t] = "uninitialised"]
      /\ job' = [job EXCEPT ![t] = IF @ = "running" THEN "returned" ELSE @]
      /\ lockState' = [l \in LockId |-> IF l \in LocksOf(t) THEN "done" ELSE lockState[l]]
      /\ lockEvents' \subseteq lockEvents
      /\ lockChanges' = lockChanges \ failed
      /\ rejected' = rejected \cup GrantsAmong(failed)
      /\ UNCHANGED <<parentVars, requestVars, terminating, takenBack>>
  BY DEF ThreadRestarts
<1>2. \A l \in GrantsAmong(failed) : l \in LockId /\ Grant(l) \in lockChanges /\ owner[l] = t
  BY DEF GrantsAmong, Grant
<1> HIDE DEF failed
<1>3. /\ \A l \in LockId : lockState'[l] = lockState[l] \/ lockState'[l] = "done"
      /\ \A l \in LockId : owner[l] = t /\ lockState[l] # "unused" => lockState'[l] = "done"
      /\ \A l \in LockId : lockState'[l] # "unused" <=> lockState[l] # "unused"
  BY <1>1 DEF TypeOK, LocksOf, Alive
<1>4. TypeOK'
  BY <1>1, <1>2 DEF TypeOK, parentVars, requestVars, Alive
<1>5. ParentKnowsRequests' /\ NoWaiterOfAFreeResource'
  BY <1>1, <1>3 DEF TypeOK, ParentKnowsRequests, NoWaiterOfAFreeResource, parentVars,
                    requestVars
<1>6. MessagesOfRequests'
  <2>1. \A e \in lockEvents' : e \in lockEvents /\ e.lockId \in LockId
    BY <1>1 DEF TypeOK, Event
  <2>2. \A m \in lockChanges' : m \in lockChanges /\ m.lockId \in LockId
    BY <1>1 DEF TypeOK, Change
  <2>3. \A l \in rejected' : lockState'[l] = "done"
    <3>1. \A l \in rejected : lockState'[l] = "done"
      BY <1>3 DEF TypeOK, MessagesOfRequests
    <3>2. \A l \in GrantsAmong(failed) : lockState[l] # "unused"
      BY <1>2 DEF MessagesOfRequests, Grant
    <3>3. QED
      BY <1>1, <1>2, <1>3, <3>1, <3>2
  <2>4. QED
    BY <1>3, <2>1, <2>2, <2>3 DEF MessagesOfRequests
<1>7. LiveChild'
  BY <1>1, <1>3 DEF TypeOK, LiveChild, Alive, requestVars
<1>8. OwnerIsHolder'
  BY <1>1, <1>3 DEF TypeOK, OwnerIsHolder, Change, parentVars, requestVars
<1>9. QED
  BY <1>4, <1>5, <1>6, <1>7, <1>8

LEMMA ExclusionTerminateWorkerThread ==
    ASSUME ExclusionInv, NEW t \in Thread, TerminateWorkerThread(t)
    PROVE  ExclusionInv'
<1> USE DEF ExclusionInv
<1>1. /\ job[t] = "idle"
      /\ child' = [child EXCEPT ![t] = "closed"]
      /\ lockState' = [l \in LockId |-> IF l \in LocksOf(t) THEN "done" ELSE lockState[l]]
      /\ UNCHANGED <<parentVars, lockEvents, lockChanges, rejected, requestVars, job,
                     terminating, takenBack>>
  BY DEF TerminateWorkerThread
<1>2. /\ \A l \in LockId : lockState'[l] = lockState[l] \/ lockState'[l] = "done"
      /\ \A l \in LockId : owner[l] = t /\ lockState[l] # "unused" => lockState'[l] = "done"
      /\ \A l \in LockId : lockState'[l] # "unused" <=> lockState[l] # "unused"
  BY <1>1 DEF TypeOK, LocksOf, Alive
<1>3. TypeOK'
  BY <1>1 DEF TypeOK, parentVars, requestVars, Alive
<1>4. ParentKnowsRequests' /\ NoWaiterOfAFreeResource'
  BY <1>1, <1>2 DEF TypeOK, ParentKnowsRequests, NoWaiterOfAFreeResource, parentVars,
                    requestVars
<1>5. MessagesOfRequests'
  BY <1>1, <1>2 DEF TypeOK, MessagesOfRequests, Event, Change
<1>6. LiveChild'
  BY <1>1, <1>2 DEF TypeOK, LiveChild, Alive, requestVars
<1>7. OwnerIsHolder'
  BY <1>1, <1>2 DEF TypeOK, OwnerIsHolder, Change, parentVars, requestVars
<1>8. QED
  BY <1>3, <1>4, <1>5, <1>6, <1>7

(* Every step keeps the invariant. *)
LEMMA ExclusionNext == ExclusionInv /\ [Next]_vars => ExclusionInv'
<1> SUFFICES ASSUME ExclusionInv, [Next]_vars
             PROVE  ExclusionInv'
  OBVIOUS
<1>1. CASE Parent
  BY <1>1, ExclusionHandleLock, ExclusionHandleUnlock, ExclusionGrantRejected,
     ExclusionJobEnds, ExclusionJobSteps DEF Parent
<1>2. CASE Child
  BY <1>2, ExclusionJobSteps, ExclusionAquire, ExclusionRequestSteps,
     ExclusionLockChange, ExclusionLockChangeFails DEF Child
<1>3. CASE Environment
  BY <1>3, ExclusionThreadRestarts, ExclusionJobEnds, ExclusionTerminateWorkerThread
     DEF Environment
<1>4. CASE UNCHANGED vars
  BY <1>4 DEF vars, parentVars, requestVars, threadVars, ExclusionInv, TypeOK,
     ParentKnowsRequests, MessagesOfRequests, LiveChild, OwnerIsHolder,
     NoWaiterOfAFreeResource
<1>5. QED
  BY <1>1, <1>2, <1>3, <1>4 DEF Next

THEOREM ExclusionInvariant == Spec => []ExclusionInv
BY ExclusionInit, ExclusionNext, PTL DEF Spec

-----------------------------------------------------------------------------
(* Every request is asked for once and answered once *)

Asked(l) == [event |-> "lock", lockId |-> l] \in lockEvents
Queued(l) == \E r \in Resource : l \in waitingWorkers[r]
Granted(l) == Grant(l) \in lockChanges
HasLocked(l) == lockState[l] \in {"held", "releasing"}

\* A request is on its way to the parent, or in a queue, or its grant is on its
\* way back, or its child has had the grant.
AskedOnce ==
    \A l \in LockId : /\ Asked(l) => ~Queued(l) /\ ~Granted(l) /\ ~HasLocked(l)
                      /\ Queued(l) => ~Granted(l) /\ ~HasLocked(l)
                      /\ Granted(l) => ~HasLocked(l)

\* The parent unlocks only what a child has given up.
UnlockedWasReleased ==
    \A l \in LockId : Unlocked(l) \in lockChanges => lockState[l] \in {"releasing", "done"}

\* An idle thread has nothing in the parent, and nothing on its way there.
IdleIsQuiet ==
    \A t \in Thread : job[t] = "idle" =>
        /\ \A r \in Resource : /\ holder[r] # NoLock => owner[holder[r]] # t
                               /\ \A l \in waitingWorkers[r] : owner[l] # t
        /\ \A l \in LockId : Asked(l) => owner[l] # t

AnswerInv == AskedOnce /\ UnlockedWasReleased /\ IdleIsQuiet

\* The part of it that lockNextWorker is concerned with, before and after the call.
AnswersBefore(h, q, changes) ==
    /\ \A r \in Resource : \A l \in q[r] :
          /\ resourceOf[l] = r /\ Grant(l) \notin changes
          /\ ~Asked(l)' /\ ~HasLocked(l)
          /\ job'[owner[l]] # "idle"
    /\ \A r \in Resource : h[r] # NoLock => job'[owner[h[r]]] # "idle"
    /\ \A l \in LockId : /\ Asked(l)' => /\ Grant(l) \notin changes /\ ~HasLocked(l)
                                         /\ job'[owner[l]] # "idle"
                         /\ Grant(l) \in changes => ~HasLocked(l)
                         /\ Unlocked(l) \in changes => lockState[l] \in {"releasing", "done"}

(* lockNextWorker keeps that part of the invariant. *)
LEMMA ServeKeepsAnswers ==
    ASSUME UNCHANGED <<lockState, requestVars>>,
           NEW R \in SUBSET Resource, NEW h \in [Resource -> LockId \cup {NoLock}],
           NEW q \in [Resource -> SUBSET LockId], NEW at \in [LockId -> Nat],
           NEW changes \in SUBSET Change,
           LockNextWorker(R, h, q, at, changes),
           AnswersBefore(h, q, changes)
    PROVE  AnswerInv'
<1>1. Serves(R, h, q, changes)
  BY ServeFacts
<1>2. UNCHANGED <<lockState, owner, resourceOf>>
  BY DEF requestVars
<1>3. \A r \in Resource : /\ waitingWorkers'[r] \subseteq q[r]
                          /\ holder'[r] \in q[r] \/ holder'[r] = h[r]
  BY <1>1 DEF Serves
<1>4. \A l \in LockId : Queued(l)' => \E r \in Resource : l \in q[r]
  BY <1>3 DEF Queued
<1>5. \A l \in LockId : Granted(l)' =>
          \/ Grant(l) \in changes
          \/ \E r \in R : h[r] = NoLock /\ l \in q[r] /\ l = holder'[r]
  BY <1>1 DEF Serves, Granted, Grant
<1>6. ASSUME NEW l \in LockId, Queued(l)' PROVE ~Granted(l)'
  <2>1. PICK r \in Resource : l \in waitingWorkers'[r]
    BY <1>6 DEF Queued
  <2>2. l \in q[r] /\ resourceOf[l] = r /\ Grant(l) \notin changes
    BY <2>1, <1>3 DEF AnswersBefore
  <2>3. \A x \in R : l \in q[x] => x = r
    BY <2>2 DEF AnswersBefore
  <2>4. r \in R /\ h[r] = NoLock => l # holder'[r]
    BY <2>1, <2>2, <1>1 DEF Serves
  <2>5. QED
    BY <2>2, <2>3, <2>4, <1>5
<1>7. \A l \in LockId : Unlocked(l) \in lockChanges' => Unlocked(l) \in changes
  BY <1>1 DEF Serves, Unlocked, Grant
<1>8. AskedOnce'
  <2>1. \A l \in LockId : HasLocked(l)' <=> HasLocked(l)
    BY <1>2 DEF HasLocked
  <2>2. \A l \in LockId : Asked(l)' => ~Queued(l)' /\ ~Granted(l)' /\ ~HasLocked(l)'
    BY <1>4, <1>5, <2>1 DEF AnswersBefore
  <2>3. \A l \in LockId : Queued(l)' => ~HasLocked(l)'
    BY <1>4, <2>1 DEF AnswersBefore
  <2>4. \A l \in LockId : Granted(l)' => ~HasLocked(l)'
    BY <1>5, <2>1 DEF AnswersBefore
  <2>5. QED
    BY <1>6, <2>2, <2>3, <2>4 DEF AskedOnce
<1>9. UnlockedWasReleased'
  BY <1>2, <1>7 DEF UnlockedWasReleased, AnswersBefore
<1>10. IdleIsQuiet'
  BY <1>2, <1>3 DEF IdleIsQuiet, AnswersBefore
<1>11. QED
  BY <1>8, <1>9, <1>10 DEF AnswerInv

LEMMA AnswerInit == Init => AnswerInv
BY DEF Init, AnswerInv, AskedOnce, UnlockedWasReleased, IdleIsQuiet, Asked, Queued, Granted

(* The steps of the parent. *)
LEMMA AnswerHandleLock ==
    ASSUME ExclusionInv, AnswerInv, NEW l \in LockId, HandleLock(l)
    PROVE  AnswerInv'
<1> DEFINE r == resourceOf[l]
           q == [waitingWorkers EXCEPT ![r] = @ \cup {l}]
           at == [queuedAt EXCEPT ![l] = NextTicket]
<1> USE DEF ExclusionInv, AnswerInv
<1>1. /\ q \in [Resource -> SUBSET LockId] /\ {r} \in SUBSET Resource
      /\ at \in [LockId -> Nat]
      /\ \A x \in Resource : \A k \in q[x] : k \in waitingWorkers[x] \/ (k = l /\ x = r)
  BY DEF TypeOK, NextTicket
<1>2. /\ Asked(l) /\ lockEvents' = lockEvents \ {[event |-> "lock", lockId |-> l]}
      /\ LockNextWorker({r}, holder, q, at, lockChanges)
      /\ UNCHANGED <<lockState, requestVars, threadVars>>
  BY DEF HandleLock, Asked
<1>3. \A k \in LockId : Asked(k)' => Asked(k) /\ k # l
  BY <1>2 DEF Asked
<1>4. AnswersBefore(holder, q, lockChanges)
  <2>1. \A x \in Resource : \A k \in waitingWorkers[x] :
            k \in LockId /\ resourceOf[k] = x /\ Queued(k)
    BY DEF TypeOK, ParentKnowsRequests, Queued
  <2>2. UNCHANGED <<owner, job>>
    BY <1>2 DEF requestVars, threadVars
  <2> HIDE DEF q, at
  <2>3. \A x \in Resource : \A k \in q[x] :
          /\ resourceOf[k] = x /\ Grant(k) \notin lockChanges
          /\ ~Asked(k)' /\ ~HasLocked(k)
          /\ job'[owner[k]] # "idle"
    BY <1>1, <1>2, <1>3, <2>1, <2>2 DEF AskedOnce, IdleIsQuiet, Granted, TypeOK
  <2>4. \A x \in Resource : holder[x] # NoLock => job'[owner[holder[x]]] # "idle"
    BY <2>2 DEF IdleIsQuiet, TypeOK
  <2>5. \A k \in LockId : /\ Asked(k)' => /\ Grant(k) \notin lockChanges /\ ~HasLocked(k)
                                          /\ job'[owner[k]] # "idle"
                          /\ Grant(k) \in lockChanges => ~HasLocked(k)
                          /\ Unlocked(k) \in lockChanges => lockState[k] \in {"releasing", "done"}
    BY <1>3, <2>2 DEF AskedOnce, IdleIsQuiet, Granted, TypeOK, UnlockedWasReleased
  <2>6. QED
    BY <2>3, <2>4, <2>5 DEF AnswersBefore
<1> HIDE DEF q, at
<1>5. QED
  BY <1>1, <1>2, <1>4, ServeKeepsAnswers DEF TypeOK

(* Whatever frees resources: the queues may have lost members, the holders too,
   and a thread may have become idle that nothing belongs to any more. *)
LEMMA AnswersWhenFreed ==
    ASSUME ExclusionInv, AnswerInv, lockEvents' \subseteq lockEvents,
           UNCHANGED <<lockState, requestVars>>,
           NEW h \in [Resource -> LockId \cup {NoLock}],
           NEW q \in [Resource -> SUBSET LockId],
           NEW changes \in SUBSET Change,
           \A r \in Resource : q[r] \subseteq waitingWorkers[r] /\ h[r] \in {NoLock, holder[r]},
           \A m \in changes : \/ m \in lockChanges
                              \/ ~m.locked /\ lockState[m.lockId] \in {"releasing", "done"},
           NEW t \in Thread, \A x \in Thread : x # t => job'[x] = job[x],
           \/ job'[t] = job[t]
           \/ /\ \A r \in Resource : /\ h[r] # NoLock => owner[h[r]] # t
                                     /\ \A l \in q[r] : owner[l] # t
              /\ \A l \in LockId : Asked(l)' => owner[l] # t
    PROVE  AnswersBefore(h, q, changes)
<1> USE DEF ExclusionInv, AnswerInv
<1>1. \A l \in LockId : Asked(l)' => Asked(l)
  BY DEF Asked
<1>2. \A l \in LockId : owner[l] \in Thread
  BY DEF TypeOK
<1>3. \A l \in LockId : Grant(l) \in changes => Granted(l)
  BY DEF Granted, Grant
<1>4. \A r \in Resource : \A l \in q[r] :
        /\ resourceOf[l] = r /\ Grant(l) \notin changes
        /\ ~Asked(l)' /\ ~HasLocked(l)
  <2> SUFFICES ASSUME NEW r \in Resource, NEW l \in q[r]
               PROVE  /\ resourceOf[l] = r /\ Grant(l) \notin changes
                      /\ ~Asked(l)' /\ ~HasLocked(l)
    OBVIOUS
  <2>1. l \in LockId /\ l \in waitingWorkers[r]
    OBVIOUS
  <2>2. Queued(l) /\ resourceOf[l] = r
    BY <2>1 DEF Queued, ParentKnowsRequests
  <2>3. QED
    BY <2>1, <2>2, <1>1, <1>3 DEF AskedOnce
<1>5. \A r \in Resource : \A l \in q[r] : job'[owner[l]] # "idle"
  BY <1>2 DEF IdleIsQuiet
<1>6. \A r \in Resource : h[r] # NoLock => job'[owner[h[r]]] # "idle"
  BY <1>2 DEF IdleIsQuiet
<1>7. \A l \in LockId : Asked(l)' => /\ Grant(l) \notin changes /\ ~HasLocked(l)
                                     /\ job'[owner[l]] # "idle"
  BY <1>1, <1>2, <1>3 DEF AskedOnce, IdleIsQuiet
<1>8. \A l \in LockId : /\ Grant(l) \in changes => ~HasLocked(l)
                        /\ Unlocked(l) \in changes => lockState[l] \in {"releasing", "done"}
  BY <1>3 DEF AskedOnce, UnlockedWasReleased, Unlocked
<1>9. QED
  BY <1>4, <1>5, <1>6, <1>7, <1>8 DEF AnswersBefore

LEMMA AnswerHandleUnlock ==
    ASSUME ExclusionInv, AnswerInv, NEW l \in LockId, HandleUnlock(l)
    PROVE  AnswerInv'
<1> DEFINE r == resourceOf[l]
           h == IF holder[r] = l THEN [holder EXCEPT ![r] = NoLock] ELSE holder
           changes == lockChanges \cup (IF holder[r] = l THEN {Unlocked(l)} ELSE {})
<1> USE DEF ExclusionInv
<1>1. /\ [event |-> "unlock", lockId |-> l] \in lockEvents
      /\ lockEvents' \subseteq lockEvents
      /\ LockNextWorker({r}, h, waitingWorkers, queuedAt, changes)
      /\ UNCHANGED <<lockState, requestVars, threadVars>>
  BY DEF HandleUnlock
<1>2. lockState[l] \in {"releasing", "done"}
  BY <1>1 DEF MessagesOfRequests
<1>3. changes \in SUBSET Change /\ {r} \in SUBSET Resource
  <2>1. Unlocked(l) \in Change
    BY DEF Unlocked, Change
  <2>2. QED
    BY <2>1 DEF TypeOK
<1>4. /\ h \in [Resource -> LockId \cup {NoLock}]
      /\ \A x \in Resource : h[x] \in {NoLock, holder[x]}
  BY DEF TypeOK
<1>5. \A m \in changes : \/ m \in lockChanges
                         \/ ~m.locked /\ lockState[m.lockId] \in {"releasing", "done"}
  BY <1>2 DEF Unlocked
<1>6. PICK t \in Thread : TRUE
  BY LocksAssumption
<1> HIDE DEF h, changes
<1>7. job' = job
  BY <1>1 DEF threadVars
<1>8. AnswersBefore(h, waitingWorkers, changes)
  BY <1>1, <1>3, <1>4, <1>5, <1>6, <1>7, AnswersWhenFreed DEF TypeOK
<1>9. QED
  BY <1>1, <1>3, <1>4, <1>8, ServeKeepsAnswers DEF TypeOK

(* The steps that leave the parent's data alone, or only take messages away. *)
LEMMA AnswersWhenQuiet ==
    ASSUME TypeOK, AnswerInv, UNCHANGED <<holder, waitingWorkers, requestVars>>,
           lockEvents' \subseteq lockEvents, lockChanges' \subseteq lockChanges,
           \A l \in LockId : HasLocked(l)' => HasLocked(l),
           \A l \in LockId : lockState[l] \in {"releasing", "done"} =>
                                lockState'[l] \in {"releasing", "done"},
           \A t \in Thread : job'[t] = "idle" => job[t] = "idle"
    PROVE  AnswerInv'
<1>1. \A l \in LockId : /\ Asked(l)' => Asked(l)
                        /\ Granted(l)' => Granted(l)
                        /\ Queued(l)' => Queued(l)
  BY DEF Asked, Granted, Queued, Grant
<1>2. AskedOnce'
  BY <1>1 DEF AnswerInv, AskedOnce
<1>3. UnlockedWasReleased'
  BY DEF AnswerInv, UnlockedWasReleased, Unlocked
<1>4. IdleIsQuiet'
  BY <1>1 DEF AnswerInv, IdleIsQuiet, requestVars
<1>5. QED
  BY <1>2, <1>3, <1>4 DEF AnswerInv

LEMMA AnswerGrantRejected ==
    ASSUME ExclusionInv, AnswerInv, NEW l \in LockId, GrantRejected(l)
    PROVE  AnswerInv'
<1> DEFINE r == resourceOf[l]
           h == [holder EXCEPT ![r] = NoLock]
<1> USE DEF ExclusionInv
<1>1. UNCHANGED <<lockEvents, lockState, requestVars, job>>
  BY DEF GrantRejected, threadVars
<1>2. CASE UNCHANGED <<holder, waitingWorkers, lockChanges>>
  BY <1>1, <1>2, AnswersWhenQuiet DEF HasLocked
<1>3. CASE LockNextWorker({r}, h, waitingWorkers, queuedAt, lockChanges)
  <2>1. /\ h \in [Resource -> LockId \cup {NoLock}] /\ {r} \in SUBSET Resource
        /\ \A x \in Resource : h[x] \in {NoLock, holder[x]}
    BY DEF TypeOK
  <2>2. PICK t \in Thread : TRUE
    BY LocksAssumption
  <2> HIDE DEF h
  <2>3. AnswersBefore(h, waitingWorkers, lockChanges)
    BY <1>1, <2>1, <2>2, AnswersWhenFreed DEF TypeOK
  <2>4. QED
    BY <1>1, <1>3, <2>1, <2>3, ServeKeepsAnswers DEF TypeOK
<1>4. QED
  BY <1>2, <1>3 DEF GrantRejected

LEMMA AnswerJobEnds ==
    ASSUME ExclusionInv, AnswerInv, NEW t \in Thread, JobFinished(t) \/ Terminate(t)
    PROVE  AnswerInv'
<1> DEFINE R == HeldBy(t)
           h == [r \in Resource |-> IF r \in R THEN NoLock ELSE holder[r]]
           q == QueuesWithout(t)
<1> USE DEF ExclusionInv
<1>1. /\ ReleaseAllForThread(t)
      /\ UNCHANGED <<lockEvents, lockState, requestVars>>
      /\ \A x \in Thread : x # t => job'[x] = job[x]
      /\ job'[t] = job[t] \/ \A l \in LockId : Asked(l) => owner[l] # t
  <2>1. CASE JobFinished(t)
    BY <2>1 DEF JobFinished, Asked, TypeOK
  <2>2. CASE Terminate(t)
    BY <2>2 DEF Terminate
  <2>3. QED
    BY <2>1, <2>2
<1>2. /\ R \in SUBSET Resource
      /\ h \in [Resource -> LockId \cup {NoLock}]
      /\ q \in [Resource -> SUBSET LockId]
      /\ \A r \in Resource : q[r] \subseteq waitingWorkers[r] /\ h[r] \in {NoLock, holder[r]}
      /\ \A r \in Resource : /\ h[r] # NoLock => owner[h[r]] # t
                             /\ \A l \in q[r] : owner[l] # t
  BY DEF TypeOK, HeldBy, QueuesWithout
<1>3. LockNextWorker(R, h, q, queuedAt, lockChanges)
  BY <1>1 DEF ReleaseAllForThread
<1> HIDE DEF R, h, q
<1>4. \A l \in LockId : Asked(l)' => Asked(l)
  BY <1>1 DEF Asked
<1>5. AnswersBefore(h, q, lockChanges)
  BY <1>1, <1>2, <1>4, AnswersWhenFreed DEF TypeOK
<1>6. QED
  BY <1>1, <1>2, <1>3, <1>5, ServeKeepsAnswers DEF TypeOK

(* A new request is not known to the parent, and its job is running. *)
LEMMA AnswerAquire ==
    ASSUME ExclusionInv, AnswerInv, NEW t \in Thread, NEW r \in Resource, NEW l \in LockId,
           Aquire(t, r, l)
    PROVE  AnswerInv'
<1> USE DEF ExclusionInv
<1>1. /\ job[t] = "running" /\ lockState[l] = "unused"
      /\ lockState' = [lockState EXCEPT ![l] = "aquiring"]
      /\ owner' = [owner EXCEPT ![l] = t]
      /\ lockEvents' = lockEvents \cup {[event |-> "lock", lockId |-> l]}
      /\ UNCHANGED <<holder, waitingWorkers, lockChanges, job>>
  BY DEF Aquire, parentVars, threadVars
<1>2. ~Queued(l) /\ ~Granted(l) /\ Unlocked(l) \notin lockChanges
  BY <1>1 DEF Queued, Granted, Grant, Unlocked, ParentKnowsRequests, MessagesOfRequests
<1>3. \A x \in Resource : holder[x] # l
  BY <1>1, LocksAssumption DEF ParentKnowsRequests
<1>4. \A k \in LockId : /\ k # l => (Asked(k)' <=> Asked(k)) /\ (HasLocked(k)' <=> HasLocked(k))
                        /\ Queued(k)' <=> Queued(k)
                        /\ Granted(k)' <=> Granted(k)
  BY <1>1 DEF Asked, HasLocked, Queued, Granted, Grant, TypeOK
<1>5. ~HasLocked(l)'
  BY <1>1 DEF HasLocked, TypeOK
<1>6. AskedOnce'
  BY <1>2, <1>4, <1>5 DEF AnswerInv, AskedOnce
<1>7. UnlockedWasReleased'
  BY <1>1, <1>2 DEF AnswerInv, UnlockedWasReleased, Unlocked, TypeOK
<1>8. IdleIsQuiet'
  <2>1. owner'[l] = t /\ \A k \in LockId : k # l => owner'[k] = owner[k]
    BY <1>1 DEF TypeOK
  <2>2. \A x \in Resource : \A k \in waitingWorkers[x] : k # l
    BY <1>2 DEF Queued
  <2>3. QED
    BY <1>1, <1>3, <1>4, <2>1, <2>2 DEF AnswerInv, IdleIsQuiet, TypeOK
<1>9. QED
  BY <1>6, <1>7, <1>8 DEF AnswerInv

LEMMA AnswerRelease ==
    ASSUME ExclusionInv, AnswerInv, NEW l \in LockId,
           AquireTimesOut(l) \/ Release(l) \/ ReleaseTimesOut(l)
    PROVE  AnswerInv'
<1> USE DEF ExclusionInv
<1>1. UNCHANGED <<holder, waitingWorkers, requestVars, lockChanges, job>>
  BY DEF AquireTimesOut, Release, ReleaseTimesOut, parentVars, threadVars
<1>2. /\ \A k \in LockId : HasLocked(k)' => HasLocked(k)
      /\ \A k \in LockId : lockState[k] \in {"releasing", "done"} =>
                              lockState'[k] \in {"releasing", "done"}
  BY DEF AquireTimesOut, Release, ReleaseTimesOut, HasLocked, TypeOK
<1>3. \A k \in LockId : /\ Asked(k)' <=> Asked(k)
                        /\ Queued(k)' <=> Queued(k)
                        /\ Granted(k)' <=> Granted(k)
  BY <1>1 DEF Asked, Queued, Granted, Grant, AquireTimesOut, Release, ReleaseTimesOut
<1>4. AskedOnce'
  BY <1>2, <1>3 DEF AnswerInv, AskedOnce
<1>5. UnlockedWasReleased'
  BY <1>1, <1>2 DEF AnswerInv, UnlockedWasReleased, Unlocked
<1>6. IdleIsQuiet'
  BY <1>1, <1>3 DEF AnswerInv, IdleIsQuiet, requestVars
<1>7. QED
  BY <1>4, <1>5, <1>6 DEF AnswerInv

(* The answer arrives: a grant leaves the messages as its request gets the lock. *)
LEMMA AnswerLockChange ==
    ASSUME ExclusionInv, AnswerInv, NEW m \in lockChanges, LockChange(m)
    PROVE  AnswerInv'
<1> DEFINE l == m.lockId
<1> USE DEF ExclusionInv
<1>1. /\ l \in LockId /\ lockChanges' = lockChanges \ {m}
      /\ UNCHANGED <<holder, waitingWorkers, lockEvents, requestVars, job>>
  BY DEF TypeOK, Change, LockChange, parentVars, threadVars
<1>2. /\ \A k \in LockId : k # l => lockState'[k] = lockState[k]
      /\ \/ lockState[l] = "aquiring" /\ m.locked /\ lockState'[l] = "held"
         \/ lockState[l] \in {"aquiring", "releasing"} /\ lockState'[l] = "done"
         \/ lockState'[l] = lockState[l]
  BY <1>1 DEF LockChange, TypeOK, Alive
<1>3. \A k \in LockId : lockState[k] \in {"releasing", "done"} =>
                           lockState'[k] \in {"releasing", "done"}
  BY <1>2
<1>4. CASE lockState[l] = "aquiring" /\ m.locked /\ lockState'[l] = "held"
  <2>1. m = Grant(l)
    BY <1>4 DEF Grant, TypeOK, Change
  <2>2. Granted(l) /\ ~Granted(l)'
    BY <1>1, <2>1 DEF Granted, Grant
  <2>3. \A k \in LockId : /\ Asked(k)' <=> Asked(k)
                          /\ Queued(k)' <=> Queued(k)
                          /\ Granted(k)' => Granted(k)
                          /\ k # l => (HasLocked(k)' <=> HasLocked(k))
    BY <1>1, <1>2 DEF Asked, Queued, Granted, Grant, HasLocked
  <2>4. AskedOnce'
    BY <2>2, <2>3 DEF AnswerInv, AskedOnce
  <2>5. UnlockedWasReleased'
    BY <1>1, <1>3 DEF AnswerInv, UnlockedWasReleased, Unlocked
  <2>6. IdleIsQuiet'
    BY <1>1, <2>3 DEF AnswerInv, IdleIsQuiet, requestVars
  <2>7. QED
    BY <2>4, <2>5, <2>6 DEF AnswerInv
<1>5. CASE lockState'[l] = "done" \/ lockState'[l] = lockState[l]
  <2>1. \A k \in LockId : HasLocked(k)' => HasLocked(k)
    BY <1>2, <1>5 DEF HasLocked
  <2>2. QED
    BY <1>1, <1>3, <2>1, AnswersWhenQuiet
<1>6. QED
  BY <1>2, <1>4, <1>5

LEMMA AnswerQuietSteps ==
    ASSUME ExclusionInv, AnswerInv,
           \/ \E m \in lockChanges : LockChangeFails(m)
           \/ \E t \in Thread : \/ RunJob(t) \/ JobReturns(t) \/ InitWorker(t)
                                \/ ThreadRestarts(t) \/ TerminateWorkerThread(t)
    PROVE  AnswerInv'
<1> USE DEF ExclusionInv
<1>1. UNCHANGED <<holder, waitingWorkers, requestVars>>
  BY DEF LockChangeFails, RunJob, JobReturns, InitWorker, ThreadRestarts,
         TerminateWorkerThread, parentVars
<1>2. lockEvents' \subseteq lockEvents /\ lockChanges' \subseteq lockChanges
  BY DEF LockChangeFails, RunJob, JobReturns, InitWorker, ThreadRestarts,
         TerminateWorkerThread
<1>3. \A l \in LockId : lockState'[l] \in {lockState[l], "done"}
  BY DEF LockChangeFails, RunJob, JobReturns, InitWorker, ThreadRestarts,
         TerminateWorkerThread, TypeOK
<1>4. \A t \in Thread : job'[t] = "idle" => job[t] = "idle"
  BY DEF LockChangeFails, RunJob, JobReturns, InitWorker, ThreadRestarts,
         TerminateWorkerThread, TypeOK, threadVars
<1>5. QED
  BY <1>1, <1>2, <1>3, <1>4, AnswersWhenQuiet DEF HasLocked

LEMMA AnswerNext == ExclusionInv /\ AnswerInv /\ [Next]_vars => AnswerInv'
<1> SUFFICES ASSUME ExclusionInv, AnswerInv, [Next]_vars PROVE AnswerInv'
  OBVIOUS
<1>1. CASE Parent
  BY <1>1, AnswerHandleLock, AnswerHandleUnlock, AnswerGrantRejected, AnswerJobEnds,
     AnswerQuietSteps DEF Parent
<1>2. CASE Child
  BY <1>2, AnswerQuietSteps, AnswerAquire, AnswerRelease, AnswerLockChange DEF Child
<1>3. CASE Environment
  BY <1>3, AnswerQuietSteps, AnswerJobEnds DEF Environment
<1>4. CASE UNCHANGED vars
  <2>1. UNCHANGED <<holder, waitingWorkers, requestVars, lockEvents, lockChanges, lockState, job>>
    BY <1>4 DEF vars, parentVars, threadVars
  <2>2. QED
    BY <2>1, AnswersWhenQuiet DEF ExclusionInv, HasLocked
<1>5. QED
  BY <1>1, <1>2, <1>3, <1>4 DEF Next

THEOREM AnswerInvariant == Spec => []AnswerInv
BY AnswerInit, AnswerNext, ExclusionInvariant, PTL DEF Spec

-----------------------------------------------------------------------------
(* Theorems *)

(* Type correctness: every variable keeps its type, whatever the parent, the
   children and the environment do. *)
THEOREM TypeCorrect == Spec => []TypeOK
<1>1. ExclusionInv => TypeOK
  BY DEF ExclusionInv
<1>2. QED
  BY <1>1, ExclusionInvariant, PTL

(* The lock protocol of aquire, release, handleLockEvent and lockChange gives a
   playlist or rundown to one request at a time, through timeouts, failed grants
   and restarts: two owners would both be the one holder in the parent. *)
THEOREM LocksAreExclusive == Spec => []MutualExclusion
<1>1. ExclusionInv => MutualExclusion
  BY DEF ExclusionInv, OwnerIsHolder, MutualExclusion, Owners
<1>2. QED
  BY <1>1, ExclusionInvariant, PTL

(* Every path on which the parent frees a resource offers it to the queue:
   lockNextWorker after unlock, after a failed grant and in releaseAllForThread. *)
THEOREM NoWakeUpIsLost == Spec => []NoWaiterOfAFreeResource
<1>1. ExclusionInv => NoWaiterOfAFreeResource
  BY DEF ExclusionInv
<1>2. QED
  BY <1>1, ExclusionInvariant, PTL

(* Whatever timed out, was killed or was left locked: releaseAllForThread leaves
   the parent with nothing in the name of a thread whose job is over, and nothing
   that was still on its way puts the thread back. *)
THEOREM IdleThreadsHaveNoLocks == Spec => []IdleThreadHasNoLocks
<1>1. AnswerInv => IdleThreadHasNoLocks
  BY DEF AnswerInv, IdleIsQuiet, IdleThreadHasNoLocks
<1>2. QED
  BY <1>1, AnswerInvariant, PTL

(* A child never takes one answer of the parent for another: the two errors of
   changeEvent in aquire and release cannot come. *)
THEOREM AnswersAreForTheirRequests == Spec => []AnswersMatchRequests
<1>1. ExclusionInv /\ AnswerInv => AnswersMatchRequests
  <2> SUFFICES ASSUME ExclusionInv, AnswerInv, NEW m \in lockChanges
               PROVE  /\ lockState[m.lockId] = "aquiring" => m.locked
                      /\ lockState[m.lockId] = "releasing" => ~m.locked
    BY DEF AnswersMatchRequests
  <2>1. m.lockId \in LockId /\ (m = Grant(m.lockId) \/ m = Unlocked(m.lockId))
    BY DEF ExclusionInv, TypeOK, Change, Grant, Unlocked
  <2>2. QED
    BY <2>1 DEF AnswerInv, AskedOnce, UnlockedWasReleased, Granted, HasLocked, Grant, Unlocked
<1>2. QED
  BY <1>1, ExclusionInvariant, AnswerInvariant, PTL
=============================================================================
