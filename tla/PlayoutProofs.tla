---------------------------- MODULE PlayoutProofs -----------------------------
(* The playhead of a playlist, for every show and every number of Parts: what *)
(* is selected exists, only the next instance has not been taken, ingest     *)
(* leaves the right next Part, and each job is a step of Playhead.           *)
EXTENDS Playout, WellFoundedInduction, FiniteSetTheorems, TLAPS

-----------------------------------------------------------------------------
(* First and last of a set of numbers.                                       *)

(* A set of natural numbers has a first one: what First chooses.             *)
LEMMA FirstIsThere ==
  ASSUME NEW S \in SUBSET Nat, S # {}
  PROVE  First(S) \in S /\ \A j \in S : First(S) <= j
<1>1. PICK x \in S : \A y \in S : ~(<<y, x>> \in OpToRel(<, Nat))
  BY WFMin, NatLessThanWellFounded
<1>2. \A y \in S : ~(y < x)
  BY <1>1 DEF OpToRel
<1>3. IsFirst(x, S)
  BY <1>2, SMT DEF IsFirst
<1>4. IsFirst(First(S), S)
  BY <1>3 DEF First
<1> QED BY <1>4 DEF IsFirst

(* A bounded set of natural numbers has a last one: what Last chooses.       *)
LEMMA LastIsThere ==
  ASSUME NEW n \in Nat, NEW S \in SUBSET (0 .. n), S # {}
  PROVE  Last(S) \in S /\ \A j \in S : j <= Last(S)
<1> DEFINE T == {i \in 0 .. n : n - i \in S}
<1>1. T \in SUBSET Nat
  OBVIOUS
<1>2. PICK s \in S : TRUE
  OBVIOUS
<1>3. n - s \in T
  BY <1>2
<1>4. PICK t \in T : \A u \in T : t <= u
  BY <1>1, <1>3, FirstIsThere
<1>5. ASSUME NEW j \in S PROVE j <= n - t
  <2>1. t \in Nat /\ j \in Nat
    BY <1>4
  <2>2. n - j \in T
    OBVIOUS
  <2>3. t <= n - j
    BY <2>2, <1>4
  <2> HIDE DEF T
  <2> QED BY <2>1, <2>3
<1>6. n - t \in S
  BY <1>4
<1> QED BY <1>5, <1>6 DEF Last

-----------------------------------------------------------------------------
(* The choice of the next Part.                                              *)

Choices == [part : Part \cup {None}, consumes : BOOLEAN]

(* What is found is a Part of the list that is playable and wanted.          *)
LEMMA FirstPlayableIsPlayable ==
  ASSUME NEW parts \in Seq(Part), NEW ok, NEW from, NEW to, NEW wanted
  PROVE  LET p == FirstPlayable(parts, ok, from, to, wanted)
         IN  p # None => /\ p \in Part /\ p \in ok /\ p \in wanted
                         /\ \E i \in DOMAIN parts : p = parts[i]
<1> DEFINE found == {i \in DOMAIN parts : /\ from <= i /\ i <= to
                                          /\ parts[i] \in ok
                                          /\ parts[i] \in wanted}
<1>1. found \in SUBSET Nat
  OBVIOUS
<1>2. CASE found = {}
  BY <1>2 DEF FirstPlayable
<1>3. CASE found # {}
  <2>1. First(found) \in found
    BY <1>1, <1>3, FirstIsThere
  <2>2. FirstPlayable(parts, ok, from, to, wanted) = parts[First(found)]
    BY <1>3 DEF FirstPlayable
  <2>3. DOMAIN parts = 1 .. Len(parts) /\ \A i \in DOMAIN parts : parts[i] \in Part
    OBVIOUS
  <2> QED BY <2>1, <2>2, <2>3
<1> QED BY <1>2, <1>3

(* The choice is nothing, or a playable Part of the list.                    *)
LEMMA SelectNextPartType ==
  ASSUME NEW parts \in Seq(Part), NEW ok, NEW previous, NEW queued, NEW loop
  PROVE  LET choice == SelectNextPart(parts, ok, previous, queued, loop)
         IN  /\ choice \in Choices
             /\ choice.part # None =>
                  choice.part \in ok /\ \E i \in DOMAIN parts : choice.part = parts[i]
<1> DEFINE from      == SearchFrom(parts, previous)
           following == FirstPlayable(parts, ok, from, Len(parts), Part)
           wanted    == {p \in Part : SegmentOf[p] = queued}
           inQueued  == FirstPlayable(parts, ok, 1, Len(parts), wanted)
           looped    == FirstPlayable(parts, ok, 1, LoopLimit(parts, from), Part)
           Fine(p)   == /\ p \in Part \cup {None}
                        /\ p # None => p \in ok /\ \E i \in DOMAIN parts : p = parts[i]
<1>1. Fine(following)
  BY FirstPlayableIsPlayable DEF following
<1>2. Fine(inQueued)
  <2> HIDE DEF wanted
  <2> QED BY FirstPlayableIsPlayable
<1>3. Fine(looped)
  BY FirstPlayableIsPlayable DEF looped
<1>4. \/ SelectNextPart(parts, ok, previous, queued, loop) = Choice(inQueued, TRUE)
      \/ SelectNextPart(parts, ok, previous, queued, loop) = Choice(looped, FALSE)
      \/ SelectNextPart(parts, ok, previous, queued, loop) = Choice(following, FALSE)
  BY DEF SelectNextPart
<1> HIDE DEF from, following, inQueued, looped
<1>5. \A p, c : Fine(p) /\ c \in BOOLEAN =>
        LET choice == Choice(p, c)
        IN  /\ choice \in Choices
            /\ choice.part # None =>
                 choice.part \in ok /\ \E i \in DOMAIN parts : choice.part = parts[i]
  BY DEF Choice, Choices
<1> HIDE DEF Fine
<1> QED BY <1>1, <1>2, <1>3, <1>4, <1>5

(* With fewer playable Parts, nothing is found where nothing was, and what   *)
(* was found is found again if it is still playable.                         *)
LEMMA NothingOfFewer ==
  ASSUME NEW parts, NEW ok, NEW fewer, fewer \subseteq ok, NEW from, NEW to, NEW wanted,
         parts \in Seq(Part), FirstPlayable(parts, ok, from, to, wanted) = None
  PROVE  FirstPlayable(parts, fewer, from, to, wanted) = None
<1> DEFINE Places(some) == {i \in DOMAIN parts : /\ from <= i /\ i <= to
                                                 /\ parts[i] \in some
                                                 /\ parts[i] \in wanted}
           all == Places(ok)
<1>1. /\ FirstPlayable(parts, ok, from, to, wanted) = IF all = {} THEN None ELSE parts[First(all)]
      /\ Places(fewer) = {} => FirstPlayable(parts, fewer, from, to, wanted) = None
  BY DEF FirstPlayable
<1>2. all \in SUBSET Nat /\ Places(fewer) \subseteq all /\ \A i \in all : parts[i] \in Part
  OBVIOUS
<1> HIDE DEF Places
<1>3. all # {} => parts[First(all)] # None
  BY <1>2, FirstIsThere, PartAssumption
<1> QED BY <1>1, <1>2, <1>3

LEMMA FirstOfFewer ==
  ASSUME NEW parts, NEW ok, NEW fewer, fewer \subseteq ok, NEW from, NEW to, NEW wanted,
         parts \in Seq(Part), FirstPlayable(parts, ok, from, to, wanted) \in fewer,
         FirstPlayable(parts, ok, from, to, wanted) # None
  PROVE  FirstPlayable(parts, fewer, from, to, wanted) = FirstPlayable(parts, ok, from, to, wanted)
<1> DEFINE Places(some) == {i \in DOMAIN parts : /\ from <= i /\ i <= to
                                                 /\ parts[i] \in some
                                                 /\ parts[i] \in wanted}
           all  == Places(ok)
           left == Places(fewer)
           i == First(all)
           j == First(left)
<1>1. /\ FirstPlayable(parts, ok, from, to, wanted) = IF all = {} THEN None ELSE parts[i]
      /\ FirstPlayable(parts, fewer, from, to, wanted) = IF left = {} THEN None ELSE parts[j]
  BY DEF FirstPlayable
<1>2. all \in SUBSET Nat /\ left \in SUBSET all
  OBVIOUS
<1>3. \A k \in all : parts[k] \in fewer => k \in left
  OBVIOUS
<1> HIDE DEF all, left
<1>4. all # {} /\ parts[i] \in fewer
  BY <1>1
<1>5. i \in all /\ \A k \in all : i <= k
  BY <1>2, <1>4, FirstIsThere
<1>6. i \in left
  BY <1>3, <1>4, <1>5
<1>7. j \in left /\ \A k \in left : j <= k
  BY <1>2, <1>6, FirstIsThere
<1>8. i \in Nat /\ j \in Nat /\ i <= j /\ j <= i
  BY <1>2, <1>5, <1>6, <1>7
<1> HIDE DEF i, j
<1>9. i = j
  BY <1>8
<1> QED BY <1>1, <1>4, <1>6, <1>9

(* The same of the choice of what follows a Part, if it is not that of the   *)
(* queued segment.                                                           *)
SameChoice(parts, ok, fewer, previous, queued, loop) ==
    SelectNextPart(parts, fewer, previous, queued, loop).part =
        SelectNextPart(parts, ok, previous, queued, loop).part

LEMMA ChoiceOfFewer ==
  ASSUME NEW parts, NEW ok, NEW fewer, fewer \subseteq ok, NEW previous, NEW queued, NEW loop,
         parts \in Seq(Part), previous # None,
         LET choice == SelectNextPart(parts, ok, previous, queued, loop)
         IN  choice.part = None \/ (choice.part \in fewer /\ ~choice.consumes)
  PROVE  SameChoice(parts, ok, fewer, previous, queued, loop)
<1> DEFINE from    == SearchFrom(parts, previous)
           first   == 1
           len     == Len(parts)
           wanted  == {p \in Part : SegmentOf[p] = queued}
           limit   == LoopLimit(parts, from)
           F(some) == FirstPlayable(parts, some, from, len, Part)
           Q(some) == FirstPlayable(parts, some, first, len, wanted)
           L(some) == FirstPlayable(parts, some, first, limit, Part)
           C(some) == SelectNextPart(parts, some, previous, queued, loop)
<1>1. \A some : C(some) = IF QueueCounts(F(some), previous, queued) /\ Q(some) # None
                          THEN Choice(Q(some), TRUE)
                          ELSE IF loop /\ F(some) = None THEN Choice(L(some), FALSE)
                          ELSE Choice(F(some), FALSE)
  BY DEF SelectNextPart
<1> HIDE DEF from, first, len, wanted, limit
<1>2. F(ok) = None => F(fewer) = None
  BY NothingOfFewer
<1>3. F(ok) # None /\ F(ok) \in fewer => F(fewer) = F(ok)
  BY FirstOfFewer
<1>4. Q(ok) = None => Q(fewer) = None
  BY NothingOfFewer
<1>5. L(ok) = None => L(fewer) = None
  BY NothingOfFewer
<1>6. L(ok) # None /\ L(ok) \in fewer => L(fewer) = L(ok)
  BY FirstOfFewer
<1>7. ~QueueCounts(None, previous, queued)
  BY DEF QueueCounts
<1>8. \A p, c : Choice(p, c).part = p /\ Choice(p, c).consumes = c
  BY DEF Choice
<1>9. C(ok).part = None \/ (C(ok).part \in fewer /\ ~C(ok).consumes)
  OBVIOUS
<1> HIDE DEF F, Q, L, C
<1>10. ASSUME F(ok) = None PROVE C(fewer).part = C(ok).part
  <2>1. C(ok).part = IF loop THEN L(ok) ELSE None
    BY <1>1, <1>7, <1>8, <1>10
  <2>2. C(fewer).part = IF loop THEN L(fewer) ELSE None
    BY <1>1, <1>2, <1>7, <1>8, <1>10
  <2> QED BY <1>5, <1>6, <1>9, <2>1, <2>2
<1>11. ASSUME F(ok) # None PROVE C(fewer).part = C(ok).part
  <2>1. C(ok).part = F(ok) /\ ~(QueueCounts(F(ok), previous, queued) /\ Q(ok) # None)
    BY <1>1, <1>8, <1>9, <1>11
  <2>2. F(fewer) = F(ok)
    BY <1>3, <1>9, <1>11, <2>1
  <2>3. ~(QueueCounts(F(fewer), previous, queued) /\ Q(fewer) # None)
    BY <1>4, <2>1, <2>2
  <2> QED BY <1>1, <1>8, <1>11, <2>1, <2>2, <2>3
<1>12. C(fewer).part = C(ok).part
  BY <1>10, <1>11
<1> QED BY <1>12 DEF SameChoice, C

-----------------------------------------------------------------------------
(* The inductive invariant, in terms of a model: the saved one, or that which *)
(* a job is working on.                                                      *)

Models ==
    [mode : Modes, prev : Nat \cup {None}, cur : Nat \cup {None}, nxt : Nat \cup {None},
     manual : BOOLEAN, consumes : BOOLEAN, hold : HoldStates, queued : Segment \cup {None},
     started : BOOLEAN, inst : UNION {[S -> PartInstanceRecord] : S \in SUBSET Nat},
     loaded : SUBSET Nat]

(* The playhead, whatever is loaded.                                         *)
Sound(m) ==
    /\ m \in Models
    /\ \E n \in Nat : Existing(m) \subseteq 0 .. n
    /\ Selected(m) \subseteq Existing(m)
    /\ \A i \in {m.cur, m.nxt} \ {None} : ~m.inst[i].reset
    /\ \A i \in {m.cur, m.prev} \ {None} : m.inst[i].taken
    /\ m.nxt # None => ~m.inst[m.nxt].taken
    /\ m.cur # None => m.cur # m.prev

(* Nothing but the next instance waits to be taken: so it is between jobs,   *)
(* and after the cleanup at the end of setNextPart.                          *)
Settled(m) == \A i \in Existing(m) \ {m.nxt} : m.inst[i].taken

(* What setNextPart relies on: all that it may have to remove is loaded.     *)
Ready(m) ==
    /\ Sound(m)
    /\ Selected(m) \subseteq m.loaded /\ m.loaded \subseteq Existing(m)
    /\ \A i \in Existing(m) : ~m.inst[i].taken => i \in m.loaded

(* A hold has something on air, and of a show that is off nothing is left.   *)
Restful(m) ==
    /\ m.hold # "none" => m.cur # None
    /\ m.mode = "inactive" => Selected(m) = {} /\ m.hold = "none" /\ m.queued = None

(* What is next can be played, unless nothing is on air or it may go on by   *)
(* itself: those are the cases in which ingest leaves what it finds.         *)
Offered(m) ==
    m.cur # None /\ m.nxt # None /\ PartOf(m, m.cur) \notin AutoNext
        => m.inst[m.nxt].playable

Steady(m) == Sound(m) /\ Settled(m) /\ Restful(m)

Saved(m) == Steady(m) /\ Offered(m)

IInv ==
    /\ Saved(model) /\ model.loaded = {}
    /\ show \in Shows
    /\ timeline \subseteq Reportable(model)

-----------------------------------------------------------------------------
(* What the operators on a model leave alone.                                *)

SamePlayhead(m, n) ==
    /\ n.mode = m.mode /\ n.prev = m.prev /\ n.cur = m.cur /\ n.nxt = m.nxt
    /\ n.manual = m.manual /\ n.consumes = m.consumes /\ n.hold = m.hold
    /\ n.queued = m.queued /\ n.started = m.started

LEMMA ModelFields ==
  ASSUME NEW m \in Models
  PROVE  /\ m.inst \in [Existing(m) -> PartInstanceRecord]
         /\ Existing(m) \in SUBSET Nat
         /\ m.mode \in Modes /\ {m.prev, m.cur, m.nxt} \subseteq Nat \cup {None}
         /\ {m.manual, m.consumes, m.started} \subseteq BOOLEAN
         /\ m.hold \in HoldStates /\ m.queued \in Segment \cup {None}
         /\ m.loaded \in SUBSET Nat
  BY DEF Models, Existing

(* Other instances, and what is loaded of them: still a model.               *)
WithInstances(m, f, L) == [m EXCEPT !.inst = f, !.loaded = L]

LEMMA InstancesModel ==
  ASSUME NEW m \in Models, NEW S \in SUBSET Nat, NEW f \in [S -> PartInstanceRecord],
         NEW L \in SUBSET Nat
  PROVE  LET n == WithInstances(m, f, L)
         IN  /\ n \in Models /\ SamePlayhead(m, n)
             /\ n.inst = f /\ Existing(n) = S /\ n.loaded = L
<1>1. f \in UNION {[T -> PartInstanceRecord] : T \in SUBSET Nat}
  OBVIOUS
<1> QED BY <1>1 DEF WithInstances, Models, SamePlayhead, Existing

(* To mark instances as reset changes nothing else of them.                  *)
LEMMA MarkResetEffect ==
  ASSUME NEW m \in Models, NEW S
  PROVE  LET n == MarkReset(m, S)
         IN  /\ n \in Models /\ SamePlayhead(m, n)
             /\ Existing(n) = Existing(m) /\ n.loaded = m.loaded
             /\ \A i \in Existing(m) \ S : n.inst[i] = m.inst[i]
             /\ \A i \in Existing(m) \cap S : n.inst[i].reset
             /\ \A i \in Existing(m) :
                  /\ n.inst[i].part = m.inst[i].part /\ n.inst[i].playable = m.inst[i].playable
                  /\ n.inst[i].taken = m.inst[i].taken /\ n.inst[i].deleted = m.inst[i].deleted
<1> DEFINE f == [i \in Existing(m) |->
                   IF i \in S THEN [m.inst[i] EXCEPT !.reset = TRUE] ELSE m.inst[i]]
<1>1. m.inst \in [Existing(m) -> PartInstanceRecord] /\ Existing(m) \in SUBSET Nat
      /\ m.loaded \in SUBSET Nat
  BY ModelFields
<1>2. f \in [Existing(m) -> PartInstanceRecord]
  BY <1>1 DEF PartInstanceRecord
<1>3. MarkReset(m, S) = WithInstances(m, f, m.loaded)
  BY DEF MarkReset, Models, WithInstances
<1>4. \A i \in Existing(m) :
        /\ f[i].part = m.inst[i].part /\ f[i].playable = m.inst[i].playable
        /\ f[i].taken = m.inst[i].taken /\ f[i].deleted = m.inst[i].deleted
  BY <1>1 DEF PartInstanceRecord
<1>5. /\ \A i \in Existing(m) \ S : f[i] = m.inst[i]
      /\ \A i \in Existing(m) \cap S : f[i].reset
  BY <1>1 DEF PartInstanceRecord
<1> HIDE DEF f
<1> DEFINE n == WithInstances(m, f, m.loaded)
<1>6. /\ n \in Models /\ SamePlayhead(m, n)
      /\ n.inst = f /\ Existing(n) = Existing(m) /\ n.loaded = m.loaded
  BY <1>1, <1>2, InstancesModel
<1> HIDE DEF n
<1> QED BY <1>3, <1>4, <1>5, <1>6 DEF n

(* What is on air and next are not marked.                                   *)
LEMMA MarkResetReady ==
  ASSUME NEW m, NEW S, S \cap {m.cur, m.nxt} = {}, Ready(m)
  PROVE  LET n == MarkReset(m, S)
         IN  /\ Ready(n) /\ (Settled(m) => Settled(n))
             /\ SamePlayhead(m, n)
             /\ Existing(n) = Existing(m) /\ n.loaded = m.loaded
             /\ \A i \in Existing(m) \ S : n.inst[i] = m.inst[i]
             /\ \A i \in Existing(m) : n.inst[i].part = m.inst[i].part
<1> DEFINE n == MarkReset(m, S)
<1>1. m \in Models
  BY DEF Ready, Sound
<1>2. /\ n \in Models /\ SamePlayhead(m, n)
      /\ Existing(n) = Existing(m) /\ n.loaded = m.loaded
      /\ \A i \in Existing(m) : i \notin S => n.inst[i] = m.inst[i]
      /\ \A i \in Existing(m) : n.inst[i].taken = m.inst[i].taken
      /\ \A i \in Existing(m) : n.inst[i].part = m.inst[i].part
  BY <1>1, MarkResetEffect
<1> HIDE DEF n
<1>3. Selected(n) = Selected(m)
  BY <1>2 DEF Selected, SamePlayhead
<1>4. Sound(n)
  BY <1>2, <1>3 DEF Ready, Sound, SamePlayhead, Selected
<1>5. Ready(n)
  BY <1>2, <1>3, <1>4 DEF Ready
<1>6. Settled(m) => Settled(n)
  BY <1>2 DEF Settled, SamePlayhead
<1> QED BY <1>2, <1>5, <1>6 DEF n

(* removeUntakenPartInstances: of what is not selected only the taken stay.  *)
LEMMA RemoveUntakenReady ==
  ASSUME NEW m, Ready(m)
  PROVE  LET n == RemoveUntakenPartInstances(m)
         IN  /\ Ready(n) /\ Settled(n) /\ SamePlayhead(m, n)
             /\ Existing(n) \subseteq Existing(m)
             /\ \A i \in Existing(n) : n.inst[i] = m.inst[i]
<1> DEFINE gone == {i \in OlderInstances(m) : ~m.inst[i].taken}
           keep == Existing(m) \ gone
           S    == Existing(m) \cap keep
           f    == [i \in S |-> m.inst[i]]
           n    == WithInstances(m, f, m.loaded \cap keep)
<1>1. m \in Models
  BY DEF Ready, Sound
<1>2. m.inst \in [Existing(m) -> PartInstanceRecord] /\ Existing(m) \in SUBSET Nat
      /\ m.loaded \in SUBSET Nat
  BY <1>1, ModelFields
<1>3. f \in [S -> PartInstanceRecord] /\ S \in SUBSET Nat /\ m.loaded \cap keep \in SUBSET Nat
  BY <1>2
<1>4. RemoveUntakenPartInstances(m) = n
  BY DEF RemoveUntakenPartInstances, Without, Only, WithInstances
<1>5. \A i \in S : f[i] = m.inst[i]
  OBVIOUS
<1>6. \A i \in Existing(m) : ~m.inst[i].taken => i \in m.loaded
  BY DEF Ready
<1>7. \A i \in S : ~m.inst[i].taken => i \in Selected(m)
  BY <1>6 DEF OlderInstances
<1>8. Selected(m) \subseteq m.loaded \cap keep /\ m.loaded \cap keep \subseteq S
  BY DEF Ready, Sound, OlderInstances
<1>9. S \subseteq Existing(m)
  OBVIOUS
<1>10. \A i \in S : i \in m.loaded => i \in m.loaded \cap keep
  OBVIOUS
<1> HIDE DEF gone, keep, S, f
<1>11. /\ n \in Models /\ SamePlayhead(m, n)
       /\ n.inst = f /\ Existing(n) = S /\ n.loaded = m.loaded \cap keep
  BY <1>1, <1>3, InstancesModel
<1> HIDE DEF n
<1>12. Selected(n) = Selected(m) /\ n.cur = m.cur /\ n.nxt = m.nxt /\ n.prev = m.prev
  BY <1>11 DEF Selected, SamePlayhead
<1>13. Sound(n)
  <2>1. \E b \in Nat : Existing(n) \subseteq 0 .. b
    BY <1>9, <1>11 DEF Ready, Sound
  <2>2. Selected(n) \subseteq Existing(n)
    BY <1>8, <1>11, <1>12
  <2>3. \A i \in Selected(n) : n.inst[i] = m.inst[i]
    BY <2>2, <1>5, <1>11
  <2> QED BY <2>1, <2>2, <2>3, <1>11, <1>12 DEF Ready, Sound, Selected
<1>14. Ready(n)
  BY <1>5, <1>6, <1>8, <1>9, <1>10, <1>11, <1>12, <1>13 DEF Ready
<1>15. Settled(n)
  BY <1>5, <1>7, <1>11, <1>12 DEF Settled, Selected, Ready, Sound
<1> QED BY <1>4, <1>5, <1>9, <1>11, <1>14, <1>15

-----------------------------------------------------------------------------
(* setNextPart: the choice of the next instance.                             *)

(* What holds of a model whatever is next in it.                             *)
Behind(m) ==
    /\ m \in Models
    /\ \E n \in Nat : Existing(m) \subseteq 0 .. n
    /\ {m.cur, m.prev} \ {None} \subseteq m.loaded /\ m.loaded \subseteq Existing(m)
    /\ m.cur # None => ~m.inst[m.cur].reset /\ m.cur # m.prev
    /\ \A i \in {m.cur, m.prev} \ {None} : m.inst[i].taken
    /\ \A i \in Existing(m) : ~m.inst[i].taken => i \in m.loaded

(* What may be next.                                                         *)
Fits(m, i) == i \in m.loaded /\ ~m.inst[i].reset /\ ~m.inst[i].taken

LEMMA ReadyIsBehind ==
  ASSUME NEW m
  PROVE  Ready(m) <=> Behind(m) /\ (m.nxt # None => Fits(m, m.nxt))
BY DEF Ready, Sound, Behind, Fits, Selected

(* An id for a new instance is not used.                                     *)
LEMMA NewIdIsNew ==
  ASSUME NEW m, NEW b \in Nat, Existing(m) \subseteq 0 .. b
  PROVE  /\ NewId(m) \in Nat \ Existing(m)
         /\ \E n \in Nat : Existing(m) \cup {NewId(m)} \subseteq 0 .. n
<1>1. CASE Existing(m) = {}
  <2>1. NewId(m) = 1
    BY <1>1 DEF NewId
  <2>2. {1} \subseteq 0 .. 1
    OBVIOUS
  <2> QED BY <1>1, <2>1, <2>2
<1>2. CASE Existing(m) # {}
  <2> DEFINE S == Existing(m)
             l == Last(S)
  <2>1. NewId(m) = l + 1
    BY <1>2 DEF NewId
  <2>2. l \in S /\ \A j \in S : j <= l
    BY <1>2, LastIsThere
  <2> HIDE DEF l
  <2>3. l \in Nat /\ \A j \in S : j \in Nat
    BY <2>2
  <2>4. l + 1 \notin S
    BY <2>2, <2>3
  <2>5. S \cup {l + 1} \subseteq 0 .. l + 1
    BY <2>2, <2>3
  <2>6. l + 1 \in Nat
    BY <2>3
  <2> QED BY <2>1, <2>4, <2>5, <2>6
<1> QED BY <1>1, <1>2

(* A new instance of a Part can be next.                                     *)
LEMMA CreatedFits ==
  ASSUME NEW m, Behind(m), NEW p \in Part
  PROVE  LET i == NewId(m)
             n == CreateInstanceForPart(m, i, p)
         IN  /\ Behind(n) /\ Fits(n, i) /\ SamePlayhead(m, n)
             /\ i \in Nat \ Existing(m)
             /\ Existing(n) = Existing(m) \cup {i}
             /\ n.loaded = m.loaded \cup {i}
             /\ \A j \in Existing(m) : n.inst[j] = m.inst[j]
             /\ n.inst[i].part = p /\ n.inst[i].playable /\ ~n.inst[i].deleted
<1> DEFINE i == NewId(m)
           S == Existing(m) \cup {i}
           new == [part |-> p, playable |-> TRUE, taken |-> FALSE, reset |-> FALSE,
                   deleted |-> FALSE]
           f == [j \in S |-> IF j = i THEN new ELSE m.inst[j]]
           n == WithInstances(m, f, m.loaded \cup {i})
<1>1. m \in Models
  BY DEF Behind
<1>2. /\ m.inst \in [Existing(m) -> PartInstanceRecord]
      /\ Existing(m) \in SUBSET Nat /\ m.loaded \in SUBSET Nat
  BY <1>1, ModelFields
<1>3. i \in Nat \ Existing(m) /\ \E b \in Nat : S \subseteq 0 .. b
  BY NewIdIsNew DEF Behind
<1>4. CreateInstanceForPart(m, i, p) = n
  BY DEF CreateInstanceForPart, WithInstances
<1>5. /\ new.part = p /\ new.playable /\ ~new.taken /\ ~new.reset /\ ~new.deleted
      /\ new \in PartInstanceRecord
  BY DEF PartInstanceRecord
<1> HIDE DEF i, new
<1>6. f \in [S -> PartInstanceRecord] /\ S \in SUBSET Nat
  BY <1>2, <1>3, <1>5
<1>7. f[i] = new /\ \A j \in Existing(m) : f[j] = m.inst[j]
  BY <1>3
<1> HIDE DEF f
<1>8. m.loaded \cup {i} \in SUBSET Nat
  BY <1>2, <1>3
<1>9. /\ n \in Models /\ SamePlayhead(m, n)
      /\ n.inst = f /\ Existing(n) = S /\ n.loaded = m.loaded \cup {i}
  BY <1>1, <1>6, <1>8, InstancesModel
<1> HIDE DEF n
<1>10. Fits(n, i)
  BY <1>5, <1>7, <1>9 DEF Fits
<1>11. \A j \in {n.cur, n.prev} \ {None} : j \in Existing(m) /\ n.inst[j] = m.inst[j]
  BY <1>7, <1>9 DEF Behind, SamePlayhead
<1>12. Behind(n)
  BY <1>3, <1>5, <1>7, <1>9, <1>11 DEF Behind, SamePlayhead
<1> QED BY <1>3, <1>4, <1>5, <1>7, <1>9, <1>10, <1>12 DEF i

(* To mark what is not on air changes nothing of that.                       *)
LEMMA MarkResetBehind ==
  ASSUME NEW m, NEW S, m.cur \notin S, Behind(m)
  PROVE  Behind(MarkReset(m, S))
<1> DEFINE n == MarkReset(m, S)
<1>1. m \in Models
  BY DEF Behind
<1>2. /\ n \in Models /\ SamePlayhead(m, n)
      /\ Existing(n) = Existing(m) /\ n.loaded = m.loaded
      /\ \A i \in Existing(m) \ S : n.inst[i] = m.inst[i]
      /\ \A i \in Existing(m) : n.inst[i].taken = m.inst[i].taken
  BY <1>1, MarkResetEffect
<1> HIDE DEF n
<1>3. m.cur # None => n.inst[m.cur] = m.inst[m.cur]
  BY <1>2 DEF Behind
<1>4. Behind(n)
  BY <1>2, <1>3 DEF Behind, SamePlayhead
<1> QED BY <1>4 DEF n

(* What setNextPart leaves alone: all of the playhead but the next instance, *)
(* and the Parts of the instances.                                           *)
OnlyNextMoves(m, n) ==
    /\ n.mode = m.mode /\ n.prev = m.prev /\ n.cur = m.cur /\ n.hold = m.hold
    /\ n.queued = m.queued /\ n.started = m.started
    /\ m.cur # None => n.inst[m.cur].part = m.inst[m.cur].part
    /\ m.prev # None => n.inst[m.prev].part = m.inst[m.prev].part

(* ... and the instance that is next afterwards: none, or one of the chosen  *)
(* Part, which is the one that was next or is as good as new.                *)
NextIsChosen(m, n, choice, manual) ==
    /\ choice.part = None => n.nxt = None
    /\ choice.part # None =>
         /\ n.nxt # None
         /\ n.inst[n.nxt].part = choice.part
         /\ n.consumes = choice.consumes
         /\ n.manual = (manual \/ n.inst[n.nxt].deleted)
         /\ \/ /\ n.nxt = m.nxt /\ m.inst[m.nxt].part = choice.part
               /\ n.inst[n.nxt].playable = m.inst[m.nxt].playable
               /\ n.inst[n.nxt].deleted = m.inst[m.nxt].deleted
            \/ n.inst[n.nxt].playable /\ ~n.inst[n.nxt].deleted

LEMMA SetNothingReady ==
  ASSUME NEW m, Behind(m)
  PROVE  LET n == SetNothingAsNext(m)
         IN  /\ Ready(n) /\ OnlyNextMoves(m, n) /\ n.nxt = None
             /\ Existing(n) = Existing(m) /\ n.inst = m.inst
<1> DEFINE n == SetNothingAsNext(m)
<1>1. /\ n \in Models /\ n.nxt = None /\ n.inst = m.inst /\ n.loaded = m.loaded
      /\ n.mode = m.mode /\ n.prev = m.prev /\ n.cur = m.cur /\ n.hold = m.hold
      /\ n.queued = m.queued /\ n.started = m.started
  BY DEF Behind, Models, SetNothingAsNext
<1> HIDE DEF n
<1>2. Existing(n) = Existing(m)
  BY <1>1 DEF Existing
<1>3. Behind(n)
  BY <1>1, <1>2 DEF Behind
<1>4. Ready(n)
  BY <1>1, <1>3, ReadyIsBehind
<1>5. OnlyNextMoves(m, n)
  BY <1>1 DEF OnlyNextMoves
<1> QED BY <1>1, <1>2, <1>4, <1>5 DEF n

LEMMA SetAsNextReady ==
  ASSUME NEW m, Behind(m), NEW i, Fits(m, i), NEW manual \in BOOLEAN, NEW consumes \in BOOLEAN
  PROVE  LET n == SetPartInstanceAsNext(m, i, manual, consumes)
         IN  /\ Ready(n) /\ OnlyNextMoves(m, n) /\ n.nxt = i
             /\ n.inst = m.inst /\ n.consumes = consumes
             /\ n.manual = (manual \/ m.inst[i].deleted)
<1> DEFINE d == m.inst[i].deleted
           n == SetPartInstanceAsNext(m, i, manual, consumes)
<1>1. m \in Models /\ i \in Nat /\ i \in Existing(m)
  BY DEF Behind, Fits, Models
<1>2. d \in BOOLEAN
  BY <1>1, ModelFields DEF PartInstanceRecord
<1>3. n = [m EXCEPT !.nxt = i, !.manual = manual \/ d, !.consumes = consumes]
  BY DEF SetPartInstanceAsNext
<1> HIDE DEF d, n
<1>4. /\ n \in Models /\ n.nxt = i /\ n.inst = m.inst /\ n.loaded = m.loaded
      /\ n.mode = m.mode /\ n.prev = m.prev /\ n.cur = m.cur /\ n.hold = m.hold
      /\ n.queued = m.queued /\ n.started = m.started /\ n.consumes = consumes
      /\ n.manual = (manual \/ d)
  BY <1>1, <1>2, <1>3 DEF Models
<1>5. Existing(n) = Existing(m)
  BY <1>4 DEF Existing
<1>6. Behind(n) /\ Fits(n, i)
  BY <1>4, <1>5 DEF Behind, Fits
<1>7. Ready(n)
  BY <1>4, <1>6, ReadyIsBehind
<1>8. OnlyNextMoves(m, n)
  BY <1>4 DEF OnlyNextMoves
<1> QED BY <1>4, <1>7, <1>8 DEF n, d

(* The instance of the chosen Part is the next one, or a new one; the others *)
(* of the Part are reset.                                                    *)
LEMMA ChooseNextReady ==
  ASSUME NEW m, Ready(m), NEW choice \in Choices, NEW manual \in BOOLEAN
  PROVE  LET n == ChooseNext(m, choice, manual)
         IN  Ready(n) /\ OnlyNextMoves(m, n) /\ NextIsChosen(m, n, choice, manual)
<1>1. Behind(m) /\ (m.nxt # None => Fits(m, m.nxt))
  BY ReadyIsBehind
<1>2. CASE choice.part = None
  BY <1>1, <1>2, SetNothingReady DEF ChooseNext, NextIsChosen
<1>3. CASE choice.part # None
  <2> DEFINE p    == choice.part
             i    == NextInstance(m, p)
             with == IF i \in Existing(m) THEN m ELSE CreateInstanceForPart(m, i, p)
             S    == PreviousInstancesOfPart(with, i)
             w    == MarkReset(with, S)
             n    == SetPartInstanceAsNext(w, i, manual, choice.consumes)
  <2>1. ChooseNext(m, choice, manual) = n
    BY <1>3 DEF ChooseNext
  <2>2. p \in Part /\ choice.consumes \in BOOLEAN
    BY <1>3 DEF Choices
  <2>3. /\ Behind(with) /\ Fits(with, i) /\ SamePlayhead(m, with)
        /\ Existing(m) \subseteq Existing(with)
        /\ \A j \in Existing(m) : with.inst[j] = m.inst[j]
        /\ with.inst[i].part = p
        /\ \/ i = m.nxt /\ m.inst[m.nxt].part = p /\ with.inst[i] = m.inst[m.nxt]
           \/ with.inst[i].playable /\ ~with.inst[i].deleted
    <3>1. CASE Found(m, m.nxt) # None /\ PartOf(m, m.nxt) = p
      <4>1. i = m.nxt /\ i \in Existing(m) /\ i # None
        BY <3>1 DEF NextInstance, Found
      <4>2. with = m
        BY <4>1
      <4> QED BY <1>1, <3>1, <4>1, <4>2 DEF PartOf, SamePlayhead
    <3>2. CASE ~(Found(m, m.nxt) # None /\ PartOf(m, m.nxt) = p)
      <4>1. i = NewId(m)
        BY <3>2 DEF NextInstance
      <4>2. i \notin Existing(m)
        BY <1>1, <4>1, NewIdIsNew DEF Behind
      <4>3. with = CreateInstanceForPart(m, NewId(m), p)
        BY <4>1, <4>2
      <4> HIDE DEF with, i
      <4> QED BY <1>1, <2>2, <4>1, <4>3, CreatedFits
    <3> QED BY <3>1, <3>2
  <2>4. S \cap {i, with.cur, with.prev} = {}
    BY DEF PreviousInstancesOfPart
  <2> HIDE DEF p, i, with, S
  <2>5. with \in Models
    BY <2>3 DEF Behind
  <2>6. /\ SamePlayhead(with, w) /\ Existing(w) = Existing(with) /\ w.loaded = with.loaded
        /\ \A j \in Existing(with) \ S : w.inst[j] = with.inst[j]
        /\ \A j \in Existing(with) : w.inst[j].part = with.inst[j].part
    BY <2>5, MarkResetEffect
  <2>7. Behind(w)
    BY <2>3, <2>4, MarkResetBehind
  <2> HIDE DEF w
  <2>8. i \in Existing(with) \ S
    BY <2>3, <2>4 DEF Fits, Behind
  <2>9. Fits(w, i) /\ w.inst[i] = with.inst[i]
    BY <2>3, <2>6, <2>8 DEF Fits
  <2>10. /\ Ready(n) /\ OnlyNextMoves(w, n) /\ n.nxt = i
         /\ n.inst = w.inst /\ n.consumes = choice.consumes
         /\ n.manual = (manual \/ w.inst[i].deleted)
    BY <2>2, <2>7, <2>9, SetAsNextReady
  <2> HIDE DEF n
  <2>11. \A j \in {m.cur, m.prev} \ {None} : j \in Existing(m)
    BY <1>1 DEF Behind
  <2>12. OnlyNextMoves(m, n)
    BY <2>3, <2>6, <2>10, <2>11 DEF OnlyNextMoves, SamePlayhead
  <2>13. i # None
    BY <2>8, <2>5, ModelFields, PlayoutAssumption
  <2>14. NextIsChosen(m, n, choice, manual)
    BY <1>3, <2>3, <2>9, <2>10, <2>13 DEF NextIsChosen, p
  <2> QED BY <2>1, <2>10, <2>12, <2>14
<1> QED BY <1>2, <1>3

(* The three cleanups after the choice leave what is on air and next, and of *)
(* what was before at least its Part.                                        *)
Cleaned(m, n) ==
    /\ Ready(n) /\ (Settled(m) => Settled(n)) /\ SamePlayhead(m, n)
    /\ \A i \in {m.cur, m.nxt} \ {None} : n.inst[i] = m.inst[i]
    /\ m.prev # None => n.inst[m.prev].part = m.inst[m.prev].part

LEMMA MarkResetCleans ==
  ASSUME NEW m, Ready(m), NEW S, S \cap {m.cur, m.nxt} = {}
  PROVE  Cleaned(m, MarkReset(m, S))
<1>1. /\ \A i \in {m.cur, m.nxt} \ {None} : i \in Existing(m) \ S
      /\ m.prev # None => m.prev \in Existing(m)
  BY DEF Ready, Sound, Selected
<1> QED BY <1>1, MarkResetReady DEF Cleaned

LEMMA RemoveUntakenCleans ==
  ASSUME NEW m, Ready(m)
  PROVE  Cleaned(m, RemoveUntakenPartInstances(m)) /\ Settled(RemoveUntakenPartInstances(m))
<1> DEFINE n == RemoveUntakenPartInstances(m)
<1>1. /\ Ready(n) /\ Settled(n) /\ SamePlayhead(m, n)
      /\ \A i \in Existing(n) : n.inst[i] = m.inst[i]
  BY RemoveUntakenReady
<1> HIDE DEF n
<1>2. \A i \in {m.cur, m.nxt, m.prev} \ {None} : i \in Existing(n)
  BY <1>1 DEF Ready, Sound, Selected, SamePlayhead
<1>3. Cleaned(m, n) /\ Settled(n)
  BY <1>1, <1>2 DEF Cleaned
<1> QED BY <1>3 DEF n

LEMMA ChangingSegmentCleans ==
  ASSUME NEW m, Ready(m)
  PROVE  Cleaned(m, ResetPartInstancesWhenChangingSegment(m))
<1>1. (TrailingInOldSegment(m) \cup NewSegmentParts(m)) \cap {m.cur, m.nxt} = {}
  BY DEF TrailingInOldSegment, NewSegmentParts
<1>2. Cleaned(m, MarkReset(m, TrailingInOldSegment(m) \cup NewSegmentParts(m)))
  BY <1>1, MarkResetCleans
<1>3. Cleaned(m, m)
  BY DEF Cleaned, SamePlayhead
<1> QED BY <1>2, <1>3 DEF ResetPartInstancesWhenChangingSegment

LEMMA OrphansCleaned ==
  ASSUME NEW m, Ready(m)
  PROVE  Cleaned(m, CleanupOrphanedItems(m))
<1>1. {i \in m.loaded \ {m.cur, m.nxt} : m.inst[i].deleted} \cap {m.cur, m.nxt} = {}
  OBVIOUS
<1> QED BY <1>1, MarkResetCleans DEF CleanupOrphanedItems

(* setNextPart: the chosen instance is next, what is on air stays, and no    *)
(* instance but the next one is left that was never taken.                   *)
LEMMA SetNextPartReady ==
  ASSUME NEW m, Ready(m), NEW choice \in Choices, NEW manual \in BOOLEAN
  PROVE  LET n == SetNextPart(m, choice, manual)
         IN  /\ Ready(n) /\ Settled(n)
             /\ OnlyNextMoves(m, n) /\ NextIsChosen(m, n, choice, manual)
<1> DEFINE m1 == ChooseNext(m, choice, manual)
           m2 == RemoveUntakenPartInstances(m1)
           m3 == ResetPartInstancesWhenChangingSegment(m2)
           n  == CleanupOrphanedItems(m3)
<1>1. SetNextPart(m, choice, manual) = n
  BY DEF SetNextPart
<1>2. Ready(m1) /\ OnlyNextMoves(m, m1) /\ NextIsChosen(m, m1, choice, manual)
  BY ChooseNextReady
<1> HIDE DEF m1
<1>3. Cleaned(m1, m2) /\ Settled(m2) /\ Ready(m2)
  BY <1>2, RemoveUntakenCleans DEF Cleaned
<1> HIDE DEF m2
<1>4. Cleaned(m2, m3) /\ Settled(m3) /\ Ready(m3)
  BY <1>3, ChangingSegmentCleans DEF Cleaned
<1> HIDE DEF m3
<1>5. Cleaned(m3, n) /\ Settled(n) /\ Ready(n)
  BY <1>4, OrphansCleaned DEF Cleaned
<1> HIDE DEF n
<1>6. /\ SamePlayhead(m1, n) /\ \A i \in {m1.cur, m1.nxt} \ {None} : n.inst[i] = m1.inst[i]
      /\ m1.prev # None => n.inst[m1.prev].part = m1.inst[m1.prev].part
  BY <1>3, <1>4, <1>5 DEF Cleaned, SamePlayhead
<1>7. OnlyNextMoves(m, n)
  BY <1>2, <1>6 DEF OnlyNextMoves, SamePlayhead
<1>8. NextIsChosen(m, n, choice, manual)
  BY <1>2, <1>6 DEF NextIsChosen, SamePlayhead
<1> QED BY <1>1, <1>5, <1>7, <1>8

-----------------------------------------------------------------------------
(* The save: the instances that stay are numbered anew.                      *)

Renumbered(m) ==
    [m EXCEPT !.prev = Number(m, @), !.cur = Number(m, @), !.nxt = Number(m, @),
              !.inst = [k \in Numbered(m, Kept(m)) |->
                           m.inst[CHOOSE i \in Kept(m) : Number(m, i) = k]],
              !.loaded = {}]

(* The numbers of two instances that stay are in the order of the instances. *)
LEMMA NumberIsMonotonic ==
  ASSUME NEW m, Sound(m), NEW i \in Kept(m)
  PROVE  /\ Number(m, i) \in 0 .. Cardinality(Kept(m)) /\ Cardinality(Kept(m)) \in Nat
         /\ \A k \in Kept(m) : i < k => Number(m, i) < Number(m, k)
<1> DEFINE K == Kept(m)
           Upto(k) == {j \in K : j <= k}
<1>1. PICK b \in Nat : Existing(m) \subseteq 0 .. b
  BY DEF Sound
<1>2. K \subseteq 0 .. b
  BY <1>1 DEF Kept
<1>3. IsFiniteSet(K)
  <2>1. IsFiniteSet(0 .. b)
    BY FS_Interval
  <2> QED BY <1>2, <2>1, FS_Subset
<1>4. Cardinality(K) \in Nat
  BY <1>3, FS_CardinalityType
<1>5. ASSUME NEW k \in K
      PROVE  /\ Number(m, k) = Cardinality(Upto(k)) /\ IsFiniteSet(Upto(k))
             /\ Cardinality(Upto(k)) \in Nat /\ Cardinality(Upto(k)) <= Cardinality(K)
  <2>1. k # None
    BY <1>2, PlayoutAssumption
  <2>2. Upto(k) \in SUBSET K
    OBVIOUS
  <2>3. IsFiniteSet(Upto(k)) /\ Cardinality(Upto(k)) <= Cardinality(K)
    BY <1>3, <2>2, FS_Subset
  <2> QED BY <2>1, <2>3, FS_CardinalityType DEF Number
<1>6. ASSUME NEW k \in K, i < k PROVE Number(m, i) < Number(m, k)
  <2>1. i \in Nat /\ k \in Nat /\ \A j \in K : j \in Nat
    BY <1>2
  <2>2. Upto(i) \in SUBSET Upto(k)
    <3>1. \A j \in K : j <= i => j <= k
      BY <2>1, <1>6
    <3> QED BY <3>1
  <2>3. k \in Upto(k) /\ k \notin Upto(i)
    BY <2>1, <1>6
  <2>4. Upto(i) # Upto(k)
    BY <2>3
  <2> HIDE DEF Upto
  <2>5. Cardinality(Upto(i)) <= Cardinality(Upto(k)) /\ Cardinality(Upto(k)) # Cardinality(Upto(i))
    BY <1>5, <2>2, <2>4, FS_Subset
  <2> QED BY <1>5, <2>5
<1>7. Number(m, i) \in 0 .. Cardinality(K)
  <2> HIDE DEF Upto
  <2> QED BY <1>4, <1>5
<1> QED BY <1>4, <1>6, <1>7

LEMMA NumberIsInjective ==
  ASSUME NEW m, Sound(m), NEW i \in Kept(m), NEW k \in Kept(m), Number(m, i) = Number(m, k)
  PROVE  i = k
<1>1. i \in Nat /\ k \in Nat
  BY DEF Kept, Sound
<1>2. /\ Number(m, i) \in Nat /\ Number(m, k) \in Nat
      /\ i < k => Number(m, i) < Number(m, k)
      /\ k < i => Number(m, k) < Number(m, i)
  BY NumberIsMonotonic
<1> QED BY <1>1, <1>2

LEMMA SelectedIsKept ==
  ASSUME NEW m, Sound(m)
  PROVE  Selected(m) \subseteq Kept(m)
BY DEF Sound, Selected, Kept

LEMMA NoneHasNoNumber ==
  ASSUME NEW m, Sound(m)
  PROVE  Number(m, None) = None
<1>1. None \notin Kept(m)
  BY PlayoutAssumption, ModelFields DEF Sound, Kept
<1> QED BY <1>1 DEF Number

(* Whatever has a number is the same after the save.                         *)
LEMMA RenumberedEffect ==
  ASSUME NEW m, Sound(m)
  PROVE  LET n == Renumbered(m)
         IN  /\ n \in Models /\ n.loaded = {}
             /\ n.mode = m.mode /\ n.manual = m.manual /\ n.consumes = m.consumes
             /\ n.hold = m.hold /\ n.queued = m.queued /\ n.started = m.started
             /\ n.prev = Number(m, m.prev) /\ n.cur = Number(m, m.cur) /\ n.nxt = Number(m, m.nxt)
             /\ Existing(n) = Numbered(m, Kept(m))
             /\ \A i \in Kept(m) : Number(m, i) \in Existing(n) /\ n.inst[Number(m, i)] = m.inst[i]
             /\ Existing(n) \subseteq 0 .. Cardinality(Kept(m)) /\ Cardinality(Kept(m)) \in Nat
<1> DEFINE K == Kept(m)
           N == Numbered(m, K)
           Back(k) == CHOOSE i \in K : Number(m, i) = k
           f == [k \in N |-> m.inst[Back(k)]]
           n == Renumbered(m)
<1>1. m \in Models
  BY DEF Sound
<1>2. m.inst \in [Existing(m) -> PartInstanceRecord] /\ K \subseteq Existing(m)
  BY <1>1, ModelFields DEF Kept
<1>3. \A i \in K : Number(m, i) \in N /\ Back(Number(m, i)) = i
  BY NumberIsInjective DEF Numbered
<1>4. \A k \in N : \E i \in K : k = Number(m, i)
  BY DEF Numbered
<1>5. Cardinality(K) \in Nat /\ N \subseteq 0 .. Cardinality(K)
  <2>1. \A i \in K : Number(m, i) \in 0 .. Cardinality(K) /\ Cardinality(K) \in Nat
    BY NumberIsMonotonic
  <2>2. CASE K = {}
    BY <2>2, <1>4, FS_EmptySet
  <2>3. CASE K # {}
    BY <2>1, <2>3, <1>4
  <2> QED BY <2>2, <2>3
<1>6. f \in [N -> PartInstanceRecord] /\ N \in SUBSET Nat
  BY <1>2, <1>3, <1>4, <1>5
<1>7. \A i \in K : f[Number(m, i)] = m.inst[i]
  BY <1>3
<1>8. n = [m EXCEPT !.prev = Number(m, m.prev), !.cur = Number(m, m.cur),
                    !.nxt = Number(m, m.nxt), !.inst = f, !.loaded = {}]
  BY <1>1 DEF Renumbered, Models
<1>9. {Number(m, m.prev), Number(m, m.cur), Number(m, m.nxt)} \subseteq Nat \cup {None}
  <2>1. \A i \in Selected(m) : Number(m, i) \in Nat
    BY SelectedIsKept, NumberIsMonotonic
  <2>2. Number(m, None) = None
    BY NoneHasNoNumber
  <2> QED BY <2>1, <2>2 DEF Selected
<1> HIDE DEF f, n, Back
<1>10. f \in UNION {[T -> PartInstanceRecord] : T \in SUBSET Nat}
  BY <1>6
<1>11. /\ n \in Models /\ n.loaded = {} /\ n.inst = f
       /\ n.mode = m.mode /\ n.manual = m.manual /\ n.consumes = m.consumes
       /\ n.hold = m.hold /\ n.queued = m.queued /\ n.started = m.started
       /\ n.prev = Number(m, m.prev) /\ n.cur = Number(m, m.cur) /\ n.nxt = Number(m, m.nxt)
  BY <1>1, <1>8, <1>9, <1>10 DEF Models
<1>12. Existing(n) = N
  BY <1>6, <1>11 DEF Existing
<1> QED BY <1>3, <1>5, <1>7, <1>11, <1>12 DEF n

(* What is selected has another number after a save, and is the same.        *)
LEMMA RenumberedPlayhead ==
  ASSUME NEW m, Sound(m)
  PROVE  LET n == Renumbered(m)
         IN  /\ n.cur = None <=> m.cur = None
             /\ n.nxt = None <=> m.nxt = None
             /\ n.prev = None <=> m.prev = None
             /\ m.cur # None => n.inst[n.cur] = m.inst[m.cur]
             /\ m.nxt # None => n.inst[n.nxt] = m.inst[m.nxt]
             /\ m.prev # None => n.inst[n.prev] = m.inst[m.prev]
             /\ \A i \in Selected(m) : i \in Kept(m) /\ Number(m, i) # None
<1> DEFINE n == Renumbered(m)
<1>1. /\ n.prev = Number(m, m.prev) /\ n.cur = Number(m, m.cur) /\ n.nxt = Number(m, m.nxt)
      /\ \A i \in Kept(m) : Number(m, i) \in Existing(n) /\ n.inst[Number(m, i)] = m.inst[i]
  BY RenumberedEffect
<1> HIDE DEF n
<1>2. Selected(m) \subseteq Kept(m)
  BY SelectedIsKept
<1>3. \A i \in Kept(m) : Number(m, i) \in Nat
  BY NumberIsMonotonic
<1>4. Number(m, None) = None /\ \A i \in Selected(m) : i \in Kept(m) /\ Number(m, i) # None
  BY <1>2, <1>3, NoneHasNoNumber, PlayoutAssumption
<1> QED BY <1>1, <1>4 DEF Selected, n

(* A save keeps the playhead as it is.                                       *)
LEMMA SaveKeeps ==
  ASSUME NEW m, Saved(m)
  PROVE  LET n == Renumbered(m)
         IN  /\ Saved(n) /\ n.loaded = {}
             /\ Numbered(m, Reportable(m)) = Reportable(n)
<1> DEFINE n == Renumbered(m)
<1>1. Sound(m) /\ Settled(m) /\ Restful(m) /\ Offered(m)
  BY DEF Saved, Steady
<1>2. /\ n \in Models /\ n.loaded = {}
      /\ n.mode = m.mode /\ n.hold = m.hold /\ n.queued = m.queued
      /\ n.prev = Number(m, m.prev) /\ n.cur = Number(m, m.cur) /\ n.nxt = Number(m, m.nxt)
      /\ Existing(n) = Numbered(m, Kept(m))
      /\ \A i \in Kept(m) : Number(m, i) \in Existing(n) /\ n.inst[Number(m, i)] = m.inst[i]
      /\ \E b \in Nat : Existing(n) \subseteq 0 .. b
  BY <1>1, RenumberedEffect
<1> HIDE DEF n
<1>3. Number(m, None) = None /\ \A i \in Selected(m) : i \in Kept(m) /\ Number(m, i) # None
  BY <1>1, RenumberedPlayhead, NoneHasNoNumber
<1>4. Selected(n) = {Number(m, i) : i \in Selected(m)}
  BY <1>2, <1>3 DEF Selected
<1>5. \A i, k \in Kept(m) : Number(m, i) = Number(m, k) => i = k
  BY <1>1, NumberIsInjective
<1>6. /\ n.cur = None <=> m.cur = None
      /\ n.nxt = None <=> m.nxt = None
      /\ n.prev = None <=> m.prev = None
      /\ m.cur # None => n.inst[n.cur] = m.inst[m.cur]
      /\ m.nxt # None => n.inst[n.nxt] = m.inst[m.nxt]
      /\ m.prev # None => n.inst[n.prev] = m.inst[m.prev]
  BY <1>1, RenumberedPlayhead DEF n
<1>7. Sound(n)
  <2>1. Selected(n) \subseteq Existing(n)
    BY <1>2, <1>3, <1>4
  <2>2. n.cur # None => n.cur # n.prev
    BY <1>1, <1>2, <1>3, <1>5, <1>6 DEF Sound, Selected
  <2> QED BY <1>1, <1>2, <1>6, <2>1, <2>2 DEF Sound
<1>8. Settled(n)
  <2> SUFFICES ASSUME NEW k \in Existing(n) \ {n.nxt} PROVE n.inst[k].taken
    BY DEF Settled
  <2>1. PICK i \in Kept(m) : k = Number(m, i)
    BY <1>2 DEF Numbered
  <2>2. i # m.nxt /\ i \in Existing(m)
    BY <1>2, <2>1 DEF Kept
  <2> QED BY <1>1, <1>2, <2>1, <2>2 DEF Settled
<1>9. Restful(n)
  <2>1. Selected(m) = {} => Selected(n) = {}
    BY <1>4
  <2> QED BY <1>1, <1>2, <1>6, <2>1 DEF Restful
<1>10. Numbered(m, Reportable(m)) = Reportable(n)
  <2>1. Reportable(m) = {m.cur, m.nxt} \ {None}
    BY <1>1, ModelFields, PlayoutAssumption DEF Reportable, Sound, Selected
  <2>2. Reportable(n) = {n.cur, n.nxt} \ {None}
    BY <1>7, ModelFields, PlayoutAssumption DEF Reportable, Sound, Selected
  <2> QED BY <2>1, <2>2, <1>2, <1>6 DEF Numbered
<1>11. Offered(n)
  BY <1>1, <1>6 DEF Offered, PartOf
<1> QED BY <1>2, <1>7, <1>8, <1>9, <1>10, <1>11 DEF n, Saved, Steady

LEMMA SaveAndUpdateTimelineKeeps ==
  ASSUME NEW m, Saved(m), SaveAndUpdateTimeline(m)
  PROVE  /\ model' = Renumbered(m) /\ Saved(model') /\ model'.loaded = {}
         /\ timeline' \subseteq Reportable(model')
<1>1. model' = Renumbered(m)
  BY DEF SaveAndUpdateTimeline, Save, Renumbered
<1>2. PICK late \in BOOLEAN : timeline' = Numbered(m, GatewayHas(m, late))
  BY DEF SaveAndUpdateTimeline
<1>3. GatewayHas(m, late) \subseteq Reportable(m)
  BY DEF GatewayHas
<1>4. timeline' \subseteq Numbered(m, Reportable(m))
  BY <1>2, <1>3 DEF Numbered
<1> QED BY <1>1, <1>4, SaveKeeps

LEMMA SaveOnlyKeeps ==
  ASSUME NEW m, Saved(m), SaveOnly(m)
  PROVE  /\ model' = Renumbered(m) /\ Saved(model') /\ model'.loaded = {}
         /\ timeline' \subseteq Reportable(model')
<1>1. model' = Renumbered(m)
  BY DEF SaveOnly, Save, Renumbered
<1>2. timeline' \subseteq Numbered(m, Reportable(m))
  BY DEF SaveOnly, Numbered
<1> QED BY <1>1, <1>2, SaveKeeps

-----------------------------------------------------------------------------
(* The parts of the jobs.                                                    *)

SameInstances(m, n) ==
    /\ n.prev = m.prev /\ n.cur = m.cur /\ n.nxt = m.nxt
    /\ n.inst = m.inst /\ n.loaded = m.loaded

LEMMA SameInstancesReady ==
  ASSUME NEW m, NEW n \in Models, SameInstances(m, n)
  PROVE  (Ready(m) => Ready(n)) /\ (Settled(m) => Settled(n)) /\ (Offered(m) => Offered(n))
<1>1. Existing(n) = Existing(m) /\ Selected(n) = Selected(m)
  BY DEF SameInstances, Existing, Selected
<1> QED BY <1>1 DEF SameInstances, Ready, Sound, Settled, Offered, PartOf

(* A selected instance is found.                                             *)
LEMMA SelectedIsFound ==
  ASSUME NEW m, Sound(m)
  PROVE  Found(m, m.cur) = m.cur /\ Found(m, m.nxt) = m.nxt
BY ModelFields, PlayoutAssumption DEF Found, Sound, Selected

(* A job begins with the saved model.                                        *)
LEMMA LoadReady ==
  ASSUME NEW m, Steady(m)
  PROVE  LET n == Load(m)
         IN  /\ Ready(n) /\ Steady(n) /\ (Saved(m) => Saved(n))
             /\ SamePlayhead(m, n) /\ n.inst = m.inst
             /\ Existing(n) = Existing(m)
<1> DEFINE S == Selected(m) \cap Existing(m)
           L == {i \in Existing(m) :
                   \/ i \in S
                   \/ /\ ~m.inst[i].reset
                      /\ \E j \in S : SegmentAt(m, i) = SegmentAt(m, j)}
           n == WithInstances(m, m.inst, L)
<1>1. m \in Models
  BY DEF Steady, Sound
<1>2. m.inst \in [Existing(m) -> PartInstanceRecord] /\ Existing(m) \in SUBSET Nat
  BY <1>1, ModelFields
<1>3. Load(m) = n
  BY <1>1 DEF Load, WithInstances, Models
<1>4. L \in SUBSET Existing(m) /\ S \subseteq L
  OBVIOUS
<1> HIDE DEF L
<1>5. L \in SUBSET Nat
  BY <1>2, <1>4
<1>6. /\ n \in Models /\ SamePlayhead(m, n) /\ n.inst = m.inst
      /\ Existing(n) = Existing(m) /\ n.loaded = L
  BY <1>1, <1>2, <1>5, InstancesModel
<1> HIDE DEF n
<1>7. Selected(n) = Selected(m) /\ Selected(m) \subseteq L
  BY <1>4, <1>6 DEF Selected, SamePlayhead, Steady, Sound
<1>8. Steady(n)
  BY <1>6, <1>7 DEF Steady, Sound, Settled, Restful, SamePlayhead
<1>9. ASSUME NEW i \in Existing(n), ~n.inst[i].taken PROVE i \in n.loaded
  <2>1. i = n.nxt
    BY <1>8, <1>9 DEF Steady, Settled
  <2>2. i # None
    BY <1>6, ModelFields, PlayoutAssumption
  <2>3. i \in Selected(n)
    BY <2>1, <2>2 DEF Selected
  <2> QED BY <1>6, <1>7, <2>3
<1>10. Ready(n)
  BY <1>4, <1>6, <1>7, <1>8, <1>9 DEF Ready, Steady
<1>11. Offered(m) => Offered(n)
  BY <1>6 DEF Offered, PartOf, SamePlayhead
<1> QED BY <1>3, <1>6, <1>8, <1>10, <1>11 DEF Saved

LEMMA ClearReady ==
  ASSUME NEW m, Ready(m)
  PROVE  LET n == ClearSelectedPartInstances(m)
         IN  /\ Ready(n) /\ Selected(n) = {} /\ n.mode = m.mode /\ n.prev = None
             /\ n.cur = None /\ n.nxt = None /\ n.hold = "none" /\ n.queued = None
<1> DEFINE n == ClearSelectedPartInstances(m)
<1>1. /\ n \in Models /\ n.prev = None /\ n.cur = None /\ n.nxt = None
      /\ n.inst = m.inst /\ n.loaded = m.loaded /\ n.mode = m.mode
      /\ n.hold = "none" /\ n.queued = None
  BY DEF ClearSelectedPartInstances, Ready, Sound, Models, HoldStates
<1> HIDE DEF n
<1>2. Existing(n) = Existing(m) /\ Selected(n) = {}
  BY <1>1 DEF Existing, Selected
<1>3. Ready(n)
  BY <1>1, <1>2 DEF Ready, Sound
<1> QED BY <1>1, <1>2, <1>3 DEF n

ShowsOK == show \in Shows

LEMMA SelectFirstType ==
  ASSUME ShowsOK, NEW m, NEW p
  PROVE  SelectAfter(m, p) \in Choices /\ SelectFirst(m) \in Choices
<1>1. show.parts \in Seq(Part)
  BY PlayoutAssumption DEF ShowsOK
<1> QED BY <1>1, SelectNextPartType DEF SelectAfter, SelectFirst

LEMMA NothingIsAChoice == Choice(None, FALSE) \in Choices
BY DEF Choice, Choices

(* The show starts from nothing, or stops.                                   *)
Blank(m) == m.prev = None /\ m.cur = None /\ m.hold = "none"

(* Whenever nothing is on air, the next Part is chosen without a hold.       *)
LEMMA ChosenAndSaved ==
  ASSUME NEW m, Ready(m), Blank(m), Restful(m), NEW choice \in Choices,
         m.mode = "inactive" => choice.part = None
  PROVE  LET n == SetNextPart(m, choice, FALSE)
         IN  Ready(n) /\ Saved(n) /\ Blank(n) /\ n.mode = m.mode
<1> DEFINE n == SetNextPart(m, choice, FALSE)
<1>1. Ready(n) /\ Settled(n) /\ OnlyNextMoves(m, n) /\ NextIsChosen(m, n, choice, FALSE)
  BY SetNextPartReady
<1> HIDE DEF n
<1>2. Restful(n) /\ Blank(n)
  BY <1>1 DEF Restful, OnlyNextMoves, NextIsChosen, Selected, Blank
<1>3. Offered(n)
  BY <1>2 DEF Offered, Blank
<1> QED BY <1>1, <1>2, <1>3 DEF Saved, Steady, Ready, OnlyNextMoves, n

LEMMA ResetSaved ==
  ASSUME ShowsOK, NEW m, Ready(m)
  PROVE  LET n == ResetRundownPlaylist(m)
         IN  Ready(n) /\ Saved(n) /\ Blank(n) /\ n.mode = m.mode
<1> DEFINE c == ClearSelectedPartInstances(m)
           r == MarkReset(c, Existing(m))
<1>1. /\ Ready(c) /\ Selected(c) = {} /\ c.mode = m.mode /\ c.prev = None
      /\ c.cur = None /\ c.nxt = None /\ c.hold = "none" /\ c.queued = None
  BY ClearReady
<1> HIDE DEF c
<1>2. c \in Models /\ None \notin Existing(m)
  BY <1>1, ModelFields, PlayoutAssumption DEF Ready, Sound
<1>3. Ready(r) /\ SamePlayhead(c, r)
  BY <1>1, <1>2, MarkResetReady
<1> HIDE DEF r
<1>4. Restful(r) /\ Blank(r) /\ r.mode = m.mode
  BY <1>1, <1>3 DEF Restful, SamePlayhead, Selected, Blank
<1>5. /\ Choice(None, FALSE) \in Choices /\ Choice(None, FALSE).part = None
      /\ SelectFirst(r) \in Choices
  BY NothingIsAChoice, SelectFirstType DEF Choice
<1>6. ResetRundownPlaylist(m) =
        IF m.mode = "inactive" THEN SetNextPart(r, Choice(None, FALSE), FALSE)
        ELSE SetNextPart(r, SelectFirst(r), FALSE)
  BY DEF ResetRundownPlaylist, r, c
<1> QED BY <1>3, <1>4, <1>5, <1>6, ChosenAndSaved

(* Of a show that is off nothing is on air.                                  *)
LEMMA ModeOff ==
  ASSUME NEW m, Restful(m), m.mode = "inactive"
  PROVE  m.prev = None /\ m.cur = None /\ m.nxt = None /\ m.hold = "none"
BY DEF Restful, Selected

LEMMA ActivateSaved ==
  ASSUME ShowsOK, NEW m, Ready(m), Saved(m), NEW mode \in Modes \ {"inactive"}
  PROVE  LET n == ActivateRundownPlaylist(m, mode)
         IN  /\ Saved(n) /\ n.mode = mode
             /\ \/ Blank(n) /\ m.cur = None
                \/ m.mode # "inactive" /\ m.cur # None /\ SameInstances(m, n) /\ n.hold = m.hold
<1> DEFINE start == IF m.mode = "inactive" THEN ResetRundownPlaylist(m) ELSE m
           on    == [start EXCEPT !.mode = mode]
           clear == ClearSelectedPartInstances(on)
<1>1. /\ Ready(start) /\ Saved(start)
      /\ \/ Blank(start) /\ m.cur = None
         \/ start = m /\ m.mode # "inactive"
  BY ResetSaved, ModeOff DEF Saved, Steady
<1> HIDE DEF start
<1>2. /\ on \in Models /\ SameInstances(start, on)
      /\ on.mode = mode /\ on.hold = start.hold /\ on.queued = start.queued
  BY <1>1 DEF Ready, Sound, Models, SameInstances
<1> HIDE DEF on
<1>3. Ready(on) /\ Settled(on) /\ Offered(on)
  BY <1>1, <1>2, SameInstancesReady DEF Saved, Steady
<1>4. Restful(on)
  BY <1>1, <1>2 DEF Saved, Steady, Restful, SameInstances
<1>5. Ready(clear) /\ clear.mode = mode /\ Blank(clear)
  BY <1>2, <1>3, ClearReady DEF Blank
<1> HIDE DEF clear
<1>6. SelectFirst(clear) \in Choices
  BY SelectFirstType
<1> DEFINE n == SetNextPart(clear, SelectFirst(clear), FALSE)
<1>7. Saved(n) /\ Blank(n) /\ n.mode = mode
  BY <1>5, <1>6, ChosenAndSaved DEF Restful, Blank
<1> HIDE DEF n
<1>8. on.cur # None => Found(on, on.cur) = on.cur /\ ~on.inst[on.cur].reset
  BY <1>3, SelectedIsFound DEF Ready, Sound
<1>9. Saved(on)
  BY <1>3, <1>4 DEF Saved, Steady, Ready
<1>10. \/ ActivateRundownPlaylist(m, mode) = n /\ on.cur = None
       \/ ActivateRundownPlaylist(m, mode) = on /\ on.cur # None
  BY <1>8 DEF ActivateRundownPlaylist, start, on, clear, n, Found
<1>11. on.cur = start.cur
  BY <1>2 DEF SameInstances
<1>12. CASE on.cur = None
  BY <1>1, <1>7, <1>10, <1>11, <1>12
<1>13. CASE on.cur # None
  <2>1. start = m /\ m.mode # "inactive"
    BY <1>1, <1>11, <1>13 DEF Blank
  <2> QED BY <1>2, <1>9, <1>10, <1>11, <1>13, <2>1
<1> QED BY <1>12, <1>13

LEMMA DeactivateSaved ==
  ASSUME NEW m, Ready(m)
  PROVE  LET n == DeactivateRundownPlaylist(m) IN Saved(n) /\ n.mode = "inactive"
<1> DEFINE c == ClearSelectedPartInstances(m)
           off == [c EXCEPT !.mode = "inactive"]
<1>1. Ready(c) /\ Selected(c) = {} /\ Blank(c) /\ c.queued = None
  BY ClearReady DEF Blank
<1> HIDE DEF c
<1>2. /\ off \in Models /\ SameInstances(c, off)
      /\ off.mode = "inactive" /\ off.hold = c.hold /\ off.queued = c.queued
  BY <1>1 DEF Ready, Sound, Models, SameInstances, Modes
<1> HIDE DEF off
<1>3. Ready(off) /\ Restful(off) /\ Blank(off)
  BY <1>1, <1>2, SameInstancesReady DEF Restful, SameInstances, Selected, Blank
<1>4. Choice(None, FALSE).part = None
  BY DEF Choice
<1> QED BY <1>2, <1>3, <1>4, NothingIsAChoice, ChosenAndSaved DEF DeactivateRundownPlaylist, off, c

-----------------------------------------------------------------------------
(* The take.                                                                 *)

TakenInstances(m, i) == [m.inst EXCEPT ![i] = [m.inst[i] EXCEPT !.taken = TRUE]]

(* The cycle of the selected instances, with the next one taken.             *)
Cycled(m, n) ==
    /\ n \in Models /\ n.prev = m.cur /\ n.cur = m.nxt /\ n.nxt = None
    /\ n.inst = TakenInstances(m, m.nxt) /\ n.loaded = m.loaded

(* After the cycle all instances are taken: nothing is next yet.             *)
LEMMA CycledReady ==
  ASSUME NEW m, Ready(m), Settled(m), m.nxt # None, NEW n, Cycled(m, n)
  PROVE  /\ Ready(n) /\ Settled(n) /\ n.cur # None
         /\ PartOf(n, n.cur) = PartOf(m, m.nxt)
         /\ m.cur # None => PartOf(n, n.prev) = PartOf(m, m.cur)
<1> DEFINE i == m.nxt
           f == TakenInstances(m, i)
<1>1. m \in Models /\ i \in Existing(m) /\ ~m.inst[i].reset /\ ~m.inst[i].taken
  BY DEF Ready, Sound, Selected
<1>2. m.inst \in [Existing(m) -> PartInstanceRecord] /\ Existing(m) \in SUBSET Nat
  BY <1>1, ModelFields
<1>3. /\ DOMAIN f = Existing(m)
      /\ \A j \in Existing(m) \ {i} : f[j] = m.inst[j]
      /\ f[i].taken /\ ~f[i].reset /\ f[i].part = m.inst[i].part
  BY <1>1, <1>2 DEF TakenInstances, PartInstanceRecord
<1> HIDE DEF f
<1>4. n.inst = f /\ Existing(n) = Existing(m)
  BY <1>3 DEF Cycled, Existing, f
<1>5. \A j \in Existing(n) : n.inst[j].taken
  BY <1>3, <1>4 DEF Settled
<1>6. m.cur # None => m.cur \in Existing(m) /\ m.cur # m.nxt
  BY <1>1 DEF Ready, Sound, Selected
<1>7. Selected(n) \subseteq Existing(n)
  BY <1>1, <1>4, <1>6 DEF Cycled, Selected
<1>8. Sound(n)
  <2>1. n \in Models /\ \E b \in Nat : Existing(n) \subseteq 0 .. b
    BY <1>4 DEF Cycled, Ready, Sound
  <2>2. \A j \in {n.cur, n.nxt} \ {None} : ~n.inst[j].reset
    BY <1>3, <1>4 DEF Cycled
  <2>3. \A j \in {n.cur, n.prev} \ {None} : n.inst[j].taken
    BY <1>5, <1>7 DEF Selected
  <2>4. n.cur # n.prev /\ n.nxt = None
    BY <1>6 DEF Cycled
  <2> QED BY <1>7, <2>1, <2>2, <2>3, <2>4 DEF Sound
<1>9. Selected(n) \subseteq n.loaded /\ n.loaded \subseteq Existing(n)
  BY <1>4 DEF Cycled, Ready, Selected
<1>10. Ready(n)
  BY <1>5, <1>8, <1>9 DEF Ready
<1>11. Settled(n)
  BY <1>5 DEF Settled
<1>12. n.cur # None /\ PartOf(n, n.cur) = PartOf(m, m.nxt)
  BY <1>3, <1>4 DEF Cycled, PartOf
<1>13. m.cur # None => PartOf(n, n.prev) = PartOf(m, m.cur)
  BY <1>3, <1>4, <1>6 DEF Cycled, PartOf
<1> QED BY <1>10, <1>11, <1>12, <1>13

(* What resetPreviousSegment leaves alone.                                   *)
LEMMA ResetPreviousSegmentReady ==
  ASSUME NEW m, Ready(m), m.cur # None, m.nxt = None
  PROVE  LET n == ResetPreviousSegment(m)
         IN  /\ Ready(n) /\ SamePlayhead(m, n)
             /\ \A i \in Existing(m) : n.inst[i].part = m.inst[i].part
<1> DEFINE S == {i \in m.loaded : SegmentAt(m, i) = SegmentAt(m, m.prev)}
<1>1. Ready(m) /\ SamePlayhead(m, m)
  BY DEF SamePlayhead
<1>2. None \notin m.loaded /\ m.cur \in Existing(m)
  BY ModelFields, PlayoutAssumption DEF Ready, Sound, Selected
<1>3. Found(m, m.cur) # None
  BY <1>2 DEF Found
<1>4. ASSUME SegmentAt(m, m.cur) # SegmentAt(m, m.prev)
      PROVE  /\ Ready(MarkReset(m, S)) /\ SamePlayhead(m, MarkReset(m, S))
             /\ \A i \in Existing(m) : MarkReset(m, S).inst[i].part = m.inst[i].part
  <2>1. S \cap {m.cur, m.nxt} = {}
    BY <1>2, <1>4
  <2> HIDE DEF S
  <2> QED BY <2>1, MarkResetReady
<1> QED BY <1>1, <1>3, <1>4 DEF ResetPreviousSegment

(* The choice after a take, an autonext or a user's wish: all is saved well, *)
(* whether or not the instance next so far was taken just now.               *)
LEMMA NextSaved ==
  ASSUME NEW m, Ready(m), NEW choice \in Choices, NEW manual \in BOOLEAN,
         Offered(m), m.mode # "inactive", m.hold # "none" => m.cur # None
  PROVE  LET n == SetNextPart(m, choice, manual)
         IN  Ready(n) /\ Saved(n) /\ OnlyNextMoves(m, n)
<1> DEFINE n == SetNextPart(m, choice, manual)
<1>1. /\ Ready(n) /\ Settled(n) /\ OnlyNextMoves(m, n)
      /\ NextIsChosen(m, n, choice, manual)
  BY SetNextPartReady
<1> HIDE DEF n
<1>2. Restful(n)
  BY <1>1 DEF Restful, OnlyNextMoves
<1>3. Offered(n)
  BY <1>1 DEF Offered, OnlyNextMoves, NextIsChosen, PartOf
<1> QED BY <1>1, <1>2, <1>3 DEF Saved, Steady, Ready, n

LEMMA SetStartedSaved ==
  ASSUME NEW m, Ready(m), Saved(m)
  PROVE  Ready(SetStarted(m)) /\ Saved(SetStarted(m))
<1> DEFINE n == SetStarted(m)
<1>1. /\ n \in Models /\ SameInstances(m, n)
      /\ n.mode = m.mode /\ n.hold = m.hold /\ n.queued = m.queued
  BY DEF SetStarted, Ready, Sound, Models, SameInstances
<1> HIDE DEF n
<1>2. Ready(n) /\ Settled(n) /\ Offered(n)
  BY <1>1, SameInstancesReady DEF Saved, Steady
<1>3. Restful(n)
  BY <1>1 DEF Saved, Steady, Restful, SameInstances, Selected
<1> QED BY <1>2, <1>3 DEF n, Saved, Steady, Ready

(* A hold that is set to another state that the playhead allows.             *)
LEMMA SetHoldSaved ==
  ASSUME NEW m, Ready(m), Saved(m), NEW hold \in HoldStates, m.mode # "inactive",
         hold # "none" => m.cur # None
  PROVE  LET n == [m EXCEPT !.hold = hold] IN Ready(n) /\ Saved(n)
<1> DEFINE n == [m EXCEPT !.hold = hold]
<1>1. /\ n \in Models /\ SameInstances(m, n)
      /\ n.mode = m.mode /\ n.hold = hold
  BY DEF Ready, Sound, Models, SameInstances
<1> HIDE DEF n
<1>2. Ready(n) /\ Settled(n) /\ Offered(n)
  BY <1>1, SameInstancesReady DEF Saved, Steady
<1>3. Restful(n)
  BY <1>1 DEF Restful, SameInstances
<1> QED BY <1>2, <1>3 DEF n, Saved, Steady, Ready

LEMMA SetQueuedSaved ==
  ASSUME NEW m, Ready(m), Saved(m), NEW s \in Segment \cup {None}, m.mode # "inactive"
  PROVE  LET n == [m EXCEPT !.queued = s]
         IN  Ready(n) /\ Saved(n) /\ n.mode = m.mode /\ n.hold = m.hold /\ n.cur = m.cur
<1> DEFINE n == [m EXCEPT !.queued = s]
<1>1. /\ n \in Models /\ SameInstances(m, n)
      /\ n.mode = m.mode /\ n.hold = m.hold
  BY DEF Ready, Sound, Models, SameInstances
<1> HIDE DEF n
<1>2. Ready(n) /\ Settled(n) /\ Offered(n)
  BY <1>1, SameInstancesReady DEF Saved, Steady
<1>3. Restful(n)
  BY <1>1 DEF Saved, Steady, Restful, SameInstances
<1> QED BY <1>1, <1>2, <1>3 DEF n, Saved, Steady, Ready, SameInstances

LEMMA SetTakenCycles ==
  ASSUME NEW m \in Models, m.nxt \in Existing(m)
  PROVE  LET n == SetTaken(CycleSelectedPartInstances(m), m.nxt)
         IN  /\ Cycled(m, n) /\ n.mode = m.mode /\ n.hold = m.hold
             /\ n.queued = m.queued
<1> DEFINE f == TakenInstances(m, m.nxt)
           c == CycleSelectedPartInstances(m)
           n == SetTaken(c, m.nxt)
<1>1. m.inst \in [Existing(m) -> PartInstanceRecord] /\ Existing(m) \in SUBSET Nat
  BY ModelFields
<1>2. f \in [Existing(m) -> PartInstanceRecord]
  BY <1>1 DEF TakenInstances, PartInstanceRecord
<1>3. f \in UNION {[T -> PartInstanceRecord] : T \in SUBSET Nat}
  BY <1>1, <1>2
<1>4. /\ c \in Models /\ c.prev = m.cur /\ c.cur = m.nxt /\ c.nxt = None
      /\ c.inst = m.inst /\ c.loaded = m.loaded
      /\ c.mode = m.mode /\ c.hold = m.hold /\ c.queued = m.queued
  BY DEF CycleSelectedPartInstances, Models
<1> HIDE DEF c
<1>5. n = [c EXCEPT !.inst = f]
  BY <1>4 DEF SetTaken, TakenInstances, Models
<1> HIDE DEF n, f
<1>6. /\ n \in Models /\ n.prev = m.cur /\ n.cur = m.nxt /\ n.nxt = None
      /\ n.inst = f /\ n.loaded = m.loaded
      /\ n.mode = m.mode /\ n.hold = m.hold /\ n.queued = m.queued
  BY <1>3, <1>4, <1>5 DEF Models
<1> QED BY <1>6 DEF Cycled, n, f, c

(* What was next is on air, and what was on air is what was before it.       *)
Advanced(m, n) ==
    /\ n.mode = m.mode /\ n.prev = m.cur /\ n.cur = m.nxt
    /\ PartOf(n, n.cur) = PartOf(m, m.nxt)
    /\ m.cur # None => PartOf(n, n.prev) = PartOf(m, m.cur)

LEMMA AdvancedByCycle ==
  ASSUME NEW m, NEW c, SameInstances(m, c), Ready(c), Settled(c), c.nxt # None,
         NEW taken, Cycled(c, taken), taken.mode = m.mode,
         NEW reset, SamePlayhead(taken, reset),
         \A i \in Existing(taken) : reset.inst[i].part = taken.inst[i].part,
         NEW n, OnlyNextMoves(reset, n)
  PROVE  Advanced(m, n) /\ n.hold = taken.hold
<1>1. /\ Ready(taken) /\ taken.cur # None /\ PartOf(taken, taken.cur) = PartOf(c, c.nxt)
      /\ c.cur # None => PartOf(taken, taken.prev) = PartOf(c, c.cur)
  BY CycledReady
<1>2. taken.prev = m.cur /\ taken.cur = m.nxt
  BY DEF Cycled, SameInstances
<1>3. {taken.cur, taken.prev} \ {None} \subseteq Existing(taken)
  BY <1>1 DEF Ready, Sound, Selected
<1>4. /\ n.mode = m.mode /\ n.prev = m.cur /\ n.cur = m.nxt /\ n.hold = taken.hold
      /\ reset.cur = taken.cur /\ reset.prev = taken.prev
  BY <1>2 DEF OnlyNextMoves, SamePlayhead
<1>5. PartOf(n, n.cur) = PartOf(m, m.nxt)
  BY <1>1, <1>2, <1>3, <1>4 DEF OnlyNextMoves, PartOf, SameInstances
<1>6. m.cur # None => PartOf(n, n.prev) = PartOf(m, m.cur)
  BY <1>1, <1>2, <1>3, <1>4 DEF OnlyNextMoves, PartOf, SameInstances
<1> QED BY <1>4, <1>5, <1>6 DEF Advanced

HoldAfterTake(h) ==
    CASE h = "pending" -> "active" [] h = "complete" -> "none" [] OTHER -> h

(* performTakeToNextedPart: what was next is on air, and a pending hold is   *)
(* active now.                                                               *)
LEMMA PerformTakeSaved ==
  ASSUME ShowsOK, NEW m, Ready(m), Saved(m), m.mode # "inactive", m.nxt # None
  PROVE  /\ Ready(PerformTake(m)) /\ Saved(PerformTake(m))
         /\ Advanced(m, PerformTake(m)) /\ PerformTake(m).hold = HoldAfterTake(m.hold)
<1> DEFINE i      == m.nxt
           h      == [m EXCEPT !.hold = IF @ = "complete" THEN "none" ELSE @]
           clear  == ClearQueuedSegmentId(h, i, m.consumes)
           choice == SelectAfter(clear, PartOf(m, i))
           taken  == SetTaken(CycleSelectedPartInstances(clear), i)
           reset  == ResetPreviousSegment(taken)
           next   == SetNextPart(reset, choice, FALSE)
           hold   == IF next.hold = "pending" THEN "active" ELSE next.hold
<1>1. PerformTake(m) = [next EXCEPT !.hold = hold]
  BY DEF PerformTake
<1>2. /\ h \in Models /\ SameInstances(m, h) /\ h.mode = m.mode
      /\ h.hold = IF m.hold = "complete" THEN "none" ELSE m.hold
  BY DEF Ready, Sound, Models, SameInstances, HoldStates
<1> HIDE DEF h
<1>3. /\ clear \in Models /\ SameInstances(m, clear) /\ clear.mode = m.mode
      /\ clear.hold = h.hold
  BY <1>2 DEF ClearQueuedSegmentId, Models, SameInstances
<1> HIDE DEF clear
<1>4. Ready(clear) /\ Settled(clear) /\ clear.nxt = i
  BY <1>3, SameInstancesReady DEF Saved, Steady, SameInstances
<1>5. clear.nxt \in Existing(clear)
  BY <1>4 DEF Ready, Sound, Selected
<1>6. Cycled(clear, taken) /\ taken.mode = m.mode /\ taken.hold = clear.hold
  BY <1>3, <1>4, <1>5, SetTakenCycles
<1> HIDE DEF taken
<1>7. Ready(taken) /\ taken.cur # None /\ taken.nxt = None
  BY <1>4, <1>6, CycledReady DEF Cycled
<1>8. /\ Ready(reset) /\ SamePlayhead(taken, reset)
      /\ \A j \in Existing(taken) : reset.inst[j].part = taken.inst[j].part
  BY <1>7, ResetPreviousSegmentReady
<1> HIDE DEF reset
<1>9. Offered(reset)
  BY <1>7, <1>8 DEF Offered, SamePlayhead
<1>10. choice \in Choices
  BY SelectFirstType
<1> HIDE DEF choice
<1>11. Ready(next) /\ Saved(next) /\ OnlyNextMoves(reset, next)
  BY <1>6, <1>7, <1>8, <1>9, <1>10, NextSaved DEF SamePlayhead
<1> HIDE DEF next
<1>12. next.mode # "inactive" /\ next.cur # None /\ next.hold \in HoldStates
  BY <1>6, <1>7, <1>8, <1>11, ModelFields DEF SamePlayhead, OnlyNextMoves, Ready, Sound
<1>13. hold \in HoldStates
  BY <1>12 DEF HoldStates
<1>14. Advanced(m, next) /\ next.hold = taken.hold
  BY <1>3, <1>4, <1>6, <1>8, <1>11, AdvancedByCycle
<1>15. hold = HoldAfterTake(m.hold)
  BY <1>2, <1>3, <1>6, <1>14 DEF HoldAfterTake
<1> HIDE DEF hold
<1> DEFINE n == [next EXCEPT !.hold = hold]
<1>16. /\ n.mode = next.mode /\ n.prev = next.prev /\ n.cur = next.cur /\ n.inst = next.inst
       /\ n.hold = hold
  BY <1>11 DEF Ready, Sound, Models
<1>17. Ready(n) /\ Saved(n)
  BY <1>11, <1>12, <1>13, SetHoldSaved
<1> HIDE DEF n
<1>18. Advanced(m, n)
  BY <1>14, <1>16 DEF Advanced, PartOf
<1> QED BY <1>1, <1>15, <1>16, <1>17, <1>18 DEF n

(* An autonext that has taken place.                                         *)
LEMMA PerformAutonextSaved ==
  ASSUME ShowsOK, NEW m, Ready(m), Saved(m), m.mode # "inactive", m.nxt # None
  PROVE  /\ Saved(PerformAutonext(m))
         /\ Advanced(m, PerformAutonext(m)) /\ PerformAutonext(m).hold = "none"
<1> DEFINE i      == m.nxt
           cycled == [CycleSelectedPartInstances(m) EXCEPT !.hold = "none"]
           taken  == SetTaken(SetStarted(cycled), i)
           once   == SetTaken(CycleSelectedPartInstances(m), i)
           clear  == ClearQueuedSegmentId(taken, i, FALSE)
           reset  == ResetPreviousSegment(clear)
           choice == SelectAfter(reset, PartOf(m, i))
<1>1. PerformAutonext(m) = SetNextPart(reset, choice, FALSE)
  BY DEF PerformAutonext
<1>2. m \in Models /\ i \in Existing(m)
  BY DEF Ready, Sound, Selected
<1>3. Cycled(m, once) /\ once.mode = m.mode
  BY <1>2, SetTakenCycles
<1>4. Ready(once) /\ once.cur # None
  BY <1>3, CycledReady DEF Saved, Steady
<1>5. taken = [once EXCEPT !.hold = "none", !.started = TRUE]
  BY <1>2 DEF SetTaken, SetStarted, CycleSelectedPartInstances, Models
<1> HIDE DEF taken, once
<1>6. /\ taken \in Models /\ SameInstances(once, taken) /\ taken.mode = m.mode
      /\ taken.hold = "none"
  BY <1>3, <1>5 DEF Cycled, Models, SameInstances, HoldStates
<1>7. clear = taken
  BY DEF ClearQueuedSegmentId
<1>8. Ready(clear) /\ clear.cur # None /\ clear.nxt = None
  <2>1. Ready(clear)
    BY <1>4, <1>6, <1>7, SameInstancesReady
  <2>2. clear.cur # None /\ clear.nxt = None
    BY <1>3, <1>4, <1>6, <1>7 DEF SameInstances, Cycled
  <2> QED BY <2>1, <2>2
<1>9. /\ clear.mode = m.mode /\ clear.hold = "none" /\ Cycled(m, clear)
  BY <1>3, <1>6, <1>7 DEF SameInstances, Cycled
<1> HIDE DEF clear
<1>10. /\ Ready(reset) /\ SamePlayhead(clear, reset)
       /\ \A j \in Existing(clear) : reset.inst[j].part = clear.inst[j].part
  BY <1>8, ResetPreviousSegmentReady
<1> HIDE DEF reset
<1>11. Offered(reset)
  BY <1>8, <1>10 DEF Offered, SamePlayhead
<1>12. choice \in Choices
  BY SelectFirstType
<1> HIDE DEF choice
<1> DEFINE n == SetNextPart(reset, choice, FALSE)
<1>13. Saved(n) /\ OnlyNextMoves(reset, n)
  BY <1>8, <1>9, <1>10, <1>11, <1>12, NextSaved DEF SamePlayhead
<1> HIDE DEF n
<1>14. SameInstances(m, m) /\ Settled(m)
  BY DEF SameInstances, Saved, Steady
<1>15. Advanced(m, n) /\ n.hold = clear.hold
  BY <1>9, <1>10, <1>13, <1>14, AdvancedByCycle
<1> QED BY <1>1, <1>9, <1>13, <1>15 DEF n

-----------------------------------------------------------------------------
(* The change of the rundowns by ingest.                                     *)

(* The saved instances with other values, but of what was taken and of the   *)
(* reset of what is on air and next.                                         *)
LEMMA ChangedInstancesSaved ==
  ASSUME NEW m, Steady(m), NEW f \in [Existing(m) -> PartInstanceRecord],
         \A i \in Existing(m) : f[i].taken = m.inst[i].taken,
         \A i \in {m.cur, m.nxt} \ {None} : ~f[i].reset
  PROVE  LET n == WithInstances(m, f, m.loaded)
         IN  Steady(n) /\ SamePlayhead(m, n) /\ n.inst = f /\ Existing(n) = Existing(m)
<1> DEFINE n == WithInstances(m, f, m.loaded)
<1>1. m \in Models
  BY DEF Steady, Sound
<1>2. Existing(m) \in SUBSET Nat /\ m.loaded \in SUBSET Nat
  BY <1>1, ModelFields
<1>3. n \in Models /\ SamePlayhead(m, n) /\ n.inst = f /\ Existing(n) = Existing(m)
  BY <1>1, <1>2, InstancesModel
<1> HIDE DEF n
<1>4. Selected(n) = Selected(m)
  BY <1>3 DEF Selected, SamePlayhead
<1>5. Sound(n)
  <2>1. Selected(n) \subseteq Existing(n) /\ \E b \in Nat : Existing(n) \subseteq 0 .. b
    BY <1>3, <1>4 DEF Steady, Sound
  <2>2. \A i \in Selected(n) : n.inst[i].taken = m.inst[i].taken
    BY <1>3, <1>4, <2>1
  <2> QED BY <1>3, <2>1, <2>2 DEF Steady, Sound, Selected, SamePlayhead
<1>6. Settled(n)
  BY <1>3 DEF Steady, Settled, SamePlayhead
<1>7. Restful(n)
  BY <1>3, <1>4 DEF Steady, Restful, SamePlayhead
<1> QED BY <1>3, <1>5, <1>6, <1>7 DEF Steady, n

OrphansOf(m, new) ==
    [i \in Existing(m) |->
        LET r == m.inst[i]
        IN  IF r.reset THEN r
            ELSE IF r.part \in PartsIn(new.parts) THEN [r EXCEPT !.deleted = FALSE]
            ELSE IF i \in {m.cur, m.nxt} THEN [r EXCEPT !.deleted = TRUE]
            ELSE IF r.deleted THEN r
            ELSE [r EXCEPT !.reset = TRUE]]

SyncedOf(m, new) ==
    [i \in Existing(m) |->
        IF i \in {m.cur, m.nxt} /\ m.mode # "inactive" /\ PartOf(m, i) \in PartsIn(new.parts)
        THEN [m.inst[i] EXCEPT !.playable = PartOf(m, i) \in new.playable]
        ELSE m.inst[i]]

(* What ingest does to an instance: what is on air or next is not reset.     *)
LEMMA WithOrphansSaved ==
  ASSUME NEW m, Steady(m), NEW new
  PROVE  LET n == WithOrphans(m, new)
         IN  /\ Steady(n) /\ SamePlayhead(m, n)
             /\ n.inst = OrphansOf(m, new) /\ Existing(n) = Existing(m)
<1> DEFINE f == OrphansOf(m, new)
<1>1. m \in Models
  BY DEF Steady, Sound
<1>2. m.inst \in [Existing(m) -> PartInstanceRecord]
  BY <1>1, ModelFields
<1>3. \A i \in Existing(m) :
        /\ f[i] \in PartInstanceRecord /\ f[i].taken = m.inst[i].taken
        /\ i \in {m.cur, m.nxt} => f[i].reset = m.inst[i].reset
  <2> TAKE i \in Existing(m)
  <2> DEFINE r == m.inst[i]
  <2>1. r \in PartInstanceRecord
    BY <1>2
  <2>2. f[i] = IF r.reset THEN r
               ELSE IF r.part \in PartsIn(new.parts) THEN [r EXCEPT !.deleted = FALSE]
               ELSE IF i \in {m.cur, m.nxt} THEN [r EXCEPT !.deleted = TRUE]
               ELSE IF r.deleted THEN r
               ELSE [r EXCEPT !.reset = TRUE]
    BY DEF OrphansOf
  <2> HIDE DEF r
  <2>3. /\ f[i] \in PartInstanceRecord /\ f[i].taken = r.taken
        /\ i \in {m.cur, m.nxt} => f[i].reset = r.reset
    BY <2>1, <2>2 DEF PartInstanceRecord
  <2> QED BY <2>3 DEF r
<1>4. f \in [Existing(m) -> PartInstanceRecord]
  BY <1>3 DEF OrphansOf
<1>5. WithOrphans(m, new) = WithInstances(m, f, m.loaded)
  BY <1>1 DEF WithOrphans, WithInstances, OrphansOf, Models
<1> HIDE DEF f
<1>6. \A i \in {m.cur, m.nxt} \ {None} : ~f[i].reset
  BY <1>3 DEF Steady, Sound, Selected
<1>7. \A i \in Existing(m) : f[i].taken = m.inst[i].taken
  BY <1>3
<1>8. LET n == WithInstances(m, f, m.loaded)
      IN  Steady(n) /\ SamePlayhead(m, n) /\ n.inst = f /\ Existing(n) = Existing(m)
  BY <1>4, <1>6, <1>7, ChangedInstancesSaved
<1> QED BY <1>5, <1>8 DEF f

LEMMA WithSyncedSaved ==
  ASSUME NEW m, Steady(m), NEW new
  PROVE  LET n == WithSynced(m, new)
         IN  /\ Steady(n) /\ SamePlayhead(m, n)
             /\ n.inst = SyncedOf(m, new) /\ Existing(n) = Existing(m)
<1> DEFINE f == SyncedOf(m, new)
<1>1. m \in Models
  BY DEF Steady, Sound
<1>2. m.inst \in [Existing(m) -> PartInstanceRecord]
  BY <1>1, ModelFields
<1>3. \A i \in Existing(m) :
        /\ f[i] \in PartInstanceRecord
        /\ f[i].taken = m.inst[i].taken /\ f[i].reset = m.inst[i].reset
  <2> TAKE i \in Existing(m)
  <2> DEFINE r == m.inst[i]
             ok == PartOf(m, i) \in new.playable
  <2>1. r \in PartInstanceRecord /\ ok \in BOOLEAN
    BY <1>2
  <2>2. f[i] = r \/ f[i] = [r EXCEPT !.playable = ok]
    BY DEF SyncedOf
  <2> HIDE DEF r, ok
  <2>3. f[i] \in PartInstanceRecord /\ f[i].taken = r.taken /\ f[i].reset = r.reset
    BY <2>1, <2>2 DEF PartInstanceRecord
  <2> QED BY <2>3 DEF r
<1>4. f \in [Existing(m) -> PartInstanceRecord]
  BY <1>3 DEF SyncedOf
<1>5. WithSynced(m, new) = WithInstances(m, f, m.loaded)
  BY <1>1 DEF WithSynced, WithInstances, SyncedOf, Models
<1> HIDE DEF f
<1>6. \A i \in {m.cur, m.nxt} \ {None} : ~f[i].reset
  BY <1>3 DEF Steady, Sound, Selected
<1>7. \A i \in Existing(m) : f[i].taken = m.inst[i].taken
  BY <1>3
<1>8. LET n == WithInstances(m, f, m.loaded)
      IN  Steady(n) /\ SamePlayhead(m, n) /\ n.inst = f /\ Existing(n) = Existing(m)
  BY <1>4, <1>6, <1>7, ChangedInstancesSaved
<1> QED BY <1>5, <1>8 DEF f

LEMMA FollowingCurrentType ==
  ASSUME NEW m, NEW new \in Shows
  PROVE  FollowingCurrent(m, new) \in Choices
<1>1. new.parts \in Seq(Part)
  BY PlayoutAssumption
<1> QED BY <1>1, SelectNextPartType DEF FollowingCurrent

(* What ingest says of the next instance: it is marked as deleted only if    *)
(* its Part is not there any more.                                           *)
MarkedRightly(m, new) ==
    m.nxt # None /\ m.inst[m.nxt].deleted => PartOf(m, m.nxt) \notin PartsIn(new.parts)

(* What follows is in the list, and can be played if the next instance, when *)
(* that is of the same Part, can be.                                         *)
LEMMA FollowingCurrentIsThere ==
  ASSUME NEW m, Sound(m), NEW new \in Shows
  PROVE  LET choice == FollowingCurrent(m, new)
         IN  /\ choice \in Choices
             /\ choice.part # None =>
                  choice.part \in PlayableWith(m, new) /\ choice.part \in PartsIn(new.parts)
<1> DEFINE ok       == PlayableWith(m, new)
           previous == IF Found(m, m.cur) = None THEN None ELSE PartOf(m, m.cur)
           choice   == SelectNextPart(new.parts, ok, previous, m.queued, new.loop)
<1>1. new.parts \in Seq(Part)
  BY PlayoutAssumption
<1>2. FollowingCurrent(m, new) = choice
  BY DEF FollowingCurrent
<1> HIDE DEF ok, previous
<1>3. /\ choice \in Choices
      /\ choice.part # None =>
           choice.part \in ok /\ \E i \in DOMAIN new.parts : choice.part = new.parts[i]
  BY <1>1, SelectNextPartType
<1> QED BY <1>2, <1>3 DEF PartsIn, ok

(* ensureNextPartIsValid never chooses the Part of the instance that it      *)
(* found to be invalid: what is next then is as good as new.                 *)
LEMMA ChosenAnew ==
  ASSUME NEW m, Sound(m), NEW new \in Shows, MarkedRightly(m, new),
         NextIsInvalid(m, FollowingCurrent(m, new)),
         NEW n, NextIsChosen(m, n, FollowingCurrent(m, new), FALSE), n.nxt # None
  PROVE  /\ m.nxt # None => FollowingCurrent(m, new).part # PartOf(m, m.nxt)
         /\ n.inst[n.nxt].playable /\ ~n.inst[n.nxt].deleted
<1> DEFINE choice == FollowingCurrent(m, new)
<1>1. choice.part # None
  BY DEF NextIsChosen
<1>2. choice.part \in PlayableWith(m, new) /\ choice.part \in PartsIn(new.parts)
  BY <1>1, FollowingCurrentIsThere
<1>3. Found(m, m.nxt) = m.nxt
  BY SelectedIsFound
<1> HIDE DEF choice
<1>4. ASSUME m.nxt # None, choice.part = PartOf(m, m.nxt) PROVE FALSE
  <2>1. m.inst[m.nxt].playable
    BY <1>2, <1>3, <1>4 DEF PlayableWith
  <2>2. ~m.inst[m.nxt].deleted
    BY <1>2, <1>4 DEF MarkedRightly
  <2> QED BY <1>1, <1>3, <1>4, <2>1, <2>2 DEF NextIsInvalid, choice
<1>5. \/ n.nxt = m.nxt /\ m.inst[m.nxt].part = choice.part
      \/ n.inst[n.nxt].playable /\ ~n.inst[n.nxt].deleted
  BY <1>1 DEF NextIsChosen, choice
<1> QED BY <1>4, <1>5 DEF PartOf, choice

LEMMA EnsureNextPartIsValidSaved ==
  ASSUME NEW m, Ready(m), Steady(m), NEW new \in Shows, MarkedRightly(m, new), NEW close
  PROVE  Saved(EnsureNextPartIsValid(m, new, close))
<1> DEFINE choice  == FollowingCurrent(m, new)
           changes == /\ m.mode # "inactive"
                      /\ ~ManualNextIsValid(m) /\ ~LeftForAutonext(m, close)
                      /\ NextIsInvalid(m, choice)
           n == SetNextPart(m, choice, FALSE)
<1>1. choice \in Choices /\ Sound(m)
  BY FollowingCurrentIsThere DEF Steady
<1>2. EnsureNextPartIsValid(m, new, close) = IF changes THEN n ELSE m
  BY DEF EnsureNextPartIsValid
<1>3. CASE changes
  <2>1. m.mode # "inactive" /\ NextIsInvalid(m, choice)
    BY <1>3
  <2>2. /\ Ready(n) /\ Settled(n) /\ OnlyNextMoves(m, n)
        /\ NextIsChosen(m, n, choice, FALSE)
    <3> HIDE DEF choice
    <3> QED BY <1>1, SetNextPartReady
  <2> HIDE DEF n
  <2>3. Restful(n)
    BY <2>1, <2>2 DEF Restful, OnlyNextMoves, Steady
  <2>4. Offered(n)
    BY <1>1, <2>1, <2>2, ChosenAnew DEF Offered
  <2> HIDE DEF changes
  <2> QED BY <1>2, <1>3, <2>2, <2>3, <2>4 DEF Saved, Steady, Ready
<1>4. CASE ~changes
  <2>1. Found(m, m.cur) = m.cur /\ Found(m, m.nxt) = m.nxt
    BY <1>1, SelectedIsFound
  <2>2. Offered(m)
    BY <1>4, <2>1 DEF Offered, Steady, Restful, Selected, ManualNextIsValid, LeftForAutonext,
                      NextIsInvalid
  <2> HIDE DEF changes
  <2> QED BY <1>2, <1>4, <2>2 DEF Saved
<1> QED BY <1>3, <1>4

-----------------------------------------------------------------------------
(* The invariant is kept: one lemma for each job.                            *)

LEMMA UpdatedKeeps ==
  ASSUME IInv, NEW m, Saved(m), SaveAndUpdateTimeline(m), RundownUnchanged
  PROVE  IInv'
<1>1. Saved(model') /\ model'.loaded = {} /\ timeline' \subseteq Reportable(model')
  BY SaveAndUpdateTimelineKeeps
<1> QED BY <1>1 DEF IInv, RundownUnchanged, Saved, Steady, Offered, PartOf, Sound, Settled, Restful, Reportable

LEMMA OnlySavedKeeps ==
  ASSUME show' \in Shows, NEW m, Saved(m), SaveOnly(m)
  PROVE  IInv'
<1>1. Saved(model') /\ model'.loaded = {} /\ timeline' \subseteq Reportable(model')
  BY SaveOnlyKeeps
<1> QED BY <1>1 DEF IInv, Saved, Steady, Offered, PartOf, Sound, Settled, Restful, Reportable

(* The model that a job begins with.                                         *)
LEMMA LoadedInv ==
  ASSUME IInv
  PROVE  LET m == Load(model)
         IN  /\ Ready(m) /\ Saved(m) /\ ShowsOK
             /\ SamePlayhead(model, m) /\ m.inst = model.inst
             /\ Existing(m) = Existing(model)
BY LoadReady DEF IInv, ShowsOK, Saved

LEMMA TakesKeep ==
  ASSUME IInv, \/ TakeCompletesHold \/ TakeAborted \/ \E attached \in BOOLEAN : Take(attached)
  PROVE  IInv'
<1> DEFINE m == Load(model)
<1>1. /\ Ready(m) /\ Saved(m) /\ ShowsOK /\ SamePlayhead(model, m)
      /\ Existing(m) = Existing(model)
  BY LoadedInv
<1>2. m.hold \in HoldStates
  BY <1>1, ModelFields DEF Ready, Sound
<1>3. CASE TakeCompletesHold
  <2> DEFINE n == [m EXCEPT !.hold = "complete"]
  <2>1. SaveAndUpdateTimeline(n) /\ RundownUnchanged /\ model.mode # "inactive"
        /\ model.hold = "active"
    BY <1>3 DEF TakeCompletesHold, MayTake, Active
  <2> HIDE DEF m
  <2>2. m.mode # "inactive" /\ m.cur # None
    BY <1>1, <2>1 DEF SamePlayhead, Saved, Steady, Restful
  <2>3. Saved(n)
    BY <1>1, <2>2, SetHoldSaved DEF HoldStates
  <2> HIDE DEF n
  <2> QED BY <2>1, <2>3, UpdatedKeeps
<1>4. CASE TakeAborted
  <2> DEFINE hold == IF m.hold = "complete" THEN "none" ELSE m.hold
             n == [m EXCEPT !.hold = hold]
  <2>1. SaveAndUpdateTimeline(n) /\ RundownUnchanged /\ model.mode # "inactive"
    BY <1>4 DEF TakeAborted, MayTake, Active
  <2> HIDE DEF m
  <2>2. hold \in HoldStates /\ m.mode # "inactive" /\ (hold # "none" => m.cur # None)
    BY <1>1, <1>2, <2>1 DEF SamePlayhead, Saved, Steady, Restful,
                                    HoldStates
  <2> HIDE DEF hold
  <2>3. Saved(n)
    BY <1>1, <2>2, SetHoldSaved
  <2> HIDE DEF n
  <2> QED BY <2>1, <2>3, UpdatedKeeps
<1>5. ASSUME NEW attached \in BOOLEAN, Take(attached) PROVE IInv'
  <2> DEFINE after == PerformTake(m)
             n == IF attached THEN after ELSE SetStarted(after)
  <2>1. /\ SaveAndUpdateTimeline(n) /\ RundownUnchanged /\ model.mode # "inactive"
        /\ Found(model, model.nxt) # None
    BY <1>5 DEF Take, MayTake, Active
  <2> HIDE DEF m
  <2>2. m.mode # "inactive" /\ m.nxt # None
    BY <1>1, <2>1 DEF SamePlayhead, Found
  <2>3. Ready(after) /\ Saved(after)
    BY <1>1, <2>2, PerformTakeSaved
  <2> HIDE DEF after
  <2>4. Saved(n)
    BY <2>3, SetStartedSaved
  <2> HIDE DEF n
  <2> QED BY <2>1, <2>4, UpdatedKeeps
<1> QED BY <1>3, <1>4, <1>5

LEMMA PlaybackStartedKeeps ==
  ASSUME IInv, NEW i \in timeline, PlaybackStarted(i)
  PROVE  IInv'
<1> DEFINE m == Load(model)
<1>1. /\ Ready(m) /\ Saved(m) /\ ShowsOK /\ SamePlayhead(model, m)
      /\ Existing(m) = Existing(model)
  BY LoadedInv
<1>2. /\ i \in m.loaded /\ RundownUnchanged
      /\ \/ SaveAndUpdateTimeline(SetStarted(m))
         \/ i = m.nxt /\ SaveAndUpdateTimeline(PerformAutonext(m))
  BY DEF PlaybackStarted
<1> HIDE DEF m
<1>3. i \in Existing(m) /\ i # None
  BY <1>1, <1>2, ModelFields, PlayoutAssumption DEF Ready, Sound
<1>4. CASE SaveAndUpdateTimeline(SetStarted(m))
  BY <1>1, <1>2, <1>4, SetStartedSaved, UpdatedKeeps
<1>5. CASE i = m.nxt /\ SaveAndUpdateTimeline(PerformAutonext(m))
  <2>1. m.mode # "inactive"
    BY <1>1, <1>3, <1>5 DEF Saved, Steady, Restful, Selected
  <2>2. Saved(PerformAutonext(m))
    BY <1>1, <1>3, <1>5, <2>1, PerformAutonextSaved
  <2> QED BY <1>2, <1>5, <2>2, UpdatedKeeps
<1> QED BY <1>2, <1>4, <1>5

(* The jobs that start and stop a show.                                      *)
LEMMA ActivationKeeps ==
  ASSUME IInv, \/ Prepare \/ Deactivate \/ \E mode \in Modes : Reset(mode)
               \/ \E mode \in Modes \ {"inactive"} : Activate(mode)
  PROVE  IInv'
<1> DEFINE m == Load(model)
           reset == ResetRundownPlaylist(m)
<1>1. Ready(m) /\ Saved(m) /\ ShowsOK
  BY LoadedInv
<1>2. CASE Prepare
  <2>1. SaveAndUpdateTimeline(ActivateRundownPlaylist(reset, "rehearsal")) /\ RundownUnchanged
    BY <1>2 DEF Prepare
  <2> HIDE DEF m
  <2>2. Ready(reset) /\ Saved(reset)
    BY <1>1, ResetSaved
  <2> HIDE DEF reset
  <2>3. Saved(ActivateRundownPlaylist(reset, "rehearsal"))
    BY <1>1, <2>2, ActivateSaved DEF Modes
  <2> QED BY <2>1, <2>3, UpdatedKeeps
<1>3. CASE Deactivate
  <2>1. SaveAndUpdateTimeline(DeactivateRundownPlaylist(m)) /\ RundownUnchanged
    BY <1>3 DEF Deactivate
  <2> QED BY <1>1, <2>1, DeactivateSaved, UpdatedKeeps
<1>4. ASSUME NEW mode \in Modes, Reset(mode) PROVE IInv'
  <2>1. /\ RundownUnchanged
        /\ \/ mode # "inactive" /\ SaveAndUpdateTimeline(ActivateRundownPlaylist(reset, mode))
           \/ SaveAndUpdateTimeline(reset)
           \/ SaveOnly(reset)
    BY <1>4 DEF Reset
  <2>2. show' \in Shows
    BY <2>1 DEF IInv, RundownUnchanged
  <2> HIDE DEF m
  <2>3. Ready(reset) /\ Saved(reset)
    BY <1>1, ResetSaved
  <2> HIDE DEF reset
  <2>4. CASE mode # "inactive" /\ SaveAndUpdateTimeline(ActivateRundownPlaylist(reset, mode))
    BY <1>1, <2>1, <2>3, <2>4, ActivateSaved, UpdatedKeeps
  <2>5. CASE SaveAndUpdateTimeline(reset)
    BY <2>1, <2>3, <2>5, UpdatedKeeps
  <2>6. CASE SaveOnly(reset)
    BY <2>2, <2>3, <2>6, OnlySavedKeeps
  <2> QED BY <2>1, <2>4, <2>5, <2>6
<1>5. ASSUME NEW mode \in Modes \ {"inactive"}, Activate(mode) PROVE IInv'
  <2>1. SaveAndUpdateTimeline(ActivateRundownPlaylist(m, mode)) /\ RundownUnchanged
    BY <1>5 DEF Activate
  <2> HIDE DEF m
  <2> QED BY <1>1, <2>1, ActivateSaved, UpdatedKeeps
<1> QED BY <1>2, <1>3, <1>4, <1>5

(* The jobs that choose another next Part.                                   *)
LEMMA FirstPlayableOfType ==
  ASSUME ShowsOK, NEW s, FirstPlayableOf(s) # None
  PROVE  Choice(FirstPlayableOf(s), FALSE) \in Choices
<1> DEFINE wanted == {p \in Part : SegmentOf[p] = s}
           n == Len(show.parts)
<1>1. show.parts \in Seq(Part)
  BY PlayoutAssumption DEF ShowsOK
<1>2. FirstPlayableOf(s) = FirstPlayable(show.parts, show.playable, 1, n, wanted)
  BY DEF FirstPlayableOf
<1> HIDE DEF wanted, n
<1>3. FirstPlayableOf(s) \in Part
  BY <1>1, <1>2, FirstPlayableIsPlayable
<1> QED BY <1>3 DEF Choice, Choices

LEMMA NextSegmentSaved ==
  ASSUME ShowsOK, NEW m, Ready(m), Saved(m), m.mode # "inactive",
         NEW s, FirstPlayableOf(s) # None
  PROVE  /\ Saved(NextSegment(m, s))
         /\ OnlyNextMoves([m EXCEPT !.queued = None], NextSegment(m, s))
<1> DEFINE n == [m EXCEPT !.queued = None]
<1>1. Ready(n) /\ Saved(n) /\ n.mode = m.mode /\ n.hold = m.hold /\ n.cur = m.cur
  BY SetQueuedSaved
<1>2. NextSegment(m, s) = SetNextPart(n, Choice(FirstPlayableOf(s), FALSE), TRUE)
  BY DEF NextSegment
<1> HIDE DEF n
<1>3. Offered(n) /\ n.mode # "inactive" /\ (n.hold # "none" => n.cur # None)
  BY <1>1 DEF Saved, Steady, Restful
<1>4. Choice(FirstPlayableOf(s), FALSE) \in Choices
  BY FirstPlayableOfType
<1>5. Saved(NextSegment(m, s)) /\ OnlyNextMoves(n, NextSegment(m, s))
  BY <1>1, <1>2, <1>3, <1>4, NextSaved
<1> QED BY <1>5 DEF n

LEMMA ChoiceOfNextKeeps ==
  ASSUME IInv, \/ \E p \in Part, manual \in BOOLEAN : SetNext(p, manual)
               \/ \E s \in Segment : SetNextSegment(s) \/ QueueNextSegment(s)
  PROVE  IInv'
<1> DEFINE m == Load(model)
<1>1. Ready(m) /\ Saved(m) /\ ShowsOK /\ SamePlayhead(model, m)
  BY LoadedInv
<1>2. ASSUME NEW p \in Part, NEW manual \in BOOLEAN, SetNext(p, manual) PROVE IInv'
  <2> DEFINE choice == Choice(p, ConsumesQueue(m, p))
             n == SetNextPart(m, choice, manual)
  <2>1. SaveAndUpdateTimeline(n) /\ RundownUnchanged /\ model.mode # "inactive"
    BY <1>2 DEF SetNext, SetNextPartFromPart, Active
  <2> HIDE DEF m
  <2>2. choice \in Choices
    BY DEF Choice, Choices, ConsumesQueue
  <2> HIDE DEF choice
  <2>3. Saved(n)
    BY <1>1, <2>1, <2>2, NextSaved DEF Saved, Steady, Restful, SamePlayhead
  <2> HIDE DEF n
  <2> QED BY <2>1, <2>3, UpdatedKeeps
<1>3. ASSUME NEW s \in Segment, SetNextSegment(s) PROVE IInv'
  <2>1. /\ SaveAndUpdateTimeline(NextSegment(m, s)) /\ RundownUnchanged
        /\ model.mode # "inactive" /\ FirstPlayableOf(s) # None
    BY <1>3 DEF SetNextSegment, Active
  <2> HIDE DEF m
  <2>2. Saved(NextSegment(m, s))
    BY <1>1, <2>1, NextSegmentSaved DEF SamePlayhead
  <2> QED BY <2>1, <2>2, UpdatedKeeps
<1>4. ASSUME NEW s \in Segment, QueueNextSegment(s) PROVE IInv'
  <2> DEFINE n == [m EXCEPT !.queued = s]
  <2>1. /\ SaveAndUpdateTimeline(n) \/ SaveAndUpdateTimeline(NextSegment(m, s))
        /\ RundownUnchanged /\ model.mode # "inactive" /\ FirstPlayableOf(s) # None
    BY <1>4 DEF QueueNextSegment, Active
  <2> HIDE DEF m
  <2>2. m.mode # "inactive"
    BY <1>1, <2>1 DEF SamePlayhead
  <2>3. Saved(NextSegment(m, s))
    BY <1>1, <2>1, <2>2, NextSegmentSaved
  <2>4. Saved(n)
    BY <1>1, <2>2, SetQueuedSaved
  <2> HIDE DEF n
  <2> QED BY <2>1, <2>3, <2>4, UpdatedKeeps
<1> QED BY <1>2, <1>3, <1>4

(* The jobs that set one field, or nothing but the timeline.                 *)
LEMMA FieldsKeep ==
  ASSUME IInv, ClearQueue \/ ActivateHold \/ DeactivateHold \/ UpdateTimelineAfterIngest
  PROVE  IInv'
<1> DEFINE m == Load(model)
<1>1. Ready(m) /\ Saved(m) /\ ShowsOK /\ SamePlayhead(model, m)
  BY LoadedInv
<1>2. CASE ClearQueue
  <2> DEFINE n == [m EXCEPT !.queued = None]
  <2>1. SaveAndUpdateTimeline(n) /\ RundownUnchanged /\ model.mode # "inactive"
    BY <1>2 DEF ClearQueue, Active
  <2> HIDE DEF m
  <2>2. Saved(n)
    BY <1>1, <2>1, SetQueuedSaved DEF SamePlayhead
  <2> HIDE DEF n
  <2> QED BY <2>1, <2>2, UpdatedKeeps
<1>3. CASE ActivateHold
  <2> DEFINE n == [m EXCEPT !.hold = "pending"]
  <2>1. /\ SaveAndUpdateTimeline(n) /\ RundownUnchanged /\ model.mode # "inactive"
        /\ Found(model, model.cur) # None
    BY <1>3 DEF ActivateHold, Active
  <2> HIDE DEF m
  <2>2. m.mode # "inactive" /\ m.cur # None /\ "pending" \in HoldStates
    BY <1>1, <2>1 DEF SamePlayhead, Found, HoldStates
  <2>3. Saved(n)
    BY <1>1, <2>2, SetHoldSaved
  <2> HIDE DEF n
  <2> QED BY <2>1, <2>3, UpdatedKeeps
<1>4. CASE DeactivateHold
  <2> DEFINE n == [m EXCEPT !.hold = "none"]
  <2>1. SaveAndUpdateTimeline(n) /\ RundownUnchanged /\ model.mode # "inactive"
    BY <1>4 DEF DeactivateHold, Active
  <2> HIDE DEF m
  <2>2. m.mode # "inactive" /\ "none" \in HoldStates
    BY <1>1, <2>1 DEF SamePlayhead, HoldStates
  <2>3. Saved(n)
    BY <1>1, <2>2, SetHoldSaved
  <2> HIDE DEF n
  <2> QED BY <2>1, <2>3, UpdatedKeeps
<1>5. CASE UpdateTimelineAfterIngest
  <2>1. SaveAndUpdateTimeline(m) /\ RundownUnchanged
    BY <1>5 DEF UpdateTimelineAfterIngest
  <2> HIDE DEF m
  <2> QED BY <1>1, <2>1, UpdatedKeeps
<1> QED BY <1>2, <1>3, <1>4, <1>5

(* The model with which ingest asks for the next Part: the saved one, with   *)
(* its instances as the new Parts have it.                                   *)
AfterIngest(new, synced) ==
    LET orphan == WithOrphans(model, new)
    IN  Load(IF synced THEN WithSynced(orphan, new) ELSE orphan)

LEMMA AfterIngestReady ==
  ASSUME IInv, NEW new \in Shows, NEW synced \in BOOLEAN
  PROVE  LET m == AfterIngest(new, synced)
         IN  /\ Ready(m) /\ Steady(m) /\ SamePlayhead(model, m)
             /\ MarkedRightly(m, new)
             /\ \A i \in Existing(model) : m.inst[i].part = model.inst[i].part
             /\ m.nxt # None /\ ~m.inst[m.nxt].playable /\ model.inst[m.nxt].playable
                  => PartOf(m, m.nxt) \notin new.playable
<1> DEFINE orphan == WithOrphans(model, new)
           sync   == IF synced THEN WithSynced(orphan, new) ELSE orphan
           m      == Load(sync)
<1>1. AfterIngest(new, synced) = m
  BY DEF AfterIngest
<1>2. Steady(model) /\ model.inst \in [Existing(model) -> PartInstanceRecord]
  BY ModelFields DEF IInv, Saved, Steady, Sound
<1>3. /\ Steady(orphan) /\ SamePlayhead(model, orphan)
      /\ orphan.inst = OrphansOf(model, new) /\ Existing(orphan) = Existing(model)
  BY <1>2, WithOrphansSaved
<1> HIDE DEF orphan
<1>4. \A i \in Existing(model) :
        /\ orphan.inst[i].part = model.inst[i].part
        /\ orphan.inst[i].playable = model.inst[i].playable
        /\ ~model.inst[i].reset /\ model.inst[i].part \in PartsIn(new.parts)
             => ~orphan.inst[i].deleted
  <2> TAKE i \in Existing(model)
  <2> DEFINE r == model.inst[i]
  <2>1. r \in PartInstanceRecord
    BY <1>2
  <2>2. orphan.inst[i] =
               IF r.reset THEN r
               ELSE IF r.part \in PartsIn(new.parts) THEN [r EXCEPT !.deleted = FALSE]
               ELSE IF i \in {model.cur, model.nxt} THEN [r EXCEPT !.deleted = TRUE]
               ELSE IF r.deleted THEN r
               ELSE [r EXCEPT !.reset = TRUE]
    BY <1>3 DEF OrphansOf
  <2> HIDE DEF r
  <2>3. /\ orphan.inst[i].part = r.part /\ orphan.inst[i].playable = r.playable
        /\ ~r.reset /\ r.part \in PartsIn(new.parts) => ~orphan.inst[i].deleted
    BY <2>1, <2>2 DEF PartInstanceRecord
  <2> QED BY <2>3 DEF r
<1>5. /\ Steady(sync) /\ SamePlayhead(orphan, sync) /\ Existing(sync) = Existing(orphan)
      /\ sync.inst = IF synced THEN SyncedOf(orphan, new) ELSE orphan.inst
  BY <1>3, WithSyncedSaved DEF SamePlayhead
<1>6. orphan.inst \in [Existing(model) -> PartInstanceRecord]
  BY <1>3, ModelFields DEF Steady, Sound
<1> HIDE DEF sync
<1>7. \A i \in Existing(model) :
        /\ sync.inst[i].part = orphan.inst[i].part
        /\ sync.inst[i].deleted = orphan.inst[i].deleted
        /\ \/ sync.inst[i].playable = orphan.inst[i].playable
           \/ sync.inst[i].playable = (orphan.inst[i].part \in new.playable)
  <2> TAKE i \in Existing(model)
  <2> DEFINE r == orphan.inst[i]
             ok == PartOf(orphan, i) \in new.playable
  <2>1. r \in PartInstanceRecord /\ ok \in BOOLEAN
    BY <1>6
  <2>2. sync.inst[i] = r \/ sync.inst[i] = [r EXCEPT !.playable = ok]
    BY <1>3, <1>5 DEF SyncedOf
  <2>3. ok = (r.part \in new.playable)
    BY DEF PartOf
  <2> HIDE DEF r, ok
  <2>4. /\ sync.inst[i].part = r.part /\ sync.inst[i].deleted = r.deleted
        /\ sync.inst[i].playable = r.playable \/ sync.inst[i].playable = ok
    BY <2>1, <2>2 DEF PartInstanceRecord
  <2> QED BY <2>3, <2>4 DEF r
<1>8. /\ Ready(m) /\ Steady(m) /\ SamePlayhead(sync, m) /\ m.inst = sync.inst
  BY <1>5, LoadReady
<1> HIDE DEF m
<1>9. SamePlayhead(model, m)
  BY <1>3, <1>5, <1>8 DEF SamePlayhead
<1>10. m.nxt # None => m.nxt \in Existing(model) /\ ~model.inst[m.nxt].reset
  BY <1>2, <1>9 DEF Steady, Sound, Selected, SamePlayhead
<1>11. MarkedRightly(m, new)
  BY <1>4, <1>7, <1>8, <1>10 DEF MarkedRightly, PartOf
<1>12. ASSUME m.nxt # None, ~m.inst[m.nxt].playable, model.inst[m.nxt].playable
       PROVE  PartOf(m, m.nxt) \notin new.playable
  <2> DEFINE i == m.nxt
  <2>1. orphan.inst[i].playable = model.inst[i].playable
    BY <1>4, <1>10, <1>12
  <2>2. sync.inst[i].playable # orphan.inst[i].playable
    BY <1>8, <1>12, <2>1
  <2>3. sync.inst[i].playable = (orphan.inst[i].part \in new.playable)
    BY <1>7, <1>10, <1>12, <2>2
  <2>4. m.inst[i].part = orphan.inst[i].part
    BY <1>7, <1>8, <1>10, <1>12
  <2> QED BY <1>8, <1>12, <2>3, <2>4 DEF PartOf
<1> QED BY <1>1, <1>4, <1>7, <1>8, <1>9, <1>11, <1>12

LEMMA IngestKeeps ==
  ASSUME IInv, NEW new \in Shows, NEW synced \in BOOLEAN, NEW close \in BOOLEAN,
         Ingest(new, synced, close)
  PROVE  IInv'
<1> DEFINE m == AfterIngest(new, synced)
           n == EnsureNextPartIsValid(m, new, close)
<1>1. show' = new /\ SaveOnly(n)
  BY DEF Ingest, AfterIngest
<1>2. Ready(m) /\ Steady(m) /\ MarkedRightly(m, new)
  BY AfterIngestReady
<1> HIDE DEF m
<1>3. Saved(n)
  BY <1>2, EnsureNextPartIsValidSaved
<1> HIDE DEF n
<1> QED BY <1>1, <1>3, OnlySavedKeeps

-----------------------------------------------------------------------------
(* What ingest leaves as next.                                               *)

(* What is next can be played, and is the user's choice, that of the queued  *)
(* segment, or what follows.                                                 *)
RightNext(m, new) ==
    /\ m.nxt = None \/ ~(m.manual \/ m.consumes) =>
          FollowingCurrent(m, new).part = (IF m.nxt = None THEN None ELSE PartOf(m, m.nxt))
    /\ m.nxt # None => m.inst[m.nxt].playable /\ ~m.inst[m.nxt].deleted

(* The search behind the current Part, in terms of the two instances.        *)
LEMMA FollowingCurrentIs ==
  ASSUME NEW m, Sound(m), m.cur # None, NEW new
  PROVE  /\ FollowingCurrent(m, new) =
              SelectNextPart(new.parts, PlayableWith(m, new), PartOf(m, m.cur), m.queued, new.loop)
         /\ PlayableWith(m, new) =
              IF m.nxt = None THEN new.playable
              ELSE IF m.inst[m.nxt].playable THEN new.playable \cup {PartOf(m, m.nxt)}
              ELSE new.playable \ {PartOf(m, m.nxt)}
         /\ PartOf(m, m.cur) # None
<1>1. Found(m, m.cur) = m.cur /\ Found(m, m.nxt) = m.nxt
  BY SelectedIsFound
<1>2. PartOf(m, m.cur) \in Part
  BY ModelFields DEF Sound, Selected, PartOf, PartInstanceRecord
<1> QED BY <1>1, <1>2, PartAssumption DEF FollowingCurrent, PlayableWith

(* Two models with the same on air and next, whatever their numbers.         *)
LEMMA SameFollowing ==
  ASSUME NEW m, Sound(m), m.cur # None, NEW n, Sound(n), n.cur # None, NEW new,
         n.queued = m.queued, n.inst[n.cur] = m.inst[m.cur],
         n.nxt = None <=> m.nxt = None, m.nxt # None => n.inst[n.nxt] = m.inst[m.nxt]
  PROVE  FollowingCurrent(n, new) = FollowingCurrent(m, new)
<1>1. PartOf(n, n.cur) = PartOf(m, m.cur) /\ (m.nxt # None => PartOf(n, n.nxt) = PartOf(m, m.nxt))
  BY DEF PartOf
<1>2. PlayableWith(n, new) = PlayableWith(m, new)
  BY <1>1, FollowingCurrentIs
<1> QED BY <1>1, <1>2, FollowingCurrentIs

(* ensureNextPartIsValid, when there is something on air without an autonext.*)
LEMMA EnsureNextPartIsRight ==
  ASSUME NEW m, Ready(m), Steady(m), m.mode # "inactive", m.cur # None,
         PartOf(m, m.cur) \notin AutoNext, NEW new \in Shows, MarkedRightly(m, new),
         m.nxt # None /\ ~m.inst[m.nxt].playable => PartOf(m, m.nxt) \notin new.playable,
         NEW close
  PROVE  RightNext(EnsureNextPartIsValid(m, new, close), new)
<1> DEFINE choice  == FollowingCurrent(m, new)
           changes == ~ManualNextIsValid(m) /\ NextIsInvalid(m, choice)
           n == SetNextPart(m, choice, FALSE)
<1>1. Sound(m) /\ choice \in Choices
  BY FollowingCurrentIsThere DEF Steady
<1>2. Found(m, m.cur) = m.cur /\ Found(m, m.nxt) = m.nxt
  BY <1>1, SelectedIsFound
<1>3. EnsureNextPartIsValid(m, new, close) = IF changes THEN n ELSE m
  <2>1. ~LeftForAutonext(m, close)
    BY <1>2 DEF LeftForAutonext
  <2> QED BY <2>1 DEF EnsureNextPartIsValid
<1>4. CASE ~changes
  <2>1. RightNext(m, new)
    BY <1>2, <1>4 DEF RightNext, ManualNextIsValid, NextIsInvalid
  <2> HIDE DEF changes
  <2> QED BY <1>3, <1>4, <2>1
<1>5. CASE changes
  <2>1. NextIsInvalid(m, choice)
    BY <1>5
  <2>2. /\ Ready(n) /\ OnlyNextMoves(m, n) /\ NextIsChosen(m, n, choice, FALSE)
    <3> HIDE DEF choice
    <3> QED BY <1>1, SetNextPartReady
  <2> HIDE DEF n
  <2>3. Sound(n) /\ n.cur # None /\ PartOf(n, n.cur) = PartOf(m, m.cur) /\ n.queued = m.queued
    BY <2>2 DEF Ready, OnlyNextMoves, PartOf
  <2>4. new.playable \subseteq PlayableWith(m, new)
    BY <1>1, FollowingCurrentIs
  <2>5. FollowingCurrent(n, new) =
          SelectNextPart(new.parts, PlayableWith(n, new), PartOf(m, m.cur), m.queued, new.loop)
    BY <2>3, FollowingCurrentIs
  <2>6. choice = SelectNextPart(new.parts, PlayableWith(m, new), PartOf(m, m.cur),
                                m.queued, new.loop)
    BY <1>1, FollowingCurrentIs
  <2>7. new.parts \in Seq(Part) /\ PartOf(m, m.cur) # None
    BY <1>1, FollowingCurrentIs, PlayoutAssumption
  <2>8. CASE n.nxt = None
    <3>1. choice.part = None
      BY <2>2, <2>8 DEF NextIsChosen
    <3>2. PlayableWith(n, new) \subseteq PlayableWith(m, new)
      BY <2>3, <2>4, <2>8, FollowingCurrentIs
    <3> HIDE DEF choice
    <3>3. SameChoice(new.parts, PlayableWith(m, new), PlayableWith(n, new),
                     PartOf(m, m.cur), m.queued, new.loop)
      BY <2>6, <2>7, <3>1, <3>2, ChoiceOfFewer
    <3>4. FollowingCurrent(n, new).part = None
      BY <2>5, <2>6, <3>1, <3>3 DEF SameChoice
    <3> QED BY <1>3, <1>5, <2>8, <3>4 DEF RightNext
  <2>9. CASE n.nxt # None
    <3>1. n.inst[n.nxt].playable /\ ~n.inst[n.nxt].deleted
      BY <1>1, <2>1, <2>2, <2>9, ChosenAnew
    <3>2. choice.part # None /\ PartOf(n, n.nxt) = choice.part /\ n.consumes = choice.consumes
      BY <2>2, <2>9 DEF NextIsChosen, PartOf
    <3>3. choice.part \in PlayableWith(m, new)
      BY <1>1, <3>2, FollowingCurrentIsThere
    <3>4. PlayableWith(n, new) = new.playable \cup {choice.part}
      <4> HIDE DEF choice
      <4> QED BY <2>3, <2>9, <3>1, <3>2, FollowingCurrentIs
    <3> HIDE DEF choice
    <3>5. ASSUME ~n.consumes PROVE FollowingCurrent(n, new).part = choice.part
      <4>1. PlayableWith(n, new) \subseteq PlayableWith(m, new) /\ choice.part \in PlayableWith(n, new)
        BY <2>4, <3>3, <3>4
      <4>2. SameChoice(new.parts, PlayableWith(m, new), PlayableWith(n, new),
                       PartOf(m, m.cur), m.queued, new.loop)
        BY <2>6, <2>7, <3>2, <3>5, <4>1, ChoiceOfFewer
      <4> QED BY <2>5, <2>6, <4>2 DEF SameChoice
    <3> QED BY <1>3, <1>5, <2>9, <3>1, <3>2, <3>5 DEF RightNext
  <2> QED BY <2>8, <2>9
<1> QED BY <1>4, <1>5

(* ... and the save keeps that.                                              *)
LEMMA SavedNextIsRight ==
  ASSUME NEW m, Saved(m), m.cur # None, NEW new, RightNext(m, new)
  PROVE  RightNext(Renumbered(m), new)
<1> DEFINE n == Renumbered(m)
<1>1. Sound(m) /\ Sound(n)
  BY SaveKeeps DEF Saved, Steady
<1>2. n.queued = m.queued /\ n.manual = m.manual /\ n.consumes = m.consumes
  BY <1>1, RenumberedEffect
<1>3. /\ n.cur # None
      /\ n.nxt = None <=> m.nxt = None
      /\ n.inst[n.cur] = m.inst[m.cur]
      /\ m.nxt # None => n.inst[n.nxt] = m.inst[m.nxt]
  BY <1>1, RenumberedPlayhead
<1> HIDE DEF n
<1>4. FollowingCurrent(n, new) = FollowingCurrent(m, new)
  BY <1>1, <1>2, <1>3, SameFollowing
<1> QED BY <1>2, <1>3, <1>4 DEF RightNext, PartOf, n

LEMMA EnsureNextPartKeepsCurrent ==
  ASSUME NEW m, Ready(m), Steady(m), NEW new \in Shows, NEW close
  PROVE  EnsureNextPartIsValid(m, new, close).cur = m.cur
<1> DEFINE choice == FollowingCurrent(m, new)
<1>1. choice \in Choices
  BY FollowingCurrentIsThere DEF Steady
<1>2. EnsureNextPartIsValid(m, new, close) \in {m, SetNextPart(m, choice, FALSE)}
  BY DEF EnsureNextPartIsValid
<1> HIDE DEF choice
<1> QED BY <1>1, <1>2, SetNextPartReady DEF OnlyNextMoves

(* No other job gives the playlist other Parts.                              *)
LEMMA OnlyIngestChangesShow ==
  ASSUME [Next]_vars, show' # show
  PROVE  \E new \in Shows, synced, close \in BOOLEAN : Ingest(new, synced, close)
<1>1. CASE Prepare \/ Deactivate \/ ClearQueue \/ ActivateHold \/ DeactivateHold
  BY <1>1 DEF Prepare, Deactivate, ClearQueue, ActivateHold, DeactivateHold, RundownUnchanged
<1>2. CASE UpdateTimelineAfterIngest \/ \E mode \in Modes : Reset(mode)
  BY <1>2 DEF UpdateTimelineAfterIngest, Reset, RundownUnchanged
<1>3. CASE TakeCompletesHold \/ TakeAborted \/ \E mode \in Modes \ {"inactive"} : Activate(mode)
  BY <1>3 DEF TakeCompletesHold, TakeAborted, Activate, RundownUnchanged
<1>4. CASE (\E attached \in BOOLEAN : Take(attached)) \/ \E i \in timeline : PlaybackStarted(i)
  BY <1>4 DEF Take, PlaybackStarted, RundownUnchanged
<1>5. CASE (\E p \in Part, manual \in BOOLEAN : SetNext(p, manual))
           \/ \E s \in Segment : SetNextSegment(s) \/ QueueNextSegment(s)
  BY <1>5 DEF SetNext, SetNextSegment, QueueNextSegment, RundownUnchanged
<1>6. CASE UNCHANGED vars
  BY <1>6 DEF vars
<1> QED BY <1>1, <1>2, <1>3, <1>4, <1>5, <1>6 DEF Next

(* A change of the rundowns leaves the right instance as next.               *)
LEMMA IngestIsRight ==
  ASSUME IInv, NEW new \in Shows, NEW synced \in BOOLEAN, NEW close \in BOOLEAN,
         Ingest(new, synced, close), Active, model.cur # None,
         PartOf(model, model.cur) \notin AutoNext
  PROVE  RightNext(model', show')
<1> DEFINE m == AfterIngest(new, synced)
           n == EnsureNextPartIsValid(m, new, close)
<1>1. show' = new /\ SaveOnly(n)
  BY DEF Ingest, AfterIngest
<1>2. /\ Ready(m) /\ Steady(m) /\ MarkedRightly(m, new) /\ SamePlayhead(model, m)
      /\ \A i \in Existing(model) : m.inst[i].part = model.inst[i].part
      /\ m.nxt # None /\ ~m.inst[m.nxt].playable /\ model.inst[m.nxt].playable
           => PartOf(m, m.nxt) \notin new.playable
  BY AfterIngestReady
<1> HIDE DEF m
<1>3. Offered(model) /\ model.cur \in Existing(model)
  BY DEF IInv, Saved, Steady, Sound, Selected
<1>4. m.mode # "inactive" /\ m.cur # None /\ PartOf(m, m.cur) \notin AutoNext
  BY <1>2, <1>3 DEF SamePlayhead, Active, PartOf
<1>5. m.nxt # None => model.inst[m.nxt].playable
  BY <1>2, <1>3 DEF Offered, SamePlayhead
<1>6. RightNext(n, new)
  BY <1>2, <1>4, <1>5, EnsureNextPartIsRight
<1>7. Saved(n)
  BY <1>2, EnsureNextPartIsValidSaved
<1>8. n.cur # None
  BY <1>2, <1>4, EnsureNextPartKeepsCurrent
<1> HIDE DEF n
<1>9. model' = Renumbered(n)
  BY <1>1, <1>7, SaveOnlyKeeps
<1> QED BY <1>1, <1>6, <1>7, <1>8, <1>9, SavedNextIsRight

-----------------------------------------------------------------------------
(* The theorems.                                                             *)

(* At the start nothing is selected and there are no instances.              *)
LEMMA InitHolds == Init => IInv
<1> SUFFICES ASSUME Init PROVE IInv
  OBVIOUS
<1> DEFINE f == [i \in {} |-> None]
<1>1. f \in [{} -> PartInstanceRecord] /\ DOMAIN f = {}
  OBVIOUS
<1> HIDE DEF f
<1>2. /\ Fresh.mode = "inactive" /\ Fresh.prev = None /\ Fresh.cur = None /\ Fresh.nxt = None
      /\ Fresh.hold = "none" /\ Fresh.queued = None /\ Fresh.inst = f /\ Fresh.loaded = {}
  BY DEF Fresh, f
<1>3. f \in UNION {[S -> PartInstanceRecord] : S \in SUBSET Nat}
  BY <1>1
<1>4. Fresh \in Models
  BY <1>3 DEF Fresh, Models, Modes, HoldStates, f
<1>5. Existing(Fresh) = {} /\ Selected(Fresh) = {}
  BY <1>1, <1>2 DEF Existing, Selected
<1>6. Saved(Fresh)
  BY <1>2, <1>4, <1>5 DEF Saved, Steady, Offered, PartOf, Sound, Settled, Restful
<1> QED BY <1>2, <1>6 DEF Init, IInv

LEMMA StutterKeeps == ASSUME IInv, UNCHANGED vars PROVE IInv'
BY DEF IInv, vars, Saved, Steady, Offered, PartOf, Sound, Settled, Restful, Reportable, Existing, Selected

(* Every job keeps the invariant.                                            *)
THEOREM StepKeeps == IInv /\ [Next]_vars => IInv'
<1> SUFFICES ASSUME IInv, [Next]_vars PROVE IInv'
  OBVIOUS
<1>1. CASE Prepare \/ Deactivate \/ (\E mode \in Modes : Reset(mode))
           \/ \E mode \in Modes \ {"inactive"} : Activate(mode)
  BY <1>1, ActivationKeeps
<1>2. CASE ClearQueue \/ ActivateHold \/ DeactivateHold \/ UpdateTimelineAfterIngest
  BY <1>2, FieldsKeep
<1>3. CASE TakeCompletesHold \/ TakeAborted \/ \E attached \in BOOLEAN : Take(attached)
  BY <1>3, TakesKeep
<1>4. ASSUME NEW i \in timeline, PlaybackStarted(i) PROVE IInv'
  BY <1>4, PlaybackStartedKeeps
<1>5. CASE (\E p \in Part, manual \in BOOLEAN : SetNext(p, manual))
           \/ \E s \in Segment : SetNextSegment(s) \/ QueueNextSegment(s)
  BY <1>5, ChoiceOfNextKeeps
<1>6. ASSUME NEW new \in Shows, NEW synced \in BOOLEAN, NEW close \in BOOLEAN,
             Ingest(new, synced, close)
      PROVE  IInv'
  BY <1>6, IngestKeeps
<1>7. CASE UNCHANGED vars
  BY <1>7, StutterKeeps
<1> QED BY <1>1, <1>2, <1>3, <1>4, <1>5, <1>6, <1>7 DEF Next

LEMMA Inductive == Spec => []IInv
<1>1. Init => IInv
  BY InitHolds
<1>2. IInv /\ [Next]_vars => IInv'
  BY StepKeeps
<1> QED BY <1>1, <1>2, PTL DEF Spec

(* The playhead, the hold, the queued segment and the instances are of their *)
(* types, and a gateway only reports what is on air or next.                 *)
THEOREM TypeCorrect == Spec => []TypeOK
<1>1. IInv => TypeOK
  <2> SUFFICES ASSUME IInv PROVE TypeOK
    OBVIOUS
  <2>1. model \in Models /\ show \in Shows /\ timeline \subseteq Reportable(model)
    BY DEF IInv, Saved, Steady, Sound
  <2>2. Selected(model) \subseteq Nat
    BY <2>1, ModelFields DEF Selected
  <2> QED BY <2>1, <2>2, ModelFields DEF TypeOK
<1> QED BY <1>1, Inductive, PTL

(* What is on air, next and before exists, is three different instances, and *)
(* is not reset; of a show that is off nothing is left (PlayoutModelImpl).   *)
THEOREM PlayheadStaysIntact == Spec => []PlayheadIsIntact
<1>1. IInv => PlayheadIsIntact
  <2> SUFFICES ASSUME IInv PROVE PlayheadIsIntact
    OBVIOUS
  <2>1. Sound(model) /\ Restful(model)
    BY DEF IInv, Saved, Steady
  <2>2. model.nxt # None => model.nxt # model.prev /\ model.nxt # model.cur
    BY <2>1 DEF Sound
  <2> QED BY <2>1, <2>2 DEF Sound, Restful, PlayheadIsIntact, Active
<1> QED BY <1>1, Inductive, PTL

(* Only the next instance has not been taken: no other one that was never on *)
(* air stays behind (removeUntakenPartInstances).                            *)
THEOREM OnlyNextIsUntaken == Spec => []TakenIsWhatWasOnAir
<1>1. IInv => TakenIsWhatWasOnAir
  BY DEF IInv, Saved, Steady, Settled, Sound, TakenIsWhatWasOnAir
<1> QED BY <1>1, Inductive, PTL

(* When the Parts change under a show on air (ensureNextPartIsValid), what   *)
(* is next afterwards can be played, and it is the user's choice, that of    *)
(* the queued segment, or what follows the current Part now.                 *)
THEOREM RightNextAfterIngest == Spec => IngestLeavesTheRightNext
<1>1. ASSUME IInv, [Next]_vars, show' # show, Active, model.cur # None,
             PartOf(model, model.cur) \notin AutoNext
      PROVE  RightNext(model', show')
  <2>1. PICK new \in Shows, synced \in BOOLEAN, close \in BOOLEAN : Ingest(new, synced, close)
    BY <1>1, OnlyIngestChangesShow
  <2> QED BY <1>1, <2>1, IngestIsRight
<1>2. IInv /\ [Next]_vars =>
        [/\ show' # show /\ Active /\ model.cur # None
         /\ PartOf(model, model.cur) \notin AutoNext
         => LET i == model'.nxt
            IN  /\ i = None \/ ~(model'.manual \/ model'.consumes) =>
                      FollowingCurrent(model', show').part =
                          (IF i = None THEN None ELSE PartOf(model', i))
                /\ i # None => model'.inst[i].playable /\ ~model'.inst[i].deleted]_vars
  BY <1>1 DEF RightNext
<1> QED BY <1>2, Inductive, PTL DEF Spec, IngestLeavesTheRightNext

-----------------------------------------------------------------------------
(* The refinement of Playhead: what a job does to the playhead, with each    *)
(* selected instance replaced by its Part.                                   *)

Shown(m) == <<m.mode, PartAt(m, m.prev), PartAt(m, m.cur), PartAt(m, m.nxt), m.hold>>

(* What is selected has a Part.                                              *)
LEMMA PartAtSelected ==
  ASSUME NEW m, Sound(m), NEW i \in {m.prev, m.cur, m.nxt}
  PROVE  /\ PartAt(m, i) = IF i = None THEN None ELSE PartOf(m, i)
         /\ PartAt(m, i) \in Part \cup {None}
         /\ PartAt(m, i) = None <=> i = None
<1>1. i # None => i \in Existing(m) /\ Found(m, i) = i
  BY DEF Sound, Selected, Found
<1>2. i = None => Found(m, i) = None
  BY DEF Found
<1>3. i # None => PartOf(m, i) \in Part
  BY <1>1, ModelFields DEF Sound, PartOf, PartInstanceRecord
<1> QED BY <1>1, <1>2, <1>3, PartAssumption DEF PartAt

(* The numbers of a save are not to be seen.                                 *)
LEMMA RenumberedShown ==
  ASSUME NEW m, Saved(m)
  PROVE  Shown(Renumbered(m)) = Shown(m)
<1> DEFINE n == Renumbered(m)
<1>1. Sound(m) /\ Sound(n)
  BY SaveKeeps DEF Saved, Steady
<1>2. n.mode = m.mode /\ n.hold = m.hold
  BY <1>1, RenumberedEffect
<1>3. /\ n.cur = None <=> m.cur = None
      /\ n.nxt = None <=> m.nxt = None
      /\ n.prev = None <=> m.prev = None
      /\ m.cur # None => n.inst[n.cur] = m.inst[m.cur]
      /\ m.nxt # None => n.inst[n.nxt] = m.inst[m.nxt]
      /\ m.prev # None => n.inst[n.prev] = m.inst[m.prev]
  BY <1>1, RenumberedPlayhead
<1> HIDE DEF n
<1>4. PartAt(n, n.prev) = PartAt(m, m.prev)
  BY <1>1, <1>3, PartAtSelected DEF PartOf
<1>5. PartAt(n, n.cur) = PartAt(m, m.cur)
  BY <1>1, <1>3, PartAtSelected DEF PartOf
<1>6. PartAt(n, n.nxt) = PartAt(m, m.nxt)
  BY <1>1, <1>3, PartAtSelected DEF PartOf
<1> QED BY <1>2, <1>4, <1>5, <1>6 DEF Shown, n

LEMMA SavedShown ==
  ASSUME NEW m, Saved(m), SaveAndUpdateTimeline(m) \/ SaveOnly(m)
  PROVE  Shown(model') = Shown(m)
BY SaveAndUpdateTimelineKeeps, SaveOnlyKeeps, RenumberedShown

(* A job that loads the model sees the playhead that was saved.              *)
LEMMA SameInstancesShown ==
  ASSUME NEW m, NEW n, n.prev = m.prev, n.cur = m.cur, n.nxt = m.nxt, n.inst = m.inst,
         n.mode = m.mode, n.hold = m.hold
  PROVE  Shown(n) = Shown(m)
BY DEF Shown, PartAt, Found, PartOf, Existing

LEMMA LoadedShown ==
  ASSUME IInv
  PROVE  Shown(Load(model)) = Shown(model)
<1> DEFINE m == Load(model)
<1>1. SamePlayhead(model, m) /\ m.inst = model.inst
  BY LoadedInv
<1> HIDE DEF m
<1>2. Shown(m) = Shown(model)
  BY <1>1, SameInstancesShown DEF SamePlayhead
<1> QED BY <1>2 DEF m

(* The steps of Playhead, one lemma each.                                    *)
LEMMA NothingIsShown ==
  ASSUME Shown(model') = Shown(model)
  PROVE  UNCHANGED Promise!playheadVars
BY DEF Shown, Promise!playheadVars

LEMMA StartIsShown ==
  ASSUME IInv, NEW n, Saved(n), Shown(model') = Shown(n), Blank(n), n.mode # "inactive",
         model.mode = "on air" => AllowResetOnAir \/ model.cur = None
  PROVE  Promise!Start
<1>1. Sound(n) /\ Sound(model)
  BY DEF IInv, Saved, Steady
<1>2. n.mode \in Promise!ActiveModes
  BY <1>1, ModelFields DEF Sound, Modes, Promise!ActiveModes
<1>3. PartAt(n, n.prev) = None /\ PartAt(n, n.cur) = None /\ n.hold = "none"
  BY <1>1, PartAtSelected DEF Blank
<1>4. PartAt(n, n.nxt) \in Part \cup {None}
  BY <1>1, PartAtSelected
<1>5. model.cur = None => PartAt(model, model.cur) = None
  BY <1>1, PartAtSelected
<1>6. /\ model'.mode = n.mode /\ PartAt(model', model'.prev) = PartAt(n, n.prev)
      /\ PartAt(model', model'.cur) = PartAt(n, n.cur)
      /\ PartAt(model', model'.nxt) = PartAt(n, n.nxt) /\ model'.hold = n.hold
  BY DEF Shown
<1> QED BY <1>2, <1>3, <1>4, <1>5, <1>6 DEF Promise!Start, Promise!PartOrNone

LEMMA StopIsShown ==
  ASSUME NEW n, Saved(n), Shown(model') = Shown(n), n.mode = "inactive"
  PROVE  Promise!Stop
<1>1. Sound(n) /\ Restful(n)
  BY DEF Saved, Steady
<1>2. n.prev = None /\ n.cur = None /\ n.nxt = None /\ n.hold = "none"
  BY <1>1, ModeOff
<1>3. PartAt(n, n.prev) = None /\ PartAt(n, n.cur) = None /\ PartAt(n, n.nxt) = None
  BY <1>1, <1>2, PartAtSelected
<1>4. /\ model'.mode = n.mode /\ PartAt(model', model'.prev) = PartAt(n, n.prev)
      /\ PartAt(model', model'.cur) = PartAt(n, n.cur)
      /\ PartAt(model', model'.nxt) = PartAt(n, n.nxt) /\ model'.hold = n.hold
  BY DEF Shown
<1> QED BY <1>2, <1>3, <1>4 DEF Promise!Stop

(* Only the next instance was chosen.                                        *)
LEMMA ChoiceIsShown ==
  ASSUME IInv, NEW m, Sound(m), Shown(m) = Shown(model), m.mode # "inactive",
         NEW n, Saved(n), OnlyNextMoves(m, n), Shown(model') = Shown(n)
  PROVE  Promise!ChooseNext
<1>1. Sound(n)
  BY DEF Saved, Steady
<1>2. n.mode = m.mode /\ n.hold = m.hold /\ n.prev = m.prev /\ n.cur = m.cur
  BY DEF OnlyNextMoves
<1>3. PartAt(n, n.prev) = PartAt(m, m.prev)
  BY <1>1, <1>2, PartAtSelected DEF OnlyNextMoves, PartOf
<1>4. PartAt(n, n.cur) = PartAt(m, m.cur)
  BY <1>1, <1>2, PartAtSelected DEF OnlyNextMoves, PartOf
<1>5. PartAt(n, n.nxt) \in Part \cup {None}
  BY <1>1, PartAtSelected
<1>6. /\ model'.mode = n.mode /\ PartAt(model', model'.prev) = PartAt(n, n.prev)
      /\ PartAt(model', model'.cur) = PartAt(n, n.cur)
      /\ PartAt(model', model'.nxt) = PartAt(n, n.nxt) /\ model'.hold = n.hold
  BY DEF Shown
<1>7. /\ model.mode = m.mode /\ PartAt(model, model.prev) = PartAt(m, m.prev)
      /\ PartAt(model, model.cur) = PartAt(m, m.cur) /\ model.hold = m.hold
  BY DEF Shown
<1> QED BY <1>2, <1>3, <1>4, <1>5, <1>6, <1>7 DEF Promise!ChooseNext, Promise!PartOrNone

LEMMA AdvanceIsShown ==
  ASSUME IInv, NEW m, Sound(m), Shown(m) = Shown(model), m.mode # "inactive", m.nxt # None,
         NEW n, Saved(n), Advanced(m, n), Shown(model') = Shown(n)
  PROVE  Promise!Advance /\ model'.hold = n.hold
<1>1. Sound(n)
  BY DEF Saved, Steady
<1>2. n.mode = m.mode /\ n.prev = m.cur /\ n.cur = m.nxt
  BY DEF Advanced
<1>3. PartAt(n, n.prev) = PartAt(m, m.cur)
  BY <1>1, <1>2, PartAtSelected DEF Advanced
<1>4. PartAt(n, n.cur) = PartAt(m, m.nxt) /\ PartAt(m, m.nxt) # None
  BY <1>1, <1>2, PartAtSelected DEF Advanced
<1>5. PartAt(n, n.nxt) \in Part \cup {None}
  BY <1>1, PartAtSelected
<1>6. /\ model'.mode = n.mode /\ PartAt(model', model'.prev) = PartAt(n, n.prev)
      /\ PartAt(model', model'.cur) = PartAt(n, n.cur)
      /\ PartAt(model', model'.nxt) = PartAt(n, n.nxt) /\ model'.hold = n.hold
  BY DEF Shown
<1>7. /\ model.mode = m.mode /\ PartAt(model, model.nxt) = PartAt(m, m.nxt)
      /\ PartAt(model, model.cur) = PartAt(m, m.cur) /\ model.hold = m.hold
  BY DEF Shown
<1> QED BY <1>2, <1>3, <1>4, <1>5, <1>6, <1>7 DEF Promise!Advance, Promise!PartOrNone

(* Nothing but the hold changes.                                             *)
LEMMA HoldIsShown ==
  ASSUME NEW m \in Models, Shown(m) = Shown(model), NEW hold, NEW n,
         n = [m EXCEPT !.hold = hold], Shown(model') = Shown(n)
  PROVE  /\ model'.hold = hold
         /\ UNCHANGED <<model.mode, PartAt(model, model.prev), PartAt(model, model.cur),
                        PartAt(model, model.nxt)>>
<1>1. /\ n.mode = m.mode /\ n.prev = m.prev /\ n.cur = m.cur /\ n.nxt = m.nxt
      /\ n.inst = m.inst /\ n.hold = hold
  BY DEF Models
<1>2. /\ PartAt(n, n.prev) = PartAt(m, m.prev) /\ PartAt(n, n.cur) = PartAt(m, m.cur)
      /\ PartAt(n, n.nxt) = PartAt(m, m.nxt)
  BY <1>1 DEF PartAt, Found, PartOf, Existing
<1> QED BY <1>1, <1>2 DEF Shown

(* The steps of the jobs.                                                    *)
LEMMA ActivationsAreShown ==
  ASSUME IInv, \/ Prepare \/ Deactivate \/ \E mode \in Modes : Reset(mode)
               \/ \E mode \in Modes \ {"inactive"} : Activate(mode)
  PROVE  [Promise!PlayheadNext]_(Promise!playheadVars)
<1> DEFINE m == Load(model)
           reset == ResetRundownPlaylist(m)
<1>1. /\ Ready(m) /\ Saved(m) /\ ShowsOK /\ SamePlayhead(model, m)
      /\ Shown(m) = Shown(model)
  BY LoadedInv, LoadedShown
<1> HIDE DEF m
<1>2. Ready(reset) /\ Saved(reset) /\ Blank(reset) /\ reset.mode = model.mode
  BY <1>1, ResetSaved DEF SamePlayhead
<1> HIDE DEF reset
<1>3. ASSUME NEW mode \in Modes \ {"inactive"}, model.mode = "on air" => AllowResetOnAir,
             SaveAndUpdateTimeline(ActivateRundownPlaylist(reset, mode))
      PROVE  Promise!Start
  <2> DEFINE n == ActivateRundownPlaylist(reset, mode)
  <2>1. Saved(n) /\ n.mode = mode /\ Blank(n)
    BY <1>1, <1>2, ActivateSaved DEF Blank
  <2> HIDE DEF n
  <2>2. Shown(model') = Shown(n)
    BY <1>3, <2>1, SavedShown DEF n
  <2> QED BY <1>3, <2>1, <2>2, StartIsShown
<1>4. CASE Prepare
  <2>1. SaveAndUpdateTimeline(ActivateRundownPlaylist(reset, "rehearsal")) /\ model.mode = "inactive"
    BY <1>4 DEF Prepare, Active, reset, m
  <2>2. Promise!Start
    BY <1>3, <2>1 DEF Modes
  <2> QED BY <2>2 DEF Promise!PlayheadNext
<1>5. CASE Deactivate
  <2> DEFINE n == DeactivateRundownPlaylist(m)
  <2>1. SaveAndUpdateTimeline(n)
    BY <1>5 DEF Deactivate, m
  <2>2. Saved(n) /\ n.mode = "inactive"
    BY <1>1, DeactivateSaved
  <2> HIDE DEF n
  <2>3. Promise!Stop
    BY <2>1, <2>2, SavedShown, StopIsShown
  <2> QED BY <2>3 DEF Promise!PlayheadNext
<1>6. ASSUME NEW mode \in Modes, Reset(mode) PROVE Promise!PlayheadNext
  <2>1. /\ model.mode = "on air" => AllowResetOnAir
        /\ \/ mode # "inactive" /\ SaveAndUpdateTimeline(ActivateRundownPlaylist(reset, mode))
           \/ SaveAndUpdateTimeline(reset) \/ SaveOnly(reset)
    BY <1>6, PlayoutAssumption DEF Reset, reset, m
  <2>2. CASE mode # "inactive" /\ SaveAndUpdateTimeline(ActivateRundownPlaylist(reset, mode))
    BY <1>3, <2>1, <2>2 DEF Promise!PlayheadNext
  <2>3. CASE SaveAndUpdateTimeline(reset) \/ SaveOnly(reset)
    <3>1. Shown(model') = Shown(reset)
      BY <1>2, <2>3, SavedShown
    <3>2. CASE reset.mode = "inactive"
      BY <1>2, <3>1, <3>2, StopIsShown DEF Promise!PlayheadNext
    <3>3. CASE reset.mode # "inactive"
      BY <1>2, <2>1, <3>1, <3>3, StartIsShown DEF Promise!PlayheadNext
    <3> QED BY <3>2, <3>3
  <2> QED BY <2>1, <2>2, <2>3
<1>7. ASSUME NEW mode \in Modes \ {"inactive"}, Activate(mode) PROVE Promise!PlayheadNext
  <2> DEFINE n == ActivateRundownPlaylist(m, mode)
  <2>1. SaveAndUpdateTimeline(n)
    BY <1>7 DEF Activate, m
  <2>2. /\ Saved(n) /\ n.mode = mode
        /\ \/ Blank(n) /\ m.cur = None
           \/ m.mode # "inactive" /\ m.cur # None /\ SameInstances(m, n) /\ n.hold = m.hold
    BY <1>1, ActivateSaved
  <2> HIDE DEF n
  <2>3. Shown(model') = Shown(n)
    BY <2>1, <2>2, SavedShown
  <2>4. CASE Blank(n) /\ m.cur = None
    <3>1. Promise!Start
      BY <1>1, <2>2, <2>3, <2>4, StartIsShown DEF SamePlayhead
    <3> QED BY <3>1 DEF Promise!PlayheadNext
  <2>5. CASE m.mode # "inactive" /\ m.cur # None /\ SameInstances(m, n) /\ n.hold = m.hold
    <3>1. /\ PartAt(n, n.prev) = PartAt(m, m.prev) /\ PartAt(n, n.cur) = PartAt(m, m.cur)
          /\ PartAt(n, n.nxt) = PartAt(m, m.nxt)
      BY <2>5 DEF SameInstances, PartAt, Found, PartOf, Existing
    <3>2. PartAt(m, m.cur) # None
      BY <1>1, <2>5, PartAtSelected DEF Ready
    <3>3. mode \in Promise!ActiveModes
      BY DEF Modes, Promise!ActiveModes
    <3>4. Promise!ChangeMode
      BY <1>1, <2>2, <2>3, <2>5, <3>1, <3>2, <3>3 DEF Shown, Promise!ChangeMode
    <3> QED BY <3>4 DEF Promise!PlayheadNext
  <2> QED BY <2>2, <2>4, <2>5
<1> QED BY <1>4, <1>5, <1>6, <1>7

LEMMA TakesAreShown ==
  ASSUME IInv, \/ TakeCompletesHold \/ TakeAborted \/ \E attached \in BOOLEAN : Take(attached)
  PROVE  [Promise!PlayheadNext]_(Promise!playheadVars)
<1> DEFINE m == Load(model)
<1>1. /\ Ready(m) /\ Saved(m) /\ ShowsOK /\ SamePlayhead(model, m)
      /\ Shown(m) = Shown(model) /\ Existing(m) = Existing(model)
  BY LoadedInv, LoadedShown
<1>2. m.hold \in HoldStates /\ m \in Models /\ m.hold = model.hold
  BY <1>1, ModelFields DEF Ready, Sound, SamePlayhead
<1>3. CASE TakeCompletesHold
  <2> DEFINE n == [m EXCEPT !.hold = "complete"]
  <2>1. SaveAndUpdateTimeline(n) /\ model.mode # "inactive" /\ model.hold = "active"
    BY <1>3 DEF TakeCompletesHold, MayTake, Active
  <2> HIDE DEF m
  <2>2. m.mode # "inactive" /\ m.cur # None
    BY <1>1, <2>1 DEF SamePlayhead, Saved, Steady, Restful
  <2>3. Saved(n)
    BY <1>1, <2>2, SetHoldSaved DEF HoldStates
  <2> HIDE DEF n
  <2>4. Shown(model') = Shown(n)
    BY <2>1, <2>3, SavedShown
  <2>5. Promise!ChangeHold
    BY <1>1, <1>2, <2>1, <2>4, HoldIsShown DEF n, Promise!ChangeHold
  <2> QED BY <2>5 DEF Promise!PlayheadNext
<1>4. CASE TakeAborted
  <2> DEFINE hold == IF m.hold = "complete" THEN "none" ELSE m.hold
             n == [m EXCEPT !.hold = hold]
  <2>1. SaveAndUpdateTimeline(n) /\ model.mode # "inactive"
    BY <1>4 DEF TakeAborted, MayTake, Active
  <2> HIDE DEF m
  <2>2. hold \in HoldStates /\ m.mode # "inactive" /\ (hold # "none" => m.cur # None)
    BY <1>1, <1>2, <2>1 DEF SamePlayhead, Saved, Steady, Restful, HoldStates
  <2>3. hold = m.hold \/ (m.hold = "complete" /\ hold = "none")
    OBVIOUS
  <2> HIDE DEF hold
  <2>4. Saved(n)
    BY <1>1, <2>2, SetHoldSaved
  <2> HIDE DEF n
  <2>5. Shown(model') = Shown(n)
    BY <2>1, <2>4, SavedShown
  <2>6. /\ model'.hold = hold
        /\ UNCHANGED <<model.mode, PartAt(model, model.prev), PartAt(model, model.cur),
                       PartAt(model, model.nxt)>>
    BY <1>1, <1>2, <2>5, HoldIsShown DEF n
  <2>7. CASE hold = m.hold
    BY <1>2, <2>6, <2>7 DEF Promise!playheadVars
  <2>8. CASE m.hold = "complete" /\ hold = "none"
    <3>1. Promise!ChangeHold
      BY <1>2, <2>1, <2>6, <2>8 DEF Promise!ChangeHold
    <3> QED BY <3>1 DEF Promise!PlayheadNext
  <2> QED BY <2>3, <2>7, <2>8
<1>5. ASSUME NEW attached \in BOOLEAN, Take(attached) PROVE Promise!PlayheadNext
  <2> DEFINE after == PerformTake(m)
             n == IF attached THEN after ELSE SetStarted(after)
  <2>1. /\ SaveAndUpdateTimeline(n) /\ model.mode # "inactive"
        /\ model.hold # "active" /\ Found(model, model.nxt) # None
        /\ model.hold = "pending" => Found(model, model.cur) # None
    BY <1>5 DEF Take, MayTake, Active
  <2> HIDE DEF m
  <2>2. /\ m.mode # "inactive" /\ m.nxt # None
        /\ m.hold = "pending" => m.cur # None
    BY <1>1, <2>1 DEF SamePlayhead, Found
  <2>3. /\ Ready(after) /\ Saved(after)
        /\ Advanced(m, after) /\ after.hold = HoldAfterTake(m.hold)
    BY <1>1, <2>2, PerformTakeSaved
  <2> HIDE DEF after
  <2>4. Saved(n)
    BY <2>3, SetStartedSaved
  <2>5. /\ n.mode = after.mode /\ n.prev = after.prev /\ n.cur = after.cur
        /\ n.inst = after.inst /\ n.hold = after.hold
    BY <2>3 DEF SetStarted, Ready, Sound, Models
  <2> HIDE DEF n
  <2>6. Advanced(m, n)
    BY <2>3, <2>5 DEF Advanced, PartOf
  <2>7. Shown(model') = Shown(n)
    BY <2>1, <2>4, SavedShown
  <2>8. Promise!Advance /\ model'.hold = HoldAfterTake(model.hold)
    BY <1>1, <1>2, <2>2, <2>3, <2>4, <2>5, <2>6, <2>7, AdvanceIsShown DEF Ready
  <2>9. model.hold = "pending" => PartAt(model, model.cur) # None
    BY <1>1, <1>2, <2>2, PartAtSelected DEF Ready, Shown
  <2>10. Promise!TakeNext
    BY <1>2, <2>1, <2>8, <2>9 DEF Promise!TakeNext, HoldAfterTake, HoldStates
  <2> QED BY <2>10 DEF Promise!PlayheadNext
<1> QED BY <1>3, <1>4, <1>5

LEMMA PlaybackStartedIsShown ==
  ASSUME IInv, NEW i \in timeline, PlaybackStarted(i)
  PROVE  [Promise!PlayheadNext]_(Promise!playheadVars)
<1> DEFINE m == Load(model)
<1>1. /\ Ready(m) /\ Saved(m) /\ ShowsOK /\ SamePlayhead(model, m)
      /\ Shown(m) = Shown(model) /\ Existing(m) = Existing(model)
  BY LoadedInv, LoadedShown
<1>2. /\ i \in m.loaded
      /\ \/ SaveAndUpdateTimeline(SetStarted(m))
         \/ i = m.nxt /\ SaveAndUpdateTimeline(PerformAutonext(m))
  BY DEF PlaybackStarted
<1> HIDE DEF m
<1>3. i \in Existing(m) /\ i # None
  BY <1>1, <1>2, ModelFields, PlayoutAssumption DEF Ready, Sound
<1>4. CASE SaveAndUpdateTimeline(SetStarted(m))
  <2> DEFINE n == SetStarted(m)
  <2>1. /\ Saved(n) /\ n.mode = m.mode /\ n.prev = m.prev /\ n.cur = m.cur /\ n.nxt = m.nxt
        /\ n.inst = m.inst /\ n.hold = m.hold
    BY <1>1, SetStartedSaved DEF SetStarted, Ready, Sound, Models
  <2> HIDE DEF n
  <2>2. Shown(n) = Shown(m)
    BY <2>1, SameInstancesShown
  <2>3. Shown(model') = Shown(model)
    BY <1>1, <1>4, <2>1, <2>2, SavedShown DEF n
  <2> QED BY <2>3, NothingIsShown
<1>5. CASE i = m.nxt /\ SaveAndUpdateTimeline(PerformAutonext(m))
  <2> DEFINE n == PerformAutonext(m)
  <2>1. m.mode # "inactive"
    BY <1>1, <1>3, <1>5 DEF Saved, Steady, Restful, Selected
  <2>2. Saved(n) /\ Advanced(m, n) /\ n.hold = "none"
    BY <1>1, <1>3, <1>5, <2>1, PerformAutonextSaved
  <2>3. SaveAndUpdateTimeline(n)
    BY <1>5
  <2> HIDE DEF n
  <2>4. Shown(model') = Shown(n)
    BY <2>2, <2>3, SavedShown
  <2>5. Promise!RunIntoNext
    BY <1>1, <1>3, <1>5, <2>1, <2>2, <2>4, AdvanceIsShown DEF Ready, Promise!RunIntoNext
  <2> QED BY <2>5 DEF Promise!PlayheadNext
<1> QED BY <1>2, <1>4, <1>5

(* The queue is no part of what is shown.                                    *)
LEMMA QueueIsNotShown ==
  ASSUME NEW m, Ready(m), Saved(m), Shown(m) = Shown(model), m.mode # "inactive",
         NEW s \in Segment \cup {None}, SaveAndUpdateTimeline([m EXCEPT !.queued = s])
  PROVE  UNCHANGED Promise!playheadVars
<1> DEFINE n == [m EXCEPT !.queued = s]
<1>1. /\ Saved(n) /\ n.mode = m.mode /\ n.prev = m.prev /\ n.cur = m.cur /\ n.nxt = m.nxt
      /\ n.inst = m.inst /\ n.hold = m.hold
  BY SetQueuedSaved DEF Ready, Sound, Models
<1>2. SaveAndUpdateTimeline(n)
  OBVIOUS
<1> HIDE DEF n
<1>3. Shown(n) = Shown(m) /\ Shown(model') = Shown(n)
  BY <1>1, <1>2, SameInstancesShown, SavedShown
<1> QED BY <1>3, NothingIsShown

LEMMA ChoicesAreShown ==
  ASSUME IInv, \/ \E p \in Part, manual \in BOOLEAN : SetNext(p, manual)
               \/ \E s \in Segment : SetNextSegment(s) \/ QueueNextSegment(s)
  PROVE  [Promise!PlayheadNext]_(Promise!playheadVars)
<1> DEFINE m == Load(model)
<1>1. /\ Ready(m) /\ Saved(m) /\ ShowsOK /\ SamePlayhead(model, m)
      /\ Shown(m) = Shown(model)
  BY LoadedInv, LoadedShown
<1>2. ASSUME NEW p \in Part, NEW manual \in BOOLEAN, SetNext(p, manual)
      PROVE  Promise!PlayheadNext
  <2> DEFINE choice == Choice(p, ConsumesQueue(m, p))
             n == SetNextPart(m, choice, manual)
  <2>1. SaveAndUpdateTimeline(n) /\ model.mode # "inactive"
    BY <1>2 DEF SetNext, SetNextPartFromPart, Active
  <2> HIDE DEF m
  <2>2. choice \in Choices
    BY DEF Choice, Choices, ConsumesQueue
  <2> HIDE DEF choice
  <2>3. Saved(n) /\ OnlyNextMoves(m, n) /\ m.mode # "inactive"
    BY <1>1, <2>1, <2>2, NextSaved DEF Saved, Steady, Restful, SamePlayhead
  <2> HIDE DEF n
  <2>4. Promise!ChooseNext
    BY <1>1, <2>1, <2>3, SavedShown, ChoiceIsShown DEF Ready
  <2> QED BY <2>4 DEF Promise!PlayheadNext
<1>3. ASSUME NEW s \in Segment, model.mode # "inactive", FirstPlayableOf(s) # None,
             SaveAndUpdateTimeline(NextSegment(m, s))
      PROVE  Promise!PlayheadNext
  <2> DEFINE n == NextSegment(m, s)
             k == [m EXCEPT !.queued = None]
  <2> HIDE DEF m
  <2>1. m.mode # "inactive"
    BY <1>1, <1>3 DEF SamePlayhead
  <2>2. Saved(n) /\ OnlyNextMoves(k, n)
    BY <1>1, <1>3, <2>1, NextSegmentSaved
  <2>3. SaveAndUpdateTimeline(n)
    BY <1>3
  <2> HIDE DEF n
  <2>4. /\ Ready(k) /\ k.mode = m.mode /\ k.prev = m.prev /\ k.cur = m.cur /\ k.nxt = m.nxt
        /\ k.inst = m.inst /\ k.hold = m.hold
    <3>1. Ready(m) /\ Saved(m) /\ None \in Segment \cup {None}
      BY <1>1
    <3>2. Ready(k)
      BY <2>1, <3>1, SetQueuedSaved
    <3>3. m \in Models
      BY <3>1 DEF Ready, Sound
    <3> QED BY <3>2, <3>3 DEF Models
  <2> HIDE DEF k
  <2>5. Shown(k) = Shown(model) /\ Shown(model') = Shown(n)
    BY <1>1, <2>2, <2>3, <2>4, SameInstancesShown, SavedShown
  <2>6. Promise!ChooseNext
    BY <2>1, <2>2, <2>4, <2>5, ChoiceIsShown DEF Ready
  <2> QED BY <2>6 DEF Promise!PlayheadNext
<1>4. ASSUME NEW s \in Segment, SetNextSegment(s) PROVE Promise!PlayheadNext
  BY <1>3, <1>4 DEF SetNextSegment, Active
<1>5. ASSUME NEW s \in Segment, QueueNextSegment(s)
      PROVE  [Promise!PlayheadNext]_(Promise!playheadVars)
  <2> DEFINE n == [m EXCEPT !.queued = s]
  <2>1. /\ SaveAndUpdateTimeline(n) \/ SaveAndUpdateTimeline(NextSegment(m, s))
        /\ model.mode # "inactive" /\ FirstPlayableOf(s) # None
    BY <1>5 DEF QueueNextSegment, Active
  <2>2. CASE SaveAndUpdateTimeline(NextSegment(m, s))
    BY <1>3, <2>1, <2>2
  <2> HIDE DEF m
  <2>3. CASE SaveAndUpdateTimeline(n)
    BY <1>1, <2>1, <2>3, QueueIsNotShown DEF SamePlayhead
  <2> QED BY <2>1, <2>2, <2>3
<1> QED BY <1>2, <1>4, <1>5

(* The jobs that set one field, or nothing but the timeline.                 *)
LEMMA FieldsAreShown ==
  ASSUME IInv, ClearQueue \/ ActivateHold \/ DeactivateHold \/ UpdateTimelineAfterIngest
  PROVE  [Promise!PlayheadNext]_(Promise!playheadVars)
<1> DEFINE m == Load(model)
<1>1. /\ Ready(m) /\ Saved(m) /\ SamePlayhead(model, m) /\ m.inst = model.inst
      /\ Shown(m) = Shown(model)
  BY LoadedInv, LoadedShown
<1>2. m \in Models /\ Sound(m)
  BY <1>1 DEF Ready, Sound
<1>3. CASE ClearQueue
  <2>1. SaveAndUpdateTimeline([m EXCEPT !.queued = None]) /\ model.mode # "inactive"
    BY <1>3 DEF ClearQueue, Active
  <2> HIDE DEF m
  <2> QED BY <1>1, <2>1, QueueIsNotShown DEF SamePlayhead
<1>4. CASE ActivateHold
  <2> DEFINE n == [m EXCEPT !.hold = "pending"]
  <2>1. /\ SaveAndUpdateTimeline(n) /\ model.mode # "inactive" /\ model.hold = "none"
        /\ Found(model, model.cur) # None /\ Found(model, model.nxt) # None
        /\ Compatible(model, model.cur, model.nxt)
    BY <1>4 DEF ActivateHold, Active
  <2> HIDE DEF m
  <2>2. m.mode # "inactive" /\ m.cur # None /\ "pending" \in HoldStates
    BY <1>1, <2>1 DEF SamePlayhead, Found, HoldStates
  <2>3. Saved(n)
    BY <1>1, <2>2, SetHoldSaved
  <2> HIDE DEF n
  <2>4. Shown(model') = Shown(n)
    BY <2>1, <2>3, SavedShown
  <2>5. Promise!MayHold
    BY <2>1 DEF Promise!MayHold, Compatible, SegmentAt, PartAt
  <2>6. /\ model'.hold = "pending"
        /\ UNCHANGED <<model.mode, PartAt(model, model.prev), PartAt(model, model.cur),
                       PartAt(model, model.nxt)>>
    BY <1>1, <1>2, <2>4, HoldIsShown DEF n
  <2>7. Promise!ChangeHold
    BY <2>1, <2>5, <2>6 DEF Promise!ChangeHold
  <2> QED BY <2>7 DEF Promise!PlayheadNext
<1>5. CASE DeactivateHold
  <2> DEFINE n == [m EXCEPT !.hold = "none"]
  <2>1. SaveAndUpdateTimeline(n) /\ model.mode # "inactive" /\ model.hold = "pending"
    BY <1>5 DEF DeactivateHold, Active
  <2> HIDE DEF m
  <2>2. m.mode # "inactive" /\ "none" \in HoldStates
    BY <1>1, <2>1 DEF SamePlayhead, HoldStates
  <2>3. Saved(n)
    BY <1>1, <2>2, SetHoldSaved
  <2> HIDE DEF n
  <2>4. Shown(model') = Shown(n)
    BY <2>1, <2>3, SavedShown
  <2>5. /\ model'.hold = "none"
        /\ UNCHANGED <<model.mode, PartAt(model, model.prev), PartAt(model, model.cur),
                       PartAt(model, model.nxt)>>
    BY <1>1, <1>2, <2>4, HoldIsShown DEF n
  <2>6. Promise!ChangeHold
    BY <2>1, <2>5 DEF Promise!ChangeHold
  <2> QED BY <2>6 DEF Promise!PlayheadNext
<1>6. CASE UpdateTimelineAfterIngest
  <2>1. SaveAndUpdateTimeline(m)
    BY <1>6 DEF UpdateTimelineAfterIngest
  <2> HIDE DEF m
  <2> QED BY <1>1, <2>1, SavedShown, NothingIsShown
<1> QED BY <1>3, <1>4, <1>5, <1>6

LEMMA IngestIsShown ==
  ASSUME IInv, NEW new \in Shows, NEW synced \in BOOLEAN, NEW close \in BOOLEAN,
         Ingest(new, synced, close)
  PROVE  [Promise!PlayheadNext]_(Promise!playheadVars)
<1> DEFINE m == AfterIngest(new, synced)
           n == EnsureNextPartIsValid(m, new, close)
           choice == FollowingCurrent(m, new)
<1>1. SaveOnly(n)
  BY DEF Ingest, AfterIngest
<1>2. /\ Ready(m) /\ Steady(m) /\ MarkedRightly(m, new) /\ SamePlayhead(model, m)
      /\ \A i \in Existing(model) : m.inst[i].part = model.inst[i].part
  BY AfterIngestReady
<1> HIDE DEF m
<1>3. Sound(model) /\ Sound(m)
  BY <1>2 DEF IInv, Saved, Steady
<1>4. Shown(m) = Shown(model)
  <2>1. ASSUME NEW i \in {model.prev, model.cur, model.nxt} PROVE PartAt(m, i) = PartAt(model, i)
    <3>1. i # None => i \in Existing(model)
      BY <1>3 DEF Sound, Selected
    <3>2. i \in {m.prev, m.cur, m.nxt}
      BY <1>2 DEF SamePlayhead
    <3> QED BY <1>2, <1>3, <3>1, <3>2, PartAtSelected DEF PartOf
  <2> QED BY <1>2, <2>1 DEF Shown, SamePlayhead
<1>5. Saved(n)
  BY <1>2, EnsureNextPartIsValidSaved
<1>6. Shown(model') = Shown(n)
  BY <1>1, <1>5, SavedShown
<1>7. choice \in Choices
  BY <1>3, FollowingCurrentIsThere
<1>8. n = m \/ (m.mode # "inactive" /\ n = SetNextPart(m, choice, FALSE))
  BY DEF EnsureNextPartIsValid
<1> HIDE DEF n, choice
<1>9. CASE n = m
  BY <1>4, <1>6, <1>9, NothingIsShown
<1>10. CASE m.mode # "inactive" /\ n = SetNextPart(m, choice, FALSE)
  <2>1. OnlyNextMoves(m, n)
    BY <1>2, <1>7, <1>10, SetNextPartReady
  <2>2. Promise!ChooseNext
    BY <1>3, <1>4, <1>5, <1>6, <1>10, <2>1, ChoiceIsShown
  <2> QED BY <2>2 DEF Promise!PlayheadNext
<1> QED BY <1>8, <1>9, <1>10

LEMMA StepIsShown ==
  ASSUME IInv, [Next]_vars
  PROVE  [Promise!PlayheadNext]_(Promise!playheadVars)
<1>1. CASE Prepare \/ Deactivate \/ (\E mode \in Modes : Reset(mode))
           \/ \E mode \in Modes \ {"inactive"} : Activate(mode)
  BY <1>1, ActivationsAreShown
<1>2. CASE ClearQueue \/ ActivateHold \/ DeactivateHold \/ UpdateTimelineAfterIngest
  BY <1>2, FieldsAreShown
<1>3. CASE TakeCompletesHold \/ TakeAborted \/ \E attached \in BOOLEAN : Take(attached)
  BY <1>3, TakesAreShown
<1>4. ASSUME NEW i \in timeline, PlaybackStarted(i)
      PROVE  [Promise!PlayheadNext]_(Promise!playheadVars)
  BY <1>4, PlaybackStartedIsShown
<1>5. CASE (\E p \in Part, manual \in BOOLEAN : SetNext(p, manual))
           \/ \E s \in Segment : SetNextSegment(s) \/ QueueNextSegment(s)
  BY <1>5, ChoicesAreShown
<1>6. ASSUME NEW new \in Shows, NEW synced \in BOOLEAN, NEW close \in BOOLEAN,
             Ingest(new, synced, close)
      PROVE  [Promise!PlayheadNext]_(Promise!playheadVars)
  BY <1>6, IngestIsShown
<1>7. CASE UNCHANGED vars
  BY <1>7, NothingIsShown DEF vars, Shown
<1> QED BY <1>1, <1>2, <1>3, <1>4, <1>5, <1>6, <1>7 DEF Next

(* The jobs, whatever they clean up, number anew or find changed by ingest,  *)
(* move the playhead as Playhead says: a Part comes on air only by having    *)
(* been next, and what was on air is then what was before it.                *)
THEOREM JobsImplementPlayhead == Spec => ImplementsPlayhead
<1>1. Init => Promise!PlayheadInit
  <2> SUFFICES ASSUME Init PROVE Promise!PlayheadInit
    OBVIOUS
  <2>1. IInv /\ model.mode = "inactive"
    BY InitHolds DEF Init, Fresh
  <2>2. Sound(model) /\ Restful(model)
    BY <2>1 DEF IInv, Saved, Steady
  <2>3. /\ model.prev = None /\ model.cur = None /\ model.nxt = None /\ model.hold = "none"
    BY <2>1, <2>2, ModeOff
  <2> QED BY <2>1, <2>2, <2>3, PartAtSelected DEF Promise!PlayheadInit
<1>2. IInv /\ [Next]_vars => [Promise!PlayheadNext]_(Promise!playheadVars)
  BY StepIsShown
<1> QED BY <1>1, <1>2, Inductive, PTL DEF Spec, ImplementsPlayhead, Promise!PlayheadSpec

=============================================================================
