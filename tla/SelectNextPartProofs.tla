------------------------ MODULE SelectNextPartProofs ------------------------
(* The choice of the next Part agrees with its reference, for every show and *)
(* every number of Parts and segments.                                       *)
EXTENDS NextPartChoice, WellFoundedInduction, FiniteSetTheorems, TLAPS

-----------------------------------------------------------------------------
(* First and last of a set of numbers.                                       *)

(* A set of natural numbers has a first one: what First chooses.             *)
LEMMA FirstIsThere ==
  ASSUME NEW S \in SUBSET Nat, S # {}
  PROVE  First(S) \in S /\ \A j \in S : First(S) <= j
<1>1. PICK x \in S : \A y \in S : ~(<<y, x>> \in OpToRel(<, Nat))
  BY WFMin, NatLessThanWellFounded
<1>2. \A y \in S : ~(y < x)
  BY <1>1 DEF OpToRel
<1>3. IsFirst(x, S)
  BY <1>2, SMT DEF IsFirst
<1>4. IsFirst(First(S), S)
  BY <1>3 DEF First
<1> QED BY <1>4 DEF IsFirst

(* A bounded set of natural numbers has a last one: what Last chooses.       *)
LEMMA LastIsThere ==
  ASSUME NEW n \in Nat, NEW S \in SUBSET (0 .. n), S # {}
  PROVE  Last(S) \in S /\ \A j \in S : j <= Last(S)
<1> DEFINE T == {i \in 0 .. n : n - i \in S}
<1>1. T \in SUBSET Nat
  OBVIOUS
<1>2. PICK s \in S : TRUE
  OBVIOUS
<1>3. n - s \in T
  BY <1>2
<1>4. PICK t \in T : \A u \in T : t <= u
  BY <1>1, <1>3, FirstIsThere
<1>5. ASSUME NEW j \in S PROVE j <= n - t
  <2>1. t \in Nat /\ j \in Nat
    BY <1>4
  <2>2. n - j \in T
    OBVIOUS
  <2>3. t <= n - j
    BY <2>2, <1>4
  <2> HIDE DEF T
  <2> QED BY <2>1, <2>3
<1>6. n - t \in S
  BY <1>4
<1> QED BY <1>5, <1>6 DEF Last

-----------------------------------------------------------------------------
(* The order of the show.                                                    *)

Place(p) == CHOOSE k \in DOMAIN Segments : Segments[k] = SegmentOf[p]

(* Two Parts are in the order of their segments, or of their ranks.          *)
LEMMA ShowOrder ==
  ASSUME NEW p \in Part, NEW q \in Part
  PROVE  /\ p \in Nat /\ Rank[p] \in Int
         /\ Place(p) \in DOMAIN Segments /\ Segments[Place(p)] = SegmentOf[p]
         /\ Place(p) = Place(q) <=> SegmentOf[p] = SegmentOf[q]
         /\ p < q => Place(p) <= Place(q)
         /\ Place(p) < Place(q) => p < q
         /\ SegmentOf[p] = SegmentOf[q] => (p < q <=> Rank[p] < Rank[q])
<1>1. \A r \in Part : Place(r) \in DOMAIN Segments /\ Segments[Place(r)] = SegmentOf[r]
  BY ShowAssumption DEF Place
<1>2. \A r \in Part : \A k \in DOMAIN Segments : Segments[k] = SegmentOf[r] => k = Place(r)
  BY <1>1, ShowAssumption
<1>3. DOMAIN Segments \subseteq Nat
  BY PartAssumption
<1>4. \A r \in Part : r \in Nat /\ Rank[r] \in Int
  BY PartAssumption, ShowAssumption
<1>5. Place(p) = Place(q) <=> SegmentOf[p] = SegmentOf[q]
  BY <1>1, <1>2
<1>6. \A r, t \in Part : r < t => \/ SegmentOf[r] = SegmentOf[t] /\ Rank[r] < Rank[t]
                                  \/ Place(r) < Place(t)
  BY <1>2, ShowAssumption
<1>7. Place(p) \in Nat /\ Place(q) \in Nat
  BY <1>1, <1>3
<1>8. p < q \/ q < p \/ p = q
  BY <1>4
<1>9. p < q => Place(p) <= Place(q)
  BY <1>5, <1>6, <1>7
<1>10. Place(p) < Place(q) => p < q
  <2>1. q < p => SegmentOf[q] = SegmentOf[p] \/ Place(q) < Place(p)
    BY <1>6
  <2> QED BY <1>5, <1>7, <1>8, <2>1
<1>11. SegmentOf[p] = SegmentOf[q] => (p < q <=> Rank[p] < Rank[q])
  <2> SUFFICES ASSUME SegmentOf[p] = SegmentOf[q] PROVE p < q <=> Rank[p] < Rank[q]
    OBVIOUS
  <2>1. Place(p) = Place(q)
    BY <1>5
  <2>2. p < q => Rank[p] < Rank[q]
    BY <1>6, <1>7, <2>1
  <2>3. q < p => Rank[q] < Rank[p]
    BY <1>6, <1>7, <2>1
  <2> QED BY <1>4, <1>8, <2>2, <2>3
<1> QED BY <1>1, <1>4, <1>5, <1>9, <1>10, <1>11

(* The Parts of a playlist.                                                  *)
LEMMA PlaylistShape ==
  ASSUME NEW s \in Playlists
  PROVE  \E n \in Nat : s \in [1 .. n -> Part] /\ InOrder(s)
<1>1. PICK n \in 0 .. Cardinality(Part) : s \in [1 .. n -> Part] /\ InOrder(s)
  BY DEF Playlists
<1>2. Cardinality(Part) \in Nat
  BY ShowAssumption, FS_CardinalityType
<1> QED BY <1>1, <1>2

LEMMA Positions ==
  ASSUME NEW n \in Nat, NEW s \in [1 .. n -> Part], InOrder(s),
         NEW i \in 1 .. n, NEW j \in 1 .. n
  PROVE  /\ s[i] \in Part /\ s[i] \in Nat
         /\ i < j <=> s[i] < s[j]
         /\ s[i] = s[j] <=> i = j
<1>1. s[i] \in Part /\ s[j] \in Part /\ s[i] \in Nat /\ s[j] \in Nat
  BY ShowAssumption
<1>2. i < j => s[i] < s[j]
  BY DEF InOrder
<1>3. j < i => s[j] < s[i]
  BY DEF InOrder
<1> QED BY <1>1, <1>2, <1>3

LEMMA EarliestIsThere ==
  ASSUME NEW S \in SUBSET Nat, S # {}
  PROVE  Earliest(S) \in S /\ \A q \in S : Earliest(S) <= q
<1>1. First(S) \in S /\ \A q \in S : First(S) <= q
  BY FirstIsThere
<1> QED BY <1>1 DEF Earliest

(* What is found first is the earliest of what could be found.               *)
CouldBeFound(s, n, ok, from, to, wanted, S) ==
  \A q : q \in S <=> \E i \in 1 .. n : /\ from <= i /\ i <= to /\ q = s[i]
                                       /\ q \in ok /\ q \in wanted

LEMMA FoundIsEarliest ==
  ASSUME NEW n \in Nat, NEW s \in [1 .. n -> Part], InOrder(s),
         NEW ok, NEW from, NEW to, NEW wanted, NEW S, CouldBeFound(s, n, ok, from, to, wanted, S)
  PROVE  /\ FirstPlayable(s, ok, from, to, wanted) = Earliest(S)
         /\ S \subseteq Part /\ (Earliest(S) = None <=> S = {})
         /\ S # {} => Earliest(S) \in S
<1> DEFINE found == {i \in DOMAIN s : /\ from <= i /\ i <= to /\ s[i] \in ok /\ s[i] \in wanted}
<1>1. DOMAIN s = 1 .. n
  OBVIOUS
<1>2. FirstPlayable(s, ok, from, to, wanted) = IF found = {} THEN None ELSE s[First(found)]
  BY DEF FirstPlayable
<1>3. found \subseteq 1 .. n /\ \A i \in found : s[i] \in S
  BY <1>1 DEF CouldBeFound
<1>4. \A q \in S : \E i \in found : q = s[i]
  BY <1>1 DEF CouldBeFound
<1>5. S \subseteq Part /\ S \subseteq Nat
  <2>1. \A q \in S : q \in Part
    BY DEF CouldBeFound
  <2> QED BY <2>1, ShowAssumption
<1> HIDE DEF found
<1>6. CASE S = {}
  BY <1>2, <1>3, <1>6 DEF Earliest
<1>7. CASE S # {}
  <2>1. Earliest(S) \in S /\ \A q \in S : Earliest(S) <= q
    BY <1>5, <1>7, EarliestIsThere
  <2>2. found # {} /\ found \in SUBSET Nat
    BY <1>3, <1>4, <1>7
  <2>3. First(found) \in found /\ \A j \in found : First(found) <= j
    BY <2>2, FirstIsThere
  <2>4. PICK e \in found : Earliest(S) = s[e]
    BY <1>4, <2>1
  <2>5. s[First(found)] \in S /\ First(found) \in 1 .. n /\ e \in 1 .. n
    BY <1>3, <2>3
  <2>6. Earliest(S) <= s[First(found)] /\ First(found) <= e
    BY <2>1, <2>3, <2>5
  <2>7. s[First(found)] = s[e]
    <3>1. First(found) < e => s[First(found)] < s[e]
      BY <2>5, Positions
    <3>2. s[First(found)] \in Nat /\ s[e] \in Nat
      BY <2>5, Positions
    <3> QED BY <2>4, <2>5, <2>6, <3>1, <3>2
  <2>8. Earliest(S) # None
    BY <1>5, <2>1, PartAssumption
  <2> QED BY <1>2, <1>5, <1>7, <2>1, <2>2, <2>4, <2>7, <2>8
<1> QED BY <1>6, <1>7

-----------------------------------------------------------------------------
(* Where the search starts: before it is what the show has before the        *)
(* previous Part and that Part itself, whether it is still there or not.     *)

Splits(s, from, p) == /\ from \in Nat \ {0}
                      /\ \A i \in DOMAIN s : from <= i <=> s[i] > p

(* The Part is still there.                                                  *)
LEMMA SplitsHere ==
  ASSUME NEW n \in Nat, NEW s \in [1 .. n -> Part], InOrder(s), NEW p \in Part,
         NEW here, here = {i \in DOMAIN s : s[i] = p}, here # {}
  PROVE  Splits(s, First(here) + 1, p)
<1>1. First(here) \in here
  BY FirstIsThere
<1>2. PICK h \in 1 .. n : h = First(here) /\ s[h] = p
  BY <1>1
<1>3. \A i \in 1 .. n : h < i <=> s[h] < s[i]
  BY Positions
<1>4. p \in Nat /\ \A i \in 1 .. n : s[i] \in Nat
  BY ShowAssumption
<1>5. \A i \in 1 .. n : h + 1 <= i <=> s[i] > p
  BY <1>2, <1>3, <1>4
<1> QED BY <1>2, <1>5 DEF Splits

(* It is gone, its segment is not: the segment is one run of the list.       *)
LEMMA SplitsInSegment ==
  ASSUME NEW n \in Nat, NEW s \in [1 .. n -> Part], InOrder(s), NEW p \in Part,
         \A i \in 1 .. n : s[i] # p, PositionsOf(s, SegmentOf[p]) # {}
  PROVE  Splits(s, PlaceInSegment(s, p), p)
<1> DEFINE own    == PositionsOf(s, SegmentOf[p])
           start  == First(own)
           before == {i \in DOMAIN s :
                        /\ start <= i
                        /\ \A j \in start .. i : SegmentOf[s[j]] = SegmentOf[p]
                        /\ Rank[s[i]] <= Rank[p]}
<1>1. DOMAIN s = 1 .. n /\ own = {i \in 1 .. n : SegmentOf[s[i]] = SegmentOf[p]}
  BY DEF PositionsOf
<1>2. start \in own /\ \A j \in own : start <= j
  <2>1. own \in SUBSET Nat /\ own # {}
    BY <1>1
  <2> HIDE DEF own
  <2> QED BY <2>1, FirstIsThere
<1>3. PlaceInSegment(s, p) = IF before = {} THEN start ELSE Last(before) + 1
  BY DEF PlaceInSegment
<1> HIDE DEF own, start
<1>4. \A i \in 1 .. n : /\ s[i] \in Part /\ s[i] \in Nat /\ p \in Nat /\ s[i] # p
                        /\ Place(s[i]) \in Nat /\ Place(p) \in Nat
                        /\ i \in own <=> Place(s[i]) = Place(p)
                        /\ s[i] < p => Place(s[i]) <= Place(p)
                        /\ p < s[i] => Place(p) <= Place(s[i])
                        /\ Place(s[i]) < Place(p) => s[i] < p
                        /\ Place(p) < Place(s[i]) => p < s[i]
  <2>1. DOMAIN Segments \subseteq Nat
    BY PartAssumption
  <2> QED BY <1>1, <2>1, ShowOrder
<1>5. \A i, j \in 1 .. n : i <= j => Place(s[i]) <= Place(s[j])
  <2>1. \A i, j \in 1 .. n : i < j => s[i] < s[j]
    BY Positions
  <2>2. \A i, j \in 1 .. n : s[i] < s[j] => Place(s[i]) <= Place(s[j])
    BY <1>4, ShowOrder
  <2>3. \A i, j \in 1 .. n : i <= j => i < j \/ i = j
    OBVIOUS
  <2> QED BY <1>4, <2>1, <2>2, <2>3
<1>6. \A i \in 1 .. n : i \in before <=> i \in own /\ s[i] < p
  <2> SUFFICES ASSUME NEW i \in 1 .. n PROVE i \in before <=> i \in own /\ s[i] < p
    OBVIOUS
  <2>1. i \in own => (s[i] < p <=> Rank[s[i]] <= Rank[p])
    <3>1. i \in own => (s[i] < p <=> Rank[s[i]] < Rank[p]) /\ (p < s[i] <=> Rank[p] < Rank[s[i]])
      BY <1>1, <1>4, ShowOrder
    <3>2. Rank[s[i]] \in Int /\ Rank[p] \in Int
      BY <1>4, ShowOrder
    <3> QED BY <1>4, <3>1, <3>2
  <2>2. i \in own => start <= i /\ \A j \in start .. i : SegmentOf[s[j]] = SegmentOf[p]
    <3> SUFFICES ASSUME i \in own, NEW j \in start .. i PROVE SegmentOf[s[j]] = SegmentOf[p]
      BY <1>2
    <3>1. start \in 1 .. n /\ j \in 1 .. n /\ start <= j /\ j <= i
      BY <1>1, <1>2
    <3>2. Place(s[start]) <= Place(s[j]) /\ Place(s[j]) <= Place(s[i])
      BY <1>5, <3>1
    <3>3. Place(s[start]) = Place(p) /\ Place(s[i]) = Place(p)
      BY <1>2, <1>4, <3>1
    <3>4. j \in own
      BY <1>4, <3>1, <3>2, <3>3
    <3> QED BY <1>1, <3>4
  <2>3. i \in before => i \in own
    <3> SUFFICES ASSUME i \in before PROVE i \in own
      OBVIOUS
    <3>1. start <= i /\ \A j \in start .. i : SegmentOf[s[j]] = SegmentOf[p]
      OBVIOUS
    <3>2. i \in start .. i
      BY <1>1, <1>2, <3>1
    <3> QED BY <1>1, <3>1, <3>2
  <2>4. i \in before => Rank[s[i]] <= Rank[p]
    OBVIOUS
  <2>5. i \in own /\ Rank[s[i]] <= Rank[p] => i \in before
    BY <1>1, <2>2
  <2> HIDE DEF before
  <2> QED BY <2>1, <2>3, <2>4, <2>5
<1>7. before \subseteq 1 .. n /\ before \in SUBSET (0 .. n)
  BY <1>1
<1> HIDE DEF before
<1>8. CASE before = {}
  <2>1. start \in 1 .. n /\ p < s[start]
    BY <1>1, <1>2, <1>4, <1>6, <1>8
  <2>2. ASSUME NEW i \in 1 .. n, start <= i PROVE s[i] > p
    <3>1. i = start \/ start < i
      BY <2>1, <2>2
    <3>2. start < i => s[start] < s[i]
      BY <2>1, Positions
    <3> QED BY <1>4, <2>1, <3>1, <3>2
  <2>3. ASSUME NEW i \in 1 .. n, i < start PROVE s[i] < p
    <3>1. Place(s[i]) <= Place(s[start]) /\ Place(s[start]) = Place(p)
      BY <1>2, <1>4, <1>5, <2>1, <2>3
    <3>2. i \notin own
      BY <1>2, <2>1, <2>3
    <3> QED BY <1>4, <3>1, <3>2
  <2> QED BY <1>1, <1>3, <1>4, <1>8, <2>1, <2>2, <2>3 DEF Splits
<1>9. CASE before # {}
  <2> DEFINE last == Last(before)
  <2>1. last \in before /\ \A j \in before : j <= last
    BY <1>7, <1>9, LastIsThere
  <2> HIDE DEF last
  <2>2. last \in 1 .. n /\ s[last] < p /\ last \in own
    BY <1>6, <1>7, <2>1
  <2>3. ASSUME NEW i \in 1 .. n, i <= last PROVE s[i] < p
    <3>1. i = last \/ i < last
      BY <2>2, <2>3
    <3>2. i < last => s[i] < s[last]
      BY <2>2, Positions
    <3> QED BY <1>4, <2>2, <3>1, <3>2
  <2>4. ASSUME NEW i \in 1 .. n, last < i PROVE s[i] > p
    <3>1. i \notin before
      BY <2>1, <2>2, <2>4
    <3>2. Place(s[last]) <= Place(s[i]) /\ Place(s[last]) = Place(p)
      BY <1>4, <1>5, <2>2, <2>4
    <3> QED BY <1>4, <1>6, <3>1, <3>2
  <2>5. PlaceInSegment(s, p) = last + 1
    BY <1>3, <1>9 DEF last
  <2>6. \A i \in 1 .. n : last + 1 <= i <=> s[i] > p
    BY <1>4, <2>2, <2>3, <2>4
  <2> QED BY <1>1, <2>2, <2>5, <2>6 DEF Splits
<1> QED BY <1>8, <1>9

(* Its segment has no Parts left: the next segment that has any.             *)
LEMMA SplitsBehindSegment ==
  ASSUME NEW n \in Nat, NEW s \in [1 .. n -> Part], InOrder(s), NEW p \in Part,
         PositionsOf(s, SegmentOf[p]) = {}
  PROVE  Splits(s, PlaceOfSegment(s, SegmentOf[p]), p)
<1> DEFINE here     == Place(p)
           places   == {k \in DOMAIN Segments : Segments[k] = SegmentOf[p]}
           later    == {k \in DOMAIN Segments :
                          /\ k > First(places)
                          /\ PositionsOf(s, Segments[k]) # {}}
           filled   == First(later)
           own      == PositionsOf(s, Segments[filled])
           start    == First(own)
<1>1. DOMAIN s = 1 .. n /\ \A g : PositionsOf(s, g) = {i \in 1 .. n : SegmentOf[s[i]] = g}
  BY DEF PositionsOf
<1>2. here \in DOMAIN Segments /\ places = {here} /\ DOMAIN Segments \subseteq Nat
  <2>1. here \in DOMAIN Segments /\ Segments[here] = SegmentOf[p] /\ DOMAIN Segments \subseteq Nat
    BY ShowOrder, PartAssumption
  <2>2. \A k \in DOMAIN Segments : Segments[k] = SegmentOf[p] => k = here
    BY <2>1, ShowAssumption
  <2> HIDE DEF here
  <2> QED BY <2>1, <2>2
<1>3. First(places) = here
  <2>1. places \in SUBSET Nat /\ places # {}
    BY <1>2
  <2> HIDE DEF places, here
  <2>2. First(places) \in places
    BY <2>1, FirstIsThere
  <2> QED BY <1>2, <2>2
<1>4. PlaceOfSegment(s, SegmentOf[p]) = IF later # {} THEN start ELSE Len(s) + 2
  BY <1>2 DEF PlaceOfSegment
<1>5. later = {k \in DOMAIN Segments : k > here /\ PositionsOf(s, Segments[k]) # {}}
  BY <1>3
<1> HIDE DEF places, later, here
<1>6. \A i \in 1 .. n : /\ s[i] \in Part /\ s[i] \in Nat /\ p \in Nat
                        /\ Place(s[i]) \in DOMAIN Segments /\ Place(s[i]) \in Nat /\ here \in Nat
                        /\ Segments[Place(s[i])] = SegmentOf[s[i]]
                        /\ Place(s[i]) # here
                        /\ s[i] < p => Place(s[i]) <= here
                        /\ p < s[i] => here <= Place(s[i])
                        /\ Place(s[i]) < here => s[i] < p
                        /\ here < Place(s[i]) => p < s[i]
  <2> SUFFICES ASSUME NEW i \in 1 .. n
               PROVE  /\ s[i] \in Part /\ s[i] \in Nat /\ p \in Nat
                      /\ Place(s[i]) \in DOMAIN Segments /\ Place(s[i]) \in Nat /\ here \in Nat
                      /\ Segments[Place(s[i])] = SegmentOf[s[i]]
                      /\ Place(s[i]) # here
                      /\ s[i] < p => Place(s[i]) <= here
                      /\ p < s[i] => here <= Place(s[i])
                      /\ Place(s[i]) < here => s[i] < p
                      /\ here < Place(s[i]) => p < s[i]
    OBVIOUS
  <2>1. s[i] \in Part /\ SegmentOf[s[i]] # SegmentOf[p]
    BY <1>1
  <2> QED BY <1>2, <2>1, ShowOrder DEF here
<1>7. \A i \in 1 .. n : Place(s[i]) > here => Place(s[i]) \in later
  <2> SUFFICES ASSUME NEW i \in 1 .. n, Place(s[i]) > here PROVE Place(s[i]) \in later
    OBVIOUS
  <2>1. i \in PositionsOf(s, Segments[Place(s[i])])
    BY <1>1, <1>6
  <2> QED BY <1>5, <1>6, <2>1
<1>8. \A i \in 1 .. n : s[i] > p <=> Place(s[i]) > here
  BY <1>6
<1>9. CASE later = {}
  <2>1. \A i \in 1 .. n : ~(s[i] > p)
    BY <1>7, <1>8, <1>9
  <2>2. Len(s) = n
    BY <1>1
  <2> QED BY <1>1, <1>4, <1>9, <2>1, <2>2 DEF Splits
<1>10. CASE later # {}
  <2>1. filled \in later /\ \A k \in later : filled <= k
    <3>1. later \in SUBSET Nat
      BY <1>2, <1>5
    <3> QED BY <1>10, <3>1, FirstIsThere
  <2> HIDE DEF filled
  <2>2. filled \in DOMAIN Segments /\ filled > here /\ own # {} /\ filled \in Nat
    BY <1>2, <1>5, <2>1
  <2>3. own = {i \in 1 .. n : SegmentOf[s[i]] = Segments[filled]}
    BY <1>1
  <2> HIDE DEF own
  <2>4. start \in own /\ \A j \in own : start <= j
    <3>1. own \in SUBSET Nat
      BY <2>3
    <3> QED BY <2>2, <3>1, FirstIsThere
  <2> HIDE DEF start
  <2>5. \A i \in 1 .. n : i \in own <=> Place(s[i]) = filled
    BY <1>6, <2>2, <2>3, ShowAssumption
  <2>6. start \in 1 .. n /\ Place(s[start]) = filled
    BY <2>3, <2>4, <2>5
  <2>7. \A i \in 1 .. n : /\ start < i => Place(s[start]) <= Place(s[i])
                          /\ i < start => Place(s[i]) <= Place(s[start])
    <3>1. \A i \in 1 .. n : (start < i => s[start] < s[i]) /\ (i < start => s[i] < s[start])
      BY <2>6, Positions
    <3>2. \A i \in 1 .. n : s[i] \in Part
      BY <1>6
    <3> QED BY <2>6, <3>1, <3>2, ShowOrder
  <2>8. ASSUME NEW i \in 1 .. n, start <= i PROVE s[i] > p
    <3>1. i = start \/ start < i
      BY <2>6, <2>8
    <3>2. filled <= Place(s[i])
      BY <1>6, <2>2, <2>6, <2>7, <3>1
    <3> QED BY <1>6, <1>8, <2>2, <3>2
  <2>9. ASSUME NEW i \in 1 .. n, i < start PROVE ~(s[i] > p)
    <3>1. i \notin own
      BY <2>4, <2>6, <2>9
    <3>2. Place(s[i]) <= filled /\ Place(s[i]) # filled
      BY <2>5, <2>6, <2>7, <2>9, <3>1
    <3>3. Place(s[i]) \notin later
      BY <1>6, <2>1, <2>2, <3>2
    <3> QED BY <1>7, <1>8, <3>3
  <2>10. \A i \in 1 .. n : start <= i <=> s[i] > p
    BY <2>6, <2>8, <2>9
  <2> QED BY <1>1, <1>4, <1>10, <2>6, <2>10 DEF Splits
<1> QED BY <1>9, <1>10

LEMMA SearchSplits ==
  ASSUME NEW n \in Nat, NEW s \in [1 .. n -> Part], InOrder(s), NEW p \in Part
  PROVE  Splits(s, SearchFrom(s, p), p)
<1> DEFINE here == {i \in DOMAIN s : s[i] = p}
<1>1. p # None
  BY PartAssumption
<1>2. CASE here # {}
  BY <1>1, <1>2, SplitsHere DEF SearchFrom
<1>3. CASE here = {} /\ PositionsOf(s, SegmentOf[p]) # {}
  <2>1. \A i \in 1 .. n : s[i] # p
    BY <1>3
  <2>2. SearchFrom(s, p) = PlaceInSegment(s, p)
    BY <1>1, <1>3 DEF SearchFrom
  <2> QED BY <1>3, <2>1, <2>2, SplitsInSegment
<1>4. CASE here = {} /\ PositionsOf(s, SegmentOf[p]) = {}
  <2>1. SearchFrom(s, p) = PlaceOfSegment(s, SegmentOf[p])
    BY <1>1, <1>4 DEF SearchFrom
  <2> QED BY <1>4, <2>1, SplitsBehindSegment
<1> QED BY <1>2, <1>3, <1>4

-----------------------------------------------------------------------------
(* The choice and its reference.                                             *)

Asked == /\ parts \in Playlists /\ playable \subseteq PartsOf(parts)
         /\ previous \in Part \cup {None} /\ queued \in Segment \cup {None} /\ loop \in BOOLEAN

Following == FirstPlayable(parts, playable, SearchFrom(parts, previous), Len(parts), Part)

Queued == FirstPlayable(parts, playable, 1, Len(parts), {p \in Part : SegmentOf[p] = queued})

Looped == FirstPlayable(parts, playable, 1, LoopLimit(parts, SearchFrom(parts, previous)), Part)

LEMMA FollowingIsNatural ==
  ASSUME Asked
  PROVE  /\ Following = Natural /\ (Natural # None => Natural \in Part)
         /\ Natural = None <=> Behind(previous) = {}
<1>1. PICK n \in Nat : parts \in [1 .. n -> Part] /\ InOrder(parts)
  BY PlaylistShape DEF Asked
<1>2. DOMAIN parts = 1 .. n /\ Len(parts) = n
  BY <1>1
<1> DEFINE from == SearchFrom(parts, previous)
<1>3. previous = None => from = 1
  BY DEF SearchFrom
<1>4. previous # None => Splits(parts, from, previous)
  BY <1>1, SearchSplits DEF Asked
<1>5. \A i \in 1 .. n : from <= i <=> (previous = None \/ parts[i] > previous)
  <2>1. CASE previous = None
    BY <1>3, <2>1
  <2>2. CASE previous # None
    BY <1>2, <1>4, <2>2 DEF Splits
  <2> QED BY <2>1, <2>2
<1> HIDE DEF from
<1>6. CouldBeFound(parts, n, playable, from, n, Part, Behind(previous))
  BY <1>1, <1>2, <1>5 DEF CouldBeFound, Behind, InShow, PartsOf
<1>7. /\ FirstPlayable(parts, playable, from, n, Part) = Earliest(Behind(previous))
      /\ Behind(previous) \subseteq Part
      /\ (Earliest(Behind(previous)) = None <=> Behind(previous) = {})
      /\ (Behind(previous) # {} => Earliest(Behind(previous)) \in Behind(previous))
  BY <1>1, <1>6, FoundIsEarliest
<1> QED BY <1>2, <1>7 DEF Following, Natural, from

LEMMA QueuedIsInQueue ==
  ASSUME Asked
  PROVE  /\ Queued = Earliest(InQueue) /\ (Queued = None <=> InQueue = {})
         /\ InQueue # {} => Queued \in InQueue
<1>1. PICK n \in Nat : parts \in [1 .. n -> Part] /\ InOrder(parts)
  BY PlaylistShape DEF Asked
<1>2. DOMAIN parts = 1 .. n /\ Len(parts) = n
  BY <1>1
<1> DEFINE wanted == {p \in Part : SegmentOf[p] = queued}
<1>3. CouldBeFound(parts, n, playable, 1, n, wanted, InQueue)
  BY <1>1, <1>2 DEF CouldBeFound, InQueue, InShow, PartsOf
<1> HIDE DEF wanted
<1>4. /\ FirstPlayable(parts, playable, 1, n, wanted) = Earliest(InQueue)
      /\ (Earliest(InQueue) = None <=> InQueue = {})
      /\ (InQueue # {} => Earliest(InQueue) \in InQueue)
  BY <1>1, <1>3, FoundIsEarliest
<1> QED BY <1>2, <1>4 DEF Queued, wanted

(* The loop stops before the previous Part, if that is still there.          *)
LEMMA LoopedIsBefore ==
  ASSUME Asked, previous # None, previous \in InShow, Before(previous) # {}
  PROVE  Looped = Earliest(Before(previous))
<1>1. PICK n \in Nat : parts \in [1 .. n -> Part] /\ InOrder(parts)
  BY PlaylistShape DEF Asked
<1>2. DOMAIN parts = 1 .. n /\ Len(parts) = n /\ previous \in Part
  BY <1>1 DEF Asked
<1> DEFINE from == SearchFrom(parts, previous)
<1>3. PICK h \in 1 .. n : parts[h] = previous
  BY <1>2 DEF InShow, PartsOf
<1>4. from = h + 1
  <2> DEFINE here == {i \in DOMAIN parts : parts[i] = previous}
  <2>1. here = {h}
    BY <1>1, <1>2, <1>3, Positions
  <2>2. here \in SUBSET Nat /\ here # {}
    BY <2>1
  <2>3. from = First(here) + 1
    BY <2>2 DEF SearchFrom
  <2> HIDE DEF here
  <2>4. First(here) = h
    BY <2>1, <2>2, FirstIsThere
  <2> QED BY <2>3, <2>4
<1>5. \A i \in 1 .. n : parts[i] < previous <=> i < h
  BY <1>1, <1>3, Positions
<1> HIDE DEF from
<1>6. PICK b \in 1 .. n : parts[b] < previous
  BY <1>2 DEF Before, InShow, PartsOf
<1>7. b < h
  BY <1>5, <1>6
<1>8. LoopLimit(parts, from) = h - 1
  BY <1>2, <1>4, <1>7 DEF LoopLimit
<1>9. CouldBeFound(parts, n, playable, 1, h - 1, Part, Before(previous))
  BY <1>1, <1>2, <1>5 DEF CouldBeFound, Before, InShow, PartsOf
<1>10. FirstPlayable(parts, playable, 1, h - 1, Part) = Earliest(Before(previous))
  BY <1>1, <1>9, FoundIsEarliest
<1> QED BY <1>8, <1>10 DEF Looped, from

(* The three ways to choose.                                                 *)
LEMMA ChoiceIsOneOfThree ==
  ASSUME Asked
  PROVE  LET choice == SelectNextPart(parts, playable, previous, queued, loop)
         IN  /\ LeavesTheSegment /\ InQueue # {} => choice = Choice(Queued, TRUE)
             /\ ~(LeavesTheSegment /\ InQueue # {}) =>
                  choice = Choice(IF loop /\ Natural = None /\ previous # None
                                  THEN Looped ELSE Natural, FALSE)
<1>1. Following = Natural
  BY FollowingIsNatural
<1>2. Queued # None <=> InQueue # {}
  BY QueuedIsInQueue
<1>3. InQueue # {} => queued # None
  <2>1. \A q \in InQueue : SegmentOf[q] = queued /\ q \in Part
    <3>1. InShow \subseteq Part
      BY PlaylistShape DEF Asked, InShow, PartsOf
    <3> QED BY <3>1 DEF InQueue
  <2>2. \A q \in Part : SegmentOf[q] # None
    BY PartAssumption
  <2> QED BY <2>1, <2>2
<1>4. QueueCounts(Natural, previous, queued) <=> queued # None /\ LeavesTheSegment
  BY DEF QueueCounts, LeavesTheSegment
<1>5. SelectNextPart(parts, playable, previous, queued, loop) =
        IF QueueCounts(Following, previous, queued) /\ Queued # None
        THEN Choice(Queued, TRUE)
        ELSE IF loop /\ Following = None /\ previous # None
        THEN Choice(Looped, FALSE)
        ELSE Choice(Following, FALSE)
  BY DEF SelectNextPart, Following, Queued, Looped
<1> QED BY <1>1, <1>2, <1>3, <1>4, <1>5

AnswerIsTheChoice == \/ selected = None
                     \/ selected = SelectNextPart(parts, playable, previous, queued, loop)

IInv == Asked /\ AnswerIsTheChoice

LEMMA Invariance == Spec => []IInv
<1>1. Init => IInv
  BY DEF Init, IInv, Asked, AnswerIsTheChoice
<1>2. IInv /\ [Select]_vars => IInv'
  BY DEF IInv, Asked, AnswerIsTheChoice, Select, vars
<1> QED BY <1>1, <1>2, PTL DEF Spec

LEMMA AnswersContinue == IInv => ContinuesWhereItWas
<1> SUFFICES ASSUME Asked, AnswerIsTheChoice, Answered PROVE ContinuesWhereItWas
  BY DEF IInv, ContinuesWhereItWas
<1>1. selected = SelectNextPart(parts, playable, previous, queued, loop)
  BY DEF Answered, AnswerIsTheChoice
<1>2. Natural # None /\ (InQueue = {} \/ ~LeavesTheSegment) => selected = Choice(Natural, FALSE)
  BY <1>1, ChoiceIsOneOfThree
<1>3. previous # None /\ Natural = None =>
        \/ ~loop /\ selected = Choice(None, FALSE)
        \/ loop /\ selected = Choice(Looped, FALSE)
  BY <1>1, ChoiceIsOneOfThree DEF LeavesTheSegment, Asked
<1>4. previous # None /\ Natural = None /\ ~loop => selected.part = None
  BY <1>3 DEF Choice
<1>5. previous # None /\ Natural = None /\ loop /\ previous \in InShow /\ Before(previous) # {} =>
        selected.part = Earliest(Before(previous))
  BY <1>3, LoopedIsBefore DEF Choice
<1> QED BY <1>2, <1>4, <1>5 DEF ContinuesWhereItWas

LEMMA AnswersHonour == IInv => QueueIsHonoured
<1> SUFFICES ASSUME Asked, AnswerIsTheChoice, Answered PROVE QueueIsHonoured
  BY DEF IInv, QueueIsHonoured
<1>1. selected = SelectNextPart(parts, playable, previous, queued, loop)
  BY DEF Answered, AnswerIsTheChoice
<1>2. Queued = Earliest(InQueue) /\ (InQueue # {} => Queued \in InQueue)
  BY QueuedIsInQueue
<1>3. LeavesTheSegment /\ InQueue # {} => selected = Choice(Queued, TRUE)
  BY <1>1, ChoiceIsOneOfThree
<1>4. ~(LeavesTheSegment /\ InQueue # {}) => \E p : selected = Choice(p, FALSE)
  BY <1>1, ChoiceIsOneOfThree
<1>5. /\ \A p : selected = Choice(p, FALSE) => ~selected.consumes
      /\ selected = Choice(Queued, TRUE) => selected.part = Queued
  BY DEF Choice
<1>6. selected.consumes => LeavesTheSegment /\ selected.part \in InQueue
  BY <1>2, <1>3, <1>4, <1>5
<1> QED BY <1>2, <1>3, <1>6 DEF QueueIsHonoured

(* In every show, whatever of it is in the playlist and playable, and from   *)
(* whatever Part the search starts, one that was removed included: what      *)
(* follows is the next playable Part of the show, in a loop the first before *)
(* the Part (selectNextPart()).                                              *)
THEOREM GoesOnInOrder == Spec => []ContinuesWhereItWas
BY Invariance, AnswersContinue, PTL

(* In every show, the queued segment is entered when the segment is left,    *)
(* and only what enters it claims to have consumed it (selectNextPart()).    *)
THEOREM EntersTheQueuedSegment == Spec => []QueueIsHonoured
BY Invariance, AnswersHonour, PTL

=============================================================================
