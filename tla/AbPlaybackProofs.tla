--------------------------- MODULE AbPlaybackProofs ---------------------------
(* That the resolver of AbPlayback keeps its promises for any number of     *)
(* clips and players: every safety property that TLC checks of it.          *)
EXTENDS AbPlayback, FiniteSetTheorems, SequenceTheorems, TLAPS

-----------------------------------------------------------------------------
(* A finite set in an order: before[x] is what goes before x.                *)

Orders(S, before) ==
  /\ before \in [S -> SUBSET S]
  /\ \A x \in S : x \notin before[x]
  /\ \A x, y \in S : x \in before[y] => before[x] \subseteq before[y]
  /\ \A x, y \in S : x # y => x \in before[y] \/ y \in before[x]

\* How many go before x tells x from the others, and is less than there are.
LEMMA RanksDiffer ==
  ASSUME NEW S, IsFiniteSet(S), NEW before, Orders(S, before)
  PROVE  /\ Cardinality(S) \in Nat
         /\ \A x \in S : Cardinality(before[x]) \in 0 .. Cardinality(S) - 1
         /\ \A x, y \in S : Cardinality(before[x]) = Cardinality(before[y]) => x = y
<1>1. Cardinality(S) \in Nat
  BY FS_CardinalityType
<1>2. ASSUME NEW x \in S
      PROVE  Cardinality(before[x]) \in 0 .. Cardinality(S) - 1
  <2>1. before[x] \in SUBSET (S \ {x})
    BY DEF Orders
  <2>2. IsFiniteSet(S \ {x}) /\ Cardinality(S \ {x}) = Cardinality(S) - 1
    BY FS_RemoveElement
  <2>3. IsFiniteSet(before[x]) /\ Cardinality(before[x]) <= Cardinality(S \ {x})
    BY <2>1, <2>2, FS_Subset
  <2>4. Cardinality(before[x]) \in Nat
    BY <2>3, FS_CardinalityType
  <2> QED BY <1>1, <2>2, <2>3, <2>4
<1>3. ASSUME NEW x \in S, NEW y \in S, x \in before[y]
      PROVE  Cardinality(before[x]) # Cardinality(before[y])
  <2>1. before[x] \subseteq before[y] /\ x \notin before[x] /\ before[y] \in SUBSET S
    BY <1>3 DEF Orders
  <2>2. IsFiniteSet(before[y])
    BY <2>1, FS_Subset
  <2> QED BY <1>3, <2>1, <2>2, FS_Subset
<1>4. ASSUME NEW x \in S, NEW y \in S, Cardinality(before[x]) = Cardinality(before[y])
      PROVE  x = y
  <2>1. x # y => x \in before[y] \/ y \in before[x]
    BY DEF Orders
  <2> QED BY <1>3, <1>4, <2>1
<1> QED BY <1>1, <1>2, <1>4

\* Every place is taken.
LEMMA EveryRankIsTaken ==
  ASSUME NEW S, IsFiniteSet(S), NEW before, Orders(S, before),
         NEW i \in 0 .. Cardinality(S) - 1
  PROVE  \E x \in S : Cardinality(before[x]) = i
<1> DEFINE n == Cardinality(S)
           f == [x \in S |-> Cardinality(before[x])]
<1>1. n \in Nat /\ f \in [S -> 0 .. n - 1] /\ \A x, y \in S : f[x] = f[y] => x = y
  BY RanksDiffer
<1>2. f \in Injection(S, 0 .. n - 1)
  BY <1>1 DEF Injection, IsInjective
<1>3. IsFiniteSet(0 .. n - 1) /\ Cardinality(0 .. n - 1) = n
  BY <1>1, FS_Interval
<1>4. f \in Surjection(S, 0 .. n - 1)
  BY <1>2, <1>3, FS_Injection
<1>5. PICK x \in S : f[x] = i
  BY <1>4 DEF Surjection
<1> QED BY <1>5

\* The sequence has each element once.
LEMMA ArrangedHasEachOnce ==
  ASSUME NEW S, IsFiniteSet(S), NEW before, Orders(S, before)
  PROVE  /\ Cardinality(S) \in Nat
         /\ Arranged(S, before) \in [1 .. Cardinality(S) -> S]
         /\ Arranged(S, before) \in Seq(S)
         /\ Len(Arranged(S, before)) = Cardinality(S)
         /\ \A i, j \in 1 .. Cardinality(S) :
              Arranged(S, before)[i] = Arranged(S, before)[j] => i = j
         /\ \A x \in S : \E i \in 1 .. Cardinality(S) : Arranged(S, before)[i] = x
<1> DEFINE n == Cardinality(S)
           a == Arranged(S, before)
<1>1. n \in Nat
  BY RanksDiffer
<1>2. ASSUME NEW i \in 1 .. n
      PROVE  a[i] \in S /\ Cardinality(before[a[i]]) = i - 1
  <2>1. i - 1 \in 0 .. n - 1
    BY <1>1
  <2>2. \E x \in S : Cardinality(before[x]) = i - 1
    BY <2>1, EveryRankIsTaken
  <2>3. a[i] = CHOOSE x \in S : Cardinality(before[x]) = i - 1
    BY DEF Arranged
  <2> QED BY <2>2, <2>3
<1>3. a = [i \in 1 .. n |-> CHOOSE x \in S : Cardinality(before[x]) = i - 1]
  BY DEF Arranged
<1>4. a \in [1 .. n -> S]
  <2>1. \A i \in 1 .. n : a[i] \in S
    BY <1>2
  <2>2. DOMAIN a = 1 .. n /\ a = [i \in 1 .. n |-> a[i]]
    BY <1>3
  <2> HIDE DEF a
  <2> QED BY <2>1, <2>2
<1>5. a \in Seq(S) /\ Len(a) = n
  <2> HIDE DEF a
  <2> QED BY <1>1, <1>4
<1>6. \A i, j \in 1 .. n : a[i] = a[j] => i = j
  <2> SUFFICES ASSUME NEW i \in 1 .. n, NEW j \in 1 .. n, a[i] = a[j] PROVE i = j
    OBVIOUS
  <2>1. i - 1 = j - 1
    BY <1>2
  <2> QED BY <2>1
<1>7. ASSUME NEW x \in S
      PROVE  \E i \in 1 .. n : a[i] = x
  <2>1. Cardinality(before[x]) \in 0 .. n - 1
    BY RanksDiffer
  <2> DEFINE i == Cardinality(before[x]) + 1
  <2>2. i \in 1 .. n /\ i - 1 = Cardinality(before[x])
    BY <1>1, <2>1
  <2>3. a[i] \in S /\ Cardinality(before[a[i]]) = Cardinality(before[x])
    BY <1>2, <2>2
  <2>4. a[i] = x
    BY <2>3, RanksDiffer
  <2> QED BY <2>2, <2>4
<1> QED BY <1>1, <1>4, <1>5, <1>6, <1>7

\* There is a first one, and a last one.
LEMMA FirstAndLast ==
  ASSUME NEW S, IsFiniteSet(S), S # {}, NEW before, Orders(S, before)
  PROVE  /\ \E x \in S : before[x] = {}
         /\ \E x \in S : before[x] = S \ {x}
<1>1. Cardinality(S) \in Nat /\ Cardinality(S) # 0
  BY FS_CardinalityType, FS_EmptySet
<1>2. PICK x \in S : Cardinality(before[x]) = 0
  BY <1>1, EveryRankIsTaken
<1>3. before[x] = {}
  <2>1. before[x] \in SUBSET S
    BY DEF Orders
  <2>2. IsFiniteSet(before[x])
    BY <2>1, FS_Subset
  <2> QED BY <1>2, <2>2, FS_EmptySet
<1>4. PICK y \in S : Cardinality(before[y]) = Cardinality(S) - 1
  BY <1>1, EveryRankIsTaken
<1>5. before[y] = S \ {y}
  <2>1. before[y] \in SUBSET (S \ {y})
    BY DEF Orders
  <2>2. IsFiniteSet(S \ {y}) /\ Cardinality(S \ {y}) = Cardinality(S) - 1
    BY FS_RemoveElement
  <2> QED BY <1>4, <2>1, <2>2, FS_Subset
<1> QED BY <1>3, <1>5

-----------------------------------------------------------------------------
(* The orders of the resolver.                                               *)

ReqType == [start : Times \cup {Far}, end : Times \cup {Never}, rank : Nat]

\* What the requests of a run are: lookahead is far away, and each has a rank of its own.
GoodRequests(req) ==
  /\ DOMAIN req \subseteq Session
  /\ req \in [DOMAIN req -> ReqType]
  /\ \A s \in DOMAIN req : IsLookahead(req, s) <=> req[s].start = Far
  /\ \A s, u \in DOMAIN req :
       IsLookahead(req, s) /\ IsLookahead(req, u) /\ req[s].rank = req[u].rank => s = u

LEMMA Constants ==
  /\ IsFiniteSet(Session) /\ Session \subseteq Nat /\ Optional \subseteq Session
  /\ Players \in Nat /\ Players >= 1 /\ Player \subseteq Nat /\ None \notin Nat /\ None \notin Player
  /\ None \notin Session
  /\ IdealGap \in Nat /\ NowWindow \in Nat /\ MaxAhead \in Nat /\ MaxTime \in Nat
  /\ Far \in Nat /\ Never \in Nat /\ Times \subseteq Nat
<1>1. /\ IsFiniteSet(Session) /\ Session \subseteq Nat /\ Optional \subseteq Session
      /\ Players \in Nat \ {0} /\ None \notin Nat
  BY AbAssumption
<1>2. /\ IdealGap \in Nat /\ NowWindow \in Nat /\ MaxAhead \in Nat /\ MaxTime \in Nat
  BY AbAssumption
<1>3. Player \subseteq Nat /\ Players >= 1
  BY <1>1 DEF Player
<1>5. None \notin Player /\ None \notin Session
  BY <1>1, <1>3
<1>4. Far \in Nat /\ Never \in Nat /\ Times \subseteq Nat
  BY <1>2 DEF Far, Never, Times
<1> QED BY <1>1, <1>2, <1>3, <1>4, <1>5

LEMMA TimesAreNumbers ==
  ASSUME NEW t \in Times
  PROVE  t \in Nat /\ t <= MaxTime /\ t < Far /\ t < Never /\ Far < Never
<1>1. MaxTime \in Nat
  BY Constants
<1> QED BY <1>1 DEF Times, Far, Never

LEMMA RequestsAreNumbers ==
  ASSUME NEW req, GoodRequests(req), NEW s \in DOMAIN req
  PROVE  /\ s \in Nat /\ s \in Session /\ s # None
         /\ req[s].start \in Nat /\ req[s].end \in Nat /\ req[s].rank \in Nat
         /\ req[s].start <= Far /\ req[s].end <= Never
<1>1. req[s] \in ReqType /\ s \in Session
  BY DEF GoodRequests
<1>2. /\ req[s].start \in Times \cup {Far} /\ req[s].end \in Times \cup {Never}
      /\ req[s].rank \in Nat
  BY <1>1 DEF ReqType
<1>3. \A t \in Times : t \in Nat /\ t <= Far /\ t <= Never
  BY TimesAreNumbers, Constants
<1>4. Far <= Far /\ Never <= Never
  BY Constants
<1> QED BY <1>1, <1>2, <1>3, <1>4, Constants

LEMMA FiniteRequests ==
  ASSUME NEW req, GoodRequests(req), NEW S \in SUBSET DOMAIN req
  PROVE  IsFiniteSet(S)
  BY Constants, FS_Subset DEF GoodRequests

EarlierOnes(req, S) == [s \in S |-> {u \in S : Earlier(req, u, s)}]
LaterOnes(req, S) == [s \in S |-> {u \in S : Earlier(req, s, u)}]

LEMMA EarlierIsAnOrder ==
  ASSUME NEW req, GoodRequests(req), NEW s \in DOMAIN req, NEW u \in DOMAIN req, NEW v \in DOMAIN req
  PROVE  /\ ~Earlier(req, s, s)
         /\ Earlier(req, s, u) /\ Earlier(req, u, v) => Earlier(req, s, v)
         /\ s # u => Earlier(req, s, u) \/ Earlier(req, u, s)
  BY RequestsAreNumbers DEF Earlier

LEMMA EarlierOrders ==
  ASSUME NEW req, GoodRequests(req), NEW S \in SUBSET DOMAIN req
  PROVE  Orders(S, EarlierOnes(req, S)) /\ Orders(S, LaterOnes(req, S))
<1>1. \A s \in S : ~Earlier(req, s, s)
  BY EarlierIsAnOrder
<1>2. \A s, u, v \in S : Earlier(req, s, u) /\ Earlier(req, u, v) => Earlier(req, s, v)
  BY EarlierIsAnOrder
<1>3. \A s, u \in S : s # u => Earlier(req, s, u) \/ Earlier(req, u, s)
  BY EarlierIsAnOrder
<1>4. Orders(S, EarlierOnes(req, S))
  BY <1>1, <1>2, <1>3 DEF Orders, EarlierOnes
<1>5. Orders(S, LaterOnes(req, S))
  BY <1>1, <1>2, <1>3 DEF Orders, LaterOnes
<1> QED BY <1>4, <1>5

\* The first and the last of some requests are among them.
LEMMA FirstOfIsOne ==
  ASSUME NEW req, GoodRequests(req), NEW S \in SUBSET DOMAIN req
  PROVE  /\ S = {} => FirstOf(req, S) = None
         /\ S # {} => FirstOf(req, S) \in S
         /\ FirstOf(req, S) # None => FirstOf(req, S) \in S
<1>1. IsFiniteSet(S) /\ Orders(S, EarlierOnes(req, S))
  BY FiniteRequests, EarlierOrders
<1>2. ASSUME S # {}
      PROVE  FirstOf(req, S) \in S
  <2>1. PICK x \in S : EarlierOnes(req, S)[x] = {}
    BY <1>1, <1>2, FirstAndLast
  <2>2. \A u \in S : ~Earlier(req, u, x)
    BY <2>1 DEF EarlierOnes
  <2>3. \A u \in S \ {x} : Earlier(req, x, u)
    BY <2>2, EarlierIsAnOrder
  <2> QED BY <1>2, <2>3 DEF FirstOf
<1>3. S = {} => FirstOf(req, S) = None
  BY DEF FirstOf
<1> QED BY <1>2, <1>3

LEMMA LastOfIsOne ==
  ASSUME NEW req, GoodRequests(req), NEW S \in SUBSET DOMAIN req
  PROVE  /\ S = {} => LastOf(req, S) = None
         /\ S # {} => LastOf(req, S) \in S
         /\ LastOf(req, S) # None => LastOf(req, S) \in S
<1>1. IsFiniteSet(S) /\ Orders(S, LaterOnes(req, S))
  BY FiniteRequests, EarlierOrders
<1>2. ASSUME S # {}
      PROVE  LastOf(req, S) \in S
  <2>1. PICK x \in S : LaterOnes(req, S)[x] = {}
    BY <1>1, <1>2, FirstAndLast
  <2>2. \A u \in S : ~Earlier(req, x, u)
    BY <2>1 DEF LaterOnes
  <2>3. \A u \in S \ {x} : Earlier(req, u, x)
    BY <2>2, EarlierIsAnOrder
  <2> QED BY <1>2, <2>3 DEF LastOf
<1>3. S = {} => LastOf(req, S) = None
  BY DEF LastOf
<1> QED BY <1>2, <1>3

\* InOrder has each of its requests once.
LEMMA InOrderHasEachOnce ==
  ASSUME NEW req, GoodRequests(req), NEW S \in SUBSET DOMAIN req
  PROVE  /\ Cardinality(S) \in Nat
         /\ InOrder(req, S) \in Seq(S)
         /\ Len(InOrder(req, S)) = Cardinality(S)
         /\ \A i, j \in 1 .. Cardinality(S) : InOrder(req, S)[i] = InOrder(req, S)[j] => i = j
         /\ \A x \in S : \E i \in 1 .. Cardinality(S) : InOrder(req, S)[i] = x
<1>1. IsFiniteSet(S) /\ Orders(S, EarlierOnes(req, S))
  BY FiniteRequests, EarlierOrders
<1>2. InOrder(req, S) = Arranged(S, EarlierOnes(req, S))
  BY DEF InOrder, EarlierOnes
<1> QED BY <1>1, <1>2, ArrangedHasEachOnce

\* So has Again, which goes by player first.
LEMMA AgainHasEachOnce ==
  ASSUME NEW req, GoodRequests(req), NEW S \in SUBSET DOMAIN req,
         NEW player, \A s \in S : player[s] \in Player
  PROVE  /\ Cardinality(S) \in Nat
         /\ Again(req, player, S) \in Seq(S)
         /\ Len(Again(req, player, S)) = Cardinality(S)
         /\ \A i, j \in 1 .. Cardinality(S) : Again(req, player, S)[i] = Again(req, player, S)[j] => i = j
<1> DEFINE Before(s, u) == \/ player[s] < player[u]
                           \/ player[s] = player[u] /\ Earlier(req, s, u)
           before == [u \in S |-> {s \in S : Before(s, u)}]
<1>0. \A s \in S : player[s] \in Nat
  BY Constants
<1>1. \A s \in S : ~Before(s, s)
  BY <1>0, EarlierIsAnOrder
<1>2. ASSUME NEW s \in S, NEW u \in S, NEW v \in S, Before(s, u), Before(u, v)
      PROVE  Before(s, v)
  <2>1. Earlier(req, s, u) /\ Earlier(req, u, v) => Earlier(req, s, v)
    BY EarlierIsAnOrder
  <2> QED BY <1>0, <1>2, <2>1
<1>3. ASSUME NEW s \in S, NEW u \in S, s # u
      PROVE  Before(s, u) \/ Before(u, s)
  <2>1. Earlier(req, s, u) \/ Earlier(req, u, s)
    BY <1>3, EarlierIsAnOrder
  <2> QED BY <1>0, <2>1
<1>4. Orders(S, before)
  <2> HIDE DEF Before
  <2>1. before \in [S -> SUBSET S] /\ \A s, u \in S : s \in before[u] <=> Before(s, u)
    OBVIOUS
  <2> HIDE DEF before
  <2>2. \A x, y \in S : x \in before[y] => before[x] \subseteq before[y]
    BY <1>2, <2>1
  <2> QED BY <1>1, <1>3, <2>1, <2>2 DEF Orders
<1>5. Again(req, player, S) = Arranged(S, before)
  BY DEF Again
<1>6. IsFiniteSet(S)
  BY FiniteRequests
<1> HIDE DEF before
<1> QED BY <1>4, <1>5, <1>6, ArrangedHasEachOnce

\* Sorted has what the sequence has, each once when it has each once.
OncePerPlace(seq) == \A i, j \in DOMAIN seq : seq[i] = seq[j] => i = j

LEMMA SortedHasTheSame ==
  ASSUME NEW req, GoodRequests(req), NEW seq \in Seq(DOMAIN req), OncePerPlace(seq)
  PROVE  /\ Sorted(req, seq) \in Seq(DOMAIN req)
         /\ OncePerPlace(Sorted(req, seq))
         /\ \A k \in DOMAIN Sorted(req, seq) : \E i \in DOMAIN seq : Sorted(req, seq)[k] = seq[i]
<1> DEFINE D == DOMAIN seq
           Before(i, j) == \/ req[seq[i]].start < req[seq[j]].start
                           \/ req[seq[i]].start = req[seq[j]].start /\ i < j
           before == [j \in D |-> {i \in D : Before(i, j)}]
           order == Arranged(D, before)
<1>1. D = 1 .. Len(seq) /\ Len(seq) \in Nat /\ \A i \in D : seq[i] \in DOMAIN req /\ i \in Nat
  OBVIOUS
<1>2. IsFiniteSet(D) /\ Cardinality(D) = Len(seq)
  BY <1>1, FS_Interval
<1>3. \A i \in D : req[seq[i]].start \in Nat
  BY <1>1, RequestsAreNumbers
<1>4. /\ \A i \in D : ~Before(i, i)
      /\ \A i, j, k \in D : Before(i, j) /\ Before(j, k) => Before(i, k)
      /\ \A i, j \in D : i # j => Before(i, j) \/ Before(j, i)
  BY <1>1, <1>3
<1>5. Orders(D, before)
  <2> HIDE DEF Before, D
  <2>1. before \in [D -> SUBSET D] /\ \A i, j \in D : i \in before[j] <=> Before(i, j)
    OBVIOUS
  <2> HIDE DEF before
  <2>2. \A x, y \in D : x \in before[y] => before[x] \subseteq before[y]
    BY <1>4, <2>1
  <2> QED BY <1>4, <2>1, <2>2 DEF Orders
<1>6. Sorted(req, seq) = [k \in D |-> seq[order[k]]]
  BY DEF Sorted
<1>7. /\ order \in [1 .. Cardinality(D) -> D]
      /\ \A i, j \in 1 .. Cardinality(D) : order[i] = order[j] => i = j
  <2> HIDE DEF before, D
  <2> QED BY <1>2, <1>5, ArrangedHasEachOnce
<1> DEFINE t == Sorted(req, seq)
<1>8. DOMAIN t = 1 .. Len(seq) /\ \A k \in 1 .. Len(seq) : order[k] \in D /\ t[k] = seq[order[k]]
  <2> HIDE DEF order, D
  <2> QED BY <1>1, <1>2, <1>6, <1>7
<1>9. t \in Seq(DOMAIN req)
  <2>1. \A k \in 1 .. Len(seq) : t[k] \in DOMAIN req
    BY <1>1, <1>8
  <2>2. t = [k \in 1 .. Len(seq) |-> t[k]]
    BY <1>6, <1>8
  <2> HIDE DEF t
  <2> QED BY <1>1, <2>1, <2>2
<1>10. OncePerPlace(t)
  <2> SUFFICES ASSUME NEW i \in DOMAIN t, NEW j \in DOMAIN t, t[i] = t[j] PROVE i = j
    BY DEF OncePerPlace
  <2>1. order[i] \in D /\ order[j] \in D /\ seq[order[i]] = seq[order[j]]
    BY <1>8
  <2>2. order[i] = order[j]
    BY <2>1 DEF OncePerPlace
  <2> QED BY <1>2, <1>7, <1>8, <2>2
<1>11. \A k \in DOMAIN t : \E i \in D : t[k] = seq[i]
  BY <1>8
<1> QED BY <1>9, <1>10, <1>11

-----------------------------------------------------------------------------
(* The slots, and the one that is chosen.                                    *)

\* The best of some slots is one of them.
LEMMA BestIsOne ==
  ASSUME NEW slots, IsFiniteSet(slots), slots # {},
         \A x \in slots : x.player \in Nat,
         \A x, y \in slots : x.player = y.player => x = y,
         NEW value, \A x \in slots : value[x] \in Int
  PROVE  Best(slots, value) \in slots
<1> DEFINE Before(x, y) == \/ value[x] > value[y]
                           \/ value[x] = value[y] /\ x.player < y.player
           before == [y \in slots |-> {x \in slots : Before(x, y)}]
<1>1. /\ \A x \in slots : ~Before(x, x)
      /\ \A x, y, z \in slots : Before(x, y) /\ Before(y, z) => Before(x, z)
  OBVIOUS
<1>2. \A x, y \in slots : x # y => Before(x, y) \/ Before(y, x)
  OBVIOUS
<1>3. Orders(slots, before)
  <2> HIDE DEF Before
  <2>1. before \in [slots -> SUBSET slots] /\ \A x, y \in slots : x \in before[y] <=> Before(x, y)
    OBVIOUS
  <2> HIDE DEF before
  <2>2. \A x, y \in slots : x \in before[y] => before[x] \subseteq before[y]
    BY <1>1, <2>1
  <2> QED BY <1>1, <1>2, <2>1, <2>2 DEF Orders
<1>4. PICK x \in slots : before[x] = {}
  <2> HIDE DEF before
  <2> QED BY <1>3, FirstAndLast
<1>5. \A y \in slots : ~Before(y, x)
  BY <1>4
<1>6. \A y \in slots : value[x] > value[y] \/ (value[x] = value[y] /\ x.player <= y.player)
  BY <1>5
<1> QED BY <1>6 DEF Best

\* What is in the way of a request on a player: clips that neither end before it nor begin after it.
SlotFacts(req, player, r, p, a) ==
  /\ a.player = p
  /\ \A s : s \in a.clashes <=>
       /\ s \in DOMAIN req /\ player[s] = p /\ ~IsLookahead(req, s)
       /\ req[s].start < req[r].end /\ req[s].end >= req[r].start
  /\ a.after # None => /\ a.after \in DOMAIN req /\ player[a.after] = p
                       /\ IsLookahead(req, a.after) \/ req[a.after].start >= req[r].end
  /\ a.before # None => a.before \in DOMAIN req

LEMMA SlotOfAPlayer ==
  ASSUME NEW req, NEW player, GoodRequests(req), NEW r \in DOMAIN req, NEW p \in Player
  PROVE  SlotFacts(req, player, r, p, Availability(req, player, r, p))
<1> DEFINE slot == Slot(req, player, p)
           ended == {s \in slot : ~IsLookahead(req, s) /\ req[s].end < req[r].start}
           behind == {s \in slot \ ended : IsLookahead(req, s) \/ req[s].start >= req[r].end}
           after == FirstOf(req, behind)
           earlier == {s \in ended : after = None \/ Earlier(req, s, after)}
           a == Availability(req, player, r, p)
<1>1. a = [player |-> p, before |-> LastOf(req, earlier), clashes |-> slot \ (ended \cup behind), after |-> after]
  BY DEF Availability
<1>2. slot \in SUBSET DOMAIN req /\ \A s : s \in slot <=> s \in DOMAIN req /\ player[s] = p
  BY DEF Slot
<1>3. behind \in SUBSET DOMAIN req /\ earlier \in SUBSET DOMAIN req
  BY <1>2
<1>4. /\ a.player = p /\ a.before = LastOf(req, earlier)
      /\ a.clashes = slot \ (ended \cup behind) /\ a.after = after
  BY <1>1
<1>5. /\ req[r].start \in Nat /\ req[r].end \in Nat
      /\ \A s \in slot : req[s].start \in Nat /\ req[s].end \in Nat
  BY <1>2, RequestsAreNumbers
<1>6. ASSUME NEW s
      PROVE  s \in a.clashes <=>
               /\ s \in DOMAIN req /\ player[s] = p /\ ~IsLookahead(req, s)
               /\ req[s].start < req[r].end /\ req[s].end >= req[r].start
  <2>1. s \in slot => (s \in a.clashes <=> ~IsLookahead(req, s) /\ ~(req[s].end < req[r].start)
                                           /\ ~(req[s].start >= req[r].end))
    BY <1>4
  <2> HIDE DEF slot, a
  <2>2. s \in a.clashes => s \in slot
    BY <1>4
  <2> QED BY <1>2, <1>5, <2>1, <2>2
<1>7. after # None => after \in behind
  <2> HIDE DEF behind
  <2> QED BY <1>3, FirstOfIsOne
<1>8. a.after # None => /\ a.after \in DOMAIN req /\ player[a.after] = p
                        /\ IsLookahead(req, a.after) \/ req[a.after].start >= req[r].end
  <2>1. \A s \in behind : s \in slot /\ (IsLookahead(req, s) \/ req[s].start >= req[r].end)
    OBVIOUS
  <2> HIDE DEF behind, slot, after, a
  <2> QED BY <1>2, <1>4, <1>7, <2>1
<1>9. a.before # None => a.before \in DOMAIN req
  <2> HIDE DEF earlier, a
  <2> QED BY <1>3, <1>4, LastOfIsOne
<1> HIDE DEF a
<1>10. a.player = p
  BY <1>4
<1>11. SlotFacts(req, player, r, p, a)
  BY <1>6, <1>8, <1>9, <1>10 DEF SlotFacts
<1> QED BY <1>11 DEF a

SlotsFor(req, player, r) == {Availability(req, player, r, p) : p \in Player}

LEMMA SlotsForPlayers ==
  ASSUME NEW req, NEW player, GoodRequests(req), NEW r \in DOMAIN req
  PROVE  /\ IsFiniteSet(SlotsFor(req, player, r))
         /\ \A x \in SlotsFor(req, player, r) :
              /\ x \in Slots /\ x.player \in Player /\ x.player \in Nat
              /\ x = Availability(req, player, r, x.player)
              /\ x.clashes \in SUBSET DOMAIN req
              /\ x.after # None => x.after \in DOMAIN req
              /\ x.before # None => x.before \in DOMAIN req
         /\ \A x, y \in SlotsFor(req, player, r) : x.player = y.player => x = y
<1> DEFINE slots == SlotsFor(req, player, r)
           f == [p \in Player |-> Availability(req, player, r, p)]
<1>1. IsFiniteSet(slots)
  <2>1. f \in Surjection(Player, slots)
    BY DEF Surjection, SlotsFor
  <2>2. IsFiniteSet(Player)
    BY Constants, FS_Interval DEF Player
  <2> HIDE DEF slots, f
  <2> QED BY <2>1, <2>2, FS_Surjection
<1>2. ASSUME NEW p \in Player, NEW x, x = Availability(req, player, r, p)
      PROVE  /\ x \in Slots /\ x.player = p
             /\ x.clashes \in SUBSET DOMAIN req
             /\ x.after # None => x.after \in DOMAIN req
             /\ x.before # None => x.before \in DOMAIN req
  <2>1. /\ x.player = p
        /\ \A s : s \in x.clashes => s \in DOMAIN req
        /\ x.after # None => x.after \in DOMAIN req
        /\ x.before # None => x.before \in DOMAIN req
    <3>1. SlotFacts(req, player, r, p, x)
      BY <1>2, SlotOfAPlayer
    <3> QED BY <3>1 DEF SlotFacts
  <2>2. DOMAIN req \subseteq Session
    BY DEF GoodRequests
  <2>3. x = [player |-> x.player, before |-> x.before, clashes |-> x.clashes, after |-> x.after]
    BY <1>2 DEF Availability
  <2>4. x.clashes \in SUBSET DOMAIN req
    BY <2>1
  <2> QED BY <2>1, <2>2, <2>3, <2>4 DEF Slots
<1>3. ASSUME NEW x \in slots
      PROVE  \E p \in Player : x = Availability(req, player, r, p)
  BY DEF SlotsFor
<1>4. \A x \in slots : /\ x \in Slots /\ x.player \in Player /\ x.player \in Nat
                       /\ x = Availability(req, player, r, x.player)
                       /\ x.clashes \in SUBSET DOMAIN req
                       /\ x.after # None => x.after \in DOMAIN req
                       /\ x.before # None => x.before \in DOMAIN req
  <2> SUFFICES ASSUME NEW x \in slots
               PROVE  /\ x \in Slots /\ x.player \in Player /\ x.player \in Nat
                      /\ x = Availability(req, player, r, x.player)
                      /\ x.clashes \in SUBSET DOMAIN req
                      /\ x.after # None => x.after \in DOMAIN req
                      /\ x.before # None => x.before \in DOMAIN req
    OBVIOUS
  <2>1. PICK p \in Player : x = Availability(req, player, r, p)
    BY <1>3
  <2>2. x \in Slots /\ x.player = p
    BY <1>2, <2>1
  <2>3. p \in Nat
    BY Constants
  <2> HIDE DEF slots
  <2> QED BY <1>2, <2>1, <2>2, <2>3
<1>5. \A x, y \in slots : x.player = y.player => x = y
  <2> HIDE DEF slots
  <2> QED BY <1>4
<1> QED BY <1>1, <1>4, <1>5

\* The greatest of some numbers is one of them.
LEMMA GreatestIsOne ==
  ASSUME NEW S, IsFiniteSet(S), S # {}, S \subseteq Nat
  PROVE  Greatest(S) \in S
<1> DEFINE before == [x \in S |-> {y \in S : y < x}]
<1>1. Orders(S, before)
  <2>1. before \in [S -> SUBSET S] /\ \A x, y \in S : x \in before[y] <=> x < y
    OBVIOUS
  <2> HIDE DEF before
  <2>2. ASSUME NEW x \in S, NEW y \in S, x \in before[y], NEW z \in before[x]
        PROVE  z \in before[y]
    <3>1. z \in S /\ z < x /\ x < y
      BY <2>1, <2>2
    <3> QED BY <2>1, <3>1
  <2>3. \A x \in S : x \notin before[x]
    BY <2>1
  <2>4. \A x, y \in S : x # y => x \in before[y] \/ y \in before[x]
    BY <2>1
  <2> QED BY <2>1, <2>2, <2>3, <2>4 DEF Orders
<1>2. PICK x \in S : before[x] = S \ {x}
  <2> HIDE DEF before
  <2> QED BY <1>1, FirstAndLast
<1>3. \A y \in S : y <= x
  BY <1>2
<1> QED BY <1>3 DEF Greatest

\* By what the slots are compared is a number.
LEMMA SlotsAreCompared ==
  ASSUME NEW req, NEW player, GoodRequests(req), NEW r \in DOMAIN req,
         NEW x \in SlotsFor(req, player, r)
  PROVE  /\ FreeUntil(req, x) \in Int
         /\ IdleFor(req, r, x) \in Int
         /\ x.clashes # {} => LastClash(req, x) \in Int
<1>1. /\ x.clashes \in SUBSET DOMAIN req
      /\ x.after # None => x.after \in DOMAIN req
      /\ x.before # None => x.before \in DOMAIN req
  BY SlotsForPlayers
<1>2. FreeUntil(req, x) \in Int
  <2>1. Never \in Int
    BY Constants
  <2>2. x.after # None => req[x.after].start \in Int
    BY <1>1, RequestsAreNumbers
  <2> QED BY <2>1, <2>2 DEF FreeUntil
<1>3. IdleFor(req, r, x) \in Int
  <2>1. IdealGap \in Int /\ req[r].start \in Int
    BY Constants, RequestsAreNumbers
  <2>2. x.before # None => req[x.before].end \in Int
    BY <1>1, RequestsAreNumbers
  <2> QED BY <2>1, <2>2 DEF IdleFor, AtMost
<1>4. ASSUME x.clashes # {}
      PROVE  LastClash(req, x) \in Int
  <2> DEFINE starts == {req[s].start : s \in x.clashes}
             f == [s \in x.clashes |-> req[s].start]
  <2>1. IsFiniteSet(x.clashes)
    BY <1>1, FiniteRequests
  <2>2. f \in Surjection(x.clashes, starts)
    BY DEF Surjection
  <2>3. IsFiniteSet(starts)
    <3> HIDE DEF f, starts
    <3> QED BY <2>1, <2>2, FS_Surjection
  <2>4. \A s \in x.clashes : req[s].start \in Nat
    BY <1>1, RequestsAreNumbers
  <2>5. starts \subseteq Nat /\ starts # {}
    BY <1>4, <2>4
  <2>6. Greatest(starts) \in starts
    <3> HIDE DEF starts
    <3> QED BY <2>3, <2>5, GreatestIsOne
  <2>7. Greatest(starts) \in Nat
    <3> HIDE DEF starts
    <3> QED BY <2>5, <2>6
  <2> QED BY <2>7 DEF LastClash
<1> QED BY <1>2, <1>3, <1>4

LEMMA BestSlotIsOne ==
  ASSUME NEW req, NEW player, GoodRequests(req), NEW r \in DOMAIN req,
         NEW T \in SUBSET SlotsFor(req, player, r), T # {},
         NEW value, \A x \in T : value[x] \in Int
  PROVE  Best(T, value) \in T
<1>1. IsFiniteSet(T)
  BY SlotsForPlayers, FS_Subset
<1>2. \A x \in T : x.player \in Nat
  BY SlotsForPlayers
<1>3. \A x, y \in T : x.player = y.player => x = y
  BY SlotsForPlayers
<1> QED BY <1>1, <1>2, <1>3, BestIsOne

\* The player is free, or what is in the way is made to give way, or begins too late to be on air, or
\* is over by then.
GivesWay(req, r, safeNow, x, b) ==
  \/ x.clashes = {}
  \/ \A s \in x.clashes : req[s].start > safeNow
  \/ b /\ x.clashes \subseteq Optional /\ req[r].start >= safeNow
  \/ ~b /\ \A s \in x.clashes : req[s].end = req[r].start

\* What a candidate is.
GoodChoice(req, r, slots, safeNow, c) ==
  c \in Candidates /\ c.slot \in slots /\ GivesWay(req, r, safeNow, c.slot, c.clearsClashes)

\* Why there is no candidate: nobody is free, nor taken by optional clips alone, if there is time.
Full(req, r, slots, safeNow) ==
  \A x \in slots : /\ x.clashes # {}
                   /\ req[r].start >= safeNow => ~(x.clashes \subseteq Optional)

LEMMA ChoiceIsGood ==
  ASSUME NEW req, NEW player, GoodRequests(req), NEW r \in DOMAIN req, NEW safeNow,
         NEW x \in SlotsFor(req, player, r), NEW a \in BOOLEAN, NEW b \in BOOLEAN,
         GivesWay(req, r, safeNow, x, b)
  PROVE  /\ GoodChoice(req, r, SlotsFor(req, player, r), safeNow, Choice(x, a, b))
         /\ Choice(x, a, b) # None
<1> DEFINE c == Choice(x, a, b)
<1>1. c = [slot |-> x, clearsAfter |-> a, clearsClashes |-> b]
  BY DEF Choice
<1>2. x \in Slots
  BY SlotsForPlayers
<1>3. c \in Candidates /\ c.slot = x /\ c.clearsClashes = b
  BY <1>1, <1>2 DEF Candidates
<1>4. c # None
  BY <1>3, AbAssumption
<1> HIDE DEF c
<1>5. GoodChoice(req, r, SlotsFor(req, player, r), safeNow, c)
  BY <1>3 DEF GoodChoice
<1> QED BY <1>4, <1>5 DEF c

LEMMA ChooseNowIsGood ==
  ASSUME NEW req, NEW player, GoodRequests(req), NEW r \in DOMAIN req, NEW safeNow,
         NEW slots, slots = SlotsFor(req, player, r),
         NEW c, c = ChooseNow(req, r, slots, safeNow)
  PROVE  \/ c # None /\ GoodChoice(req, r, slots, safeNow, c)
         \/ c = None /\ \A x \in slots : x.clashes # {}
<1> DEFINE free == {x \in slots : x.clashes = {}}
           gap == {x \in free : HasGapBefore(req, r, x)}
           freeAtStart == {x \in slots \ free : /\ HasGapBefore(req, r, x)
                                                /\ ClashesComeLater(req, r, x, safeNow)}
           until(T) == [x \in T |-> FreeUntil(req, x)]
           last(T) == [x \in T |-> LastClash(req, x)]
<1>1. /\ gap # {} => c = Choice(Best(gap, until(gap)), FALSE, FALSE)
      /\ gap = {} /\ free # {} => c = Choice(Best(free, until(free)), FALSE, FALSE)
      /\ free = {} /\ freeAtStart # {} => c = Choice(Best(freeAtStart, last(freeAtStart)), FALSE, FALSE)
      /\ gap = {} /\ free = {} /\ freeAtStart = {} => c = None
  BY DEF ChooseNow
<1>2. gap \subseteq free /\ \A x \in free : x.clashes = {}
  OBVIOUS
<1>3. \A x \in freeAtStart : /\ x.clashes # {}
                             /\ \A s \in x.clashes : req[s].start > safeNow
  BY DEF ClashesComeLater
<1>4. /\ gap \in SUBSET SlotsFor(req, player, r) /\ free \in SUBSET SlotsFor(req, player, r)
      /\ freeAtStart \in SUBSET SlotsFor(req, player, r)
      /\ free = {} => \A x \in slots : x.clashes # {}
  OBVIOUS
<1>5. ASSUME NEW T \in SUBSET SlotsFor(req, player, r), T # {} PROVE Best(T, until(T)) \in T
  <2>1. \A x \in T : until(T)[x] \in Int
    BY SlotsAreCompared
  <2> HIDE DEF until
  <2> QED BY <1>5, <2>1, BestSlotIsOne
<1>6. freeAtStart # {} => Best(freeAtStart, last(freeAtStart)) \in freeAtStart
  <2>1. \A x \in freeAtStart : x \in SlotsFor(req, player, r) /\ x.clashes # {}
    BY <1>3, <1>4
  <2> HIDE DEF freeAtStart
  <2>2. \A x \in freeAtStart : last(freeAtStart)[x] \in Int
    BY <2>1, SlotsAreCompared
  <2> HIDE DEF last
  <2> QED BY <1>4, <2>2, BestSlotIsOne
<1>7. ASSUME NEW x \in slots, GivesWay(req, r, safeNow, x, FALSE), c = Choice(x, FALSE, FALSE)
      PROVE  c # None /\ GoodChoice(req, r, slots, safeNow, c)
  BY <1>7, ChoiceIsGood
<1>8. \A x \in free \cup freeAtStart : x \in slots /\ GivesWay(req, r, safeNow, x, FALSE)
  BY <1>2, <1>3 DEF GivesWay
<1> HIDE DEF free, gap, freeAtStart, until, last
<1>9. CASE gap # {}
  <2>1. Best(gap, until(gap)) \in free
    BY <1>2, <1>4, <1>5, <1>9
  <2> QED BY <1>1, <1>7, <1>8, <1>9, <2>1
<1>11. CASE gap = {} /\ free # {}
  <2>1. Best(free, until(free)) \in free
    BY <1>4, <1>5, <1>11
  <2> QED BY <1>1, <1>7, <1>8, <1>11, <2>1
<1>12. CASE free = {} /\ freeAtStart # {}
  BY <1>1, <1>6, <1>7, <1>8, <1>12
<1>10. CASE gap = {} /\ free = {} /\ freeAtStart = {}
  BY <1>1, <1>4, <1>10
<1> QED BY <1>2, <1>9, <1>10, <1>11, <1>12

\* A required clip that starts later is left without a player when required ones take all of them.
TakenByRequired(r, slots) ==
  r \notin Optional => \A x \in slots : x.clashes # {} /\ ~(x.clashes \subseteq Optional)

LEMMA ChooseLaterIsGood ==
  ASSUME NEW req, NEW player, GoodRequests(req), NEW r \in DOMAIN req, NEW safeNow,
         NEW slots, slots = SlotsFor(req, player, r), req[r].start >= safeNow,
         NEW c, c = ChooseLater(req, r, slots, safeNow)
  PROVE  \/ c # None /\ GoodChoice(req, r, slots, safeNow, c)
         \/ c = None /\ TakenByRequired(r, slots)
<1> DEFINE free == {x \in slots : x.clashes = {}}
           nothingAfter == {x \in free : x.after = None}
           giving == {x \in free \ nothingAfter : MayReplace(req, x.after, r)}
           freeAtStart == {x \in slots \ free : /\ HasGapBefore(req, r, x)
                                                /\ ClashesComeLater(req, r, x, safeNow)}
           optional == {x \in slots \ free : x.clashes \subseteq Optional /\ r \notin Optional}
           until(T) == [x \in T |-> FreeUntil(req, x)]
           idle(T) == [x \in T |-> IdleFor(req, r, x)]
           last(T) == [x \in T |-> LastClash(req, x)]
<1>1. /\ nothingAfter # {} => c = Choice(Best(nothingAfter, idle(nothingAfter)), FALSE, FALSE)
      /\ nothingAfter = {} /\ giving # {} => c = Choice(Best(giving, until(giving)), TRUE, TRUE)
      /\ nothingAfter \cup giving = {} /\ freeAtStart # {}
           => c = Choice(Best(freeAtStart, last(freeAtStart)), TRUE, TRUE)
      /\ nothingAfter \cup giving \cup freeAtStart = {} /\ optional # {}
           => c = Choice(Best(optional, last(optional)), TRUE, TRUE)
      /\ nothingAfter \cup giving \cup freeAtStart \cup optional = {} => c = None
  BY DEF ChooseLater
<1>2. /\ nothingAfter \subseteq free /\ giving \subseteq free /\ \A x \in free : x.clashes = {}
  OBVIOUS
<1>3. \A x \in freeAtStart : x.clashes # {} /\ \A s \in x.clashes : req[s].start > safeNow
  BY DEF ClashesComeLater
<1>4. \A x \in optional : x.clashes # {} /\ x.clashes \subseteq Optional
  OBVIOUS
<1>5. /\ nothingAfter \in SUBSET SlotsFor(req, player, r) /\ giving \in SUBSET SlotsFor(req, player, r)
      /\ freeAtStart \in SUBSET SlotsFor(req, player, r) /\ optional \in SUBSET SlotsFor(req, player, r)
  OBVIOUS
<1>6. r \notin Optional /\ nothingAfter \cup giving = {} => free = {}
  BY DEF MayReplace, IsOptional
<1>7. r \notin Optional /\ free = {} /\ optional = {}
        => \A x \in slots : x.clashes # {} /\ ~(x.clashes \subseteq Optional)
  OBVIOUS
<1>8. ASSUME NEW T \in SUBSET SlotsFor(req, player, r), T # {}
      PROVE  Best(T, until(T)) \in T /\ Best(T, idle(T)) \in T
  <2>1. \A x \in T : until(T)[x] \in Int /\ idle(T)[x] \in Int
    BY SlotsAreCompared
  <2> HIDE DEF until, idle
  <2> QED BY <1>8, <2>1, BestSlotIsOne
<1>9. ASSUME NEW T \in SUBSET SlotsFor(req, player, r), T # {}, \A x \in T : x.clashes # {}
      PROVE  Best(T, last(T)) \in T
  <2>1. \A x \in T : last(T)[x] \in Int
    BY <1>9, SlotsAreCompared
  <2> HIDE DEF last
  <2> QED BY <1>9, <2>1, BestSlotIsOne
<1>10. ASSUME NEW x \in slots, NEW b \in BOOLEAN, GivesWay(req, r, safeNow, x, b), c = Choice(x, b, b)
       PROVE  c # None /\ GoodChoice(req, r, slots, safeNow, c)
  BY <1>10, ChoiceIsGood
<1>11. /\ \A x \in free \cup freeAtStart : x \in slots /\ GivesWay(req, r, safeNow, x, TRUE)
       /\ \A x \in free : GivesWay(req, r, safeNow, x, FALSE)
       /\ \A x \in optional : x \in slots /\ GivesWay(req, r, safeNow, x, TRUE)
  BY <1>2, <1>3, <1>4 DEF GivesWay
<1> HIDE DEF free, nothingAfter, giving, freeAtStart, optional, until, idle, last
<1>12. CASE nothingAfter # {}
  <2>1. Best(nothingAfter, idle(nothingAfter)) \in free
    BY <1>2, <1>5, <1>8, <1>12
  <2> QED BY <1>1, <1>10, <1>11, <1>12, <2>1
<1>13. CASE nothingAfter = {} /\ giving # {}
  <2>1. Best(giving, until(giving)) \in free
    BY <1>2, <1>5, <1>8, <1>13
  <2> QED BY <1>1, <1>10, <1>11, <1>13, <2>1
<1>15. CASE nothingAfter \cup giving = {} /\ freeAtStart # {}
  <2>1. Best(freeAtStart, last(freeAtStart)) \in freeAtStart
    BY <1>3, <1>5, <1>9, <1>15
  <2> QED BY <1>1, <1>10, <1>11, <1>15, <2>1
<1>16. CASE nothingAfter \cup giving \cup freeAtStart = {} /\ optional # {}
  <2>1. Best(optional, last(optional)) \in optional
    BY <1>4, <1>5, <1>9, <1>16
  <2> QED BY <1>1, <1>10, <1>11, <1>16, <2>1
<1>14. CASE nothingAfter \cup giving \cup freeAtStart \cup optional = {}
  <2>1. nothingAfter \cup giving = {} /\ optional = {}
    BY <1>14
  <2> QED BY <1>1, <1>6, <1>7, <1>14, <2>1 DEF TakenByRequired
<1> QED BY <1>12, <1>13, <1>14, <1>15, <1>16

\* A candidate is good, and a required request has none only when everybody is taken.
LEMMA ChooseIsGood ==
  ASSUME NEW req, NEW player, GoodRequests(req), NEW r \in DOMAIN req, NEW safeNow \in Nat,
         NEW slots, slots = SlotsFor(req, player, r),
         NEW c, c = Choose(req, r, slots, safeNow)
  PROVE  \/ c # None /\ GoodChoice(req, r, slots, safeNow, c)
         \/ c = None /\ (r \notin Optional => Full(req, r, slots, safeNow))
<1> DEFINE first == IF req[r].start < safeNow THEN ChooseNow(req, r, slots, safeNow)
                    ELSE ChooseLater(req, r, slots, safeNow)
           touching == {x \in slots : /\ x.clashes # {}
                                      /\ \A s \in x.clashes : req[s].end = req[r].start}
           until == [x \in touching |-> FreeUntil(req, x)]
<1>1. /\ first # None => c = first
      /\ first = None /\ touching # {} => c = Choice(Best(touching, until), TRUE, FALSE)
      /\ first = None /\ touching = {} => c = None
  BY DEF Choose
<1>2. req[r].start \in Nat
  BY RequestsAreNumbers
<1>3. \/ first # None /\ GoodChoice(req, r, slots, safeNow, first)
      \/ first = None /\ (r \notin Optional => Full(req, r, slots, safeNow))
  <2>1. CASE req[r].start < safeNow
    <3>1. first = ChooseNow(req, r, slots, safeNow)
      BY <2>1
    <3> HIDE DEF first
    <3>2. \/ first # None /\ GoodChoice(req, r, slots, safeNow, first)
          \/ first = None /\ \A x \in slots : x.clashes # {}
      BY <3>1, ChooseNowIsGood
    <3>3. ~(req[r].start >= safeNow)
      BY <1>2, <2>1
    <3> QED BY <3>2, <3>3 DEF Full
  <2>2. CASE ~(req[r].start < safeNow)
    <3>1. first = ChooseLater(req, r, slots, safeNow) /\ req[r].start >= safeNow
      BY <1>2, <2>2
    <3> HIDE DEF first
    <3>2. \/ first # None /\ GoodChoice(req, r, slots, safeNow, first)
          \/ first = None /\ TakenByRequired(r, slots)
      BY <3>1, ChooseLaterIsGood
    <3> QED BY <3>2 DEF Full, TakenByRequired
  <2> QED BY <2>1, <2>2
<1>4. touching # {} => Best(touching, until) \in touching
  <2>1. touching \in SUBSET SlotsFor(req, player, r)
    OBVIOUS
  <2>2. \A x \in touching : until[x] \in Int
    BY <2>1, SlotsAreCompared
  <2> HIDE DEF touching, until
  <2> QED BY <2>1, <2>2, BestSlotIsOne
<1>5. \A x \in touching : x \in SlotsFor(req, player, r) /\ \A s \in x.clashes : req[s].end = req[r].start
  OBVIOUS
<1>9. ASSUME NEW x \in slots, GivesWay(req, r, safeNow, x, FALSE), c = Choice(x, TRUE, FALSE)
      PROVE  c # None /\ GoodChoice(req, r, slots, safeNow, c)
  BY <1>9, ChoiceIsGood
<1>10. \A x \in touching : x \in slots /\ GivesWay(req, r, safeNow, x, FALSE)
  BY <1>5 DEF GivesWay
<1> HIDE DEF first, touching, until
<1>6. CASE first # None
  BY <1>1, <1>3, <1>6
<1>7. CASE first = None /\ touching # {}
  BY <1>1, <1>4, <1>7, <1>9, <1>10
<1>8. CASE first = None /\ touching = {}
  BY <1>1, <1>3, <1>8
<1> QED BY <1>6, <1>7, <1>8

-----------------------------------------------------------------------------
(* The requests of a timeline.                                               *)

PartType == [started : Times, autonext : Times \cup {Never}]
ClipType == [previous : BOOLEAN, start : Times, end : Times \cup {Never}]

\* What the requests of a run say of the timeline.
RequestFacts(req, pt, pc, ah) ==
  /\ GoodRequests(req)
  /\ DOMAIN req = {x \in Session : pc[x] # None} \cup ToSet(ah)
  /\ \A s \in DOMAIN req : pc[s] # None => req[s] = [start |-> pc[s].start, end |-> EndOf(pt, pc[s]), rank |-> 0]
  /\ \A s \in DOMAIN req : IsLookahead(req, s) => req[s].rank \in DOMAIN ah /\ ah[req[s].rank] = s

LEMMA RequestsAreGood ==
  ASSUME NEW pt \in PartType, NEW pc \in [Session -> ClipType \cup {None}], NEW ah \in Seq(Session)
  PROVE  RequestFacts(RequestsOf(pt, pc, ah), pt, pc, ah)
<1> DEFINE D == {x \in Session : pc[x] # None} \cup ToSet(ah)
           req == RequestsOf(pt, pc, ah)
           rankOf(s) == CHOOSE i \in DOMAIN ah : ah[i] = s
<1>1. D \subseteq Session /\ \A s \in ToSet(ah) : \E i \in DOMAIN ah : ah[i] = s
  BY DEF ToSet
<1>2. DOMAIN ah \subseteq Nat \ {0}
  OBVIOUS
<1>3. DOMAIN req = D /\ \A s \in D : req[s] = Request(pt, pc, ah, s)
  BY DEF RequestsOf
<1>4. /\ pt.started \in Times /\ pt.autonext \in Times \cup {Never}
      /\ Times \subseteq Nat /\ Never \in Nat /\ Far \notin Times
  BY Constants, TimesAreNumbers DEF PartType
<1>5. ASSUME NEW s \in D
      PROVE  /\ req[s] \in ReqType
             /\ pc[s] # None => req[s] = [start |-> pc[s].start, end |-> EndOf(pt, pc[s]), rank |-> 0]
             /\ req[s].rank # 0 => /\ req[s].start = Far
                                   /\ req[s].rank \in DOMAIN ah /\ ah[req[s].rank] = s
             /\ req[s].rank = 0 => req[s].start \in Times
  <2>4. req[s] = Request(pt, pc, ah, s) /\ s \in Session /\ (s \in ToSet(ah) \/ pc[s] # None)
    BY <1>1, <1>3
  <2> HIDE DEF req, D
  <2>1. CASE pc[s] # None
    <3>1. req[s] = [start |-> pc[s].start, end |-> EndOf(pt, pc[s]), rank |-> 0]
      BY <2>4, <2>1 DEF Request
    <3>2. pc[s].start \in Times /\ pc[s].end \in Times \cup {Never}
      BY <2>1, <2>4 DEF ClipType
    <3>3. EndOf(pt, pc[s]) \in Times \cup {Never}
      BY <1>4, <3>2 DEF EndOf, AtMost
    <3> QED BY <3>1, <3>2, <3>3 DEF ReqType
  <2>2. CASE pc[s] = None /\ IsNext(pt, ah, s)
    <3>1. req[s] = [start |-> pt.autonext, end |-> Never, rank |-> 0]
      BY <2>4, <2>2 DEF Request
    <3>2. pt.autonext \in Times
      BY <1>4, <2>2 DEF IsNext
    <3> QED BY <2>2, <3>1, <3>2 DEF ReqType
  <2>3. CASE pc[s] = None /\ ~IsNext(pt, ah, s)
    <3>1. req[s] = [start |-> Far, end |-> Never, rank |-> rankOf(s)]
      BY <2>4, <2>3 DEF Request
    <3>2. rankOf(s) \in DOMAIN ah /\ ah[rankOf(s)] = s
      BY <1>1, <2>3, <2>4
    <3> HIDE DEF rankOf
    <3>3. rankOf(s) \in Nat /\ rankOf(s) # 0
      BY <1>2, <3>2
    <3> QED BY <2>3, <3>1, <3>2, <3>3 DEF ReqType
  <2> QED BY <2>1, <2>2, <2>3
<1> HIDE DEF req
<1>6. GoodRequests(req)
  <2>1. req \in [DOMAIN req -> ReqType]
    <3>1. \A s \in D : req[s] \in ReqType
      BY <1>5
    <3>2. req = [s \in D |-> Request(pt, pc, ah, s)]
      BY DEF req, RequestsOf
    <3>3. req = [s \in DOMAIN req |-> req[s]]
      BY <1>3, <3>2
    <3> QED BY <1>3, <3>1, <3>3
  <2>2. \A s \in DOMAIN req : IsLookahead(req, s) <=> req[s].start = Far
    BY <1>3, <1>4, <1>5 DEF IsLookahead
  <2>3. \A s, u \in DOMAIN req :
          IsLookahead(req, s) /\ IsLookahead(req, u) /\ req[s].rank = req[u].rank => s = u
    <3>1. \A s \in DOMAIN req : IsLookahead(req, s) => ah[req[s].rank] = s
      BY <1>3, <1>5 DEF IsLookahead
    <3> QED BY <3>1
  <2> QED BY <1>1, <1>3, <2>1, <2>2, <2>3 DEF GoodRequests
<1>7. \A s \in DOMAIN req : pc[s] # None => req[s] = [start |-> pc[s].start, end |-> EndOf(pt, pc[s]), rank |-> 0]
  BY <1>3, <1>5
<1>8. \A s \in DOMAIN req : IsLookahead(req, s) => req[s].rank \in DOMAIN ah /\ ah[req[s].rank] = s
  BY <1>3, <1>5 DEF IsLookahead
<1>9. RequestFacts(req, pt, pc, ah)
  BY <1>3, <1>6, <1>7, <1>8 DEF RequestFacts
<1> QED BY <1>9 DEF req

-----------------------------------------------------------------------------
(* Lookahead.                                                                *)

LEMMA LastEndIsNumber ==
  ASSUME NEW req, GoodRequests(req), NEW player, NEW p
  PROVE  LastEnd(req, player, p) \in Int
<1> DEFINE clips == {s \in Slot(req, player, p) : ~IsLookahead(req, s)}
           last == LastOf(req, clips)
<1>1. clips \in SUBSET DOMAIN req
  BY DEF Slot
<1>2. last # None => last \in DOMAIN req
  <2> HIDE DEF clips
  <2> QED BY <1>1, LastOfIsOne
<1>3. last # None => req[last].end \in Int
  BY <1>2, RequestsAreNumbers
<1> QED BY <1>3 DEF LastEnd

LEMMA PlacesAreEnough ==
  ASSUME NEW req, GoodRequests(req), NEW player, NEW left \in SUBSET Player
  PROVE  /\ IsFiniteSet(left) /\ Cardinality(left) \in Nat
         /\ Places(req, player, left) \in [1 .. Cardinality(left) -> left]
<1> DEFINE Before(q, p) == \/ LastEnd(req, player, q) < LastEnd(req, player, p)
                           \/ LastEnd(req, player, q) = LastEnd(req, player, p) /\ q < p
           before == [p \in left |-> {q \in left : Before(q, p)}]
<1>1. \A p \in left : p \in Nat /\ LastEnd(req, player, p) \in Int
  BY Constants, LastEndIsNumber
<1>2. /\ \A p \in left : ~Before(p, p)
      /\ \A p, q, r \in left : Before(p, q) /\ Before(q, r) => Before(p, r)
      /\ \A p, q \in left : p # q => Before(p, q) \/ Before(q, p)
  BY <1>1
<1>3. Orders(left, before)
  <2> HIDE DEF Before
  <2>1. before \in [left -> SUBSET left] /\ \A x, y \in left : x \in before[y] <=> Before(x, y)
    OBVIOUS
  <2> HIDE DEF before
  <2>2. \A x, y \in left : x \in before[y] => before[x] \subseteq before[y]
    BY <1>2, <2>1
  <2> QED BY <1>2, <2>1, <2>2 DEF Orders
<1>4. IsFiniteSet(left)
  <2>1. IsFiniteSet(Player)
    BY Constants, FS_Interval DEF Player
  <2> QED BY <2>1, FS_Subset
<1>5. Places(req, player, left) = Arranged(left, before)
  BY DEF Places
<1> HIDE DEF before
<1> QED BY <1>3, <1>4, <1>5, ArrangedHasEachOnce

\* There is a player for each that is looked ahead to, with or without those that stay.
LEMMA MovingHavePlaces ==
  ASSUME NEW req, GoodRequests(req), NEW player, NEW before, NEW safeNow
  PROVE  Cardinality(LookedAhead(req, player) \ Staying(req, player, before, safeNow))
           <= Cardinality(Usable(req, player) \ {before[s] : s \in Staying(req, player, before, safeNow)})
<1> DEFINE U == Usable(req, player)
           L == LookedAhead(req, player)
           S == Staying(req, player, before, safeNow)
           B == {before[s] : s \in S}
           all == {s \in DOMAIN req : IsLookahead(req, s)}
           place == [s \in L |-> Cardinality(EarlierOnes(req, all)[s])]
           loaded == [s \in S |-> before[s]]
<1>1. U \in SUBSET Player
  BY DEF Usable
<1>2. IsFiniteSet(U) /\ Cardinality(U) \in Nat
  BY <1>1, PlacesAreEnough
<1>3. /\ L \in SUBSET all
      /\ \A s \in L : EarlierOnes(req, all)[s] = {u \in all : Earlier(req, u, s)}
      /\ \A s \in L : place[s] < Cardinality(U)
  BY DEF LookedAhead, EarlierOnes
<1>4. IsFiniteSet(L) /\ Cardinality(L) \in Nat
  BY <1>3, FiniteRequests, FS_CardinalityType
<1>5. /\ S \in SUBSET L
      /\ \A s \in S : before[s] \in U
      /\ \A s, u \in S : before[u] = before[s] => req[s].rank <= req[u].rank
  BY DEF Staying
<1>6. /\ \A s \in L : place[s] \in 0 .. Cardinality(U) - 1
      /\ \A s, u \in L : place[s] = place[u] => s = u
  <2>1. all \in SUBSET DOMAIN req
    OBVIOUS
  <2> HIDE DEF all
  <2>2. IsFiniteSet(all) /\ Orders(all, EarlierOnes(req, all))
    BY <2>1, FiniteRequests, EarlierOrders
  <2>3. /\ \A s \in all : Cardinality(EarlierOnes(req, all)[s]) \in Nat
        /\ \A s, u \in all :
             Cardinality(EarlierOnes(req, all)[s]) = Cardinality(EarlierOnes(req, all)[u]) => s = u
    BY <2>2, RanksDiffer
  <2> HIDE DEF L, U
  <2> QED BY <1>2, <1>3, <2>3
<1>7. \A s, u \in L : req[s].rank \in Nat /\ (req[s].rank = req[u].rank => s = u)
  BY <1>3, RequestsAreNumbers DEF GoodRequests
<1>8. place \in Injection(L, 0 .. Cardinality(U) - 1)
  <2> HIDE DEF L, U
  <2> QED BY <1>6 DEF Injection, IsInjective
<1>9. Cardinality(L) <= Cardinality(U)
  <2>1. IsFiniteSet(0 .. Cardinality(U) - 1) /\ Cardinality(0 .. Cardinality(U) - 1) = Cardinality(U)
    BY <1>2, FS_Interval
  <2> HIDE DEF place, L, U
  <2> QED BY <1>8, <2>1, FS_Injection
<1>10. \A s, u \in S : before[s] = before[u] => s = u
  <2> HIDE DEF S, L, U
  <2> QED BY <1>5, <1>7
<1>11. IsFiniteSet(S) /\ Cardinality(S) \in Nat /\ IsFiniteSet(B) /\ Cardinality(B) = Cardinality(S)
  <2>1. IsFiniteSet(S)
    BY <1>4, <1>5, FS_Subset
  <2>2. loaded \in Bijection(S, B)
    <3> HIDE DEF S
    <3> QED BY <1>10 DEF Bijection, Injection, IsInjective, Surjection
  <2> HIDE DEF S, B, loaded
  <2>3. ExistsBijection(S, B)
    BY <2>2 DEF ExistsBijection
  <2> QED BY <2>1, <2>3, FS_Bijection, FS_CardinalityType
<1>12. B \in SUBSET U
  BY <1>5
<1> HIDE DEF U, L, S, B
<1>13. Cardinality(L \ S) = Cardinality(L) - Cardinality(S)
  <2>1. L \cap S = S
    BY <1>5
  <2> QED BY <1>4, <1>11, <2>1, FS_Difference
<1>14. Cardinality(U \ B) = Cardinality(U) - Cardinality(B)
  <2>1. U \cap B = B
    BY <1>12
  <2>2. Cardinality(U \ B) = Cardinality(U) - Cardinality(U \cap B)
    BY <1>2, FS_Difference
  <2> QED BY <2>1, <2>2
<1>15. Cardinality(L \ S) <= Cardinality(U \ B)
  BY <1>2, <1>4, <1>9, <1>11, <1>13, <1>14
<1> QED BY <1>15 DEF U, L, S, B

\* What lookahead does: clips keep their players, and there is one for each that is looked ahead to.
LookaheadFacts(req, player, result) ==
  /\ result \in [DOMAIN req -> Player \cup {None}]
  /\ \A s \in DOMAIN req : ~IsLookahead(req, s) => result[s] = player[s]
  /\ \A s \in LookedAhead(req, player) : result[s] \in Player

LEMMA LookaheadIsAssigned ==
  ASSUME NEW req, GoodRequests(req), NEW player \in [DOMAIN req -> Player \cup {None}],
         NEW before, NEW safeNow
  PROVE  LookaheadFacts(req, player, AssignLookahead(req, player, before, safeNow))
<1> DEFINE S == Staying(req, player, before, safeNow)
           M == LookedAhead(req, player) \ S
           left == Usable(req, player) \ {before[s] : s \in S}
           moving == InOrder(req, M)
           places == Places(req, player, left)
           result == AssignLookahead(req, player, before, safeNow)
           placeOf(s) == places[CHOOSE i \in DOMAIN moving : moving[i] = s]
<1>1. result = [s \in DOMAIN req |-> CASE s \in S -> before[s]
                                       [] s \in ToSet(moving) -> placeOf(s)
                                       [] OTHER -> player[s]]
  BY DEF AssignLookahead
<1>2. /\ LookedAhead(req, player) \in SUBSET DOMAIN req
      /\ \A s \in LookedAhead(req, player) : IsLookahead(req, s)
  BY DEF LookedAhead
<1>3. left \in SUBSET Player /\ Usable(req, player) \in SUBSET Player
  BY DEF Usable
<1>4. \A s \in S : before[s] \in Player /\ s \in LookedAhead(req, player)
  BY <1>3 DEF Staying
<1>5. Cardinality(M) <= Cardinality(left)
  BY MovingHavePlaces
<1>6. /\ Cardinality(left) \in Nat
      /\ places \in [1 .. Cardinality(left) -> left]
  <2> HIDE DEF left
  <2> QED BY <1>3, PlacesAreEnough
<1> HIDE DEF S, left, places
<1>7. /\ Cardinality(M) \in Nat
      /\ moving \in Seq(M) /\ Len(moving) = Cardinality(M)
      /\ \A x \in M : \E i \in 1 .. Cardinality(M) : moving[i] = x
  <2>1. M \in SUBSET DOMAIN req
    BY <1>2
  <2> HIDE DEF M
  <2> QED BY <2>1, InOrderHasEachOnce
<1> HIDE DEF moving
<1>8. /\ DOMAIN moving = 1 .. Cardinality(M)
      /\ \A i \in DOMAIN moving : moving[i] \in M /\ places[i] \in Player
  <2> HIDE DEF M
  <2>1. DOMAIN moving = 1 .. Cardinality(M) /\ \A i \in DOMAIN moving : moving[i] \in M
    BY <1>7
  <2>2. \A i \in 1 .. Cardinality(M) : i \in 1 .. Cardinality(left)
    BY <1>5, <1>6, <1>7
  <2> QED BY <1>3, <1>6, <2>1, <2>2
<1>9. \A s : s \in ToSet(moving) <=> s \in M
  <2> HIDE DEF M
  <2> QED BY <1>7, <1>8 DEF ToSet
<1>10. ASSUME NEW s \in M
       PROVE  placeOf(s) \in Player
  <2>1. \E i \in DOMAIN moving : moving[i] = s
    BY <1>7, <1>8
  <2> QED BY <1>8, <2>1
<1> HIDE DEF placeOf, result
<1>11. ASSUME NEW s \in DOMAIN req
       PROVE  /\ result[s] \in Player \cup {None}
              /\ ~IsLookahead(req, s) => result[s] = player[s]
              /\ s \in LookedAhead(req, player) => result[s] \in Player
  <2>1. result[s] = CASE s \in S -> before[s] [] s \in ToSet(moving) -> placeOf(s) [] OTHER -> player[s]
    BY <1>1
  <2>2. CASE s \in S
    BY <1>2, <1>4, <1>9, <2>1, <2>2
  <2>3. CASE s \notin S /\ s \in LookedAhead(req, player)
    BY <1>2, <1>9, <1>10, <2>1, <2>3
  <2>4. CASE s \notin S /\ s \notin LookedAhead(req, player)
    BY <1>9, <2>1, <2>4
  <2> QED BY <2>2, <2>3, <2>4
<1>12. result \in [DOMAIN req -> Player \cup {None}]
  <2>1. DOMAIN result = DOMAIN req /\ result = [s \in DOMAIN req |-> result[s]]
    BY <1>1
  <2> QED BY <1>11, <2>1
<1>13. LookaheadFacts(req, player, result)
  BY <1>2, <1>11, <1>12 DEF LookaheadFacts
<1> QED BY <1>13 DEF result

-----------------------------------------------------------------------------
(* One round of the resolver.                                                *)

ClipsOf(req) == {s \in DOMAIN req : ~IsLookahead(req, s)}

\* A run that is going on: what waits is a clip without a player.
GoodRun(req, rn) ==
  /\ rn.player \in [DOMAIN req -> Player \cup {None}]
  /\ rn.pending \in Seq(DOMAIN req) /\ OncePerPlace(rn.pending)
  /\ \A i \in DOMAIN rn.pending : rn.pending[i] \in ClipsOf(req) /\ rn.player[rn.pending[i]] = None
  /\ rn.refused \subseteq DOMAIN req
  /\ ~rn.looks => rn.pending = <<>> /\ \A s \in DOMAIN req : rn.player[s] # None

\* The premise of OnAirStays, and a required clip that it speaks of: it has its player at time t.
Undisturbed(req, t, asg) ==
  /\ NowWindow > 0 /\ Players > 1
  /\ \A u \in ClipsOf(req) : req[u].end <= t => asg[u] # None /\ req[u].start <= t

Held(req, t, asg, s) ==
  s \in ClipsOf(req) \ Optional /\ req[s].start <= t /\ t < req[s].end /\ asg[s] # None

\* Why what is on air stays: nothing that has started loses its player in any round, what is over
\* included: were it assigned again, it would move what comes after it.
Keeps(req, t, asg, player) ==
  /\ \A u \in ClipsOf(req) : req[u].end <= t => player[u] = asg[u]
  /\ \A s \in ClipsOf(req) : Held(req, t, asg, s) => player[s] = asg[s]
  /\ \A s, u \in ClipsOf(req) :
       Held(req, t, asg, s) /\ u # s /\ player[u] = asg[s] /\ asg[u] # asg[s]
       => req[u].end <= req[s].start \/ req[s].end <= req[u].start

\* Who loses a player: lookahead, what comes later, or optional clips.
GoneFacts(req, player, r, safeNow, s) ==
  /\ s \in DOMAIN req /\ player[s] \in Player
  /\ \/ IsLookahead(req, s)
     \/ req[s].start >= req[r].end
     \/ req[s].start > safeNow
     \/ s \in Optional /\ req[s].end >= req[r].start /\ req[r].start >= safeNow

LEMMA GoneOnes ==
  ASSUME NEW req, GoodRequests(req), NEW player \in [DOMAIN req -> Player \cup {None}],
         NEW r \in DOMAIN req, NEW safeNow, NEW c,
         GoodChoice(req, r, SlotsFor(req, player, r), safeNow, c),
         NEW s \in Invalidated(req, player, c)
  PROVE  GoneFacts(req, player, r, safeNow, s)
<1> DEFINE x == c.slot
<1>1. x \in SlotsFor(req, player, r) /\ GivesWay(req, r, safeNow, x, c.clearsClashes)
  BY DEF GoodChoice
<1>2. SlotFacts(req, player, r, x.player, x) /\ x.player \in Player
  <2>1. x.player \in Player /\ x = Availability(req, player, r, x.player)
    BY <1>1, SlotsForPlayers
  <2> HIDE DEF x
  <2>2. SlotFacts(req, player, r, x.player, Availability(req, player, r, x.player))
    BY <2>1, SlotOfAPlayer
  <2> QED BY <2>1, <2>2
<1>3. /\ s \in DOMAIN req
      /\ \/ x.after # None /\ player[s] # None /\ req[s].start >= req[x.after].start
         \/ c.clearsClashes /\ s \in x.clashes
  BY DEF Invalidated
<1> HIDE DEF x
<1>4. CASE x.after # None /\ player[s] # None /\ req[s].start >= req[x.after].start
  <2>1. x.after \in DOMAIN req /\ (IsLookahead(req, x.after) \/ req[x.after].start >= req[r].end)
    BY <1>2, <1>4 DEF SlotFacts
  <2>2. player[s] \in Player
    BY <1>3, <1>4
  <2>3. /\ req[s].start \in Nat /\ req[s].start <= Far /\ req[x.after].start \in Nat
        /\ req[r].end \in Nat /\ Far \in Nat
    BY <1>3, <2>1, RequestsAreNumbers, Constants
  <2>4. IsLookahead(req, x.after) => req[x.after].start = Far
    BY <2>1 DEF GoodRequests
  <2>5. req[s].start = Far => IsLookahead(req, s)
    BY <1>3 DEF GoodRequests
  <2>6. IsLookahead(req, s) \/ req[s].start >= req[r].end
    BY <1>4, <2>1, <2>3, <2>4, <2>5
  <2> QED BY <1>3, <2>2, <2>6 DEF GoneFacts
<1>5. CASE c.clearsClashes /\ s \in x.clashes
  <2>1. player[s] = x.player /\ req[s].end >= req[r].start
    BY <1>2, <1>5 DEF SlotFacts
  <2>2. \/ req[s].start > safeNow
        \/ s \in Optional /\ req[r].start >= safeNow
    BY <1>1, <1>5 DEF GivesWay
  <2> QED BY <1>2, <1>3, <2>1, <2>2 DEF GoneFacts
<1> QED BY <1>3, <1>4, <1>5

LEMMA DroppedOnes ==
  ASSUME NEW req, NEW r, NEW c, NEW s \in Dropped(req, r, c)
  PROVE  IsLookahead(req, s)
  BY DEF Dropped

\* The players after a round.
After(req, player, r, c) ==
  [s \in DOMAIN req |->
     IF s = r THEN c.slot.player
     ELSE IF s \in Invalidated(req, player, c) \cup Dropped(req, r, c) THEN None
     ELSE player[s]]

LEMMA AfterARound ==
  ASSUME NEW req, GoodRequests(req), NEW player \in [DOMAIN req -> Player \cup {None}],
         NEW r \in DOMAIN req, NEW safeNow, NEW c,
         GoodChoice(req, r, SlotsFor(req, player, r), safeNow, c)
  PROVE  /\ After(req, player, r, c) \in [DOMAIN req -> Player \cup {None}]
         /\ After(req, player, r, c)[r] = c.slot.player
         /\ \A s \in DOMAIN req \ {r} : \/ After(req, player, r, c)[s] = None
                                        \/ After(req, player, r, c)[s] = player[s]
         /\ \A s \in DOMAIN req \ {r} : s \in Invalidated(req, player, c) => After(req, player, r, c)[s] = None
         /\ \A s \in DOMAIN req \ {r} :
              After(req, player, r, c)[s] # player[s]
                => IsLookahead(req, s) \/ GoneFacts(req, player, r, safeNow, s)
<1> DEFINE a == After(req, player, r, c)
           gone == Invalidated(req, player, c)
           dropped == Dropped(req, r, c)
<1>1. c.slot.player \in Player
  <2>1. c.slot \in SlotsFor(req, player, r)
    BY DEF GoodChoice
  <2> QED BY <2>1, SlotsForPlayers
<1>2. a = [s \in DOMAIN req |-> IF s = r THEN c.slot.player
                                ELSE IF s \in gone \cup dropped THEN None ELSE player[s]]
  BY DEF After
<1>3. \A s \in dropped : IsLookahead(req, s)
  BY DroppedOnes
<1>4. \A s \in gone : GoneFacts(req, player, r, safeNow, s)
  BY GoneOnes
<1> HIDE DEF a, gone, dropped
<1>5. a \in [DOMAIN req -> Player \cup {None}]
  BY <1>1, <1>2
<1>6. \A s \in DOMAIN req \ {r} : s \notin gone \cup dropped => a[s] = player[s]
  BY <1>2
<1>7. \A s \in DOMAIN req \ {r} : s \in gone \cup dropped => a[s] = None
  BY <1>2
<1>8. a[r] = c.slot.player
  BY <1>2
<1>9. \A s \in DOMAIN req \ {r} : a[s] # player[s] => IsLookahead(req, s) \/ GoneFacts(req, player, r, safeNow, s)
  BY <1>3, <1>4, <1>6
<1> QED BY <1>5, <1>6, <1>7, <1>8, <1>9 DEF a, gone

\* Nothing that has started loses its player, and nothing is put in its way.
LEMMA RoundKeeps ==
  ASSUME NEW req, GoodRequests(req), NEW player \in [DOMAIN req -> Player \cup {None}],
         NEW r \in ClipsOf(req), player[r] = None, NEW t \in Nat, NEW asg, NEW c,
         GoodChoice(req, r, SlotsFor(req, player, r), t + NowWindow, c),
         Undisturbed(req, t, asg), Keeps(req, t, asg, player)
  PROVE  Keeps(req, t, asg, After(req, player, r, c))
<1> DEFINE a == After(req, player, r, c)
           safeNow == t + NowWindow
           p == c.slot.player
<1>0. r \in DOMAIN req /\ NowWindow \in Nat /\ safeNow \in Nat /\ safeNow > t
  BY Constants DEF ClipsOf, Undisturbed
<1>1. /\ a[r] = p
      /\ \A s \in DOMAIN req \ {r} : a[s] = None \/ a[s] = player[s]
      /\ \A s \in DOMAIN req \ {r} : s \in Invalidated(req, player, c) => a[s] = None
      /\ \A s \in DOMAIN req \ {r} : a[s] # player[s] => IsLookahead(req, s) \/ GoneFacts(req, player, r, safeNow, s)
  BY <1>0, AfterARound
<1>2. \A s \in DOMAIN req : req[s].start \in Nat /\ req[s].end \in Nat
  BY RequestsAreNumbers
<1> HIDE DEF a, safeNow
<1>3. req[r].end > t
  <2>1. SUFFICES ASSUME req[r].end <= t PROVE FALSE
    BY <1>0, <1>2
  <2>2. asg[r] # None /\ player[r] = asg[r]
    BY <2>1 DEF Undisturbed, Keeps
  <2> QED BY <2>2
<1>4. ASSUME NEW s \in ClipsOf(req), s # r, req[s].start <= t, s \notin Optional \/ req[s].end <= t
      PROVE  a[s] = player[s]
  <2>1. s \in DOMAIN req \ {r} /\ ~IsLookahead(req, s)
    BY <1>4 DEF ClipsOf
  <2>2. SUFFICES ASSUME GoneFacts(req, player, r, safeNow, s) PROVE FALSE
    BY <1>1, <2>1
  <2>3. \/ req[s].start >= req[r].end
        \/ req[s].start > safeNow
        \/ s \in Optional /\ req[s].end >= req[r].start /\ req[r].start >= safeNow
    BY <2>1, <2>2 DEF GoneFacts
  <2> QED BY <1>0, <1>2, <1>3, <1>4, <2>1, <2>3
<1>5. ASSUME NEW u \in ClipsOf(req), req[u].end <= t
      PROVE  u # r /\ a[u] = asg[u]
  <2>1. asg[u] # None /\ req[u].start <= t /\ player[u] = asg[u]
    BY <1>5 DEF Undisturbed, Keeps
  <2>2. u # r
    BY <2>1
  <2> QED BY <1>4, <1>5, <2>1, <2>2
<1>6. ASSUME NEW s, Held(req, t, asg, s)
      PROVE  s # r /\ player[s] = asg[s] /\ a[s] = asg[s]
  <2>1. s \in ClipsOf(req) /\ s \notin Optional /\ req[s].start <= t /\ asg[s] # None
    BY <1>6 DEF Held
  <2>2. player[s] = asg[s] /\ s # r
    BY <1>6, <2>1 DEF Keeps
  <2> QED BY <1>4, <2>1, <2>2
<1>7. ASSUME NEW s, NEW u, Held(req, t, asg, s), u \in ClipsOf(req), u # s,
             a[u] = asg[s], asg[u] # asg[s]
      PROVE  req[u].end <= req[s].start \/ req[s].end <= req[u].start
  <2>1. s \in ClipsOf(req) /\ s \in DOMAIN req /\ ~IsLookahead(req, s) /\ req[s].start <= t /\ asg[s] # None
    BY <1>7 DEF Held, ClipsOf
  <2>2. s # r /\ player[s] = asg[s] /\ a[s] = asg[s]
    BY <1>6, <1>7
  <2>3. CASE u # r
    <3>1. u \in DOMAIN req \ {r}
      BY <1>7, <2>3 DEF ClipsOf
    <3>2. player[u] = asg[s]
      BY <1>1, <1>7, <2>1, <3>1
    <3> QED BY <1>7, <2>1, <3>2 DEF Keeps
  <2>4. CASE u = r
    <3>1. p = player[s]
      BY <1>1, <1>7, <2>2, <2>4
    <3>2. c.slot \in SlotsFor(req, player, r) /\ GivesWay(req, r, safeNow, c.slot, c.clearsClashes)
      BY DEF GoodChoice, safeNow
    <3>3. SlotFacts(req, player, r, p, c.slot)
      <4>1. p \in Player /\ c.slot = Availability(req, player, r, p)
        BY <1>0, <3>2, SlotsForPlayers
      <4> QED BY <1>0, <4>1, SlotOfAPlayer
    <3>4. s \in c.slot.clashes <=> req[s].start < req[r].end /\ req[s].end >= req[r].start
      BY <2>1, <3>1, <3>3 DEF SlotFacts
    <3>5. s \in c.slot.clashes => ~c.clearsClashes
      <4>1. s \in c.slot.clashes /\ c.clearsClashes => s \in Invalidated(req, player, c)
        BY <2>1 DEF Invalidated
      <4> QED BY <1>1, <2>1, <2>2, <4>1
    <3>6. s \in c.slot.clashes => req[s].start > safeNow \/ req[s].end = req[r].start
      BY <3>2, <3>5 DEF GivesWay
    <3> QED BY <1>0, <1>2, <2>1, <2>4, <3>4, <3>6
  <2> QED BY <2>3, <2>4
<1>8. Keeps(req, t, asg, a)
  BY <1>5, <1>6, <1>7 DEF Keeps
<1> QED BY <1>8 DEF a

\* The record of a run has these fields.
RunShape(rn) ==
  rn = [on |-> rn.on, looks |-> rn.looks, pending |-> rn.pending,
        player |-> rn.player, refused |-> rn.refused, tries |-> rn.tries]

\* The requests that are left when the first one has been dealt with.
LEMMA TheOthersWait ==
  ASSUME NEW S, NEW seq \in Seq(S), OncePerPlace(seq), seq # <<>>
  PROVE  /\ Head(seq) = seq[1] /\ 1 \in DOMAIN seq
         /\ Tail(seq) \in Seq(S) /\ OncePerPlace(Tail(seq))
         /\ \A i \in DOMAIN Tail(seq) : /\ i + 1 \in DOMAIN seq /\ Tail(seq)[i] = seq[i + 1]
                                        /\ Tail(seq)[i] # Head(seq)
<1>1. Len(seq) \in Nat /\ Len(seq) > 0 /\ DOMAIN seq = 1 .. Len(seq) /\ Head(seq) = seq[1]
  OBVIOUS
<1>2. /\ Tail(seq) \in Seq(S) /\ DOMAIN Tail(seq) = 1 .. Len(seq) - 1
      /\ \A i \in 1 .. Len(seq) - 1 : Tail(seq)[i] = seq[i + 1]
  OBVIOUS
<1>3. \A i, j \in 1 .. Len(seq) : seq[i] = seq[j] => i = j
  BY <1>1 DEF OncePerPlace
<1>4. \A i \in 1 .. Len(seq) - 1 : i + 1 \in 1 .. Len(seq) /\ i + 1 # 1
  BY <1>1
<1>5. \A i, j \in DOMAIN Tail(seq) : Tail(seq)[i] = Tail(seq)[j] => i = j
  <2> SUFFICES ASSUME NEW i \in 1 .. Len(seq) - 1, NEW j \in 1 .. Len(seq) - 1, Tail(seq)[i] = Tail(seq)[j]
               PROVE  i = j
    BY <1>2
  <2>1. i + 1 = j + 1
    BY <1>2, <1>3, <1>4
  <2> QED BY <1>1, <2>1
<1>6. \A i \in 1 .. Len(seq) - 1 : Tail(seq)[i] # Head(seq)
  <2> SUFFICES ASSUME NEW i \in 1 .. Len(seq) - 1 PROVE seq[i + 1] # seq[1]
    BY <1>1, <1>2
  <2>1. 1 \in 1 .. Len(seq)
    BY <1>1
  <2> QED BY <1>3, <1>4, <2>1
<1> QED BY <1>1, <1>2, <1>4, <1>5, <1>6 DEF OncePerPlace

NothingShared(a, b) == \A i \in DOMAIN a, j \in DOMAIN b : a[i] # b[j]

JoinFacts(S, a, b, t) ==
  /\ t \in Seq(S) /\ OncePerPlace(t) /\ Len(t) = Len(a) + Len(b)
  /\ \A k \in DOMAIN t : \/ \E i \in DOMAIN a : t[k] = a[i]
                         \/ \E j \in DOMAIN b : t[k] = b[j]

LEMMA OnceWhenJoined ==
  ASSUME NEW S, NEW a \in Seq(S), NEW b \in Seq(S), OncePerPlace(a), OncePerPlace(b),
         NothingShared(a, b)
  PROVE  JoinFacts(S, a, b, a \o b)
<1>1. Len(a) \in Nat /\ Len(b) \in Nat /\ DOMAIN a = 1 .. Len(a) /\ DOMAIN b = 1 .. Len(b)
  OBVIOUS
<1>2. /\ a \o b \in Seq(S) /\ DOMAIN (a \o b) = 1 .. Len(a) + Len(b)
      /\ \A k \in 1 .. Len(a) + Len(b) : (a \o b)[k] = IF k <= Len(a) THEN a[k] ELSE b[k - Len(a)]
  OBVIOUS
<1>3. \A k \in 1 .. Len(a) + Len(b) : IF k <= Len(a) THEN k \in DOMAIN a ELSE k - Len(a) \in DOMAIN b
  BY <1>1
<1>4. \A k \in DOMAIN (a \o b) : \/ \E i \in DOMAIN a : (a \o b)[k] = a[i]
                                 \/ \E j \in DOMAIN b : (a \o b)[k] = b[j]
  BY <1>2, <1>3
<1>5. ASSUME NEW k \in 1 .. Len(a) + Len(b), NEW l \in 1 .. Len(a) + Len(b), (a \o b)[k] = (a \o b)[l]
      PROVE  k = l
  <2>1. CASE k <= Len(a) /\ l <= Len(a)
    <3>1. k \in DOMAIN a /\ l \in DOMAIN a /\ a[k] = a[l]
      BY <1>2, <1>3, <1>5, <2>1
    <3> QED BY <3>1 DEF OncePerPlace
  <2>2. CASE ~(k <= Len(a)) /\ ~(l <= Len(a))
    <3>1. k - Len(a) \in DOMAIN b /\ l - Len(a) \in DOMAIN b /\ b[k - Len(a)] = b[l - Len(a)]
      BY <1>2, <1>3, <1>5, <2>2
    <3>2. k - Len(a) = l - Len(a)
      BY <3>1 DEF OncePerPlace
    <3> QED BY <1>1, <3>2
  <2>3. CASE k <= Len(a) /\ ~(l <= Len(a))
    <3>1. k \in DOMAIN a /\ l - Len(a) \in DOMAIN b /\ a[k] = b[l - Len(a)]
      BY <1>2, <1>3, <1>5, <2>3
    <3> QED BY <3>1 DEF NothingShared
  <2>4. CASE ~(k <= Len(a)) /\ l <= Len(a)
    <3>1. l \in DOMAIN a /\ k - Len(a) \in DOMAIN b /\ a[l] = b[k - Len(a)]
      BY <1>2, <1>3, <1>5, <2>4
    <3> QED BY <3>1 DEF NothingShared
  <2> QED BY <2>1, <2>2, <2>3, <2>4
<1>6. OncePerPlace(a \o b)
  BY <1>2, <1>5 DEF OncePerPlace
<1>7. Len(a \o b) = Len(a) + Len(b)
  OBVIOUS
<1> DEFINE t == a \o b
<1>8. JoinFacts(S, a, b, t)
  <2> HIDE DEF t
  <2>1. t \in Seq(S) /\ OncePerPlace(t)
    BY <1>2, <1>6 DEF t
  <2>2. Len(t) = Len(a) + Len(b)
    BY <1>7 DEF t
  <2>3. \A k \in DOMAIN t : \/ \E i \in DOMAIN a : t[k] = a[i]
                            \/ \E j \in DOMAIN b : t[k] = b[j]
    BY <1>4 DEF t
  <2> QED BY <2>1, <2>2, <2>3 DEF JoinFacts
<1> QED BY <1>8

\* What waits after a round.
StillPending(req, rn, c) ==
  Sorted(req, Tail(rn.pending)
              \o Again(req, rn.player, {s \in Invalidated(req, rn.player, c) : ~IsLookahead(req, s)}))

StillFacts(req, player, still) ==
  /\ still \in Seq(DOMAIN req) /\ OncePerPlace(still)
  /\ \A i \in DOMAIN still : still[i] \in ClipsOf(req) /\ player[still[i]] = None

LEMMA WhatWaits ==
  ASSUME NEW req, NEW rn, NEW c, NEW r, NEW safeNow, GoodRequests(req), GoodRun(req, rn),
         rn.pending # <<>>, r = Head(rn.pending),
         GoodChoice(req, r, SlotsFor(req, rn.player, r), safeNow, c)
  PROVE  StillFacts(req, After(req, rn.player, r, c), StillPending(req, rn, c))
<1> DEFINE D == DOMAIN req
           gone == {s \in Invalidated(req, rn.player, c) : ~IsLookahead(req, s)}
           tail == Tail(rn.pending)
           again == Again(req, rn.player, gone)
           after == After(req, rn.player, r, c)
           still == StillPending(req, rn, c)
<1>1. /\ rn.pending \in Seq(D) /\ OncePerPlace(rn.pending)
      /\ \A i \in DOMAIN rn.pending : rn.pending[i] \in ClipsOf(req) /\ rn.player[rn.pending[i]] = None
      /\ rn.player \in [D -> Player \cup {None}]
  BY DEF GoodRun
<1>2. /\ r = rn.pending[1] /\ 1 \in DOMAIN rn.pending
      /\ tail \in Seq(D) /\ OncePerPlace(tail)
      /\ \A i \in DOMAIN tail : /\ i + 1 \in DOMAIN rn.pending /\ tail[i] = rn.pending[i + 1]
                                /\ tail[i] # r
  BY <1>1, TheOthersWait
<1>3. r \in D /\ rn.player[r] = None
  BY <1>1, <1>2 DEF ClipsOf
<1>4. \A s \in gone : /\ s \in D /\ rn.player[s] \in Player /\ s \in ClipsOf(req)
                      /\ s \in Invalidated(req, rn.player, c) /\ s # r
  <2> SUFFICES ASSUME NEW s \in gone
               PROVE  /\ s \in D /\ rn.player[s] \in Player /\ s \in ClipsOf(req)
                      /\ s \in Invalidated(req, rn.player, c) /\ s # r
    OBVIOUS
  <2>1. s \in Invalidated(req, rn.player, c) /\ ~IsLookahead(req, s)
    OBVIOUS
  <2>2. GoneFacts(req, rn.player, r, safeNow, s)
    BY <1>1, <1>3, <2>1, GoneOnes
  <2>3. s \in D /\ rn.player[s] \in Player
    BY <2>2 DEF GoneFacts
  <2>4. s # r
    BY <1>3, <2>3, Constants
  <2> QED BY <2>1, <2>3, <2>4 DEF ClipsOf
<1> HIDE DEF gone
<1>5. /\ again \in Seq(gone) /\ OncePerPlace(again)
      /\ DOMAIN again = 1 .. Len(again) /\ Len(again) \in Nat
  <2>1. gone \in SUBSET D /\ \A s \in gone : rn.player[s] \in Player
    BY <1>4
  <2>2. /\ Cardinality(gone) \in Nat /\ again \in Seq(gone) /\ Len(again) = Cardinality(gone)
        /\ \A i, j \in 1 .. Cardinality(gone) : again[i] = again[j] => i = j
    BY <2>1, AgainHasEachOnce
  <2> HIDE DEF again
  <2>3. DOMAIN again = 1 .. Cardinality(gone) /\ DOMAIN again = 1 .. Len(again) /\ Len(again) \in Nat
    BY <2>2
  <2> QED BY <2>2, <2>3 DEF OncePerPlace
<1> HIDE DEF again, tail
<1>6. \A i \in DOMAIN again : again[i] \in gone
  BY <1>5
<1>7. again \in Seq(D)
  <2>1. again = [i \in 1 .. Len(again) |-> again[i]]
    BY <1>5
  <2>2. \A i \in 1 .. Len(again) : again[i] \in D
    BY <1>4, <1>5, <1>6
  <2> QED BY <1>5, <2>1, <2>2
<1>8. NothingShared(tail, again)
  <2>1. \A i \in DOMAIN tail : rn.player[tail[i]] = None
    BY <1>1, <1>2
  <2>2. \A j \in DOMAIN again : rn.player[again[j]] # None
    BY <1>4, <1>6, Constants
  <2> QED BY <2>1, <2>2 DEF NothingShared
<1>9. /\ tail \o again \in Seq(D) /\ OncePerPlace(tail \o again)
      /\ \A k \in DOMAIN (tail \o again) : \/ \E i \in DOMAIN tail : (tail \o again)[k] = tail[i]
                                           \/ \E j \in DOMAIN again : (tail \o again)[k] = again[j]
  <2>1. JoinFacts(D, tail, again, tail \o again)
    BY <1>2, <1>5, <1>7, <1>8, OnceWhenJoined
  <2> QED BY <2>1 DEF JoinFacts
<1>10. /\ \A s \in D \ {r} : after[s] = None \/ after[s] = rn.player[s]
       /\ \A s \in D \ {r} : s \in Invalidated(req, rn.player, c) => after[s] = None
  BY <1>1, <1>3, AfterARound
<1> HIDE DEF after
<1>11. \A i \in DOMAIN tail : tail[i] \in ClipsOf(req) /\ after[tail[i]] = None
  BY <1>1, <1>2, <1>10 DEF ClipsOf
<1>12. \A j \in DOMAIN again : again[j] \in ClipsOf(req) /\ after[again[j]] = None
  BY <1>4, <1>6, <1>10
<1> DEFINE both == tail \o again
<1>13. \A k \in DOMAIN both : both[k] \in ClipsOf(req) /\ after[both[k]] = None
  BY <1>9, <1>11, <1>12
<1>14. still = Sorted(req, both)
  BY DEF StillPending, tail, again, gone
<1>15. /\ still \in Seq(D) /\ OncePerPlace(still)
       /\ \A k \in DOMAIN still : \E i \in DOMAIN both : still[k] = both[i]
  <2> HIDE DEF both, still
  <2>1. both \in Seq(D) /\ OncePerPlace(both)
    BY <1>9 DEF both
  <2> QED BY <1>14, <2>1, SortedHasTheSame
<1> HIDE DEF still, both
<1>16. \A k \in DOMAIN still : still[k] \in ClipsOf(req) /\ after[still[k]] = None
  BY <1>13, <1>15
<1>17. StillFacts(req, after, still)
  BY <1>15, <1>16 DEF StillFacts
<1> QED BY <1>17 DEF still, after

\* A round leaves a run as it should be, whether it finds a player or not.
RoundOf(req, rn, r, c) ==
  IF c = None
  THEN [rn EXCEPT !.pending = Tail(@), !.refused = @ \cup {r}, !.tries = @ + 1]
  ELSE [rn EXCEPT !.pending = StillPending(req, rn, c), !.tries = @ + 1,
                  !.player = After(req, rn.player, r, c)]

LEMMA RoundIsGood ==
  ASSUME NEW req, NEW rn, NEW c, NEW r, NEW safeNow \in Nat, GoodRequests(req), RunShape(rn),
         GoodRun(req, rn), rn.pending # <<>>, r = Head(rn.pending),
         c = Choose(req, r, SlotsFor(req, rn.player, r), safeNow)
  PROVE  /\ r \in ClipsOf(req) /\ rn.player[r] = None
         /\ RunShape(RoundOf(req, rn, r, c)) /\ GoodRun(req, RoundOf(req, rn, r, c))
         /\ RoundOf(req, rn, r, c).on = rn.on
         /\ c = None => /\ RoundOf(req, rn, r, c).player = rn.player
                        /\ RoundOf(req, rn, r, c).refused = rn.refused \cup {r}
                        /\ r \notin Optional => Full(req, r, SlotsFor(req, rn.player, r), safeNow)
         /\ c # None => /\ RoundOf(req, rn, r, c).player = After(req, rn.player, r, c)
                        /\ RoundOf(req, rn, r, c).refused = rn.refused
                        /\ GoodChoice(req, r, SlotsFor(req, rn.player, r), safeNow, c)
<1> DEFINE new == RoundOf(req, rn, r, c)
<1>1. /\ rn.pending \in Seq(DOMAIN req) /\ OncePerPlace(rn.pending)
      /\ \A i \in DOMAIN rn.pending : rn.pending[i] \in ClipsOf(req) /\ rn.player[rn.pending[i]] = None
      /\ rn.player \in [DOMAIN req -> Player \cup {None}]
      /\ rn.refused \subseteq DOMAIN req /\ rn.looks
  BY DEF GoodRun
<1>2. /\ r = rn.pending[1] /\ 1 \in DOMAIN rn.pending
      /\ Tail(rn.pending) \in Seq(DOMAIN req) /\ OncePerPlace(Tail(rn.pending))
      /\ \A i \in DOMAIN Tail(rn.pending) : /\ i + 1 \in DOMAIN rn.pending
                                            /\ Tail(rn.pending)[i] = rn.pending[i + 1]
  BY <1>1, TheOthersWait
<1>3. r \in ClipsOf(req) /\ r \in DOMAIN req /\ rn.player[r] = None
  BY <1>1, <1>2 DEF ClipsOf
<1>4. \/ c # None /\ GoodChoice(req, r, SlotsFor(req, rn.player, r), safeNow, c)
      \/ c = None /\ (r \notin Optional => Full(req, r, SlotsFor(req, rn.player, r), safeNow))
  BY <1>3, ChooseIsGood
<1>5. CASE c = None
  <2>1. new = [on |-> rn.on, looks |-> rn.looks, pending |-> Tail(rn.pending), player |-> rn.player,
               refused |-> rn.refused \cup {r}, tries |-> rn.tries + 1]
    BY <1>5 DEF RoundOf, RunShape
  <2> HIDE DEF new
  <2>2. /\ RunShape(new) /\ new.on = rn.on /\ new.looks /\ new.player = rn.player
        /\ new.pending = Tail(rn.pending) /\ new.refused = rn.refused \cup {r}
    BY <1>1, <2>1 DEF RunShape
  <2>3. \A i \in DOMAIN Tail(rn.pending) : /\ Tail(rn.pending)[i] \in ClipsOf(req)
                                           /\ rn.player[Tail(rn.pending)[i]] = None
    BY <1>1, <1>2
  <2>4. GoodRun(req, new)
    BY <1>1, <1>2, <1>3, <2>2, <2>3 DEF GoodRun
  <2> QED BY <1>3, <1>4, <1>5, <2>2, <2>4 DEF new
<1>6. CASE c # None
  <2>0. GoodChoice(req, r, SlotsFor(req, rn.player, r), safeNow, c)
    BY <1>4, <1>6
  <2>1. new = [on |-> rn.on, looks |-> rn.looks, pending |-> StillPending(req, rn, c),
               player |-> After(req, rn.player, r, c), refused |-> rn.refused, tries |-> rn.tries + 1]
    BY <1>6 DEF RoundOf, RunShape
  <2> HIDE DEF new
  <2>2. /\ RunShape(new) /\ new.on = rn.on /\ new.looks /\ new.player = After(req, rn.player, r, c)
        /\ new.pending = StillPending(req, rn, c) /\ new.refused = rn.refused
    BY <1>1, <2>1 DEF RunShape
  <2>3. StillFacts(req, After(req, rn.player, r, c), StillPending(req, rn, c))
    BY <2>0, WhatWaits
  <2>4. After(req, rn.player, r, c) \in [DOMAIN req -> Player \cup {None}]
    BY <1>1, <1>3, <2>0, AfterARound
  <2>5. GoodRun(req, new)
    BY <1>1, <2>2, <2>3, <2>4 DEF GoodRun, StillFacts
  <2> QED BY <1>3, <1>6, <2>0, <2>2, <2>5 DEF new
<1> QED BY <1>5, <1>6

-----------------------------------------------------------------------------
(* The start of a run.                                                       *)

StartOf(req, asg, safeNow) ==
  LET kept == [s \in DOMAIN req |-> IF s \in Unpreloaded(req, asg, safeNow) THEN None ELSE asg[s]]
      waiting == {s \in DOMAIN req : kept[s] = None /\ ~IsLookahead(req, s)}
  IN CASE Players = 1 -> [NoRun EXCEPT !.on = TRUE, !.player = [s \in DOMAIN req |-> 1]]
       [] Players # 1 /\ (\A s \in DOMAIN req : asg[s] # None) ->
            [NoRun EXCEPT !.on = TRUE, !.player = [s \in DOMAIN req |-> asg[s]]]
       [] OTHER -> [on |-> TRUE, looks |-> TRUE, pending |-> InOrder(req, waiting),
                    player |-> kept, refused |-> {}, tries |-> 0]

\* A run without anything to do.
IdleRun(player) == [NoRun EXCEPT !.on = TRUE, !.player = player]

LEMMA NothingToDo ==
  ASSUME NEW req, NEW player \in [DOMAIN req -> Player],
         NEW rn, rn = IdleRun(player)
  PROVE  rn.on /\ RunShape(rn) /\ GoodRun(req, rn) /\ rn.refused = {} /\ rn.player = player
<1>1. rn = [on |-> TRUE, looks |-> FALSE, pending |-> <<>>, player |-> player, refused |-> {}, tries |-> 0]
  BY DEF NoRun, IdleRun
<1>2. rn.on /\ ~rn.looks /\ rn.pending = <<>> /\ rn.player = player /\ rn.refused = {}
  <2>1. rn.on = TRUE /\ rn.looks = FALSE
    BY <1>1
  <2>2. rn.pending = <<>>
    BY <1>1
  <2>3. rn.player = player /\ rn.refused = {}
    BY <1>1
  <2> QED BY <2>1, <2>2, <2>3
<1>6. RunShape(rn)
  BY <1>1, <1>2 DEF RunShape
<1>3. \A s \in DOMAIN req : player[s] \in Player \cup {None} /\ player[s] # None
  BY Constants
<1>4. player \in [DOMAIN req -> Player \cup {None}]
  BY <1>3
<1>5. GoodRun(req, rn)
  <2>1. <<>> \in Seq(DOMAIN req) /\ DOMAIN <<>> = {}
    OBVIOUS
  <2>2. OncePerPlace(<<>>)
    BY <2>1 DEF OncePerPlace
  <2>3. {} \subseteq DOMAIN req
    OBVIOUS
  <2> QED BY <1>2, <1>3, <1>4, <2>1, <2>2, <2>3 DEF GoodRun
<1> QED BY <1>2, <1>5, <1>6

LEMMA StartIsGood ==
  ASSUME NEW req, GoodRequests(req), NEW asg \in [Session -> Player \cup {None}], NEW t \in Nat,
         NEW rn, rn = StartOf(req, asg, t + NowWindow)
  PROVE  /\ rn.on /\ RunShape(rn) /\ GoodRun(req, rn) /\ rn.refused = {}
         /\ Undisturbed(req, t, asg) => Keeps(req, t, asg, rn.player)
<1> DEFINE moved == Unpreloaded(req, asg, t + NowWindow)
           kept == [s \in DOMAIN req |-> IF s \in moved THEN None ELSE asg[s]]
           waiting == {s \in DOMAIN req : kept[s] = None /\ ~IsLookahead(req, s)}
<1>1. DOMAIN req \subseteq Session /\ \A s \in DOMAIN req : asg[s] \in Player \cup {None}
  BY DEF GoodRequests
<1>2. CASE Players = 1
  <2>1. rn = IdleRun([s \in DOMAIN req |-> 1])
    BY <1>2 DEF StartOf, IdleRun
  <2>2. [s \in DOMAIN req |-> 1] \in [DOMAIN req -> Player]
    BY <1>2 DEF Player
  <2>3. ~Undisturbed(req, t, asg)
    BY <1>2 DEF Undisturbed
  <2> QED BY <2>1, <2>2, <2>3, NothingToDo
<1>3. CASE Players # 1 /\ \A s \in DOMAIN req : asg[s] # None
  <2> DEFINE same == [s \in DOMAIN req |-> asg[s]]
  <2>1. rn = IdleRun(same)
    BY <1>3 DEF StartOf, IdleRun
  <2>2. same \in [DOMAIN req -> Player] /\ \A s \in DOMAIN req : same[s] = asg[s]
    BY <1>1, <1>3
  <2> HIDE DEF same
  <2>3. rn.on /\ RunShape(rn) /\ GoodRun(req, rn) /\ rn.refused = {} /\ rn.player = same
    BY <2>1, <2>2, NothingToDo
  <2>4. Keeps(req, t, asg, same)
    BY <2>2 DEF Keeps, Held, ClipsOf
  <2> QED BY <2>3, <2>4
<1>4. CASE Players # 1 /\ ~\A s \in DOMAIN req : asg[s] # None
  <2>1. rn = [on |-> TRUE, looks |-> TRUE, pending |-> InOrder(req, waiting),
              player |-> kept, refused |-> {}, tries |-> 0]
    BY <1>4 DEF StartOf
  <2>2. /\ kept \in [DOMAIN req -> Player \cup {None}]
        /\ \A s \in DOMAIN req : kept[s] = asg[s] \/ (kept[s] = None /\ s \in moved)
    BY <1>1
  <2>3. \A s \in moved : req[s].start >= t + NowWindow
    BY DEF Unpreloaded
  <2> HIDE DEF kept, moved
  <2>4. waiting \in SUBSET DOMAIN req /\ \A s \in waiting : s \in ClipsOf(req) /\ kept[s] = None
    BY DEF ClipsOf
  <2> HIDE DEF waiting
  <2>5. /\ InOrder(req, waiting) \in Seq(waiting)
        /\ Len(InOrder(req, waiting)) = Cardinality(waiting)
        /\ \A i, j \in 1 .. Cardinality(waiting) :
             InOrder(req, waiting)[i] = InOrder(req, waiting)[j] => i = j
    BY <2>4, InOrderHasEachOnce
  <2> DEFINE order == InOrder(req, waiting)
  <2>6. /\ order \in Seq(DOMAIN req) /\ OncePerPlace(order)
        /\ \A i \in DOMAIN order : order[i] \in waiting
    <3> HIDE DEF order
    <3>1. order \in Seq(waiting) /\ Len(order) = Cardinality(waiting)
      BY <2>5 DEF order
    <3>2. DOMAIN order = 1 .. Len(order) /\ Len(order) \in Nat /\ \A i \in DOMAIN order : order[i] \in waiting
      BY <3>1
    <3>3. order = [i \in 1 .. Len(order) |-> order[i]]
      BY <3>1
    <3>4. \A i \in 1 .. Len(order) : order[i] \in DOMAIN req
      BY <2>4, <3>2
    <3>5. order \in Seq(DOMAIN req)
      BY <3>2, <3>3, <3>4
    <3> QED BY <2>5, <3>1, <3>2, <3>5 DEF OncePerPlace, order
  <2> HIDE DEF order
  <2>7. /\ rn.on /\ RunShape(rn) /\ rn.looks /\ rn.pending = order /\ rn.player = kept /\ rn.refused = {}
    BY <2>1 DEF RunShape, order
  <2>8. GoodRun(req, rn)
    BY <2>2, <2>4, <2>6, <2>7 DEF GoodRun
  <2>9. ASSUME Undisturbed(req, t, asg)
        PROVE  Keeps(req, t, asg, kept)
    <3>1. NowWindow \in Nat /\ NowWindow > 0 /\ \A s \in DOMAIN req : req[s].start \in Nat
      BY <2>9, Constants, RequestsAreNumbers DEF Undisturbed
    <3>2. \A s \in DOMAIN req : req[s].start <= t => kept[s] = asg[s]
      BY <2>2, <2>3, <3>1
    <3>3. \A u \in ClipsOf(req) : req[u].end <= t => kept[u] = asg[u]
      BY <2>9, <3>2 DEF Undisturbed, ClipsOf
    <3>4. \A s \in ClipsOf(req) : Held(req, t, asg, s) => kept[s] = asg[s] /\ asg[s] # None
      BY <3>2 DEF Held, ClipsOf
    <3>5. \A u \in ClipsOf(req) : kept[u] = asg[u] \/ kept[u] = None
      BY <2>2 DEF ClipsOf
    <3> QED BY <3>3, <3>4, <3>5 DEF Keeps
  <2> QED BY <2>7, <2>8, <2>9
<1> QED BY <1>2, <1>3, <1>4

-----------------------------------------------------------------------------
(* The clips that are looked ahead to, when another one is set as next.       *)

PartFacts(S, seq, m, n, t) ==
  /\ t \in Seq(S) /\ OncePerPlace(t)
  /\ Len(t) = IF m <= n THEN n - m + 1 ELSE 0
  /\ \A k \in DOMAIN t : /\ k \in Nat /\ k >= 1 /\ m + k - 1 \in DOMAIN seq /\ m + k - 1 <= n
                         /\ t[k] = seq[m + k - 1]

LEMMA PartHasEachOnce ==
  ASSUME NEW S, NEW seq \in Seq(S), OncePerPlace(seq), NEW m \in Nat \ {0}, NEW n \in 0 .. Len(seq)
  PROVE  PartFacts(S, seq, m, n, SubSeq(seq, m, n))
<1> DEFINE t == SubSeq(seq, m, n)
<1>1. m \in Int /\ n \in Int /\ Len(seq) \in Nat /\ DOMAIN seq = 1 .. Len(seq) /\ m >= 1 /\ n <= Len(seq)
  OBVIOUS
<1>2. \A i \in m .. n : seq[i] \in S
  BY <1>1
<1>3. /\ t \in Seq(S) /\ Len(t) = IF m <= n THEN n - m + 1 ELSE 0
      /\ \A i \in 1 .. n - m + 1 : t[i] = seq[m + i - 1]
  BY <1>1, <1>2, SubSeqProperties
<1> HIDE DEF t
<1>4. DOMAIN t = 1 .. n - m + 1
  BY <1>1, <1>3
<1>5. \A k \in DOMAIN t : /\ k \in Nat /\ k >= 1 /\ m + k - 1 \in DOMAIN seq /\ m + k - 1 <= n
                          /\ t[k] = seq[m + k - 1]
  <2> SUFFICES ASSUME NEW k \in 1 .. n - m + 1
               PROVE  /\ k \in Nat /\ k >= 1 /\ m + k - 1 \in DOMAIN seq /\ m + k - 1 <= n
                      /\ t[k] = seq[m + k - 1]
    BY <1>4
  <2>1. k \in Nat /\ k >= 1 /\ k <= n - m + 1
    BY <1>1
  <2>2. m + k - 1 \in 1 .. Len(seq) /\ m + k - 1 <= n
    BY <1>1, <2>1
  <2> QED BY <1>1, <1>3, <2>1, <2>2
<1>6. \A i, j \in DOMAIN t : t[i] = t[j] => i = j
  <2> SUFFICES ASSUME NEW i \in DOMAIN t, NEW j \in DOMAIN t, t[i] = t[j] PROVE i = j
    OBVIOUS
  <2>1. m + i - 1 = m + j - 1
    BY <1>5 DEF OncePerPlace
  <2> QED BY <1>1, <1>4, <2>1
<1>7. PartFacts(S, seq, m, n, t)
  BY <1>3, <1>5, <1>6 DEF PartFacts, OncePerPlace
<1> QED BY <1>7 DEF t

RestFacts(seq, e, rest) ==
  /\ rest \in Seq(Session) /\ OncePerPlace(rest) /\ Len(rest) <= Len(seq)
  /\ \A k \in DOMAIN rest : rest[k] # e

LEMMA TheRest ==
  ASSUME NEW seq \in Seq(Session), OncePerPlace(seq), NEW e
  PROVE  RestFacts(seq, e, RemoveFirst(seq, e))
<1> DEFINE rest == RemoveFirst(seq, e)
<1>0. Len(seq) \in Nat /\ DOMAIN seq = 1 .. Len(seq)
  OBVIOUS
<1>1. CASE ~\E i \in 1 .. Len(seq) : seq[i] = e
  <2>1. rest = seq
    BY <1>1 DEF RemoveFirst
  <2> QED BY <1>0, <1>1, <2>1 DEF RestFacts
<1>2. CASE \E i \in 1 .. Len(seq) : seq[i] = e
  <2>1. PICK j \in 1 .. Len(seq) : seq[j] = e
    BY <1>2
  <2>2. {i \in 1 .. Len(seq) : seq[i] = e} = {j}
    BY <1>0, <2>1 DEF OncePerPlace
  <2>3. Min({j}) = j
    BY DEF Min
  <2>4. SelectInSeq(seq, LAMBDA v : v = e) = j
    BY <2>2, <2>3 DEF SelectInSeq
  <2> DEFINE a == SubSeq(seq, 1, j - 1)
             b == SubSeq(seq, j + 1, Len(seq))
  <2>5. rest = a \o b
    BY <1>2, <2>4 DEF RemoveFirst, RemoveAt
  <2>6. /\ a \in Seq(Session) /\ OncePerPlace(a) /\ Len(a) = j - 1
        /\ \A k \in DOMAIN a : k \in DOMAIN seq /\ k <= j - 1 /\ a[k] = seq[k]
    <3>1. j - 1 \in 0 .. Len(seq) /\ 1 \in Nat \ {0}
      BY <1>0
    <3>2. PartFacts(Session, seq, 1, j - 1, a)
      BY <3>1, PartHasEachOnce
    <3> HIDE DEF a
    <3>3. \A k \in DOMAIN a : k \in Nat /\ 1 + k - 1 = k
      BY <3>2 DEF PartFacts
    <3> QED BY <1>0, <3>1, <3>2, <3>3 DEF PartFacts
  <2>7. /\ b \in Seq(Session) /\ OncePerPlace(b) /\ Len(b) = Len(seq) - j
        /\ \A k \in DOMAIN b : j + k \in DOMAIN seq /\ k >= 1 /\ k \in Nat /\ b[k] = seq[j + k]
    <3>0. j \in Nat /\ j >= 1 /\ j <= Len(seq) /\ Len(seq) \in Nat
      BY <1>0
    <3>1. j + 1 \in Nat \ {0} /\ Len(seq) \in 0 .. Len(seq)
      BY <1>0
    <3>2. PartFacts(Session, seq, j + 1, Len(seq), b)
      BY <3>1, PartHasEachOnce
    <3> HIDE DEF b
    <3>3. \A k \in DOMAIN b : k \in Nat /\ k >= 1 /\ (j + 1) + k - 1 = j + k
      <4>1. \A k \in DOMAIN b : k \in Nat /\ k >= 1
        BY <3>2 DEF PartFacts
      <4>2. \A k \in Nat : (j + 1) + k - 1 = j + k
        BY <3>0
      <4> QED BY <4>1, <4>2
    <3>4. Len(b) = IF j + 1 <= Len(seq) THEN Len(seq) - (j + 1) + 1 ELSE 0
      BY <3>2 DEF PartFacts
    <3>5. Len(b) = Len(seq) - j
      BY <3>0, <3>4
    <3>6. /\ b \in Seq(Session) /\ OncePerPlace(b)
          /\ \A k \in DOMAIN b : (j + 1) + k - 1 \in DOMAIN seq /\ b[k] = seq[(j + 1) + k - 1]
      BY <3>2 DEF PartFacts
    <3> QED BY <3>3, <3>5, <3>6
  <2> HIDE DEF a, b, rest
  <2>8. NothingShared(a, b)
    <3> SUFFICES ASSUME NEW k \in DOMAIN a, NEW l \in DOMAIN b, a[k] = b[l] PROVE FALSE
      BY DEF NothingShared
    <3>1. k = j + l
      BY <2>6, <2>7 DEF OncePerPlace
    <3> QED BY <1>0, <2>6, <2>7, <3>1
  <2>9. JoinFacts(Session, a, b, a \o b)
    BY <2>6, <2>7, <2>8, OnceWhenJoined
  <2>10. a \o b \in Seq(Session) /\ OncePerPlace(a \o b) /\ Len(a \o b) = Len(seq) - 1
    BY <1>0, <2>6, <2>7, <2>9 DEF JoinFacts
  <2>11. \A i \in DOMAIN a : a[i] # e
    <3> SUFFICES ASSUME NEW i \in DOMAIN a, a[i] = e PROVE FALSE
      OBVIOUS
    <3>1. i = j
      BY <1>0, <2>1, <2>6 DEF OncePerPlace
    <3> QED BY <2>6, <3>1
  <2>12. \A i \in DOMAIN b : b[i] # e
    <3> SUFFICES ASSUME NEW i \in DOMAIN b, b[i] = e PROVE FALSE
      OBVIOUS
    <3>1. j + i = j
      BY <1>0, <2>1, <2>7 DEF OncePerPlace
    <3> QED BY <1>0, <2>7, <3>1
  <2>13. \A k \in DOMAIN (a \o b) : (a \o b)[k] # e
    BY <2>9, <2>11, <2>12 DEF JoinFacts
  <2>14. Len(a \o b) <= Len(seq)
    BY <1>0, <2>10
  <2>15. /\ rest \in Seq(Session) /\ OncePerPlace(rest) /\ Len(rest) <= Len(seq)
         /\ \A k \in DOMAIN rest : rest[k] # e
    BY <2>5, <2>10, <2>13, <2>14
  <2>16. RestFacts(seq, e, rest)
    BY <2>15 DEF RestFacts
  <2> QED BY <2>16 DEF rest
<1> QED BY <1>1, <1>2

\* The new list is as long as may be, and has each clip once.
LEMMA SetNextKeeps ==
  ASSUME NEW seq \in Seq(Session), OncePerPlace(seq), Len(seq) <= MaxAhead,
         NEW s \in Session, NEW i \in 1 .. MaxAhead,
         NEW rest, rest = RemoveFirst(seq, s),
         NEW new, new = SubSeq(rest, 1, AtMost(i - 1, Len(rest))) \o <<s>>
                        \o SubSeq(rest, i, AtMost(MaxAhead - 1, Len(rest)))
  PROVE  new \in Seq(Session) /\ Len(new) <= MaxAhead /\ OncePerPlace(new)
<1> DEFINE n == Len(rest)
           a == SubSeq(rest, 1, AtMost(i - 1, n))
           b == SubSeq(rest, i, AtMost(MaxAhead - 1, n))
<1>1. RestFacts(seq, s, rest)
  BY TheRest
<1>2. /\ rest \in Seq(Session) /\ OncePerPlace(rest) /\ n \in Nat /\ n <= MaxAhead
      /\ \A k \in DOMAIN rest : rest[k] # s
      /\ MaxAhead \in Nat /\ i \in Nat /\ i >= 1 /\ i <= MaxAhead
  BY <1>1, Constants DEF RestFacts
<1> HIDE DEF n
<1>3. /\ AtMost(i - 1, n) \in 0 .. n /\ AtMost(i - 1, n) <= i - 1
      /\ AtMost(MaxAhead - 1, n) \in 0 .. n /\ AtMost(MaxAhead - 1, n) <= MaxAhead - 1
      /\ AtMost(i - 1, n) = i - 1 \/ AtMost(MaxAhead - 1, n) <= i - 1
  BY <1>2 DEF AtMost
<1>4. PartFacts(Session, rest, 1, AtMost(i - 1, n), a)
  BY <1>2, <1>3, PartHasEachOnce DEF n
<1>5. PartFacts(Session, rest, i, AtMost(MaxAhead - 1, n), b)
  BY <1>2, <1>3, PartHasEachOnce DEF n
<1> HIDE DEF a, b
<1>6. <<s>> \in Seq(Session) /\ OncePerPlace(<<s>>) /\ DOMAIN <<s>> = {1} /\ <<s>>[1] = s /\ Len(<<s>>) = 1
  BY DEF OncePerPlace
<1>7. /\ a \in Seq(Session) /\ OncePerPlace(a) /\ Len(a) <= i - 1
      /\ b \in Seq(Session) /\ OncePerPlace(b)
      /\ \A k \in DOMAIN a : a[k] # s
      /\ \A l \in DOMAIN b : b[l] # s
  <2>1. a \in Seq(Session) /\ OncePerPlace(a) /\ \A k \in DOMAIN a : \E l \in DOMAIN rest : a[k] = rest[l]
    BY <1>4 DEF PartFacts
  <2>2. b \in Seq(Session) /\ OncePerPlace(b) /\ \A k \in DOMAIN b : \E l \in DOMAIN rest : b[k] = rest[l]
    BY <1>5 DEF PartFacts
  <2>3. Len(a) = IF 1 <= AtMost(i - 1, n) THEN AtMost(i - 1, n) - 1 + 1 ELSE 0
    BY <1>4 DEF PartFacts
  <2>4. Len(a) <= i - 1
    BY <1>2, <1>3, <2>3
  <2> QED BY <1>2, <2>1, <2>2, <2>4
<1>8. JoinFacts(Session, a, <<s>>, a \o <<s>>)
  <2>1. NothingShared(a, <<s>>)
    BY <1>6, <1>7 DEF NothingShared
  <2> QED BY <1>6, <1>7, <2>1, OnceWhenJoined
<1>9. \A k \in DOMAIN a, l \in DOMAIN b : a[k] # b[l]
  <2> SUFFICES ASSUME NEW k \in DOMAIN a, NEW l \in DOMAIN b, a[k] = b[l] PROVE FALSE
    OBVIOUS
  <2>1. /\ k \in Nat /\ 1 + k - 1 \in DOMAIN rest /\ 1 + k - 1 <= AtMost(i - 1, n)
        /\ a[k] = rest[1 + k - 1]
    BY <1>4 DEF PartFacts
  <2>2. l \in Nat /\ l >= 1 /\ i + l - 1 \in DOMAIN rest /\ b[l] = rest[i + l - 1]
    BY <1>5 DEF PartFacts
  <2>3. 1 + k - 1 = i + l - 1
    BY <1>2, <2>1, <2>2 DEF OncePerPlace
  <2> QED BY <1>2, <1>3, <2>1, <2>2, <2>3
<1> DEFINE as == a \o <<s>>
<1>11. NothingShared(as, b)
  <2> SUFFICES ASSUME NEW k \in DOMAIN as, NEW l \in DOMAIN b, as[k] = b[l] PROVE FALSE
    BY DEF NothingShared
  <2>1. as[k] = s \/ \E j \in DOMAIN a : as[k] = a[j]
    BY <1>6, <1>8 DEF JoinFacts
  <2> QED BY <1>7, <1>9, <2>1
<1>12. /\ Len(as) = Len(a) + 1 /\ as \in Seq(Session) /\ OncePerPlace(as)
  BY <1>6, <1>8 DEF JoinFacts
<1> HIDE DEF as
<1>13. JoinFacts(Session, as, b, as \o b)
  BY <1>7, <1>11, <1>12, OnceWhenJoined
<1>14. Len(as) + Len(b) <= MaxAhead
  <2>1. Len(a) = IF 1 <= AtMost(i - 1, n) THEN AtMost(i - 1, n) - 1 + 1 ELSE 0
    BY <1>4 DEF PartFacts
  <2>2. Len(b) = IF i <= AtMost(MaxAhead - 1, n) THEN AtMost(MaxAhead - 1, n) - i + 1 ELSE 0
    BY <1>5 DEF PartFacts
  <2> QED BY <1>2, <1>3, <1>12, <2>1, <2>2
<1>15. new = as \o b
  BY DEF a, b, as, n
<1> QED BY <1>13, <1>14, <1>15 DEF JoinFacts

-----------------------------------------------------------------------------
(* The invariant.                                                            *)

Running ==
  /\ RunShape(run)
  /\ run.on => GoodRun(Requests, run)
  /\ run.on /\ Undisturbed(Requests, now, assigned) => Keeps(Requests, now, assigned, run.player)

IInv == TypeOK /\ OncePerPlace(ahead) /\ Running /\ NextClipIsLoaded

LEMMA TheRequests ==
  ASSUME TypeOK
  PROVE  RequestFacts(Requests, part, piece, ahead) /\ GoodRequests(Requests) /\ SafeNow \in Nat /\ now \in Nat
<1>1. part \in PartType /\ piece \in [Session -> ClipType \cup {None}] /\ ahead \in Seq(Session) /\ now \in Times
  BY DEF TypeOK, PartType, ClipType
<1>2. RequestFacts(RequestsOf(part, piece, ahead), part, piece, ahead)
  BY <1>1, RequestsAreGood
<1>3. now \in Nat /\ now + NowWindow \in Nat
  BY <1>1, Constants
<1> QED BY <1>2, <1>3 DEF Requests, SafeNow, RequestFacts

LEMMA Initially ==
  Init => IInv
<1> SUFFICES ASSUME Init PROVE IInv
  OBVIOUS
<1>1. /\ now = 0 /\ part = [started |-> 0, autonext |-> Never]
      /\ piece = [s \in Session |-> None] /\ ahead = <<>>
      /\ assigned = [s \in Session |-> None] /\ refused = {} /\ stuck = FALSE /\ run = NoRun
  BY DEF Init
<1>2. MaxTime \in Nat /\ MaxAhead \in Nat /\ 0 \in Times
  BY Constants DEF Times
<1>3. part \in [started : Times, autonext : Times \cup {Never}]
  BY <1>1, <1>2
<1>4. ahead \in Seq(Session) /\ Len(ahead) <= MaxAhead /\ DOMAIN ahead = {}
  BY <1>1, <1>2
<1>5. TypeOK
  BY <1>1, <1>2, <1>3, <1>4 DEF TypeOK
<1>6. OncePerPlace(ahead)
  BY <1>4 DEF OncePerPlace
<1>7. RunShape(run) /\ ~run.on
  BY <1>1 DEF RunShape, NoRun
<1>8. NextClipIsLoaded
  BY <1>1 DEF NextClipIsLoaded
<1> QED BY <1>5, <1>6, <1>7, <1>8 DEF IInv, Running

-----------------------------------------------------------------------------
(* The timeline changes, and is generated anew.                              *)

\* What a change may do to the timeline.
Changed ==
  /\ part' \in PartType /\ piece' \in [Session -> ClipType \cup {None}]
  /\ ahead' \in Seq(Session) /\ Len(ahead') <= MaxAhead /\ OncePerPlace(ahead')
  /\ now' = now
  /\ Generate

LEMMA Regenerated ==
  ASSUME IInv, Changed
  PROVE  IInv' /\ run'.refused = {} /\ UNCHANGED assigned
<1> DEFINE req == RequestsOf(part', piece', ahead')
<1>1. GoodRequests(req)
  <2>1. RequestFacts(req, part', piece', ahead')
    BY RequestsAreGood DEF Changed
  <2> QED BY <2>1 DEF RequestFacts
<1>2. /\ assigned \in [Session -> Player \cup {None}] /\ now \in Nat
      /\ refused \subseteq Session /\ stuck \in BOOLEAN /\ now \in Times
  BY TheRequests DEF IInv, TypeOK
<1>3. UNCHANGED <<now, assigned, refused, stuck>>
  BY DEF Changed, Generate
<1>4. run' = StartOf(req, assigned, now + NowWindow)
  BY DEF Changed, Generate, Begin, StartOf, SafeNow
<1> HIDE DEF req
<1>5. /\ run'.on /\ RunShape(run') /\ GoodRun(req, run') /\ run'.refused = {}
      /\ Undisturbed(req, now, assigned) => Keeps(req, now, assigned, run'.player)
  BY <1>1, <1>2, <1>4, StartIsGood
<1>6. TypeOK'
  BY <1>2, <1>3 DEF TypeOK, Changed, PartType, ClipType
<1>7. Running'
  <2>1. Requests' = req
    BY DEF Requests, req
  <2> QED BY <1>3, <1>5, <2>1 DEF Running
<1>8. NextClipIsLoaded'
  BY <1>5 DEF NextClipIsLoaded, Done
<1> QED BY <1>3, <1>5, <1>6, <1>7, <1>8 DEF IInv, Changed

Changes == \/ \E s \in Session : Insert(s) \/ Stop(s)
           \/ \E s \in Session, i \in 1 .. MaxAhead : SetNext(s, i)
           \/ \E t \in Times \cup {Never} : SetAutonext(t)
           \/ Take

LEMMA StartingOnes ==
  ASSUME NEW S \in SUBSET Times, NEW d \in Starting(S)
  PROVE  d \in ClipType
  BY DEF Starting, ClipType

LEMMA TimelineChanges ==
  ASSUME IInv, Changes
  PROVE  Changed
<1>1. /\ part \in PartType /\ piece \in [Session -> ClipType \cup {None}]
      /\ ahead \in Seq(Session) /\ Len(ahead) <= MaxAhead /\ OncePerPlace(ahead)
      /\ now \in Times
  BY DEF IInv, TypeOK, PartType, ClipType
<1>2. ASSUME NEW s \in Session, Insert(s)
      PROVE  Changed
  <2>1. PICK d \in Starting({now, now + NowWindow + 1} \cap Times) : piece' = [piece EXCEPT ![s] = d]
    BY <1>2 DEF Insert
  <2>2. d \in ClipType
    BY StartingOnes
  <2>3. piece' \in [Session -> ClipType \cup {None}]
    BY <1>1, <2>1, <2>2
  <2>4. UNCHANGED <<now, part, ahead>> /\ Generate
    BY <1>2 DEF Insert
  <2> QED BY <1>1, <2>3, <2>4 DEF Changed
<1>3. ASSUME NEW s \in Session, Stop(s)
      PROVE  Changed
  <2>1. /\ piece[s] # None /\ UNCHANGED <<now, part, ahead>> /\ Generate
        /\ piece' = [piece EXCEPT ![s] = IF @.start > now THEN None ELSE [@ EXCEPT !.end = now]]
    BY <1>3 DEF Stop
  <2>2. piece[s] \in ClipType
    BY <1>1, <2>1
  <2>3. [piece[s] EXCEPT !.end = now] \in ClipType
    BY <1>1, <2>2 DEF ClipType
  <2>4. piece' \in [Session -> ClipType \cup {None}]
    BY <1>1, <2>1, <2>3
  <2> QED BY <1>1, <2>1, <2>4 DEF Changed
<1>4. ASSUME NEW s \in Session, NEW i \in 1 .. MaxAhead, SetNext(s, i)
      PROVE  Changed
  <2> DEFINE rest == RemoveFirst(ahead, s)
             new == SubSeq(rest, 1, AtMost(i - 1, Len(rest))) \o <<s>>
                    \o SubSeq(rest, i, AtMost(MaxAhead - 1, Len(rest)))
  <2>1. ahead' = new /\ UNCHANGED <<now, part, piece>> /\ Generate
    BY <1>4 DEF SetNext
  <2>2. new \in Seq(Session) /\ Len(new) <= MaxAhead /\ OncePerPlace(new)
    BY <1>1, SetNextKeeps
  <2> HIDE DEF new
  <2> QED BY <1>1, <2>1, <2>2 DEF Changed
<1>5. ASSUME NEW t \in Times \cup {Never}, SetAutonext(t)
      PROVE  Changed
  <2>1. part' = [part EXCEPT !.autonext = t] /\ UNCHANGED <<now, piece, ahead>> /\ Generate
    BY <1>5 DEF SetAutonext
  <2>2. part' \in PartType
    BY <1>1, <2>1 DEF PartType
  <2> QED BY <1>1, <2>1, <2>2 DEF Changed
<1>6. ASSUME Take
      PROVE  Changed
  <2>1. /\ ahead # <<>> /\ part' = [started |-> now, autonext |-> Never]
        /\ ahead' = Tail(ahead) /\ now' = now /\ Generate
    BY <1>6 DEF Take
  <2>2. PICK d \in Starting({now}) :
          piece' = [s \in Session |->
                      IF s = Head(ahead) THEN d
                      ELSE IF piece[s] = None \/ piece[s].previous THEN None
                      ELSE [piece[s] EXCEPT !.previous = TRUE]]
    BY <1>6 DEF Take
  <2>3. d \in ClipType
    BY <1>1, StartingOnes
  <2>4. \A s \in Session : piece[s] # None => [piece[s] EXCEPT !.previous = TRUE] \in ClipType
    <3> SUFFICES ASSUME NEW s \in Session, piece[s] # None
                 PROVE  [piece[s] EXCEPT !.previous = TRUE] \in ClipType
      OBVIOUS
    <3>1. piece[s] \in ClipType
      BY <1>1
    <3> QED BY <3>1 DEF ClipType
  <2>5. piece' \in [Session -> ClipType \cup {None}]
    BY <2>2, <2>3, <2>4
  <2>6. part' \in PartType
    BY <1>1, <2>1 DEF PartType
  <2>7. ahead' \in Seq(Session) /\ OncePerPlace(ahead')
    BY <1>1, <2>1, TheOthersWait
  <2>8. Len(ahead') <= MaxAhead
    <3>1. Len(Tail(ahead)) = Len(ahead) - 1 /\ Len(ahead) \in Nat /\ MaxAhead \in Nat
      BY <1>1, <2>1, Constants
    <3> QED BY <1>1, <2>1, <3>1
  <2> QED BY <2>1, <2>5, <2>6, <2>7, <2>8 DEF Changed
<1> QED BY <1>2, <1>3, <1>4, <1>5, <1>6 DEF Changes

-----------------------------------------------------------------------------
(* The steps of a run.                                                       *)

LEMMA AssignIsARound ==
  ASSUME TypeOK, Running, Assign
  PROVE  \E r, c :
           /\ run.on /\ run' = RoundOf(Requests, run, r, c)
           /\ GoodRun(Requests, run) /\ run.pending # <<>> /\ r = Head(run.pending)
           /\ c = Choose(Requests, r, SlotsFor(Requests, run.player, r), SafeNow)
           /\ UNCHANGED <<now, part, piece, ahead, assigned, refused, stuck>>
<1> DEFINE r == Head(run.pending)
           c == Choose(Requests, r, SlotsFor(Requests, run.player, r), SafeNow)
<1>1. run.on /\ run.pending # <<>> /\ UNCHANGED <<now, part, piece, ahead, assigned, refused, stuck>>
  BY DEF Assign
<1>2. GoodRun(Requests, run)
  BY <1>1 DEF Running
<1>3. run' = RoundOf(Requests, run, r, c)
  BY DEF Assign, RoundOf, StillPending, After, SlotsFor
<1> QED BY <1>1, <1>2, <1>3

LEMMA AssignKeepsInvariant ==
  ASSUME IInv, Assign
  PROVE  IInv'
<1>0. TypeOK /\ Running /\ OncePerPlace(ahead)
  BY DEF IInv
<1>1. PICK r, c : /\ run.on /\ run' = RoundOf(Requests, run, r, c)
                  /\ GoodRun(Requests, run) /\ run.pending # <<>> /\ r = Head(run.pending)
                  /\ c = Choose(Requests, r, SlotsFor(Requests, run.player, r), SafeNow)
                  /\ UNCHANGED <<now, part, piece, ahead, assigned, refused, stuck>>
  BY <1>0, AssignIsARound
<1>2. GoodRequests(Requests) /\ SafeNow \in Nat /\ now \in Nat /\ SafeNow = now + NowWindow
  BY <1>0, TheRequests DEF SafeNow
<1>3. RunShape(run)
  BY <1>0 DEF Running
<1>4. /\ r \in ClipsOf(Requests) /\ run.player[r] = None
      /\ RunShape(run') /\ GoodRun(Requests, run') /\ run'.on
      /\ c = None => run'.player = run.player
      /\ c # None => /\ run'.player = After(Requests, run.player, r, c)
                     /\ GoodChoice(Requests, r, SlotsFor(Requests, run.player, r), SafeNow, c)
  BY <1>1, <1>2, <1>3, RoundIsGood
<1>5. ASSUME Undisturbed(Requests, now, assigned)
      PROVE  Keeps(Requests, now, assigned, run'.player)
  <2>1. Keeps(Requests, now, assigned, run.player)
    BY <1>0, <1>1, <1>5 DEF Running
  <2>2. run.player \in [DOMAIN Requests -> Player \cup {None}]
    BY <1>1 DEF GoodRun
  <2>3. CASE c = None
    BY <1>4, <2>1, <2>3
  <2>4. CASE c # None
    <3>1. GoodChoice(Requests, r, SlotsFor(Requests, run.player, r), now + NowWindow, c)
      BY <1>2, <1>4, <2>4
    <3>2. Keeps(Requests, now, assigned, After(Requests, run.player, r, c))
      BY <1>2, <1>4, <1>5, <2>1, <2>2, <3>1, RoundKeeps
    <3> QED BY <1>4, <2>4, <3>2
  <2> QED BY <2>3, <2>4
<1>6. Requests' = Requests
  BY <1>1 DEF Requests
<1>7. Running'
  BY <1>1, <1>4, <1>5, <1>6 DEF Running
<1>8. TypeOK' /\ OncePerPlace(ahead)'
  BY <1>0, <1>1 DEF TypeOK
<1>9. NextClipIsLoaded'
  BY <1>4 DEF NextClipIsLoaded, Done
<1> QED BY <1>7, <1>8, <1>9 DEF IInv

\* What a run that ends leaves: every request with its player, and the next clip loaded if it can be.
EndFacts(player) ==
  /\ player \in [DOMAIN Requests -> Player \cup {None}]
  /\ \A s \in ClipsOf(Requests) : player[s] = run.player[s]
  /\ run.looks => \A s \in LookedAhead(Requests, run.player) : player[s] \in Player
  /\ ~run.looks => \A s \in DOMAIN Requests : player[s] # None
  /\ assigned' = [s \in Session |-> IF s \in DOMAIN Requests THEN player[s] ELSE None]
  /\ run' = NoRun /\ refused' = run.refused /\ stuck' = FALSE
  /\ UNCHANGED <<now, part, piece, ahead>>

LEMMA EndOfARun ==
  ASSUME TypeOK, Running, End
  PROVE  run.on /\ GoodRun(Requests, run) /\ \E player : EndFacts(player)
<1> DEFINE looked == AssignLookahead(Requests, run.player, assigned, SafeNow)
           player == IF run.looks THEN looked ELSE run.player
<1>1. /\ run.on /\ run' = NoRun /\ refused' = run.refused /\ stuck' = FALSE
      /\ UNCHANGED <<now, part, piece, ahead>>
  BY DEF End
<1>2. assigned' = [s \in Session |-> IF s \in DOMAIN Requests THEN player[s] ELSE None]
  BY DEF End
<1>3. GoodRun(Requests, run)
  BY <1>1 DEF Running
<1>4. GoodRequests(Requests)
  BY TheRequests
<1>5. run.player \in [DOMAIN Requests -> Player \cup {None}]
      /\ (~run.looks => \A s \in DOMAIN Requests : run.player[s] # None)
  BY <1>3 DEF GoodRun
<1>6. LookaheadFacts(Requests, run.player, looked)
  BY <1>4, <1>5, LookaheadIsAssigned
<1> HIDE DEF looked
<1>7. CASE run.looks
  <2>1. player = looked
    BY <1>7
  <2> HIDE DEF player
  <2>2. EndFacts(player)
    BY <1>1, <1>2, <1>6, <1>7, <2>1 DEF EndFacts, LookaheadFacts, ClipsOf
  <2> QED BY <1>1, <1>3, <2>2
<1>8. CASE ~run.looks
  <2>1. player = run.player
    BY <1>8
  <2> HIDE DEF player
  <2>2. EndFacts(player)
    BY <1>1, <1>2, <1>5, <1>8, <2>1 DEF EndFacts
  <2> QED BY <1>1, <1>3, <2>2
<1> QED BY <1>7, <1>8

\* A player of which no clip goes on without an end can be used for lookahead.
LEMMA FreePlayerIsUsable ==
  ASSUME NEW req, GoodRequests(req), NEW player, NEW p \in Player,
         \A u \in ClipsOf(req) : player[u] = p => req[u].end # Never
  PROVE  p \in Usable(req, player) /\ Cardinality(Usable(req, player)) \in Nat
         /\ Cardinality(Usable(req, player)) >= 1
<1> DEFINE clips == {s \in Slot(req, player, p) : ~IsLookahead(req, s)}
           last == LastOf(req, clips)
           U == Usable(req, player)
<1>1. clips \in SUBSET DOMAIN req /\ \A s \in clips : s \in ClipsOf(req) /\ player[s] = p
  BY DEF Slot, ClipsOf
<1>2. last # None => last \in clips
  <2> HIDE DEF clips
  <2> QED BY <1>1, LastOfIsOne
<1>3. Never # -1
  BY Constants
<1>4. LastEnd(req, player, p) # Never
  BY <1>1, <1>2, <1>3 DEF LastEnd
<1>5. p \in U
  BY <1>4 DEF Usable
<1>6. IsFiniteSet(U) /\ Cardinality(U) \in Nat
  <2>1. U \in SUBSET Player
    BY DEF Usable
  <2> HIDE DEF U
  <2> QED BY <1>4, <2>1, PlacesAreEnough
<1>7. Cardinality(U) # 0
  BY <1>5, <1>6, FS_EmptySet
<1> QED BY <1>5, <1>6, <1>7

LEMMA EndLoadsTheNext ==
  ASSUME TypeOK, Running, OncePerPlace(ahead), End
  PROVE  NextClipIsLoaded'
<1>1. run.on /\ GoodRun(Requests, run)
  BY EndOfARun
<1>2. PICK player : EndFacts(player)
  BY EndOfARun
<1>3. Requests' = Requests
  BY <1>2 DEF EndFacts, Requests
<1>4. Clips = ClipsOf(Requests) /\ Clips' = ClipsOf(Requests)
  BY <1>3 DEF Clips, ClipsOf
<1>5. RequestFacts(Requests, part, piece, ahead) /\ GoodRequests(Requests)
  BY TheRequests
<1> SUFFICES ASSUME ahead # <<>>, Head(ahead) \notin ClipsOf(Requests),
                    \E p \in Player : \A u \in ClipsOf(Requests) : assigned'[u] = p => Requests[u].end # Never
             PROVE  assigned'[Head(ahead)] # None
  <2>1. ahead' = ahead
    BY <1>2 DEF EndFacts
  <2> QED BY <1>3, <1>4, <2>1 DEF NextClipIsLoaded
<1>6. PICK p \in Player : \A u \in ClipsOf(Requests) : assigned'[u] = p => Requests[u].end # Never
  OBVIOUS
<1> DEFINE s == Head(ahead)
<1>7. ahead \in Seq(Session) /\ s = ahead[1] /\ 1 \in DOMAIN ahead /\ s \in Session
  BY DEF TypeOK
<1> HIDE DEF s
<1>8. s \in DOMAIN Requests /\ IsLookahead(Requests, s)
  <2>1. s \in ToSet(ahead)
    BY <1>7 DEF ToSet
  <2>2. s \in DOMAIN Requests
    BY <1>5, <2>1 DEF RequestFacts
  <2> QED BY <2>2 DEF ClipsOf, s
<1>9. Requests[s].rank = 1
  <2>1. Requests[s].rank \in DOMAIN ahead /\ ahead[Requests[s].rank] = s
    BY <1>5, <1>8 DEF RequestFacts
  <2> QED BY <1>7, <2>1 DEF OncePerPlace
<1>10. assigned'[s] = player[s] /\ \A u \in ClipsOf(Requests) : assigned'[u] = run.player[u]
  <2>1. \A u \in DOMAIN Requests : u \in Session
    BY <1>5 DEF GoodRequests
  <2>2. assigned' = [u \in Session |-> IF u \in DOMAIN Requests THEN player[u] ELSE None]
    BY <1>2 DEF EndFacts
  <2>3. \A u \in ClipsOf(Requests) : u \in DOMAIN Requests /\ player[u] = run.player[u]
    BY <1>2 DEF EndFacts, ClipsOf
  <2> QED BY <1>8, <2>1, <2>2, <2>3
<1>11. CASE run.looks
  <2>1. \A u \in ClipsOf(Requests) : run.player[u] = p => Requests[u].end # Never
    BY <1>6, <1>10
  <2>2. Cardinality(Usable(Requests, run.player)) \in Nat /\ Cardinality(Usable(Requests, run.player)) >= 1
    BY <1>5, <2>1, FreePlayerIsUsable
  <2>3. s \in LookedAhead(Requests, run.player)
    <3> DEFINE all == {u \in DOMAIN Requests : IsLookahead(Requests, u)}
    <3>1. \A u \in all : Requests[u].start = Far /\ Requests[u].rank \in Nat \ {0}
      BY <1>5, RequestsAreNumbers DEF GoodRequests, IsLookahead
    <3>2. \A u \in all : Requests[u].rank = 1 => u = s
      BY <1>5, <1>8, <1>9 DEF GoodRequests
    <3>3. \A u \in all : ~Earlier(Requests, u, s)
      <4>1. s \in Nat /\ Far \in Nat
        BY <1>5, <1>8, RequestsAreNumbers, Constants
      <4> QED BY <1>8, <1>9, <3>1, <3>2, <4>1 DEF Earlier
    <3>4. {u \in all : Earlier(Requests, u, s)} = {}
      BY <3>3
    <3>5. Cardinality({u \in all : Earlier(Requests, u, s)}) < Cardinality(Usable(Requests, run.player))
      <4> DEFINE E == {u \in all : Earlier(Requests, u, s)}
      <4>1. E = {}
        BY <3>4
      <4> HIDE DEF E
      <4>2. Cardinality(E) = 0
        BY <4>1, FS_EmptySet
      <4>3. Cardinality(E) < Cardinality(Usable(Requests, run.player))
        BY <2>2, <4>2
      <4> QED BY <4>3 DEF E
    <3> QED BY <1>8, <3>5 DEF LookedAhead
  <2>4. player[s] \in Player
    BY <1>2, <1>11, <2>3 DEF EndFacts
  <2> QED BY <1>10, <2>4, Constants DEF s
<1>12. CASE ~run.looks
  BY <1>2, <1>8, <1>10, <1>12 DEF EndFacts, s
<1> QED BY <1>11, <1>12

LEMMA EndKeepsInvariant ==
  ASSUME IInv, End
  PROVE  IInv'
<1>0. TypeOK /\ Running /\ OncePerPlace(ahead)
  BY DEF IInv
<1>1. run.on /\ GoodRun(Requests, run)
  BY <1>0, EndOfARun
<1>2. PICK player : EndFacts(player)
  BY <1>0, EndOfARun
<1>3. GoodRequests(Requests)
  BY <1>0, TheRequests
<1>4. refused' \subseteq Session
  BY <1>1, <1>2, <1>3 DEF GoodRun, GoodRequests, EndFacts
<1>5. assigned' \in [Session -> Player \cup {None}]
  BY <1>2 DEF EndFacts
<1>6. TypeOK' /\ OncePerPlace(ahead)'
  BY <1>0, <1>2, <1>4, <1>5 DEF TypeOK, EndFacts
<1>7. Running'
  <2>1. run' = NoRun
    BY <1>2 DEF EndFacts
  <2>2. RunShape(run') /\ ~run'.on
    BY <2>1 DEF RunShape, NoRun
  <2> QED BY <2>2 DEF Running
<1>8. NextClipIsLoaded'
  BY <1>0, EndLoadsTheNext
<1> QED BY <1>6, <1>7, <1>8 DEF IInv

LEMMA GivesUpKeepsInvariant ==
  ASSUME IInv, GivesUp
  PROVE  IInv'
<1>1. run' = NoRun /\ stuck' = TRUE /\ UNCHANGED <<now, part, piece, ahead, assigned, refused>>
  BY DEF GivesUp
<1>2. TypeOK' /\ OncePerPlace(ahead)'
  BY <1>1 DEF IInv, TypeOK
<1>3. RunShape(run') /\ ~run'.on
  BY <1>1 DEF RunShape, NoRun
<1>4. NextClipIsLoaded'
  BY <1>1 DEF NextClipIsLoaded
<1> QED BY <1>2, <1>3, <1>4 DEF IInv, Running

LEMMA TickKeepsInvariant ==
  ASSUME IInv, Tick
  PROVE  IInv'
<1>1. /\ ~run.on /\ now < AtMost(MaxTime, part.autonext) /\ now' = now + 1
      /\ UNCHANGED <<part, piece, ahead, assigned, refused, stuck, run>>
  BY DEF Tick
<1>2. now' \in Times
  <2>1. now \in Times /\ part.autonext \in Times \cup {Never} /\ MaxTime \in Nat
    BY Constants DEF IInv, TypeOK
  <2>2. now \in Nat /\ part.autonext \in Nat
    BY <2>1, Constants
  <2> QED BY <1>1, <2>1, <2>2 DEF AtMost, Times
<1>3. TypeOK' /\ OncePerPlace(ahead)'
  BY <1>1, <1>2 DEF IInv, TypeOK
<1>4. Running'
  BY <1>1 DEF IInv, Running
<1>5. NextClipIsLoaded'
  BY <1>1 DEF IInv, NextClipIsLoaded, Done, Clips, Requests
<1> QED BY <1>3, <1>4, <1>5 DEF IInv

LEMMA UnchangedKeepsInvariant ==
  ASSUME IInv, UNCHANGED vars
  PROVE  IInv'
<1>1. UNCHANGED <<now, part, piece, ahead, assigned, refused, stuck, run>>
  BY DEF vars
<1>2. TypeOK' /\ OncePerPlace(ahead)'
  BY <1>1 DEF IInv, TypeOK
<1>3. Requests' = Requests
  BY <1>1 DEF Requests
<1>4. Running'
  BY <1>1, <1>3 DEF IInv, Running
<1>5. NextClipIsLoaded'
  BY <1>1, <1>3 DEF IInv, NextClipIsLoaded, Done, Clips
<1> QED BY <1>2, <1>4, <1>5 DEF IInv

LEMMA Inductive ==
  IInv /\ [Next]_vars => IInv'
<1> SUFFICES ASSUME IInv, [Next]_vars PROVE IInv'
  OBVIOUS
<1>1. CASE Assign
  BY <1>1, AssignKeepsInvariant
<1>2. CASE End
  BY <1>2, EndKeepsInvariant
<1>3. CASE GivesUp
  BY <1>3, GivesUpKeepsInvariant
<1>4. CASE Tick
  BY <1>4, TickKeepsInvariant
<1>5. CASE Changes
  BY <1>5, TimelineChanges, Regenerated
<1>6. CASE UNCHANGED vars
  BY <1>6, UnchangedKeepsInvariant
<1> QED BY <1>1, <1>2, <1>3, <1>4, <1>5, <1>6 DEF Next, Changes

LEMMA Invariance ==
  Spec => []IInv
  BY Initially, Inductive, PTL DEF Spec

-----------------------------------------------------------------------------
(* What the resolver promises.                                               *)

\* Every value is of its type: an assigned player is one of the pool.
THEOREM AbTypeCorrect == Spec => []TypeOK
<1>1. IInv => TypeOK
  BY DEF IInv
<1> QED BY <1>1, Invariance, PTL

\* The clip that comes next is loaded whenever a run has ended and there is a player whose last clip
\* ends: AssignLookahead never runs out of players before its first clip.
THEOREM NextClipAlwaysLoaded == Spec => []NextClipIsLoaded
<1>1. IInv => NextClipIsLoaded
  BY DEF IInv
<1> QED BY <1>1, Invariance, PTL

\* Steps that do not run the resolver refuse nobody.
LEMMA OnlyRoundsRefuse ==
  ASSUME IInv, [Next]_vars, ~Assign
  PROVE  run'.refused \subseteq run.refused
<1>1. CASE End \/ GivesUp
  <2>1. run' = NoRun
    BY <1>1 DEF End, GivesUp
  <2> QED BY <2>1 DEF NoRun
<1>2. CASE Tick \/ UNCHANGED vars
  BY <1>2 DEF Tick, vars
<1>3. CASE Changes
  BY <1>3, TimelineChanges, Regenerated
<1> QED BY <1>1, <1>2, <1>3 DEF Next, Changes

WhyRefused ==
  \A s \in run'.refused \ (run.refused \cup Optional), p \in Player :
    \E u \in Clips \ {s} : /\ run.player[u] = p /\ InTheWay(u, s)
                           /\ Requests[s].start >= SafeNow => u \notin Optional

LEMMA RoundsRefuseForAReason ==
  ASSUME IInv, Assign
  PROVE  WhyRefused
<1>0. TypeOK /\ Running
  BY DEF IInv
<1>1. PICK r, c : /\ run.on /\ run' = RoundOf(Requests, run, r, c)
                  /\ GoodRun(Requests, run) /\ run.pending # <<>> /\ r = Head(run.pending)
                  /\ c = Choose(Requests, r, SlotsFor(Requests, run.player, r), SafeNow)
                  /\ UNCHANGED <<now, part, piece, ahead, assigned, refused, stuck>>
  BY <1>0, AssignIsARound
<1>2. GoodRequests(Requests) /\ SafeNow \in Nat
  BY <1>0, TheRequests
<1>3. RunShape(run)
  BY <1>0 DEF Running
<1>4. /\ r \in ClipsOf(Requests) /\ run.player[r] = None
      /\ c = None => /\ run'.refused = run.refused \cup {r}
                     /\ r \notin Optional => Full(Requests, r, SlotsFor(Requests, run.player, r), SafeNow)
      /\ c # None => run'.refused = run.refused
  BY <1>1, <1>2, <1>3, RoundIsGood
<1> SUFFICES ASSUME NEW s \in run'.refused \ (run.refused \cup Optional), NEW p \in Player
             PROVE  \E u \in Clips \ {s} : /\ run.player[u] = p /\ InTheWay(u, s)
                                           /\ Requests[s].start >= SafeNow => u \notin Optional
  BY DEF WhyRefused
<1>5. s = r /\ Full(Requests, r, SlotsFor(Requests, run.player, r), SafeNow)
  BY <1>4
<1> DEFINE x == Availability(Requests, run.player, r, p)
<1>6. r \in DOMAIN Requests
  BY <1>4 DEF ClipsOf
<1>7. SlotFacts(Requests, run.player, r, p, x)
  BY <1>2, <1>6, SlotOfAPlayer
<1>8. x.clashes # {} /\ (Requests[r].start >= SafeNow => ~(x.clashes \subseteq Optional))
  <2>1. x \in SlotsFor(Requests, run.player, r)
    BY DEF SlotsFor
  <2> HIDE DEF x
  <2> QED BY <1>5, <2>1 DEF Full
<1> HIDE DEF x
<1>9. PICK u \in x.clashes : Requests[r].start >= SafeNow => u \notin Optional
  BY <1>8
<1>10. /\ u \in DOMAIN Requests /\ run.player[u] = p /\ ~IsLookahead(Requests, u)
       /\ Requests[u].start < Requests[r].end /\ Requests[u].end >= Requests[r].start
  BY <1>7, <1>9 DEF SlotFacts
<1>11. InTheWay(u, r)
  <2>1. /\ Requests[u].start \in Nat /\ Requests[u].end \in Nat
        /\ Requests[r].start \in Nat /\ Requests[r].end \in Nat
    BY <1>2, <1>6, <1>10, RequestsAreNumbers
  <2> QED BY <1>10, <2>1 DEF InTheWay
<1>12. u \in Clips \ {s}
  <2>1. u # r
    BY <1>4, <1>10, Constants
  <2> QED BY <1>5, <1>10, <2>1 DEF Clips
<1> QED BY <1>5, <1>9, <1>10, <1>11, <1>12

\* A required clip is refused only when every player has a clip in its way, and if there was time to
\* load it, a required one: Choose overlooks no player.
THEOREM RefusalsHaveAReason == Spec => RefusedOnlyWhenFull
<1>1. IInv /\ [Next]_vars => WhyRefused
  <2> SUFFICES ASSUME IInv, [Next]_vars PROVE WhyRefused
    OBVIOUS
  <2>1. CASE Assign
    BY <2>1, RoundsRefuseForAReason
  <2>2. CASE ~Assign
    BY <2>2, OnlyRoundsRefuse DEF WhyRefused
  <2> QED BY <2>1, <2>2
<1>2. IInv /\ [Next]_vars => [WhyRefused]_vars
  BY <1>1
<1> QED BY <1>2, Invariance, PTL DEF Spec, RefusedOnlyWhenFull, WhyRefused

StaysOnAir ==
  NowWindow > 0 /\ Players > 1 /\ AllIsPlayed =>
    \A s \in Session \ Optional : Playing(s) /\ OnAir(s)' =>
      /\ assigned'[s] = assigned[s]
      /\ \A u \in Clips \ {s} : assigned'[u] = assigned[s] /\ assigned[u] # assigned[s]
           => Requests[u].end <= Requests[s].start \/ Requests[s].end <= Requests[u].start

LEMMA OnlyEndAssigns ==
  ASSUME IInv, [Next]_vars, ~End
  PROVE  UNCHANGED assigned
<1>1. CASE Assign \/ GivesUp \/ Tick \/ UNCHANGED vars
  BY <1>1 DEF Assign, GivesUp, Tick, vars
<1>2. CASE Changes
  BY <1>2, TimelineChanges, Regenerated
<1> QED BY <1>1, <1>2 DEF Next, Changes

LEMMA EndKeepsOnAir ==
  ASSUME IInv, End
  PROVE  StaysOnAir
<1>0. TypeOK /\ Running
  BY DEF IInv
<1>1. run.on /\ GoodRun(Requests, run)
  BY <1>0, EndOfARun
<1>2. PICK player : EndFacts(player)
  BY <1>0, EndOfARun
<1>3. RequestFacts(Requests, part, piece, ahead) /\ GoodRequests(Requests)
  BY <1>0, TheRequests
<1>4. Clips = ClipsOf(Requests)
  BY DEF Clips, ClipsOf
<1>5. \A u \in ClipsOf(Requests) : assigned'[u] = run.player[u]
  <2>1. \A u \in ClipsOf(Requests) : u \in Session /\ u \in DOMAIN Requests
    BY <1>3 DEF GoodRequests, ClipsOf
  <2>2. assigned' = [u \in Session |-> IF u \in DOMAIN Requests THEN player[u] ELSE None]
    BY <1>2 DEF EndFacts
  <2>3. \A u \in ClipsOf(Requests) : player[u] = run.player[u]
    BY <1>2 DEF EndFacts
  <2> QED BY <2>1, <2>2, <2>3
<1> SUFFICES ASSUME NowWindow > 0, Players > 1, AllIsPlayed, NEW s \in Session \ Optional, Playing(s)
             PROVE  /\ assigned'[s] = assigned[s]
                    /\ \A u \in Clips \ {s} : assigned'[u] = assigned[s] /\ assigned[u] # assigned[s]
                         => Requests[u].end <= Requests[s].start \/ Requests[s].end <= Requests[u].start
  BY DEF StaysOnAir
<1>6. Keeps(Requests, now, assigned, run.player)
  <2>1. Undisturbed(Requests, now, assigned)
    BY <1>4 DEF AllIsPlayed, Undisturbed
  <2> QED BY <1>0, <1>1, <2>1 DEF Running
<1>7. Held(Requests, now, assigned, s) /\ s \in ClipsOf(Requests)
  <2>1. piece[s] # None /\ piece[s].start <= now /\ now < EndOf(part, piece[s]) /\ assigned[s] # None
    BY DEF Playing, OnAir
  <2>2. s \in DOMAIN Requests
    BY <1>3, <2>1 DEF RequestFacts
  <2>3. Requests[s] = [start |-> piece[s].start, end |-> EndOf(part, piece[s]), rank |-> 0]
    BY <1>3, <2>1, <2>2 DEF RequestFacts
  <2>4. s \in ClipsOf(Requests)
    BY <2>2, <2>3 DEF ClipsOf, IsLookahead
  <2> QED BY <2>1, <2>3, <2>4 DEF Held
<1>8. assigned'[s] = assigned[s]
  BY <1>5, <1>6, <1>7 DEF Keeps
<1>9. ASSUME NEW u \in Clips \ {s}, assigned'[u] = assigned[s], assigned[u] # assigned[s]
      PROVE  Requests[u].end <= Requests[s].start \/ Requests[s].end <= Requests[u].start
  <2>1. u \in ClipsOf(Requests) /\ u # s /\ run.player[u] = assigned[s]
    BY <1>4, <1>5, <1>9
  <2> QED BY <1>6, <1>7, <1>9, <2>1 DEF Keeps
<1> QED BY <1>8, <1>9

\* A required clip that is on air keeps its player, and no clip is newly given that player for a
\* time in which it is on air: no chain of moves in the resolver reaches what has started.
THEOREM OnAirKeepsItsPlayer == Spec => OnAirStays
<1>1. IInv /\ [Next]_vars => StaysOnAir
  <2> SUFFICES ASSUME IInv, [Next]_vars PROVE StaysOnAir
    OBVIOUS
  <2>1. CASE End
    BY <2>1, EndKeepsOnAir
  <2>2. CASE ~End
    BY <2>2, OnlyEndAssigns DEF StaysOnAir
  <2> QED BY <2>1, <2>2
<1>2. IInv /\ [Next]_vars => [StaysOnAir]_vars
  BY <1>1
<1> QED BY <1>2, Invariance, PTL DEF Spec, OnAirStays, StaysOnAir

=============================================================================
