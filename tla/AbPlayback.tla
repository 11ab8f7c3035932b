----------------------------- MODULE AbPlayback -----------------------------
(***************************************************************************)
(* AB playback: which player of a pool plays which clip.  A clip is a      *)
(* session: a piece of the previous or the current Part, of the next Part  *)
(* when an autonext is due, or only looked ahead to.  Whatever changes the *)
(* timeline runs the resolver again, which starts from the players that it *)
(* assigned before, and assigns, moves and refuses sessions until none is  *)
(* left: playout/abPlayback/abPlaybackResolver.ts.                         *)
(***************************************************************************)
EXTENDS Integers, Sequences, FiniteSets, SequencesExt

CONSTANTS Session,    \* numbered in the order in which their pieces are found
          Optional,   \* the sessions that may do without a player
          Players,    \* the number of players in the pool
          IdealGap,   \* resolverOptions.idealGapBefore
          NowWindow,  \* resolverOptions.nowWindow
          MaxAhead,   \* bound on the clips that are looked ahead to
          MaxTime,    \* bound on the clock
          Limit,      \* how often the resolver tries before it gives up
          None

Player == 1 .. Players

\* What a player does around a request, and what to do with it: see Availability and Choice.
Slots == [player : Player, before : Session \cup {None}, clashes : SUBSET Session, after : Session \cup {None}]
Candidates == [slot : Slots, clearsAfter : BOOLEAN, clearsClashes : BOOLEAN]

ASSUME AbAssumption ==
  /\ IsFiniteSet(Session) /\ Session \subseteq Nat /\ Optional \subseteq Session
  /\ Players \in Nat \ {0}
  /\ None \notin Nat /\ None \notin Candidates
  /\ {IdealGap, NowWindow, MaxAhead, MaxTime, Limit} \subseteq Nat

Far == MaxTime + 1      \* MAX_SAFE_INTEGER, the start of what is looked ahead to
Never == MaxTime + 2    \* no end, or no start
Times == 0 .. MaxTime

VARIABLES now,
          part,       \* the current Part: when it started, and when its autonext is due
          piece,      \* the clips in the previous and the current Part
          ahead,      \* the clips of the Parts that follow, one each
          assigned,   \* assignedAbSessions of the playlist
          refused,    \* the sessions that the last run left without a player
          stuck,      \* the last run has thrown
          run         \* the run of the resolver that is going on

vars == <<now, part, piece, ahead, assigned, refused, stuck, run>>

NoRun == [on |-> FALSE, looks |-> FALSE, pending |-> <<>>, player |-> <<>>, refused |-> {}, tries |-> 0]

-----------------------------------------------------------------------------
(* The requests of a run: calculateSessionTimeRanges().                      *)

Greatest(S) == CHOOSE x \in S : \A y \in S : y <= x
AtMost(x, y) == IF x < y THEN x ELSE y

\* A piece ends with its Part.
EndOf(pt, d) == AtMost(d.end, IF d.previous THEN pt.started ELSE pt.autonext)

IsNext(pt, ah, s) == pt.autonext # Never /\ ah # <<>> /\ Head(ah) = s

Request(pt, pc, ah, s) ==
  CASE pc[s] # None -> [start |-> pc[s].start, end |-> EndOf(pt, pc[s]), rank |-> 0]
    [] pc[s] = None /\ IsNext(pt, ah, s) -> [start |-> pt.autonext, end |-> Never, rank |-> 0]
    [] OTHER -> [start |-> Far, end |-> Never,
                 rank |-> CHOOSE i \in DOMAIN ah : ah[i] = s]

RequestsOf(pt, pc, ah) ==
  [s \in {x \in Session : pc[x] # None} \cup ToSet(ah) |-> Request(pt, pc, ah, s)]

-----------------------------------------------------------------------------
(* One run of the resolver.  req are its requests, player is what they have  *)
(* been assigned: the slot of a player is what has been assigned to it.      *)

IsLookahead(req, s) == req[s].rank # 0
Earlier(req, s, u) ==
  \/ req[s].start < req[u].start
  \/ req[s].start = req[u].start /\ (req[s].rank < req[u].rank \/ (req[s].rank = req[u].rank /\ s < u))

\* The elements of S as a sequence, given what goes before each: SetToSortSeq, with the order as a
\* value, so that lemmas can be stated about it.
Arranged(S, before) ==
  [i \in 1 .. Cardinality(S) |-> CHOOSE x \in S : Cardinality(before[x]) = i - 1]

InOrder(req, S) == Arranged(S, [s \in S |-> {u \in S : Earlier(req, u, s)}])
FirstOf(req, S) == IF S = {} THEN None ELSE CHOOSE s \in S : \A u \in S \ {s} : Earlier(req, s, u)
LastOf(req, S) == IF S = {} THEN None ELSE CHOOSE s \in S : \A u \in S \ {s} : Earlier(req, u, s)

\* A stable sort by start.
Sorted(req, seq) ==
  LET order == Arranged(DOMAIN seq, [j \in DOMAIN seq |->
                 {i \in DOMAIN seq : \/ req[seq[i]].start < req[seq[j]].start
                                     \/ req[seq[i]].start = req[seq[j]].start /\ i < j}])
  IN [k \in DOMAIN seq |-> seq[order[k]]]

Slot(req, player, p) == {s \in DOMAIN req : player[s] = p}

\* What is only looked ahead to has no such flag.
IsOptional(req, s) == s \in Optional /\ ~IsLookahead(req, s)
MayReplace(req, s, r) == IsOptional(req, s) \/ ~IsOptional(req, r)

\* getAvailability(): what player p does around request r.
Availability(req, player, r, p) ==
  LET slot == Slot(req, player, p)
      ended == {s \in slot : ~IsLookahead(req, s) /\ req[s].end < req[r].start}
      behind == {s \in slot \ ended : IsLookahead(req, s) \/ req[s].start >= req[r].end}
      after == FirstOf(req, behind)
  IN [player |-> p,
      before |-> LastOf(req, {s \in ended : after = None \/ Earlier(req, s, after)}),
      clashes |-> slot \ (ended \cup behind),
      after |-> after]

HasGapBefore(req, r, slot) ==
  slot.before = None \/ req[slot.before].end < req[r].start - IdealGap

FreeUntil(req, slot) == IF slot.after = None THEN Never ELSE req[slot.after].start
LastClash(req, slot) == Greatest({req[s].start : s \in slot.clashes})
IdleFor(req, r, slot) ==
  IF slot.before = None THEN IdealGap + 1 ELSE -AtMost(req[r].start - IdealGap, req[slot.before].end)

\* Fault: what has just started counts as well.
ClashesMayBeReplaced(req, r, slot, safeNow) ==
  \A s \in slot.clashes : req[s].start >= req[r].start /\ MayReplace(req, s, r)

\* The clashes begin later, and may be replaced.
ClashesComeLater(req, r, slot, safeNow) ==
  \A s \in slot.clashes :
    req[s].start > safeNow /\ req[s].start >= req[r].start /\ MayReplace(req, s, r)

\* The first of the slots with the highest value.
Best(slots, value) ==
  CHOOSE x \in slots : \A y \in slots :
    value[x] > value[y] \/ (value[x] = value[y] /\ x.player <= y.player)

\* The slot that a request gets, and whether it makes those behind it or those in its way give way.
Choice(slot, clearsAfter, clearsClashes) ==
  [slot |-> slot, clearsAfter |-> clearsAfter, clearsClashes |-> clearsClashes]

\* Fault: a player that is not idle for long enough is never used.
ChooseNowWithGap(req, r, slots, safeNow) ==
  LET gap == {x \in slots : x.clashes = {} /\ HasGapBefore(req, r, x)}
  IN IF gap # {} THEN Choice(Best(gap, [x \in gap |-> FreeUntil(req, x)]), FALSE, FALSE) ELSE None

\* It is about to start: packed dense.
ChooseNow(req, r, slots, safeNow) ==
  LET free == {x \in slots : x.clashes = {}}
      gap == {x \in free : HasGapBefore(req, r, x)}
      freeAtStart == {x \in slots \ free : /\ HasGapBefore(req, r, x)
                                           /\ ClashesComeLater(req, r, x, safeNow)}
  IN CASE gap # {} -> Choice(Best(gap, [x \in gap |-> FreeUntil(req, x)]), FALSE, FALSE)
       [] gap = {} /\ free # {} -> Choice(Best(free, [x \in free |-> FreeUntil(req, x)]), FALSE, FALSE)
       [] free = {} /\ freeAtStart # {} ->
            Choice(Best(freeAtStart, [x \in freeAtStart |-> LastClash(req, x)]), FALSE, FALSE)
       [] OTHER -> None

\* It starts later: spread out, so that it can be looked ahead to.
ChooseLater(req, r, slots, safeNow) ==
  LET free == {x \in slots : x.clashes = {}}
      nothingAfter == {x \in free : x.after = None}
      giving == {x \in free \ nothingAfter : MayReplace(req, x.after, r)}
      freeAtStart == {x \in slots \ free : /\ HasGapBefore(req, r, x)
                                           /\ ClashesComeLater(req, r, x, safeNow)}
      optional == {x \in slots \ free : x.clashes \subseteq Optional /\ r \notin Optional}
  IN CASE nothingAfter # {} -> Choice(Best(nothingAfter, [x \in nothingAfter |-> IdleFor(req, r, x)]), FALSE, FALSE)
       [] nothingAfter = {} /\ giving # {} ->
            Choice(Best(giving, [x \in giving |-> FreeUntil(req, x)]), TRUE, TRUE)
       [] nothingAfter \cup giving = {} /\ freeAtStart # {} ->
            Choice(Best(freeAtStart, [x \in freeAtStart |-> LastClash(req, x)]), TRUE, TRUE)
       [] nothingAfter \cup giving \cup freeAtStart = {} /\ optional # {} ->
            Choice(Best(optional, [x \in optional |-> LastClash(req, x)]), TRUE, TRUE)
       [] OTHER -> None

\* Else it goes where everything ends when it starts.
Choose(req, r, slots, safeNow) ==
  LET first == IF req[r].start < safeNow THEN ChooseNow(req, r, slots, safeNow)
               ELSE ChooseLater(req, r, slots, safeNow)
      touching == {x \in slots : /\ x.clashes # {}
                                 /\ \A s \in x.clashes : req[s].end = req[r].start}
  IN CASE first # None -> first
       [] first = None /\ touching # {} ->
            Choice(Best(touching, [x \in touching |-> FreeUntil(req, x)]), TRUE, FALSE)
       [] OTHER -> None

\* invalidateOnesStartingAfterOrClashing()
Invalidated(req, player, c) ==
  {s \in DOMAIN req :
     \/ /\ c.clearsAfter /\ c.slot.after # None /\ player[s] # None
        /\ req[s].start >= req[c.slot.after].start
     \/ c.clearsClashes /\ s \in c.slot.clashes}

\* They are found player by player.
Again(req, player, S) ==
  Arranged(S, [u \in S |-> {s \in S : \/ player[s] < player[u]
                                      \/ player[s] = player[u] /\ Earlier(req, s, u)}])

\* Lookahead makes room for a request without an end.
Dropped(req, r, c) ==
  {s \in {c.slot.after} \ {None} : IsLookahead(req, s) /\ req[r].end = Never}

\* What had no chance of being preloaded yet may get another player.
Unpreloaded(req, player, safeNow) ==
  {s \in DOMAIN req :
     LET prev == LastOf(req, {u \in DOMAIN req : player[u] = player[s] /\ Earlier(req, u, s)})
     IN req[s].start >= safeNow /\ prev # None /\ req[prev].end < safeNow}

-----------------------------------------------------------------------------
(* Lookahead gets the players that are left, in order.                       *)

\* When the last clip of a player ends: lastSessionPerSlot.
LastEnd(req, player, p) ==
  LET last == LastOf(req, {s \in Slot(req, player, p) : ~IsLookahead(req, s)})
  IN IF last = None THEN -1 ELSE req[last].end

\* Fault: a player is used only when it has no clip at all.
UsableWhenEmpty(req, player) == {p \in Player : LastEnd(req, player, p) = -1}

Usable(req, player) == {p \in Player : LastEnd(req, player, p) # Never}

\* As many as there are such players, those of the lowest rank.
LookedAhead(req, player) ==
  LET all == {s \in DOMAIN req : IsLookahead(req, s)}
  IN {s \in all : Cardinality({u \in all : Earlier(req, u, s)}) < Cardinality(Usable(req, player))}

\* What is loaded in a player that is free stays there.
Staying(req, player, before, safeNow) ==
  {s \in LookedAhead(req, player) :
     /\ before[s] \in Usable(req, player)
     /\ LastEnd(req, player, before[s]) < safeNow
     /\ \A u \in LookedAhead(req, player) : before[u] = before[s] => req[s].rank <= req[u].rank}

\* The players that are left, those that have been idle the longest first.
Places(req, player, left) ==
  Arranged(left, [p \in left |->
    {q \in left : \/ LastEnd(req, player, q) < LastEnd(req, player, p)
                  \/ LastEnd(req, player, q) = LastEnd(req, player, p) /\ q < p}])

AssignLookahead(req, player, before, safeNow) ==
  LET staying == Staying(req, player, before, safeNow)
      moving == InOrder(req, LookedAhead(req, player) \ staying)
      places == Places(req, player, Usable(req, player) \ {before[s] : s \in staying})
  IN [s \in DOMAIN req |->
        CASE s \in staying -> before[s]
          [] s \in ToSet(moving) -> places[CHOOSE i \in DOMAIN moving : moving[i] = s]
          [] OTHER -> player[s]]

-----------------------------------------------------------------------------
(* resolveAbAssignmentsFromRequests(): one step of this part is one round of *)
(* its loop.                                                                 *)

Requests == RequestsOf(part, piece, ahead)
SafeNow == now + NowWindow

\* Nothing to do but for the requests that wait; with one player, nothing at all.
Begin ==
  LET req == RequestsOf(part', piece', ahead')
      kept == [s \in DOMAIN req |->
                 IF s \in Unpreloaded(req, assigned, SafeNow) THEN None ELSE assigned[s]]
      waiting == {s \in DOMAIN req : kept[s] = None /\ ~IsLookahead(req, s)}
  IN run' = CASE Players = 1 -> [NoRun EXCEPT !.on = TRUE, !.player = [s \in DOMAIN req |-> 1]]
              [] Players # 1 /\ (\A s \in DOMAIN req : assigned[s] # None) ->
                   [NoRun EXCEPT !.on = TRUE, !.player = [s \in DOMAIN req |-> assigned[s]]]
              [] OTHER -> [on |-> TRUE, looks |-> TRUE, pending |-> InOrder(req, waiting),
                           player |-> kept, refused |-> {}, tries |-> 0]

Assign ==
  LET req == Requests
      r == Head(run.pending)
      c == Choose(req, r, {Availability(req, run.player, r, p) : p \in Player}, SafeNow)
      gone == Invalidated(req, run.player, c)
      again == Again(req, run.player, {s \in gone : ~IsLookahead(req, s)})
  IN /\ run.on /\ run.pending # <<>> /\ run.tries <= Limit
     /\ run' = IF c = None
               THEN [run EXCEPT !.pending = Tail(@), !.refused = @ \cup {r}, !.tries = @ + 1]
               ELSE [run EXCEPT
                       !.pending = Sorted(req, Tail(@) \o again), !.tries = @ + 1,
                       !.player = [s \in DOMAIN req |->
                         IF s = r THEN c.slot.player
                         ELSE IF s \in gone \cup Dropped(req, r, c) THEN None ELSE @[s]]]
     /\ UNCHANGED <<now, part, piece, ahead, assigned, refused, stuck>>

\* Fault: only what is on the timeline is kept.
EndKeepsRequestsOnly ==
  /\ run.on /\ run.pending = <<>>
  /\ assigned' = IF run.looks THEN AssignLookahead(Requests, run.player, assigned, SafeNow) ELSE run.player
  /\ refused' = run.refused
  /\ run' = NoRun
  /\ stuck' = FALSE
  /\ UNCHANGED <<now, part, piece, ahead>>

\* Lookahead is assigned, and the result kept for the next time.
End ==
  LET req == Requests
      player == IF run.looks THEN AssignLookahead(req, run.player, assigned, SafeNow) ELSE run.player
  IN /\ run.on /\ run.pending = <<>>
     /\ assigned' = [s \in Session |-> IF s \in DOMAIN req THEN player[s] ELSE None]
     /\ refused' = run.refused
     /\ run' = NoRun
     /\ stuck' = FALSE
     /\ UNCHANGED <<now, part, piece, ahead>>

\* The loop limit is reached: the timeline goes out with nothing assigned, and what was assigned before
\* is kept for the next time.
GivesUp ==
  /\ run.on /\ run.pending # <<>> /\ run.tries > Limit
  /\ run' = NoRun
  /\ stuck' = TRUE
  /\ UNCHANGED <<now, part, piece, ahead, assigned, refused>>

-----------------------------------------------------------------------------
(* What happens to the timeline.  Each change generates it anew and runs the *)
(* resolver with what has been assigned before.                              *)

Init == /\ now = 0
        /\ part = [started |-> 0, autonext |-> Never]
        /\ piece = [s \in Session |-> None]
        /\ ahead = <<>>
        /\ assigned = [s \in Session |-> None]
        /\ refused = {}
        /\ stuck = FALSE
        /\ run = NoRun

Generate == Begin /\ UNCHANGED <<assigned, refused, stuck>>

Unused(s) == piece[s] = None /\ s \notin ToSet(ahead)
Starting(S) == {d \in [previous : {FALSE}, start : S, end : Times \cup {Never}] : d.start < d.end}

Tick == /\ ~run.on /\ now < AtMost(MaxTime, part.autonext)
        /\ now' = now + 1
        /\ UNCHANGED <<part, piece, ahead, assigned, refused, stuck, run>>

\* An adlib starts at once; a piece that ingest adds to the current Part may start later.
Insert(s) ==
  /\ ~run.on /\ now < part.autonext
  /\ Unused(s)
  /\ \E d \in Starting({now, now + NowWindow + 1} \cap Times) : piece' = [piece EXCEPT ![s] = d]
  /\ UNCHANGED <<now, part, ahead>>
  /\ Generate

\* A piece is stopped, or removed by ingest.
Stop(s) ==
  /\ ~run.on /\ now < part.autonext
  /\ piece[s] # None /\ ~piece[s].previous /\ piece[s].end > now
  /\ piece' = [piece EXCEPT ![s] = IF @.start > now THEN None ELSE [@ EXCEPT !.end = now]]
  /\ UNCHANGED <<now, part, ahead>>
  /\ Generate

\* Another next Part, or others behind it.
SetNext(s, i) ==
  /\ ~run.on /\ now < part.autonext
  /\ piece[s] = None /\ i \in 1 .. MaxAhead
  /\ ahead' = LET rest == RemoveFirst(ahead, s)
              IN SubSeq(rest, 1, AtMost(i - 1, Len(rest))) \o <<s>>
                 \o SubSeq(rest, i, AtMost(MaxAhead - 1, Len(rest)))
  /\ UNCHANGED <<now, part, piece>>
  /\ Generate

\* Ingest changes when the current Part ends.
SetAutonext(t) ==
  /\ ~run.on /\ now < part.autonext
  /\ t # part.autonext /\ t > now
  /\ part' = [part EXCEPT !.autonext = t]
  /\ UNCHANGED <<now, piece, ahead>>
  /\ Generate

\* A take, or the autonext: the clip of the next Part starts.
Take ==
  /\ ~run.on
  /\ ahead # <<>>
  /\ part' = [started |-> now, autonext |-> Never]
  /\ \E d \in Starting({now}) :
       piece' = [s \in Session |->
                   IF s = Head(ahead) THEN d
                   ELSE IF piece[s] = None \/ piece[s].previous THEN None
                   ELSE [piece[s] EXCEPT !.previous = TRUE]]
  /\ ahead' = Tail(ahead)
  /\ UNCHANGED now
  /\ Generate

Next == \/ Assign \/ End \/ GivesUp
        \/ Tick \/ Take
        \/ \E s \in Session : Insert(s) \/ Stop(s)
        \/ \E s \in Session, i \in 1 .. MaxAhead : SetNext(s, i)
        \/ \E t \in Times \cup {Never} : SetAutonext(t)

Spec == Init /\ [][Next]_vars

-----------------------------------------------------------------------------

TypeOK == /\ now \in Times
          /\ part \in [started : Times, autonext : Times \cup {Never}]
          /\ piece \in [Session -> [previous : BOOLEAN, start : Times, end : Times \cup {Never}] \cup {None}]
          /\ ahead \in Seq(Session) /\ Len(ahead) <= MaxAhead
          /\ assigned \in [Session -> Player \cup {None}]
          /\ refused \subseteq Session
          /\ stuck \in BOOLEAN

-----------------------------------------------------------------------------
(* Properties, of the timeline after the resolver has been run.              *)

Done == ~run.on
Clips == {s \in DOMAIN Requests : ~IsLookahead(Requests, s)}
OnAir(s) == /\ piece[s] # None /\ piece[s].start <= now
            /\ now < EndOf(part, piece[s])

InTheWay(u, s) == Requests[u].start <= Requests[s].end /\ Requests[s].start <= Requests[u].end

\* A required clip is refused only when every player has a clip in its way; and if there was still
\* time to load it, a required one: an optional clip would have been moved or left out for it.
RefusedOnlyWhenFull ==
  [][\A s \in run'.refused \ (run.refused \cup Optional), p \in Player :
       \E u \in Clips \ {s} : /\ run.player[u] = p /\ InTheWay(u, s)
                              /\ Requests[s].start >= SafeNow => u \notin Optional]_vars

\* A clip that is on air has had its start, and what is over was played.  (A clip of the previous Part
\* that had no player, or never started, is assigned one belatedly, and moves what comes after it;
\* without a now-window, what starts at this moment may still be moved; and one player gets all.)
Playing(s) == OnAir(s) /\ assigned[s] # None
AllIsPlayed == \A u \in Clips : Requests[u].end <= now => assigned[u] # None /\ Requests[u].start <= now

\* A required clip that is on air keeps its player, whatever is inserted, moved or taken meanwhile,
\* and no clip is given that player for a time in which it is still on air.
OnAirStays ==
  [][NowWindow > 0 /\ Players > 1 /\ AllIsPlayed =>
       \A s \in Session \ Optional : Playing(s) /\ OnAir(s)' =>
         /\ assigned'[s] = assigned[s]
         /\ \A u \in Clips \ {s} : assigned'[u] = assigned[s] /\ assigned[u] # assigned[s]
              => Requests[u].end <= Requests[s].start \/ Requests[s].end <= Requests[u].start]_vars

\* The clip that comes next is loaded when there is a player whose last clip has an end.
NextClipIsLoaded ==
  Done /\ ~stuck /\ ahead # <<>> /\ Head(ahead) \notin Clips
       /\ (\E p \in Player : \A u \in Clips : assigned[u] = p => Requests[u].end # Never)
    => assigned[Head(ahead)] # None

\* The documentation: the resolver "will then iterate through each of these sessions in time order
\* and assign them in order to the available players".  Nothing is said of a run that gives up and
\* leaves every clip of the timeline without its player.
NeverStuck == ~stuck
=============================================================================
