------------------------------ MODULE RadarProofs ------------------------------
(***************************************************************************)
(* For any maps, number of processes, range of the tick and number of      *)
(* faults: the two values the radar's task publishes stay in step, and the *)
(* task keeps a live process as long as its reads succeed.  For any number *)
(* of slots, of places of the view object, of changes and of failed reads: *)
(* a snapshot holds what was so while it was read, misses no player who    *)
(* stays, and sees a game that stays ready as ready.                       *)
(***************************************************************************)
EXTENDS RadarReader, Snapshot, Integers, TLAPS

\* Between the two writes of a tick the compare response is the one built with
\* the snapshot about to be written.
BuiltTogether == reader = "latest" => compare = Built

IInv == TypeOK /\ CompareIsAhead /\ BuiltTogether

Before(t) == (t + TickRange - 1) % TickRange
After(t) == (t + 1) % TickRange

LEMMA Ticks ==
  ASSUME NEW t \in 0 .. TickRange - 1
  PROVE  /\ Before(t) \in 0 .. TickRange - 1 /\ After(t) \in 0 .. TickRange - 1
         /\ Before(After(t)) = t
         /\ After(Before(t)) = t
<1>1. TickRange \in Nat \ {0, 1}
  BY RadarAssumption DEF RadarAssumption
<1>2. After(t) = IF t + 1 = TickRange THEN 0 ELSE t + 1
  BY <1>1, SMTT(30) DEF After
<1>3. Before(t) = IF t = 0 THEN TickRange - 1 ELSE t - 1
  BY <1>1, SMTT(30) DEF Before
<1>4. After(t) \in 0 .. TickRange - 1 /\ Before(t) \in 0 .. TickRange - 1
  BY <1>1, <1>2, <1>3
<1>5. \A s \in 0 .. TickRange - 1 : Before(s) = IF s = 0 THEN TickRange - 1 ELSE s - 1
  BY <1>1, SMTT(30) DEF Before
<1>6. \A s \in 0 .. TickRange - 1 : After(s) = IF s + 1 = TickRange THEN 0 ELSE s + 1
  BY <1>1, SMTT(30) DEF After
<1> QED BY <1>1, <1>2, <1>3, <1>4, <1>5, <1>6

\* The frames the task publishes.
LEMMA FramesBuilt ==
  ASSUME TypeOK
  PROVE  /\ Booting \in Frames /\ ReaderUnavailable \in Frames
         /\ ~Published(Booting) /\ ~Published(ReaderUnavailable)
         /\ Booting.tick = 0
         /\ Built \in Frames /\ Built.tick = tick
BY RadarAssumption
   DEF RadarAssumption, TypeOK, Frames, Frame, Booting, ReaderUnavailable, Built,
       Published, None

LEMMA InitIInv == Init => IInv
<1> SUFFICES ASSUME Init PROVE IInv
  OBVIOUS
<1>1. TypeOK
  BY RadarAssumption
     DEF Init, TypeOK, RadarAssumption, Frames, Frame, Booting, None, Maps, Processes
<1>2. CompareIsAhead
  <2>1. compare.tick = 0 /\ tick = 0 /\ reader = "assets" /\ ~Published(latest)
    BY DEF Init, Booting, Frame, Published
  <2> QED BY <2>1 DEF CompareIsAhead
<1>3. BuiltTogether
  BY DEF Init, BuiltTogether
<1> QED BY <1>1, <1>2, <1>3 DEF IInv

\* A step that leaves the tick and the compare response alone and the snapshot
\* too or replaces it by one that is not published.
LEMMA QuietStep ==
  ASSUME IInv, reader \notin {"compare", "latest"}, reader' \notin {"compare", "latest"},
         tick' = tick, compare' = compare,
         latest' = latest \/ latest' = ReaderUnavailable
  PROVE  CompareIsAhead' /\ BuiltTogether'
<1>1. ~Published(ReaderUnavailable)
  BY FramesBuilt DEF IInv
<1> QED BY <1>1 DEF IInv, CompareIsAhead, BuiltTogether, Published

LEMMA FaultCounts ==
  ASSUME TypeOK
  PROVE  /\ Fault => faults' \in 0 .. MaxFaults /\ faults' # faults
         /\ faults' = faults => faults' \in 0 .. MaxFaults
BY RadarAssumption DEF RadarAssumption, TypeOK, Fault

LEMMA WorldKeepsIInv ==
  ASSUME IInv, World
  PROVE  IInv'
<1> USE DEF IInv
<1>1. UNCHANGED <<faults, reader, active, sampled, tick, compare, latest>>
  BY DEF World, GameStarts, GameExits, MapChanges
<1>2. TypeOK'
  <2>1. CASE GameStarts
    BY <1>1, <2>1, RadarAssumption DEF GameStarts, TypeOK, Processes, RadarAssumption
  <2>2. CASE GameExits
    BY <1>1, <2>2 DEF GameExits, TypeOK
  <2>3. CASE MapChanges
    BY <1>1, <2>3 DEF MapChanges, TypeOK
  <2> QED BY <2>1, <2>2, <2>3 DEF World
<1>3. CompareIsAhead'
  BY <1>1 DEF CompareIsAhead, Published
<1>4. BuiltTogether'
  BY <1>1 DEF BuiltTogether, Built, Frame
<1> QED BY <1>2, <1>3, <1>4

LEMMA ReconnectKeepsIInv ==
  ASSUME IInv, Reconnect, reader \in {"snapshot", "players"},
         faults' \in 0 .. MaxFaults, UNCHANGED game
  PROVE  IInv'
<1>1. ReaderUnavailable \in Frames
  BY FramesBuilt DEF IInv
<1>2. TypeOK'
  BY <1>1 DEF IInv, TypeOK, Reconnect, game
<1>3. CompareIsAhead' /\ BuiltTogether'
  BY QuietStep DEF Reconnect
<1> QED BY <1>2, <1>3 DEF IInv

LEMMA ReaderKeepsIInv ==
  ASSUME IInv, Reader
  PROVE  IInv'
<1> USE DEF IInv
<1>0. UNCHANGED game /\ TypeOK
  BY DEF Reader, LoadAssets, AssetsFail, Connect, ConnectFails, Check, CheckFails,
         ReadSnapshot, ReadSnapshotFails, ReadPlayers, ReadPlayersFails, WriteCompare,
         WriteLatest, Reconnect, game
<1>f. /\ ReaderUnavailable \in Frames /\ Built \in Frames /\ Built.tick = tick
      /\ ~Published(ReaderUnavailable)
  BY <1>0, FramesBuilt
<1>1. CASE LoadAssets
  <2>1. TypeOK'
    BY <1>0, <1>1 DEF LoadAssets, TypeOK, game
  <2> QED BY <1>1, <2>1, QuietStep DEF LoadAssets
<1>2. CASE AssetsFail
  <2>1. TypeOK'
    BY <1>0, <1>f, <1>2 DEF AssetsFail, TypeOK, game
  <2> QED BY <1>2, <2>1, QuietStep DEF AssetsFail
<1>3. CASE Connect
  <2>1. TypeOK'
    BY <1>0, <1>3 DEF Connect, TypeOK, game, Processes, None
  <2> QED BY <1>3, <2>1, QuietStep DEF Connect
<1>4. CASE ConnectFails
  <2>1. faults' \in 0 .. MaxFaults
    BY <1>0, <1>4, FaultCounts DEF ConnectFails
  <2>2. TypeOK'
    BY <1>0, <1>f, <1>4, <2>1 DEF ConnectFails, TypeOK, game
  <2> QED BY <1>4, <2>2, QuietStep DEF ConnectFails
<1>5. CASE Check
  <2>1. TypeOK'
    BY <1>0, <1>5 DEF Check, TypeOK, game
  <2> QED BY <1>5, <2>1, QuietStep DEF Check
<1>6. CASE CheckFails
  <2>1. faults' \in 0 .. MaxFaults
    BY <1>0, <1>6, FaultCounts DEF CheckFails
  <2>2. TypeOK'
    BY <1>0, <1>6, <2>1 DEF CheckFails, TypeOK, game
  <2> QED BY <1>6, <2>2, QuietStep DEF CheckFails
<1>7. CASE ReadSnapshot
  <2>1. TypeOK'
    BY <1>0, <1>7 DEF ReadSnapshot, TypeOK, game, Maps
  <2> QED BY <1>7, <2>1, QuietStep DEF ReadSnapshot
<1>8. CASE ReadSnapshotFails
  <2>1. faults' \in 0 .. MaxFaults
    BY <1>0, <1>8, FaultCounts DEF ReadSnapshotFails
  <2> QED BY <1>0, <1>8, <2>1, ReconnectKeepsIInv DEF ReadSnapshotFails
<1>9. CASE ReadPlayers
  <2>1. tick' = After(tick) /\ reader' = "compare" /\ tick \in 0 .. TickRange - 1
    BY <1>0, <1>9 DEF ReadPlayers, After, TypeOK
  <2>2. After(tick) \in 0 .. TickRange - 1 /\ Before(After(tick)) = tick
    BY <2>1, Ticks
  <2>3. TypeOK'
    BY <1>0, <1>9, <2>1, <2>2 DEF ReadPlayers, TypeOK, game
  <2>4. compare'.tick = Before(tick')
    BY <1>9, <2>1, <2>2 DEF ReadPlayers, CompareIsAhead
  <2>5. Published(latest') => latest' = compare'
    BY <1>9 DEF ReadPlayers, CompareIsAhead
  <2>6. CompareIsAhead'
    BY <2>1, <2>4, <2>5 DEF CompareIsAhead, Before, Published
  <2> QED BY <2>1, <2>3, <2>6 DEF BuiltTogether
<1>10. CASE ReadPlayersFails
  <2>1. faults' \in 0 .. MaxFaults
    BY <1>0, <1>10, FaultCounts DEF ReadPlayersFails
  <2> QED BY <1>0, <1>10, <2>1, ReconnectKeepsIInv DEF ReadPlayersFails
<1>11. CASE WriteCompare
  <2>1. /\ reader = "compare" /\ reader' = "latest" /\ compare' = Built
        /\ latest' = latest /\ tick' = tick /\ tick \in 0 .. TickRange - 1
    BY <1>0, <1>11 DEF WriteCompare, TypeOK
  <2>2. TypeOK'
    BY <1>0, <1>f, <1>11 DEF WriteCompare, TypeOK, game
  <2>3. Published(latest) => After(latest.tick) = tick
    <3>1. Published(latest) => latest.tick = Before(tick)
      BY <2>1 DEF CompareIsAhead, Before
    <3> QED BY <2>1, <3>1, Ticks
  <2>4. CompareIsAhead'
    BY <1>f, <2>1, <2>3 DEF CompareIsAhead, After, Published
  <2>5. BuiltTogether'
    BY <1>11, <2>1 DEF WriteCompare, BuiltTogether, Built, Frame
  <2> QED BY <2>2, <2>4, <2>5
<1>12. CASE WriteLatest
  <2>1. /\ reader = "latest" /\ reader' = "check" /\ compare' = compare
        /\ latest' = Built /\ tick' = tick
    BY <1>12 DEF WriteLatest
  <2>2. TypeOK'
    BY <1>0, <1>f, <1>12 DEF WriteLatest, TypeOK, game
  <2>3. CompareIsAhead'
    BY <1>f, <2>1 DEF CompareIsAhead, BuiltTogether, Published
  <2> QED BY <2>1, <2>2, <2>3 DEF BuiltTogether
<1> QED BY <1>1, <1>2, <1>3, <1>4, <1>5, <1>6, <1>7, <1>8, <1>9, <1>10, <1>11, <1>12
        DEF Reader

LEMMA NextKeepsIInv == IInv /\ [Next]_vars => IInv'
<1> SUFFICES ASSUME IInv, [Next]_vars PROVE IInv'
  OBVIOUS
<1>1. CASE Next
  BY <1>1, WorldKeepsIInv, ReaderKeepsIInv DEF Next
<1>2. CASE UNCHANGED vars
  BY <1>2 DEF vars, IInv, TypeOK, CompareIsAhead, BuiltTogether, Built, Frame, Published
<1> QED BY <1>1, <1>2

\* The task's locals and the two published values keep their types, and it has a
\* process exactly while it reads.
THEOREM TypeCorrect == Spec => []TypeOK
<1>1. IInv => TypeOK
  BY DEF IInv
<1> QED BY <1>1, InitIInv, NextKeepsIInv, PTL DEF Spec

\* Whatever the range of the tick, over reconnects, unavailable frames and the
\* tick's wrap, the compare response is the one of the snapshot served or, between
\* the two writes, of the next.
THEOREM ValuesStayInStep == Spec => []CompareIsAhead
<1>1. IInv => CompareIsAhead
  BY DEF IInv
<1> QED BY <1>1, InitIInv, NextKeepsIInv, PTL DEF Spec

\* Only a failed read makes the task give up a process that runs.
THEOREM LiveIsKept == Spec => KeepsLiveProcess
<1> DEFINE Keeps == (active \in running /\ active' # active) => faults' # faults
<1>1. IInv /\ [Next]_vars => Keeps \/ UNCHANGED vars
  <2> SUFFICES ASSUME IInv, Next, active \in running, active' # active
               PROVE  faults' # faults
    BY DEF Keeps
  <2>1. TypeOK /\ active # None
    BY RadarAssumption DEF IInv, TypeOK, Processes, None, RadarAssumption
  <2>2. Check \/ ReadSnapshotFails \/ ReadPlayersFails
    BY <2>1 DEF Next, World, Reader, GameStarts, GameExits, MapChanges, LoadAssets,
       AssetsFail, Connect, ConnectFails, CheckFails, ReadSnapshot, ReadPlayers,
       WriteCompare, WriteLatest, TypeOK
  <2>3. CASE Check
    BY <2>3 DEF Check, Changed, Resolves
  <2>4. CASE ReadSnapshotFails \/ ReadPlayersFails
    BY <2>1, <2>4, FaultCounts DEF ReadSnapshotFails, ReadPlayersFails
  <2> QED BY <2>2, <2>3, <2>4
<1>2. IInv /\ [Next]_vars => [Keeps]_vars
  BY <1>1
<1> QED BY <1>2, InitIInv, NextKeepsIInv, PTL DEF Spec, KeepsLiveProcess

-----------------------------------------------------------------------------
(* The snapshot, read by read.                                             *)

\* A record being filled or filled, and the snapshot.
Player == [pawn : Pawns \cup {Nil}, origin : {"good", "zero", "null"},
           health : BOOLEAN, team : BOOLEAN, life : BOOLEAN]
Snapshots == [map : Strings \cup {"no_client"}, pawn : Pawns \cup {Nil}, matrix : BOOLEAN,
              local : Player, others : Seq(Player)]
FieldNames == Fields \cup {"origin"}

Among(x, s) == \E k \in DOMAIN s : s[k] = x

\* The reads before the local pawn is known, and those of the view matrix.
EarlySteps == {"path", "controller", "handle", "pawn"}
ViewSteps == {"eyes", "cached", "vtable", "search", "class", "camera"}

\* No read of the map, of the local player or of the view has failed.
Clean == Nil \notin failed

\* The moments seen are moments of the game, of which the last is the present.
MomentsOK ==
  /\ world \in Moment /\ seen \subseteq Moment
  /\ step # "done" => world \in seen
  /\ changes \in 0 .. MaxChanges /\ failures \in 0 .. MaxFailures

\* What the pointer x at hand is when s is read next.
Typed(s, x) ==
  /\ s = "handle" => x \in Slots
  /\ s \in {"pawn", "player_pawn"} => x \in Indices
  /\ s \in {"cached", "search", "class", "camera"} => x \in Places
  /\ s = "player_handle" => x = slot
  /\ s \in {"player_class", "candidate"} => x \in Pawns \ {snapshot.pawn}

\* Where the reader can be, and what it holds there.
ReadingOK ==
  /\ step \in {"done", "fields"} \cup EarlySteps \cup ViewSteps \cup SlotSteps
  /\ slot \in Slots
  /\ Typed(step, at)
  /\ cache \in Places \cup {Nil}
  /\ rest \in Seq(FieldNames)
  /\ rest # <<>> <=> step = "fields"
  /\ player \in Player /\ IF step = "fields" THEN player.pawn \in Pawns ELSE player = NoPlayer
  /\ snapshot \in Snapshots
  /\ step \in EarlySteps => snapshot.pawn = Nil /\ snapshot.local = NoPlayer
  /\ step \notin EarlySteps \cup {"done"} => snapshot.pawn \in Pawns
  /\ ~AtPlayers /\ step # "done" => snapshot.others = <<>>
  /\ snapshot.local = NoPlayer \/ snapshot.local.pawn = snapshot.pawn

\* What a record says of its pawn was so at some moment of the snapshot.
Shown(p) == /\ p.origin = "good" => \E w \in seen : w.pawn[p.pawn].origin = "good"
            /\ \A f \in Fields : p[f] => \E w \in seen : w.pawn[p.pawn][f]

\* Controller c led to pawn p, by a handle and a slot of the table.
Handled(c, i) == (\E w \in seen : c \in w.here) /\ (\E w \in seen : w.handle[c] = i)
Reached(c, p) == \E i \in Indices : Handled(c, i) /\ \E w \in seen : w.table[i] = p

Sighted(p) == /\ \E w \in seen : w.pawn[p].class
              /\ \E w \in seen : w.pawn[p].origin = "good"

MatrixSeen == \/ \E w \in seen : w.view # Nil /\ w.near
              \/ \E w \in seen : w.left # {}
              \/ \E v, w \in seen : v.view # w.view

\* How the pointer x at hand was found when s is read next.
OnTheWay(s, x) ==
  /\ s = "camera" => \E w \in seen : x = w.view \/ x \in w.left
  /\ s = "player_handle" => \E w \in seen : slot \in w.here
  /\ s = "player_pawn" => Handled(slot, x)
  /\ s \in {"player_class", "candidate"} => Reached(slot, x)
  /\ s = "candidate" => \E w \in seen : w.pawn[x].class

\* All that the snapshot holds is from moments of its own.
Witnessed ==
  /\ snapshot.map = "real" => \E w \in seen : "real" \in {w.name, w.path}
  /\ snapshot.matrix => MatrixSeen
  /\ Shown(player) /\ Shown(snapshot.local)
  /\ OnTheWay(step, at)
  /\ step = "fields" /\ AtPlayers => Reached(slot, player.pawn) /\ Sighted(player.pawn)

\* The fields of a player none of whose reads failed are those of the pawn.
Fetched ==
  step = "fields" /\ Whose \notin failed =>
    \A f \in FieldNames : Among(f, rest) \/ \E w \in seen : player[f] = w.pawn[player.pawn][f]

\* A player listed was there; of two, the one of the lower controller comes first.
ListedOK(p) == /\ p.pawn \in Pawns /\ p.pawn # snapshot.pawn
               /\ Sighted(p.pawn) /\ Shown(p)
InOrder(p, q) == \E c, d \in Slots : c < d /\ Reached(c, p.pawn) /\ Reached(d, q.pawn)

ListOK ==
  /\ \A k \in DOMAIN snapshot.others :
       /\ ListedOK(snapshot.others[k])
       /\ \E c \in Slots : Reached(c, snapshot.others[k].pawn) /\ (step # "done" => c < slot)
  /\ \A j, k \in DOMAIN snapshot.others :
       j < k => InOrder(snapshot.others[j], snapshot.others[k])

\* A player who can be read all the time.
Steady(c, i, p) == \A w \in seen : /\ c \in w.here /\ w.handle[c] = i /\ w.table[i] = p
                                   /\ w.pawn[p].class /\ w.pawn[p].origin = "good"

Listed(p) == \E k \in DOMAIN snapshot.others : snapshot.others[k].pawn = p

NobodyMissed ==
  snapshot.pawn # Nil =>
    \A c \in Slots \ failed, i \in Indices, p \in Pawns \ {snapshot.pawn} :
      Steady(c, i, p) => /\ AtPlayers /\ c < slot => Listed(p)
                         /\ step = "done" /\ seen # {} => Listed(p)

\* The game was at w, where the player is ready, from the beginning of the snapshot.
StaysReady(w) == Clean /\ seen = {w} /\ ReadyAt(w)

\* The pointer x to what makes w ready, when s is read next.
PointsTo(w, s, x) ==
  /\ s = "handle" => x = w.local
  /\ s = "pawn" => x = w.handle[w.local]
  /\ s = "search" => x <= w.view
  /\ s \in {"class", "camera"} => x = w.view

\* Of a game that stays ready the reader finds what makes it so.
ReadyFound ==
  \A w : StaysReady(w) =>
    /\ PointsTo(w, step, at)
    /\ IF step = "path" THEN w.name = "null" ELSE snapshot.map = "real"
    /\ step \notin EarlySteps => snapshot.pawn = LocalAt(w)
    /\ step = "fields" \/ AtPlayers \/ step = "done" => snapshot.matrix
    /\ AtPlayers \/ step = "done" => snapshot.local.origin = "good" /\ Alive(snapshot)

SnapshotInv == /\ MomentsOK /\ ReadingOK /\ Witnessed /\ Fetched /\ ListOK /\ NobodyMissed
               /\ ReadyFound

-----------------------------------------------------------------------------

LEMMA SlotNames ==
  /\ NumSlots \in Nat /\ NumSlots > 0 /\ NumPlaces \in Nat /\ NumPlaces > 0
  /\ MaxChanges \in Nat /\ MaxFailures \in Nat
  /\ Nil \notin Slots /\ Nil \notin Pawns /\ Nil \notin Indices /\ Nil \notin Places
  /\ 1 \in Slots /\ Slots \subseteq Nat /\ Places \subseteq Nat
BY SnapshotAssumption
   DEF SnapshotAssumption, Nil, Slots, Pawns, Indices, Places

LEMMA AmongRest ==
  ASSUME NEW S, NEW s \in Seq(S), s # <<>>
  PROVE  /\ \A x : Among(x, s) => x = Head(s) \/ Among(x, Tail(s))
         /\ Len(s) = 1 => \A x : Among(x, s) => x = Head(s)
         /\ Len(s) # 1 => Tail(s) # <<>>
         /\ Tail(s) \in Seq(S) /\ Head(s) \in S
<1>1. Len(s) \in Nat /\ DOMAIN s = 1 .. Len(s) /\ Head(s) = s[1]
  OBVIOUS
<1>2. Len(s) = 0 => s = <<>>
  BY <1>1
<1>3. Tail(s) \in Seq(S) /\ Len(Tail(s)) = Len(s) - 1
  BY <1>1, <1>2
<1>4. ASSUME NEW k \in DOMAIN s, k # 1 PROVE Among(s[k], Tail(s))
  <2>1. k - 1 \in DOMAIN Tail(s) /\ Tail(s)[k - 1] = s[k]
    BY <1>1, <1>4
  <2> QED BY <2>1 DEF Among
<1>5. \A x : Among(x, s) => x = Head(s) \/ Among(x, Tail(s))
  BY <1>1, <1>4 DEF Among
<1>6. Len(s) = 1 => \A x : Among(x, s) => x = Head(s)
  BY <1>1 DEF Among
<1>7. Len(s) # 1 => Tail(s) # <<>>
  <2>1. Len(<<>>) = 0 /\ Len(s) # 0
    BY <1>2
  <2>2. Len(s) # 1 => Len(Tail(s)) # 0
    BY <1>1, <1>3, <2>1
  <2>3. Tail(s) = <<>> => Len(Tail(s)) = 0
    BY <2>1
  <2> QED BY <2>2, <2>3
<1>8. Head(s) \in S
  BY <1>1, <1>2
<1> QED BY <1>3, <1>5, <1>6, <1>7, <1>8

LEMMA PawnFields ==
  ASSUME NEW w \in Moment
  PROVE  /\ w.name \in Strings \cup {"no_client"} /\ w.path \in Strings
         /\ w.local \in Slots \cup {Nil} /\ w.here \subseteq Slots
         /\ \A c \in Slots : w.handle[c] \in Indices \cup {Nil}
         /\ \A i \in Indices : w.table[i] \in Pawns \cup {Nil}
         /\ \A p \in Pawns : w.pawn[p] \in Pawn
         /\ w.view \in Places \cup {Nil} /\ w.left \subseteq Places /\ w.near \in BOOLEAN
BY DEF Moment

LEMMA Empty ==
  /\ NoPlayer \in Player /\ NoPlayer.pawn = Nil /\ NoPlayer.origin = "null"
  /\ \A f \in Fields : NoPlayer[f] = FALSE
  /\ NoSnapshot \in Snapshots /\ NoSnapshot.others = <<>> /\ NoSnapshot.local = NoPlayer
  /\ NoSnapshot.pawn = Nil /\ NoSnapshot.matrix = FALSE
<1>1. NoPlayer \in Player
  BY DEF NoPlayer, Player
<1>2. NoSnapshot \in Snapshots
  BY <1>1 DEF NoSnapshot, Snapshots, Strings
<1> QED BY <1>1, <1>2 DEF NoPlayer, NoSnapshot, Fields

LEMMA ShownEmpty == \A p : p = NoPlayer => Shown(p)
BY Empty DEF Shown

\* A change of the game leaves it a game.
LEMMA GameStaysGame ==
  ASSUME MomentsOK, GameChanges
  PROVE  world' \in Moment
<1>1. world \in Moment
  BY DEF MomentsOK
<1>2. ASSUME NEW p \in Pawns, NEW new \in Pawn, world' = [world EXCEPT !.pawn[p] = new]
      PROVE  world' \in Moment
  BY <1>1, <1>2 DEF Moment
<1>3. ASSUME NEW s \in Strings \cup {"no_client"}, world' = [world EXCEPT !.name = s]
      PROVE  world' \in Moment
  BY <1>1, <1>3 DEF Moment
<1>4. ASSUME NEW s \in Strings, world' = [world EXCEPT !.path = s]
      PROVE  world' \in Moment
  BY <1>1, <1>4 DEF Moment
<1>5. ASSUME NEW c \in Slots \cup {Nil}, world' = [world EXCEPT !.local = c]
      PROVE  world' \in Moment
  BY <1>1, <1>5 DEF Moment
<1>6. ASSUME NEW c \in Slots, world' = [world EXCEPT !.here = (@ \ {c}) \cup ({c} \ @)]
      PROVE  world' \in Moment
  <2>1. (world.here \ {c}) \cup ({c} \ world.here) \in SUBSET Slots
    BY <1>1, PawnFields
  <2> QED BY <1>1, <1>6, <2>1 DEF Moment
<1>7. ASSUME NEW c \in Slots, NEW i \in Indices \cup {Nil},
             world' = [world EXCEPT !.handle[c] = i]
      PROVE  world' \in Moment
  BY <1>1, <1>7 DEF Moment
<1>8. ASSUME NEW i \in Indices, NEW p \in Pawns \cup {Nil},
             world' = [world EXCEPT !.table[i] = p]
      PROVE  world' \in Moment
  BY <1>1, <1>8 DEF Moment
<1>9. ASSUME NEW p \in Pawns, NEW f \in Fields \cup {"class"},
             world' = [world EXCEPT !.pawn[p][f] = ~@]
      PROVE  world' \in Moment
  <2>1. world.pawn[p] \in Pawn
    BY <1>1, PawnFields
  <2>2. [world.pawn[p] EXCEPT ![f] = ~@] \in Pawn
    BY <2>1 DEF Pawn, Fields
  <2>3. world' = [world EXCEPT !.pawn[p] = [world.pawn[p] EXCEPT ![f] = ~@]]
    BY <1>9
  <2> QED BY <1>2, <2>2, <2>3
<1>10. ASSUME NEW p \in Pawns, NEW o \in {"good", "zero", "null"},
              world' = [world EXCEPT !.pawn[p].origin = o]
       PROVE  world' \in Moment
  <2>1. world.pawn[p] \in Pawn
    BY <1>1, PawnFields
  <2>2. [world.pawn[p] EXCEPT !.origin = o] \in Pawn
    BY <2>1 DEF Pawn
  <2>3. world' = [world EXCEPT !.pawn[p] = [world.pawn[p] EXCEPT !.origin = o]]
    BY <1>10
  <2> QED BY <1>2, <2>2, <2>3
<1>11. ASSUME NEW v \in Places \cup {Nil}, NEW copies \in SUBSET {world.view},
              world' = [world EXCEPT !.view = v, !.left = (@ \cup (copies \ {Nil})) \ {v}]
       PROVE  world' \in Moment
  <2>1. (world.left \cup (copies \ {Nil})) \ {v} \in SUBSET Places
    BY <1>1, PawnFields
  <2> QED BY <1>1, <1>11, <2>1 DEF Moment
<1>12. ASSUME world' = [world EXCEPT !.near = ~@]
       PROVE  world' \in Moment
  BY <1>1, <1>12 DEF Moment
<1> QED BY <1>3, <1>4, <1>5, <1>6, <1>7, <1>8, <1>9, <1>10, <1>11, <1>12 DEF GameChanges

\* What was seen stays seen,
LEMMA SeenStays ==
  ASSUME seen \subseteq seen', slot' = slot
  PROVE  /\ \A p : Shown(p) => Shown(p)'
         /\ \A c, i : Handled(c, i) => Handled(c, i)'
         /\ \A c, p : Reached(c, p) => Reached(c, p)'
         /\ \A p : Sighted(p) => Sighted(p)'
         /\ MatrixSeen => MatrixSeen'
         /\ \A s, x : OnTheWay(s, x) => OnTheWay(s, x)'
         /\ \A c, i, p : Steady(c, i, p)' => Steady(c, i, p)
<1>1. \A p : Shown(p) => Shown(p)'
  BY DEF Shown
<1>2. \A c, i : Handled(c, i) => Handled(c, i)'
  BY DEF Handled
<1>3. \A c, p : Reached(c, p) => Reached(c, p)'
  BY <1>2 DEF Reached
<1>4. \A p : Sighted(p) => Sighted(p)'
  BY DEF Sighted
<1>5. MatrixSeen => MatrixSeen'
  BY DEF MatrixSeen
<1>6. \A s, x : OnTheWay(s, x) => OnTheWay(s, x)'
  BY <1>2, <1>3 DEF OnTheWay
<1>7. \A c, i, p : Steady(c, i, p)' => Steady(c, i, p)
  BY DEF Steady
<1> QED BY <1>1, <1>2, <1>3, <1>4, <1>5, <1>6, <1>7

\* and while nothing new is seen, nothing changes about it.
LEMMA SeenSame ==
  ASSUME seen' = seen
  PROVE  /\ \A p : Shown(p)' <=> Shown(p)
         /\ \A c, i : Handled(c, i)' <=> Handled(c, i)
         /\ \A c, p : Reached(c, p)' <=> Reached(c, p)
         /\ \A p : Sighted(p)' <=> Sighted(p)
         /\ MatrixSeen' <=> MatrixSeen
         /\ \A c, i, p : Steady(c, i, p)' <=> Steady(c, i, p)
         /\ \A p, q : InOrder(p, q)' <=> InOrder(p, q)
<1>1. \A p : Shown(p)' <=> Shown(p)
  BY DEF Shown
<1>2. \A c, i : Handled(c, i)' <=> Handled(c, i)
  BY DEF Handled
<1>3. \A c, p : Reached(c, p)' <=> Reached(c, p)
  BY <1>2 DEF Reached
<1>4. \A p : Sighted(p)' <=> Sighted(p)
  BY DEF Sighted
<1>5. MatrixSeen' <=> MatrixSeen
  BY DEF MatrixSeen
<1>6. \A c, i, p : Steady(c, i, p)' <=> Steady(c, i, p)
  BY DEF Steady
<1>7. \A p, q : InOrder(p, q)' <=> InOrder(p, q)
  BY <1>3 DEF InOrder
<1> QED BY <1>1, <1>2, <1>3, <1>4, <1>5, <1>6, <1>7

LEMMA GameChangesKeepsSnapshotInv == SnapshotInv /\ GameChanges => SnapshotInv'
<1> SUFFICES ASSUME SnapshotInv, GameChanges PROVE SnapshotInv'
  OBVIOUS
<1> USE DEF SnapshotInv
<1>1. /\ seen' = IF step = "done" THEN seen ELSE seen \cup {world'}
      /\ changes < MaxChanges /\ changes' = changes + 1 /\ world' # world
      /\ UNCHANGED <<failures, failed, step, slot, at, rest, player, snapshot, cache>>
  BY DEF GameChanges
<1>2. seen \subseteq seen'
  BY <1>1
<1>3. MomentsOK'
  <2>1. world' \in Moment
    BY GameStaysGame
  <2>2. changes' \in 0 .. MaxChanges
    BY <1>1, SlotNames DEF MomentsOK
  <2> QED BY <1>1, <2>1, <2>2 DEF MomentsOK
<1>4. AtPlayers' <=> AtPlayers
  BY <1>1 DEF AtPlayers
<1>5. ReadingOK'
  BY <1>1, <1>4 DEF ReadingOK, Typed
<1>6. Witnessed'
  <2>1. /\ \A p : Shown(p) => Shown(p)'
        /\ \A s, x : OnTheWay(s, x) => OnTheWay(s, x)'
        /\ \A c, p : Reached(c, p) => Reached(c, p)'
        /\ \A p : Sighted(p) => Sighted(p)'
        /\ MatrixSeen => MatrixSeen'
    BY <1>1, <1>2, SeenStays
  <2>2. Shown(player)' /\ Shown(snapshot.local)'
    BY <1>1, <1>2 DEF Witnessed, Shown
  <2>3. OnTheWay(step, at)'
    BY <1>1, <1>2, <2>1 DEF Witnessed, OnTheWay
  <2>4. step' = "fields" /\ AtPlayers' => Reached(slot, player.pawn)' /\ Sighted(player.pawn)'
    BY <1>1, <1>2, <1>4, <2>1 DEF Witnessed, Reached, Handled, Sighted
  <2> QED BY <1>1, <1>2, <2>1, <2>2, <2>3, <2>4 DEF Witnessed
<1>7. Fetched'
  BY <1>1, <1>2 DEF Fetched, Among, Whose, AtPlayers
<1>8. ListOK'
  <2>1. /\ \A p : Shown(p) => Shown(p)'
        /\ \A p : Sighted(p) => Sighted(p)'
        /\ \A c, p : Reached(c, p) => Reached(c, p)'
    BY <1>1, <1>2, SeenStays
  <2>2. \A p : ListedOK(p) => ListedOK(p)'
    BY <1>1, <2>1 DEF ListedOK
  <2>3. \A p, q : InOrder(p, q) => InOrder(p, q)'
    BY <2>1 DEF InOrder
  <2>4. /\ \A k \in DOMAIN snapshot.others :
             /\ ListedOK(snapshot.others[k])
             /\ \E c \in Slots : Reached(c, snapshot.others[k].pawn) /\ (step # "done" => c < slot)
        /\ \A j, k \in DOMAIN snapshot.others :
             j < k => InOrder(snapshot.others[j], snapshot.others[k])
    BY DEF ListOK
  <2>5. \A k \in DOMAIN snapshot.others :
          \A p : p = snapshot.others[k] => ListedOK(p)'
    BY <2>2, <2>4
  <2>6. \A k \in DOMAIN snapshot.others : \E c \in Slots :
          /\ (step # "done" => c < slot)
          /\ \A p : p = snapshot.others[k].pawn => Reached(c, p)'
    BY <2>1, <2>4
  <2>7. \A j, k \in DOMAIN snapshot.others :
          j < k => \A p, q : p = snapshot.others[j] /\ q = snapshot.others[k] => InOrder(p, q)'
    BY <2>3, <2>4
  <2> QED BY <1>1, <2>5, <2>6, <2>7 DEF ListOK
<1>9. NobodyMissed'
  BY <1>1, <1>2, <1>4, SeenStays DEF NobodyMissed, Listed
<1>10. ReadyFound'
  <2>1. \A w : StaysReady(w)' => StaysReady(w)
    BY <1>1 DEF StaysReady, MomentsOK, Clean
  <2> QED BY <1>1, <1>4, <2>1 DEF ReadyFound, PointsTo, Alive
<1> QED BY <1>3, <1>5, <1>6, <1>7, <1>8, <1>9, <1>10

-----------------------------------------------------------------------------
(* What a read tells, and how the reader goes on after it.                 *)

LEMMA Told ==
  ASSUME MomentsOK, step # "done", UNCHANGED <<gameVars, seen>>,
         NEW value, NEW fallback, NEW r \in Outcomes(value, fallback), Tell(r)
  PROVE  /\ MomentsOK' /\ world \in seen /\ world \in Moment /\ seen' = seen
         /\ r.value = value \/ r.value = fallback
         /\ failed \subseteq failed'
         /\ Whose \notin failed' => r.value = value
         /\ ~AtPlayers =>
              \A w : StaysReady(w)' => StaysReady(w) /\ w = world /\ r.value = value
<1>1. /\ r.value = value \/ r.value = fallback
      /\ r.failures \in 0 .. MaxFailures
      /\ failed \subseteq r.failed
      /\ Whose \notin r.failed => r.value = value
  <2>1. failures \in 0 .. MaxFailures
    BY DEF MomentsOK
  <2>2. CASE r = [value |-> value, failures |-> failures, failed |-> failed]
    BY <2>1, <2>2
  <2>3. CASE \E f \in 0 .. MaxFailures :
               r = [value |-> fallback, failures |-> f, failed |-> failed \cup {Whose}]
    BY <2>3
  <2> QED BY <2>2, <2>3 DEF Outcomes
<1>2. /\ world' = world /\ changes' = changes /\ seen' = seen
      /\ failures' = r.failures /\ failed' = r.failed
  BY DEF gameVars, Tell
<1>3. MomentsOK' /\ world \in seen /\ world \in Moment
  BY <1>1, <1>2 DEF MomentsOK
<1>4. failed \subseteq failed' /\ (Whose \notin failed' => r.value = value)
  BY <1>1, <1>2
<1>5. ASSUME ~AtPlayers, NEW w, StaysReady(w)'
      PROVE  StaysReady(w) /\ w = world /\ r.value = value
  <2>1. Whose = Nil /\ Nil \notin failed'
    BY <1>5 DEF Whose, StaysReady, Clean
  <2> QED BY <1>2, <1>3, <1>4, <1>5, <2>1 DEF StaysReady, Clean
<1> QED BY <1>1, <1>2, <1>3, <1>4, <1>5

\* The pointer leads on.
LEMMA FollowKeepsSnapshotInv ==
  ASSUME SnapshotInv, MomentsOK', seen' = seen, failed \subseteq failed',
         cache' \in Places \cup {Nil},
         NEW s, NEW x, Follow(s, x),
         step \in EarlySteps \cup ViewSteps \cup SlotSteps, step # "path",
         s # "path",
         \/ s \in EarlySteps /\ step \in EarlySteps
         \/ s \in ViewSteps /\ step \in ViewSteps
         \/ s \in SlotSteps /\ step \in SlotSteps,
         Typed(s, x), OnTheWay(s, x), \A w : StaysReady(w)' => PointsTo(w, s, x)
  PROVE  SnapshotInv'
<1> USE DEF SnapshotInv
<1>1. step' = s /\ at' = x /\ UNCHANGED <<slot, rest, player, snapshot>>
  BY DEF Follow
<1>2. /\ step \notin {"fields", "done"} /\ s \notin {"fields", "done"}
      /\ AtPlayers' <=> AtPlayers
      /\ step' \in EarlySteps <=> step \in EarlySteps
  BY <1>1 DEF AtPlayers, EarlySteps, ViewSteps, SlotSteps
<1>3. ReadingOK'
  <2>1. Typed(step, at)'
    BY <1>1 DEF Typed
  <2>2. /\ step' \in {"done", "fields"} \cup EarlySteps \cup ViewSteps \cup SlotSteps
        /\ slot' \in Slots /\ cache' \in Places \cup {Nil}
        /\ rest' \in Seq(FieldNames) /\ (rest' # <<>> <=> step' = "fields")
    BY <1>1, <1>2 DEF ReadingOK
  <2>3. /\ player' \in Player
        /\ IF step' = "fields" THEN player'.pawn \in Pawns ELSE player' = NoPlayer
    BY <1>1, <1>2 DEF ReadingOK
  <2>4. /\ snapshot' \in Snapshots
        /\ step' \in EarlySteps => snapshot'.pawn = Nil /\ snapshot'.local = NoPlayer
        /\ step' \notin EarlySteps \cup {"done"} => snapshot'.pawn \in Pawns
        /\ ~AtPlayers' /\ step' # "done" => snapshot'.others = <<>>
        /\ snapshot'.local = NoPlayer \/ snapshot'.local.pawn = snapshot'.pawn
    BY <1>1, <1>2 DEF ReadingOK
  <2> QED BY <2>1, <2>2, <2>3, <2>4 DEF ReadingOK
<1>4. Witnessed'
  <2>1. /\ snapshot'.map = "real" => \E w \in seen' : "real" \in {w.name, w.path}
        /\ snapshot'.matrix => MatrixSeen'
    BY <1>1, SeenSame DEF Witnessed
  <2>2. Shown(player)' /\ Shown(snapshot.local)'
    BY <1>1 DEF Witnessed, Shown
  <2>3. OnTheWay(step, at)'
    BY <1>1, SeenSame DEF OnTheWay, Reached, Handled
  <2> QED BY <1>1, <1>2, <2>1, <2>2, <2>3 DEF Witnessed
<1>5. Fetched'
  BY <1>1, <1>2 DEF Fetched
<1>6. ListOK'
  BY <1>1, <1>2 DEF ListOK, ListedOK, InOrder, Reached, Handled, Sighted, Shown
<1>7. NobodyMissed'
  BY <1>1, <1>2, SeenSame DEF NobodyMissed, Listed
<1>8. ReadyFound'
  <2>1. \A w : StaysReady(w)' => StaysReady(w)
    BY DEF StaysReady, Clean
  <2> QED BY <1>1, <1>2, <2>1 DEF ReadyFound, Alive
<1> QED BY <1>3, <1>4, <1>5, <1>6, <1>7, <1>8

\* There is no local pawn, which is never so while a game stays ready.
LEMMA EndsKeepsSnapshotInv ==
  ASSUME SnapshotInv, MomentsOK', seen' = seen, failed \subseteq failed', cache' = cache,
         Ends, step \in EarlySteps, \A w : ~StaysReady(w)'
  PROVE  SnapshotInv'
<1> USE DEF SnapshotInv
<1>1. /\ step' = "done" /\ slot' = 1 /\ UNCHANGED <<rest, player, snapshot>>
      /\ step \notin {"fields", "done"} /\ ~AtPlayers /\ ~AtPlayers'
      /\ step' \notin EarlySteps
  BY DEF Ends, EarlySteps, SlotSteps, AtPlayers
<1>2. snapshot.others = <<>> /\ snapshot.pawn = Nil /\ player = NoPlayer
  BY <1>1 DEF ReadingOK
<1>3. ReadingOK'
  <2>1. Typed(step, at)'
    BY <1>1 DEF Typed
  <2> QED BY <1>1, <2>1, SlotNames DEF ReadingOK
<1>4. Witnessed'
  <2>1. Shown(player)' /\ Shown(snapshot.local)' /\ OnTheWay(step, at)'
    BY <1>1 DEF Witnessed, Shown, OnTheWay
  <2> QED BY <1>1, <2>1, SeenSame DEF Witnessed
<1>5. Fetched' /\ ListOK' /\ NobodyMissed' /\ ReadyFound'
  BY <1>1, <1>2 DEF Fetched, ListOK, NobodyMissed, ReadyFound
<1> QED BY <1>3, <1>4, <1>5

\* The view matrix was read or not; the local player's fields are next.
LEMMA ViewDoneKeepsSnapshotInv ==
  ASSUME SnapshotInv, MomentsOK', seen' = seen, failed \subseteq failed',
         cache' \in Places \cup {Nil}, NEW matrix \in BOOLEAN, ViewDone(matrix),
         step \in ViewSteps, matrix => MatrixSeen, \A w : StaysReady(w)' => matrix
  PROVE  SnapshotInv'
<1> USE DEF SnapshotInv
<1> DEFINE new == [NoPlayer EXCEPT !.pawn = snapshot.pawn]
<1>1. /\ step' = "fields" /\ at' = Nil /\ slot' = slot
      /\ rest' = <<"origin", "health", "team", "life">>
      /\ snapshot' = [snapshot EXCEPT !.matrix = matrix] /\ player' = new
      /\ step \notin EarlySteps \cup {"fields", "done", "path"} /\ ~AtPlayers
  BY DEF ViewDone, EarlySteps, SlotSteps, ViewSteps, AtPlayers
<1>2. /\ snapshot \in Snapshots /\ snapshot.pawn \in Pawns /\ snapshot.others = <<>>
      /\ snapshot.local = NoPlayer \/ snapshot.local.pawn = snapshot.pawn
  BY <1>1 DEF ReadingOK
<1>3. /\ snapshot' \in Snapshots /\ snapshot'.pawn = snapshot.pawn
      /\ snapshot'.map = snapshot.map /\ snapshot'.local = snapshot.local
      /\ snapshot'.others = <<>> /\ snapshot'.matrix = matrix
  BY <1>1, <1>2 DEF Snapshots
<1>4. /\ new \in Player /\ new.pawn = snapshot.pawn /\ new.origin = "null"
      /\ \A f \in Fields : ~new[f]
  BY <1>2, Empty DEF Player, Fields
<1> HIDE DEF new
<1>5. ~AtPlayers' /\ step' \notin EarlySteps
  BY <1>1, <1>3, <1>4 DEF AtPlayers, SlotSteps, EarlySteps
<1>6. rest' \in Seq(FieldNames) /\ rest' # <<>>
  BY <1>1 DEF FieldNames, Fields
<1>7. \A f \in FieldNames : Among(f, rest)'
  <2>1. /\ 1 \in DOMAIN rest' /\ 2 \in DOMAIN rest' /\ 3 \in DOMAIN rest' /\ 4 \in DOMAIN rest'
        /\ rest'[1] = "origin" /\ rest'[2] = "health" /\ rest'[3] = "team" /\ rest'[4] = "life"
    BY <1>1
  <2> QED BY <2>1 DEF Among, FieldNames, Fields
<1>8. ReadingOK'
  <2>1. Typed(step, at)'
    BY <1>1 DEF Typed
  <2> QED BY <1>1, <1>2, <1>3, <1>4, <1>5, <1>6, <2>1 DEF ReadingOK
<1>9. Witnessed'
  <2>1. Shown(player)'
    BY <1>1, <1>4 DEF Shown
  <2>2. Shown(snapshot.local)'
    BY <1>3 DEF Witnessed, Shown
  <2>3. OnTheWay(step, at)'
    BY <1>1 DEF OnTheWay
  <2> QED BY <1>3, <1>5, <2>1, <2>2, <2>3, SeenSame DEF Witnessed
<1>10. Fetched'
  BY <1>7 DEF Fetched
<1>11. ListOK' /\ NobodyMissed'
  BY <1>1, <1>3, <1>5 DEF ListOK, NobodyMissed
<1>12. ReadyFound'
  <2>1. \A w : StaysReady(w)' => StaysReady(w)
    BY DEF StaysReady, Clean
  <2> QED BY <1>1, <1>3, <1>5, <2>1 DEF ReadyFound, PointsTo
<1> QED BY <1>8, <1>9, <1>10, <1>11, <1>12

\* A slot is done with, and the list is o.
LEMMA NextSlotKeepsSnapshotInv ==
  ASSUME SnapshotInv, MomentsOK', seen' = seen, failed \subseteq failed', cache' = cache,
         AtPlayers, NEW o \in Seq(Player), NextSlot(o),
         \A k \in DOMAIN o : /\ ListedOK(o[k])
                             /\ \E c \in Slots : Reached(c, o[k].pawn) /\ c <= slot,
         \A j, k \in DOMAIN o : j < k => InOrder(o[j], o[k]),
         \A c \in Slots \ failed', i \in Indices, p \in Pawns \ {snapshot.pawn} :
           Steady(c, i, p) /\ c <= slot => \E k \in DOMAIN o : o[k].pawn = p
  PROVE  SnapshotInv'
<1> USE DEF SnapshotInv
<1>1. /\ snapshot' = [snapshot EXCEPT !.others = o]
      /\ rest' = <<>> /\ player' = NoPlayer /\ at' = Nil
      /\ \/ slot < NumSlots /\ step' = "slot" /\ slot' = slot + 1
         \/ slot = NumSlots /\ step' = "done" /\ slot' = 1
  BY SlotNames DEF NextSlot, ReadingOK, Slots
<1>2. step # "done" /\ step # "path" /\ step \notin EarlySteps
  BY DEF AtPlayers, EarlySteps, SlotSteps
<1>3. /\ snapshot \in Snapshots /\ snapshot.pawn \in Pawns /\ slot \in Slots /\ slot \in Nat
      /\ snapshot.local = NoPlayer \/ snapshot.local.pawn = snapshot.pawn
  BY <1>2 DEF ReadingOK, Slots
<1>4. /\ snapshot' \in Snapshots /\ snapshot'.pawn = snapshot.pawn
      /\ snapshot'.map = snapshot.map /\ snapshot'.local = snapshot.local
      /\ snapshot'.others = o /\ snapshot'.matrix = snapshot.matrix
  BY <1>1, <1>3 DEF Snapshots
<1>5. /\ AtPlayers' <=> step' = "slot"
      /\ step' \notin EarlySteps /\ step' \notin {"fields", "path"}
      /\ step' \in SlotSteps \cup {"done"}
  BY <1>1 DEF AtPlayers, EarlySteps, SlotSteps
<1>6. slot' \in Slots
  BY <1>1, <1>3, SlotNames DEF Slots
<1>7. ReadingOK'
  <2>1. Typed(step, at)'
    BY <1>1 DEF Typed
  <2>2. rest' \in Seq(FieldNames)
    BY <1>1
  <2> QED BY <1>1, <1>3, <1>4, <1>5, <1>6, <2>1, <2>2, Empty DEF ReadingOK
<1>8. Witnessed'
  <2>1. Shown(player)'
    BY <1>1, Empty DEF Shown
  <2>2. Shown(snapshot.local)'
    BY <1>4 DEF Witnessed, Shown
  <2>3. OnTheWay(step, at)'
    BY <1>1 DEF OnTheWay
  <2> QED BY <1>4, <1>5, <2>1, <2>2, <2>3, SeenSame DEF Witnessed
<1>9. Fetched'
  BY <1>5 DEF Fetched
<1>10. ListOK'
  <2>1. /\ \A p : ListedOK(p)' <=> ListedOK(p)
        /\ \A p, q : InOrder(p, q)' <=> InOrder(p, q)
        /\ \A c, p : Reached(c, p)' <=> Reached(c, p)
    BY <1>4, SeenSame DEF ListedOK
  <2>2. \A c \in Slots : c <= slot => (step' # "done" => c < slot')
    BY <1>1, <1>3, SlotNames
  <2>3. \A k \in DOMAIN o : \A p : p = o[k] => ListedOK(p)'
    BY <2>1
  <2>4. \A k \in DOMAIN o : \E c \in Slots :
          /\ (step' # "done" => c < slot')
          /\ \A p : p = o[k].pawn => Reached(c, p)'
    BY <2>1, <2>2
  <2>5. \A j, k \in DOMAIN o : j < k => \A p, q : p = o[j] /\ q = o[k] => InOrder(p, q)'
    BY <2>1
  <2> QED BY <1>4, <2>3, <2>4, <2>5 DEF ListOK
<1>11. NobodyMissed'
  <2>1. \A c \in Slots : c < slot' /\ step' = "slot" => c <= slot
    BY <1>1, <1>3, SlotNames
  <2>2. \A c \in Slots : step' = "done" => c <= slot
    BY <1>1 DEF Slots
  <2> QED BY <1>4, <1>5, <2>1, <2>2, SeenSame DEF NobodyMissed, Listed
<1>12. ReadyFound'
  <2>1. \A w : StaysReady(w)' => StaysReady(w)
    BY DEF StaysReady, Clean
  <2>2. \A w : PointsTo(w, step, at)'
    BY <1>1 DEF PointsTo
  <2> QED BY <1>2, <1>4, <1>5, <2>1, <2>2 DEF ReadyFound, Alive
<1> QED BY <1>7, <1>8, <1>9, <1>10, <1>11, <1>12

\* A slot is skipped whose player was not there all the time, or could not be read.
LEMMA SkipKeepsSnapshotInv ==
  ASSUME SnapshotInv, MomentsOK', seen' = seen, failed \subseteq failed', cache' = cache,
         AtPlayers, Skip,
         slot \notin failed' =>
           \A i \in Indices, p \in Pawns \ {snapshot.pawn} : ~Steady(slot, i, p)
  PROVE  SnapshotInv'
<1> DEFINE o == snapshot.others
<1>1. o \in Seq(Player) /\ NextSlot(o) /\ slot \in Nat /\ step # "done" /\ snapshot.pawn # Nil
  BY SlotNames DEF SnapshotInv, ReadingOK, Snapshots, Skip, Slots, AtPlayers, SlotSteps, EarlySteps
<1>2. \A k \in DOMAIN o : /\ ListedOK(o[k])
                          /\ \E c \in Slots : Reached(c, o[k].pawn) /\ c <= slot
  BY <1>1, SlotNames DEF SnapshotInv, ListOK
<1>3. \A j, k \in DOMAIN o : j < k => InOrder(o[j], o[k])
  BY DEF SnapshotInv, ListOK
<1>4. \A c \in Slots \ failed', i \in Indices, p \in Pawns \ {snapshot.pawn} :
        Steady(c, i, p) /\ c <= slot => \E k \in DOMAIN o : o[k].pawn = p
  <2>1. \A c \in Slots : c <= slot => c < slot \/ c = slot
    BY <1>1, SlotNames
  <2> QED BY <1>1, <2>1 DEF SnapshotInv, NobodyMissed, Listed
<1> HIDE DEF o
<1> QED BY <1>1, <1>2, <1>3, <1>4, NextSlotKeepsSnapshotInv

-----------------------------------------------------------------------------
(* The reads.                                                              *)

\* A moment in which the local player is ready leads from the map to the view object.
LEMMA WhenReady ==
  ASSUME NEW w \in Moment, ReadyAt(w)
  PROVE  /\ w.name = "null" \/ w.name = "real"
         /\ w.name = "null" => w.path = "real"
         /\ w.local \in Slots /\ w.handle[w.local] \in Indices
         /\ LocalAt(w) = w.table[w.handle[w.local]] /\ LocalAt(w) \in Pawns
         /\ w.pawn[LocalAt(w)].origin = "good"
         /\ \A f \in Fields : w.pawn[LocalAt(w)][f]
         /\ w.view \in Places /\ w.near /\ w.left = {}
<1>1. w.local \in Slots /\ w.handle[w.local] \in Indices /\ LocalAt(w) = w.table[w.handle[w.local]]
  BY PawnFields DEF ReadyAt, LocalAt
<1>2. LocalAt(w) \in Pawns /\ w.view \in Places
  BY <1>1, PawnFields DEF ReadyAt
<1> QED BY <1>1, <1>2 DEF ReadyAt, MapAt

LEMMA ReadNameKeepsSnapshotInv == SnapshotInv /\ ReadName => SnapshotInv'
<1> SUFFICES ASSUME SnapshotInv, ReadName PROVE SnapshotInv'
  OBVIOUS
<1> USE DEF SnapshotInv
<1>0. PICK fallback \in {"null", "no_client"} :
        \E r \in Outcomes(world.name, fallback) :
          /\ failures' = r.failures /\ failed' = (IF r.failures = failures THEN {} ELSE {Nil})
          /\ snapshot' = [NoSnapshot EXCEPT !.map = r.value]
          /\ step' = IF r.value = "null" THEN "path" ELSE "controller"
  BY DEF ReadName
<1>1. PICK r \in Outcomes(world.name, fallback) :
        /\ failures' = r.failures /\ failed' = (IF r.failures = failures THEN {} ELSE {Nil})
        /\ snapshot' = [NoSnapshot EXCEPT !.map = r.value]
        /\ step' = IF r.value = "null" THEN "path" ELSE "controller"
  BY <1>0
<1>2. /\ step = "done" /\ seen' = {world} /\ world' = world /\ changes' = changes
      /\ UNCHANGED <<slot, at, rest, player, cache>>
      /\ world \in Moment /\ failures \in 0 .. MaxFailures
  BY DEF ReadName, gameVars, MomentsOK
<1>3. /\ r.failures \in 0 .. MaxFailures /\ r.value \in Strings \cup {"no_client"}
      /\ r.value # world.name => r.failures # failures /\ r.value # "real"
  <2>1. world.name \in Strings \cup {"no_client"}
    BY <1>2, PawnFields
  <2>2. CASE r = [value |-> world.name, failures |-> failures, failed |-> failed]
    BY <1>2, <2>1, <2>2
  <2>3. CASE \E f \in {failures + 1} \cap 0 .. MaxFailures :
               r = [value |-> fallback, failures |-> f, failed |-> failed \cup {Whose}]
    <3>1. failures + 1 # failures
      BY <1>2, SlotNames
    <3>2. /\ r.failures \in 0 .. MaxFailures /\ r.failures # failures /\ r.value = fallback
      BY <2>3, <3>1
    <3> QED BY <1>0, <3>2 DEF Strings
  <2> QED BY <1>1, <2>2, <2>3 DEF Outcomes
<1>4. MomentsOK'
  BY <1>1, <1>2, <1>3 DEF MomentsOK
<1>5. /\ snapshot' \in Snapshots /\ snapshot'.others = <<>> /\ snapshot'.local = NoPlayer
      /\ snapshot'.pawn = Nil /\ snapshot'.matrix = FALSE /\ snapshot'.map = r.value
  BY <1>1, <1>3, Empty DEF Snapshots
<1>6. step' \in {"path", "controller"} /\ rest = <<>> /\ player = NoPlayer
  BY <1>1, <1>2 DEF ReadingOK
<1>7. ~AtPlayers' /\ step' \in EarlySteps
  BY <1>6 DEF AtPlayers, SlotSteps, EarlySteps
<1>8. ReadingOK'
  <2>1. Typed(step, at)'
    BY <1>6 DEF Typed
  <2> QED BY <1>2, <1>5, <1>6, <1>7, <2>1 DEF ReadingOK
<1>9. Witnessed'
  <2>1. Shown(player)'
    BY <1>2, <1>6, Empty DEF Shown
  <2>2. Shown(snapshot.local)'
    BY <1>5, Empty DEF Shown
  <2>3. OnTheWay(step, at)'
    BY <1>6 DEF OnTheWay
  <2>4. snapshot'.map = "real" => \E w \in seen' : "real" \in {w.name, w.path}
    BY <1>2, <1>3, <1>5
  <2> QED BY <1>5, <1>7, <1>6, <2>1, <2>2, <2>3, <2>4 DEF Witnessed
<1>10. Fetched' /\ ListOK' /\ NobodyMissed'
  <2>1. step' # "fields"
    BY <1>6
  <2> QED BY <1>5, <2>1 DEF Fetched, ListOK, NobodyMissed
<1>11. ReadyFound'
  <2>1. SUFFICES ASSUME NEW w, StaysReady(w)'
                 PROVE  /\ PointsTo(w, step', at')
                        /\ IF step' = "path" THEN w.name = "null" ELSE snapshot'.map = "real"
    BY <1>6, <1>7 DEF ReadyFound, EarlySteps
  <2>2. w = world /\ ReadyAt(w) /\ r.value = world.name
    BY <1>1, <1>2, <1>3, <2>1 DEF StaysReady, Clean
  <2>3. PointsTo(w, step', at')
    BY <1>6 DEF PointsTo
  <2> QED BY <1>1, <1>2, <1>5, <2>2, <2>3, WhenReady
<1> QED BY <1>4, <1>8, <1>9, <1>10, <1>11

LEMMA ReadPathKeepsSnapshotInv == SnapshotInv /\ ReadPath => SnapshotInv'
<1> SUFFICES ASSUME SnapshotInv, ReadPath PROVE SnapshotInv'
  OBVIOUS
<1> USE DEF SnapshotInv
<1>1. PICK r \in Outcomes(world.path, "null") :
        Tell(r) /\ snapshot' = [snapshot EXCEPT !.map = r.value]
  BY DEF ReadPath
<1>2. /\ step = "path" /\ step' = "controller" /\ UNCHANGED <<gameVars, seen>>
      /\ UNCHANGED <<slot, at, rest, player, cache>>
  BY DEF ReadPath
<1>3. /\ MomentsOK' /\ world \in seen /\ world \in Moment /\ seen' = seen
      /\ r.value = world.path \/ r.value = "null"
      /\ \A w : StaysReady(w)' => StaysReady(w) /\ w = world /\ r.value = world.path
  BY <1>1, <1>2, Told DEF AtPlayers, SlotSteps
<1>4. r.value \in Strings
  BY <1>3, PawnFields DEF Strings
<1>5. /\ snapshot \in Snapshots /\ snapshot.others = <<>> /\ snapshot.local = NoPlayer
      /\ snapshot.pawn = Nil /\ rest = <<>> /\ player = NoPlayer
  BY <1>2 DEF ReadingOK, AtPlayers, EarlySteps, SlotSteps
<1>6. /\ snapshot' \in Snapshots /\ snapshot'.others = <<>> /\ snapshot'.local = NoPlayer
      /\ snapshot'.pawn = Nil /\ snapshot'.matrix = snapshot.matrix /\ snapshot'.map = r.value
  BY <1>1, <1>4, <1>5 DEF Snapshots
<1>7. ~AtPlayers' /\ step' \in EarlySteps
  BY <1>2 DEF AtPlayers, SlotSteps, EarlySteps
<1>8. ReadingOK'
  <2>1. Typed(step, at)'
    BY <1>2 DEF Typed
  <2> QED BY <1>2, <1>5, <1>6, <1>7, <2>1 DEF ReadingOK
<1>9. Witnessed'
  <2>1. Shown(player)' /\ Shown(snapshot.local)'
    BY <1>2, <1>5, <1>6, Empty DEF Shown
  <2>2. OnTheWay(step, at)'
    BY <1>2 DEF OnTheWay
  <2>3. snapshot'.map = "real" => \E w \in seen' : "real" \in {w.name, w.path}
    BY <1>3, <1>6
  <2> QED BY <1>2, <1>6, <2>1, <2>2, <2>3, SeenSame DEF Witnessed
<1>10. Fetched' /\ ListOK' /\ NobodyMissed'
  BY <1>2, <1>6 DEF Fetched, ListOK, NobodyMissed
<1>11. ReadyFound'
  <2>1. SUFFICES ASSUME NEW w, StaysReady(w)'
                 PROVE  PointsTo(w, step', at') /\ snapshot'.map = "real"
    BY <1>2, <1>7 DEF ReadyFound, EarlySteps
  <2>2. w = world /\ ReadyAt(w) /\ r.value = world.path /\ world.name = "null"
    BY <1>2, <1>3, <2>1 DEF StaysReady, ReadyFound
  <2>3. PointsTo(w, step', at')
    BY <1>2 DEF PointsTo
  <2> QED BY <1>3, <1>6, <2>2, <2>3, WhenReady
<1> QED BY <1>3, <1>8, <1>9, <1>10, <1>11

LEMMA ReadControllerKeepsSnapshotInv == SnapshotInv /\ ReadController => SnapshotInv'
<1> SUFFICES ASSUME SnapshotInv, ReadController PROVE SnapshotInv'
  OBVIOUS
<1>1. PICK r \in Outcomes(world.local, Nil) :
        Tell(r) /\ IF r.value = Nil THEN Ends ELSE Follow("handle", r.value)
  BY DEF ReadController
<1>2. /\ step = "controller" /\ UNCHANGED <<gameVars, seen>> /\ cache' = cache
      /\ cache \in Places \cup {Nil}
  BY DEF ReadController, SnapshotInv, ReadingOK
<1>3. /\ MomentsOK' /\ world \in seen /\ world \in Moment /\ seen' = seen
      /\ r.value = world.local \/ r.value = Nil
      /\ failed \subseteq failed'
      /\ \A w : StaysReady(w)' => StaysReady(w) /\ w = world /\ r.value = world.local
  BY <1>1, <1>2, Told DEF SnapshotInv, AtPlayers, SlotSteps
<1>4. \A w : StaysReady(w)' => r.value = w.local /\ r.value \in Slots
  BY <1>3, WhenReady DEF StaysReady
<1>5. CASE r.value = Nil
  <2>1. Ends /\ \A w : ~StaysReady(w)'
    BY <1>1, <1>4, <1>5, SlotNames
  <2> QED BY <1>2, <1>3, <2>1, EndsKeepsSnapshotInv DEF EarlySteps
<1>6. CASE r.value # Nil
  <2>1. Typed("handle", r.value) /\ OnTheWay("handle", r.value)
    BY <1>3, <1>6, PawnFields DEF Typed, OnTheWay
  <2>2. \A w : StaysReady(w)' => PointsTo(w, "handle", r.value)
    BY <1>4 DEF PointsTo
  <2>3. Follow("handle", r.value)
    BY <1>1, <1>6
  <2> QED BY <1>2, <1>3, <2>1, <2>2, <2>3, FollowKeepsSnapshotInv DEF EarlySteps
<1> QED BY <1>5, <1>6

LEMMA ReadHandleKeepsSnapshotInv == SnapshotInv /\ ReadHandle => SnapshotInv'
<1> SUFFICES ASSUME SnapshotInv, ReadHandle PROVE SnapshotInv'
  OBVIOUS
<1>1. PICK r \in Outcomes(world.handle[at], Nil) :
        Tell(r) /\ IF r.value = Nil THEN Ends ELSE Follow("pawn", r.value)
  BY DEF ReadHandle
<1>2. /\ step = "handle" /\ UNCHANGED <<gameVars, seen>> /\ cache' = cache
      /\ cache \in Places \cup {Nil} /\ at \in Slots
  BY DEF ReadHandle, SnapshotInv, ReadingOK, Typed
<1>3. /\ MomentsOK' /\ world \in seen /\ world \in Moment /\ seen' = seen
      /\ r.value = world.handle[at] \/ r.value = Nil
      /\ failed \subseteq failed'
      /\ \A w : StaysReady(w)' => StaysReady(w) /\ w = world /\ r.value = world.handle[at]
  BY <1>1, <1>2, Told DEF SnapshotInv, AtPlayers, SlotSteps
<1>4. \A w : StaysReady(w)' => r.value = w.handle[w.local] /\ r.value \in Indices
  BY <1>2, <1>3, WhenReady DEF StaysReady, SnapshotInv, ReadyFound, PointsTo
<1>5. CASE r.value = Nil
  <2>1. Ends /\ \A w : ~StaysReady(w)'
    BY <1>1, <1>4, <1>5, SlotNames
  <2> QED BY <1>2, <1>3, <2>1, EndsKeepsSnapshotInv DEF EarlySteps
<1>6. CASE r.value # Nil
  <2>1. Typed("pawn", r.value) /\ OnTheWay("pawn", r.value)
    BY <1>2, <1>3, <1>6, PawnFields DEF Typed, OnTheWay
  <2>2. \A w : StaysReady(w)' => PointsTo(w, "pawn", r.value)
    BY <1>4 DEF PointsTo
  <2>3. Follow("pawn", r.value)
    BY <1>1, <1>6
  <2> QED BY <1>2, <1>3, <2>1, <2>2, <2>3, FollowKeepsSnapshotInv DEF EarlySteps
<1> QED BY <1>5, <1>6

LEMMA ReadPawnKeepsSnapshotInv == SnapshotInv /\ ReadPawn => SnapshotInv'
<1> SUFFICES ASSUME SnapshotInv, ReadPawn PROVE SnapshotInv'
  OBVIOUS
<1>1. PICK r \in Outcomes(world.table[at], Nil) :
        /\ Tell(r)
        /\ IF r.value = Nil THEN Ends
           ELSE /\ snapshot' = [snapshot EXCEPT !.pawn = r.value]
                /\ step' = "eyes" /\ at' = Nil
                /\ UNCHANGED <<slot, rest, player>>
  BY DEF ReadPawn
<1>2. /\ step = "pawn" /\ UNCHANGED <<gameVars, seen>> /\ cache' = cache
      /\ cache \in Places \cup {Nil} /\ at \in Indices
  BY DEF ReadPawn, SnapshotInv, ReadingOK, Typed
<1>3. /\ MomentsOK' /\ world \in seen /\ world \in Moment /\ seen' = seen
      /\ r.value = world.table[at] \/ r.value = Nil
      /\ failed \subseteq failed'
      /\ \A w : StaysReady(w)' => StaysReady(w) /\ w = world /\ r.value = world.table[at]
  BY <1>1, <1>2, Told DEF SnapshotInv, AtPlayers, SlotSteps
<1>4. \A w : StaysReady(w)' => r.value = LocalAt(w) /\ r.value \in Pawns
  BY <1>2, <1>3, WhenReady DEF StaysReady, SnapshotInv, ReadyFound, PointsTo
<1>5. CASE r.value = Nil
  <2>1. Ends /\ \A w : ~StaysReady(w)'
    BY <1>1, <1>4, <1>5, SlotNames
  <2> QED BY <1>2, <1>3, <2>1, EndsKeepsSnapshotInv DEF EarlySteps
<1>6. CASE r.value # Nil
  <2> USE DEF SnapshotInv
  <2>1. /\ snapshot' = [snapshot EXCEPT !.pawn = r.value]
        /\ step' = "eyes" /\ at' = Nil /\ UNCHANGED <<slot, rest, player>>
        /\ r.value \in Pawns
    BY <1>1, <1>2, <1>3, <1>6, PawnFields
  <2>2. /\ snapshot \in Snapshots /\ snapshot.others = <<>> /\ snapshot.local = NoPlayer
        /\ rest = <<>> /\ player = NoPlayer
    BY <1>2 DEF ReadingOK, AtPlayers, EarlySteps, SlotSteps
  <2>3. /\ snapshot' \in Snapshots /\ snapshot'.others = <<>> /\ snapshot'.local = NoPlayer
        /\ snapshot'.pawn = r.value /\ snapshot'.matrix = snapshot.matrix
        /\ snapshot'.map = snapshot.map
    BY <2>1, <2>2 DEF Snapshots
  <2>4. ~AtPlayers' /\ step' \notin EarlySteps
    BY <2>1 DEF AtPlayers, SlotSteps, EarlySteps
  <2>5. ReadingOK'
    <3>1. Typed(step, at)' /\ step' \in ViewSteps
      BY <2>1 DEF Typed, ViewSteps
    <3> QED BY <1>2, <2>1, <2>2, <2>3, <2>4, <3>1 DEF ReadingOK
  <2>6. Witnessed'
    <3>1. Shown(player)' /\ Shown(snapshot.local)'
      BY <2>1, <2>2, <2>3, Empty DEF Shown
    <3>2. OnTheWay(step, at)'
      BY <2>1 DEF OnTheWay
    <3> QED BY <1>3, <2>1, <2>3, <3>1, <3>2, SeenSame DEF Witnessed
  <2>7. Fetched' /\ ListOK' /\ NobodyMissed'
    BY <2>1, <2>3, <2>4 DEF Fetched, ListOK, NobodyMissed
  <2>8. ReadyFound'
    <3>1. SUFFICES ASSUME NEW w, StaysReady(w)'
                   PROVE  /\ PointsTo(w, step', at') /\ snapshot'.map = "real"
                          /\ snapshot'.pawn = LocalAt(w)
      BY <2>1, <2>4 DEF ReadyFound
    <3>2. PointsTo(w, step', at')
      BY <2>1 DEF PointsTo
    <3> QED BY <1>2, <1>3, <1>4, <2>3, <3>1, <3>2 DEF ReadyFound
  <2> QED BY <1>3, <2>5, <2>6, <2>7, <2>8
<1> QED BY <1>5, <1>6

\* While the game stays ready there is only the view object to be found.
LEMMA ViewWhenReady ==
  ASSUME SnapshotInv, step # "done", NEW w, StaysReady(w)
  PROVE  /\ w = world /\ world \in Moment /\ ReadyAt(world)
         /\ world.view \in Places /\ world.near
         /\ \A x : HoldsVtable(x) <=> x = world.view
<1>1. w = world /\ world \in Moment /\ ReadyAt(world)
  BY DEF SnapshotInv, MomentsOK, StaysReady
<1>2. world.view \in Places /\ world.near /\ world.left = {}
  BY <1>1, WhenReady
<1> QED BY <1>1, <1>2 DEF HoldsVtable

LEMMA ReadEyesKeepsSnapshotInv == SnapshotInv /\ ReadEyes => SnapshotInv'
<1> SUFFICES ASSUME SnapshotInv, ReadEyes PROVE SnapshotInv'
  OBVIOUS
<1>1. PICK r \in Outcomes(world.pawn[snapshot.pawn].origin, "null") :
        /\ Tell(r)
        /\ IF r.value = "null" THEN ViewDone(FALSE)
           ELSE IF cache = Nil THEN Follow("vtable", Nil) ELSE Follow("cached", cache)
  BY DEF ReadEyes
<1>2. /\ step = "eyes" /\ UNCHANGED <<gameVars, seen>> /\ cache' = cache
      /\ cache \in Places \cup {Nil}
  BY DEF ReadEyes, SnapshotInv, ReadingOK
<1>3. /\ MomentsOK' /\ seen' = seen /\ failed \subseteq failed'
  BY <1>1, <1>2, Told DEF SnapshotInv, AtPlayers, SlotSteps
<1>4. ASSUME NEW w, StaysReady(w)' PROVE StaysReady(w) /\ r.value = "good"
  <2>1. StaysReady(w) /\ w = world /\ r.value = world.pawn[snapshot.pawn].origin
    BY <1>1, <1>2, <1>4, Told DEF SnapshotInv, AtPlayers, SlotSteps
  <2>2. snapshot.pawn = LocalAt(w)
    BY <1>2, <2>1 DEF SnapshotInv, ReadyFound, EarlySteps
  <2> QED BY <1>2, <2>1, <2>2, ViewWhenReady, WhenReady
<1>5. CASE r.value = "null"
  <2>1. ViewDone(FALSE) /\ \A w : StaysReady(w)' => FALSE
    BY <1>1, <1>4, <1>5
  <2> QED BY <1>2, <1>3, <2>1, ViewDoneKeepsSnapshotInv DEF ViewSteps
<1>6. CASE r.value # "null" /\ cache = Nil
  <2>1. Typed("vtable", Nil) /\ OnTheWay("vtable", Nil)
    BY DEF Typed, OnTheWay
  <2>2. \A w : PointsTo(w, "vtable", Nil)
    BY DEF PointsTo
  <2>3. Follow("vtable", Nil)
    BY <1>1, <1>6
  <2> QED BY <1>2, <1>3, <2>1, <2>2, <2>3, FollowKeepsSnapshotInv DEF ViewSteps
<1>7. CASE r.value # "null" /\ cache # Nil
  <2>1. Typed("cached", cache) /\ OnTheWay("cached", cache)
    BY <1>2, <1>7 DEF Typed, OnTheWay
  <2>2. \A w : PointsTo(w, "cached", cache)
    BY DEF PointsTo
  <2>3. Follow("cached", cache)
    BY <1>1, <1>7
  <2> QED BY <1>2, <1>3, <2>1, <2>2, <2>3, FollowKeepsSnapshotInv DEF ViewSteps
<1> QED BY <1>5, <1>6, <1>7

\* What a read of the vtable pointer at x, or of its class, tells.
LEMMA VtableTold ==
  ASSUME SnapshotInv, step \in {"cached", "search", "class"}, UNCHANGED <<gameVars, seen>>,
         NEW r \in Outcomes(HoldsVtable(at), FALSE), Tell(r)
  PROVE  /\ MomentsOK' /\ seen' = seen /\ failed \subseteq failed'
         /\ at \in Places
         /\ r.value => \E w \in seen : at = w.view \/ at \in w.left
         /\ \A w : StaysReady(w)' => StaysReady(w) /\ w.view \in Places /\ (r.value <=> at = w.view)
<1>1. /\ MomentsOK' /\ world \in seen /\ seen' = seen /\ failed \subseteq failed'
      /\ r.value = HoldsVtable(at) \/ r.value = FALSE
      /\ \A w : StaysReady(w)' => StaysReady(w) /\ w = world /\ r.value = HoldsVtable(at)
  BY Told DEF SnapshotInv, AtPlayers, SlotSteps
<1>2. at \in Places
  BY DEF SnapshotInv, ReadingOK, Typed
<1>3. r.value => HoldsVtable(at)
  <2>1. r.value = HoldsVtable(at) \/ r.value = FALSE
    BY <1>1
  <2>2. CASE r.value = HoldsVtable(at)
    BY <2>2
  <2>3. CASE r.value = FALSE
    BY <2>3
  <2> QED BY <2>1, <2>2, <2>3
<1>4. r.value => \E w \in seen : at = w.view \/ at \in w.left
  <2>1. HoldsVtable(at) => at = world.view \/ at \in world.left
    BY DEF HoldsVtable
  <2> QED BY <1>1, <1>3, <2>1
<1>5. ASSUME NEW w, StaysReady(w)'
      PROVE  StaysReady(w) /\ w.view \in Places /\ (r.value <=> at = w.view)
  <2>1. StaysReady(w)
    BY <1>1, <1>5
  <2>2. r.value = HoldsVtable(at)
    BY <1>1, <1>5
  <2>3. w.view \in Places /\ (HoldsVtable(at) <=> at = w.view)
    BY <2>1, ViewWhenReady
  <2>4. r.value <=> HoldsVtable(at)
    BY <2>2
  <2> QED BY <2>1, <2>3, <2>4
<1> QED BY <1>1, <1>2, <1>4, <1>5

LEMMA CheckCachedKeepsSnapshotInv == SnapshotInv /\ CheckCached => SnapshotInv'
<1> SUFFICES ASSUME SnapshotInv, CheckCached PROVE SnapshotInv'
  OBVIOUS
<1>1. PICK r \in Outcomes(HoldsVtable(at), FALSE) :
        Tell(r) /\ IF r.value THEN Follow("camera", at) ELSE Follow("vtable", Nil)
  BY DEF CheckCached
<1>2. /\ step = "cached" /\ UNCHANGED <<gameVars, seen>> /\ cache' = cache
      /\ cache \in Places \cup {Nil}
  BY DEF CheckCached, SnapshotInv, ReadingOK
<1>3. /\ MomentsOK' /\ seen' = seen /\ failed \subseteq failed'
      /\ at \in Places
      /\ r.value => \E w \in seen : at = w.view \/ at \in w.left
      /\ \A w : StaysReady(w)' => (r.value <=> at = w.view)
  BY <1>1, <1>2, VtableTold
<1>4. CASE r.value
  <2>1. Typed("camera", at) /\ OnTheWay("camera", at)
    BY <1>3, <1>4 DEF Typed, OnTheWay
  <2>2. \A w : StaysReady(w)' => PointsTo(w, "camera", at)
    BY <1>3, <1>4 DEF PointsTo
  <2>3. Follow("camera", at)
    BY <1>1, <1>4
  <2> QED BY <1>2, <1>3, <2>1, <2>2, <2>3, FollowKeepsSnapshotInv DEF ViewSteps
<1>5. CASE ~r.value
  <2>1. Typed("vtable", Nil) /\ OnTheWay("vtable", Nil)
    BY DEF Typed, OnTheWay
  <2>2. \A w : PointsTo(w, "vtable", Nil)
    BY DEF PointsTo
  <2>3. Follow("vtable", Nil)
    BY <1>1, <1>5
  <2> QED BY <1>2, <1>3, <2>1, <2>2, <2>3, FollowKeepsSnapshotInv DEF ViewSteps
<1> QED BY <1>4, <1>5

LEMMA FindVtableKeepsSnapshotInv == SnapshotInv /\ FindVtable => SnapshotInv'
<1> SUFFICES ASSUME SnapshotInv, FindVtable PROVE SnapshotInv'
  OBVIOUS
<1>1. PICK r \in Outcomes(TRUE, FALSE) :
        Tell(r) /\ IF r.value THEN Follow("search", 1) ELSE ViewDone(FALSE)
  BY DEF FindVtable
<1>2. /\ step = "vtable" /\ UNCHANGED <<gameVars, seen>> /\ cache' = cache
      /\ cache \in Places \cup {Nil}
  BY DEF FindVtable, SnapshotInv, ReadingOK
<1>3. /\ MomentsOK' /\ seen' = seen /\ failed \subseteq failed'
      /\ \A w : StaysReady(w)' => StaysReady(w) /\ r.value = TRUE
  BY <1>1, <1>2, Told DEF SnapshotInv, AtPlayers, SlotSteps
<1>4. CASE r.value
  <2>1. Typed("search", 1) /\ OnTheWay("search", 1)
    BY SlotNames DEF Typed, OnTheWay, Places
  <2>2. \A w : StaysReady(w)' => PointsTo(w, "search", 1)
    <3>1. \A w : StaysReady(w)' => w.view \in Places
      BY <1>2, <1>3, ViewWhenReady
    <3> QED BY <3>1 DEF PointsTo, Places
  <2>3. Follow("search", 1)
    BY <1>1, <1>4
  <2> QED BY <1>2, <1>3, <2>1, <2>2, <2>3, FollowKeepsSnapshotInv DEF ViewSteps
<1>5. CASE ~r.value
  <2>1. ViewDone(FALSE) /\ \A w : StaysReady(w)' => FALSE
    BY <1>1, <1>3, <1>5
  <2> QED BY <1>2, <1>3, <2>1, ViewDoneKeepsSnapshotInv DEF ViewSteps
<1> QED BY <1>4, <1>5

LEMMA SearchKeepsSnapshotInv == SnapshotInv /\ Search => SnapshotInv'
<1> SUFFICES ASSUME SnapshotInv, Search PROVE SnapshotInv'
  OBVIOUS
<1>1. PICK r \in Outcomes(HoldsVtable(at), FALSE) :
        /\ Tell(r)
        /\ IF r.value THEN Follow("class", at)
           ELSE IF at < NumPlaces THEN Follow("search", at + 1)
           ELSE ViewDone(FALSE)
  BY DEF Search
<1>2. /\ step = "search" /\ UNCHANGED <<gameVars, seen>> /\ cache' = cache
      /\ cache \in Places \cup {Nil}
  BY DEF Search, SnapshotInv, ReadingOK
<1>3. /\ MomentsOK' /\ seen' = seen /\ failed \subseteq failed'
      /\ at \in Places
      /\ \A w : StaysReady(w)' => /\ StaysReady(w) /\ w.view \in Places
                                  /\ r.value <=> at = w.view
  BY <1>1, <1>2, VtableTold
<1>4. \A w : StaysReady(w)' => at <= w.view
  BY <1>2, <1>3 DEF SnapshotInv, ReadyFound, PointsTo
<1>5. CASE r.value
  <2>1. Typed("class", at) /\ OnTheWay("class", at)
    BY <1>3 DEF Typed, OnTheWay
  <2>2. \A w : StaysReady(w)' => PointsTo(w, "class", at)
    BY <1>3, <1>5 DEF PointsTo
  <2>3. Follow("class", at)
    BY <1>1, <1>5
  <2> QED BY <1>2, <1>3, <2>1, <2>2, <2>3, FollowKeepsSnapshotInv DEF ViewSteps
<1>6. CASE ~r.value /\ at < NumPlaces
  <2>1. Typed("search", at + 1) /\ OnTheWay("search", at + 1)
    BY <1>3, <1>6, SlotNames DEF Typed, OnTheWay, Places
  <2>2. \A w : StaysReady(w)' => PointsTo(w, "search", at + 1)
    <3>1. \A w : StaysReady(w)' => at <= w.view /\ at # w.view /\ w.view \in Places
      BY <1>3, <1>4, <1>6
    <3>2. \A w : StaysReady(w)' => at + 1 <= w.view
      BY <1>3, <3>1 DEF Places
    <3> QED BY <3>2 DEF PointsTo
  <2>3. Follow("search", at + 1)
    BY <1>1, <1>6
  <2> QED BY <1>2, <1>3, <2>1, <2>2, <2>3, FollowKeepsSnapshotInv DEF ViewSteps
<1>7. CASE ~r.value /\ ~(at < NumPlaces)
  <2>1. \A w : StaysReady(w)' => FALSE
    <3>1. \A w : StaysReady(w)' => at <= w.view /\ at # w.view /\ w.view \in Places
      BY <1>3, <1>4, <1>7
    <3> QED BY <1>3, <1>7, <3>1, SlotNames DEF Places
  <2>2. ViewDone(FALSE)
    BY <1>1, <1>7
  <2> QED BY <1>2, <1>3, <2>1, <2>2, ViewDoneKeepsSnapshotInv DEF ViewSteps
<1> QED BY <1>5, <1>6, <1>7

LEMMA CheckClassKeepsSnapshotInv == SnapshotInv /\ CheckClass => SnapshotInv'
<1> SUFFICES ASSUME SnapshotInv, CheckClass PROVE SnapshotInv'
  OBVIOUS
<1>1. PICK r \in Outcomes(HoldsVtable(at), FALSE) :
        Tell(r) /\ IF r.value THEN Follow("camera", at) /\ cache' = at
                              ELSE ViewDone(FALSE) /\ UNCHANGED cache
  BY DEF CheckClass
<1>2. /\ step = "class" /\ UNCHANGED <<gameVars, seen>> /\ cache \in Places \cup {Nil}
  BY DEF CheckClass, SnapshotInv, ReadingOK
<1>3. /\ MomentsOK' /\ seen' = seen /\ failed \subseteq failed'
      /\ at \in Places
      /\ r.value => \E w \in seen : at = w.view \/ at \in w.left
      /\ \A w : StaysReady(w)' => StaysReady(w) /\ (r.value <=> at = w.view)
  BY <1>1, <1>2, VtableTold
<1>4. \A w : StaysReady(w)' => at = w.view
  BY <1>2, <1>3 DEF SnapshotInv, ReadyFound, PointsTo
<1>5. CASE r.value
  <2>1. Typed("camera", at) /\ OnTheWay("camera", at)
    BY <1>3, <1>5 DEF Typed, OnTheWay
  <2>2. \A w : StaysReady(w)' => PointsTo(w, "camera", at)
    BY <1>4 DEF PointsTo
  <2>3. Follow("camera", at) /\ cache' \in Places \cup {Nil}
    BY <1>1, <1>3, <1>5
  <2> QED BY <1>2, <1>3, <2>1, <2>2, <2>3, FollowKeepsSnapshotInv DEF ViewSteps
<1>6. CASE ~r.value
  <2>1. ViewDone(FALSE) /\ cache' \in Places \cup {Nil} /\ \A w : StaysReady(w)' => FALSE
    BY <1>1, <1>2, <1>3, <1>4, <1>6
  <2> QED BY <1>2, <1>3, <2>1, ViewDoneKeepsSnapshotInv DEF ViewSteps
<1> QED BY <1>5, <1>6

\* What passes for the local player's camera is the object's, or what is left of it.
LEMMA ReadCameraKeepsSnapshotInv == SnapshotInv /\ ReadCamera => SnapshotInv'
<1> SUFFICES ASSUME SnapshotInv, ReadCamera PROVE SnapshotInv'
  OBVIOUS
<1>0. PICK plausible \in IF at = world.view THEN {world.near} ELSE BOOLEAN :
        \E r \in Outcomes(plausible, FALSE) : Tell(r) /\ ViewDone(r.value)
  BY DEF ReadCamera
<1>1. PICK r \in Outcomes(plausible, FALSE) : Tell(r) /\ ViewDone(r.value)
  BY <1>0
<1>2. /\ step = "camera" /\ UNCHANGED <<gameVars, seen>> /\ cache' \in Places \cup {Nil}
      /\ at \in Places
  BY DEF ReadCamera, SnapshotInv, ReadingOK, Typed
<1>3. /\ MomentsOK' /\ seen' = seen /\ failed \subseteq failed'
      /\ world \in seen /\ world \in Moment
      /\ r.value = plausible \/ r.value = FALSE
      /\ \A w : StaysReady(w)' => StaysReady(w) /\ w = world /\ r.value = plausible
  BY <1>1, <1>2, Told DEF SnapshotInv, AtPlayers, SlotSteps
<1>4. plausible \in BOOLEAN /\ (at = world.view => plausible = world.near)
  BY <1>0, <1>3, PawnFields
<1>5. r.value \in BOOLEAN /\ (r.value => plausible)
  BY <1>3, <1>4
<1>6. r.value => MatrixSeen
  <2>1. SUFFICES ASSUME plausible PROVE MatrixSeen
    BY <1>5
  <2>2. CASE at = world.view
    <3>1. world.view # Nil /\ world.near
      BY <1>2, <1>4, <2>1, <2>2, SlotNames
    <3> QED BY <1>3, <3>1 DEF MatrixSeen
  <2>3. CASE at # world.view
    <3>1. PICK w \in seen : at = w.view \/ at \in w.left
      BY <1>2 DEF SnapshotInv, Witnessed, OnTheWay
    <3> QED BY <1>3, <2>3, <3>1 DEF MatrixSeen
  <2> QED BY <2>2, <2>3
<1>7. ASSUME NEW w, StaysReady(w)' PROVE r.value
  <2>1. StaysReady(w) /\ w = world /\ r.value = plausible
    BY <1>3, <1>7
  <2>2. at = world.view /\ world.near
    BY <1>2, <2>1, ViewWhenReady DEF SnapshotInv, ReadyFound, PointsTo
  <2> QED BY <1>4, <2>1, <2>2
<1> QED BY <1>1, <1>2, <1>3, <1>5, <1>6, <1>7, ViewDoneKeepsSnapshotInv DEF ViewSteps

\* A player who can be read all the time is read, by the one way there is.
LEMMA SteadyTold ==
  ASSUME MomentsOK, step # "done", NEW c, NEW i, NEW p, Steady(c, i, p)
  PROVE  /\ c \in world.here /\ world.handle[c] = i /\ world.table[i] = p
         /\ world.pawn[p].class /\ world.pawn[p].origin = "good"
         /\ \A x : Handled(c, x) => x = i
         /\ \A x : Reached(c, x) => x = p
<1>1. world \in seen
  BY DEF MomentsOK
<1>2. \A x : Handled(c, x) => x = i
  BY DEF Steady, Handled
<1>3. \A x : Reached(c, x) => x = p
  BY <1>2 DEF Steady, Reached
<1> QED BY <1>1, <1>2, <1>3 DEF Steady

LEMMA ReadSlotKeepsSnapshotInv == SnapshotInv /\ ReadSlot => SnapshotInv'
<1> SUFFICES ASSUME SnapshotInv, ReadSlot PROVE SnapshotInv'
  OBVIOUS
<1>1. PICK r \in Outcomes(slot \in world.here, FALSE) :
        Tell(r) /\ IF r.value THEN Follow("player_handle", slot) ELSE Skip
  BY DEF ReadSlot
<1>2. /\ step = "slot" /\ UNCHANGED <<gameVars, seen>> /\ cache' = cache
      /\ cache \in Places \cup {Nil} /\ AtPlayers
  BY DEF ReadSlot, SnapshotInv, ReadingOK, AtPlayers, SlotSteps
<1>3. /\ MomentsOK' /\ world \in seen /\ seen' = seen /\ failed \subseteq failed'
      /\ r.value = (slot \in world.here) \/ r.value = FALSE
      /\ slot \notin failed' => r.value = (slot \in world.here)
  BY <1>1, <1>2, Told DEF SnapshotInv, Whose
<1>4. CASE r.value
  <2>1. slot \in world.here
    <3>1. CASE r.value = (slot \in world.here)
      BY <1>4, <3>1
    <3>2. CASE r.value = FALSE
      BY <1>4, <3>2
    <3> QED BY <1>3, <3>1, <3>2
  <2>2. Typed("player_handle", slot) /\ OnTheWay("player_handle", slot)
    BY <1>3, <2>1 DEF Typed, OnTheWay
  <2>3. \A w : PointsTo(w, "player_handle", slot)
    BY DEF PointsTo
  <2>4. Follow("player_handle", slot)
    BY <1>1, <1>4
  <2> QED BY <1>2, <1>3, <2>2, <2>3, <2>4, FollowKeepsSnapshotInv DEF SlotSteps
<1>5. CASE ~r.value
  <2>1. slot \notin failed' => slot \notin world.here
    <3>1. ASSUME r.value = (slot \in world.here) PROVE slot \notin world.here
      BY <1>5, <3>1
    <3> QED BY <1>3, <3>1
  <2>2. slot \notin failed' =>
          \A i \in Indices, p \in Pawns \ {snapshot.pawn} : ~Steady(slot, i, p)
    BY <1>2, <2>1, SteadyTold DEF SnapshotInv
  <2>3. Skip
    BY <1>1, <1>5
  <2> QED BY <1>2, <1>3, <2>2, <2>3, SkipKeepsSnapshotInv
<1> QED BY <1>4, <1>5

LEMMA ReadPlayerHandleKeepsSnapshotInv == SnapshotInv /\ ReadPlayerHandle => SnapshotInv'
<1> SUFFICES ASSUME SnapshotInv, ReadPlayerHandle PROVE SnapshotInv'
  OBVIOUS
<1>1. PICK r \in Outcomes(world.handle[at], Nil) :
        Tell(r) /\ IF r.value = Nil THEN Skip ELSE Follow("player_pawn", r.value)
  BY DEF ReadPlayerHandle
<1>2. /\ step = "player_handle" /\ UNCHANGED <<gameVars, seen>> /\ cache' = cache
      /\ cache \in Places \cup {Nil} /\ AtPlayers /\ at = slot /\ slot \in Slots
      /\ \E w \in seen : slot \in w.here
  BY DEF ReadPlayerHandle, SnapshotInv, ReadingOK, Typed, AtPlayers, SlotSteps, Witnessed, OnTheWay
<1>3. /\ MomentsOK' /\ world \in seen /\ world \in Moment /\ seen' = seen /\ failed \subseteq failed'
      /\ r.value = world.handle[at] \/ r.value = Nil
      /\ slot \notin failed' => r.value = world.handle[at]
  BY <1>1, <1>2, Told DEF SnapshotInv, Whose
<1>4. CASE r.value = Nil
  <2>1. slot \notin failed' =>
          \A i \in Indices, p \in Pawns \ {snapshot.pawn} : ~Steady(slot, i, p)
    BY <1>2, <1>3, <1>4, SteadyTold, SlotNames DEF SnapshotInv
  <2>2. Skip
    BY <1>1, <1>4
  <2> QED BY <1>2, <1>3, <2>1, <2>2, SkipKeepsSnapshotInv
<1>5. CASE r.value # Nil
  <2>1. Handled(slot, r.value) /\ r.value \in Indices
    BY <1>2, <1>3, <1>5, PawnFields DEF Handled
  <2>2. Typed("player_pawn", r.value) /\ OnTheWay("player_pawn", r.value)
    BY <2>1 DEF Typed, OnTheWay
  <2>3. \A w : PointsTo(w, "player_pawn", r.value)
    BY DEF PointsTo
  <2>4. Follow("player_pawn", r.value)
    BY <1>1, <1>5
  <2> QED BY <1>2, <1>3, <2>2, <2>3, <2>4, FollowKeepsSnapshotInv DEF SlotSteps
<1> QED BY <1>4, <1>5

LEMMA ReadPlayerPawnKeepsSnapshotInv == SnapshotInv /\ ReadPlayerPawn => SnapshotInv'
<1> SUFFICES ASSUME SnapshotInv, ReadPlayerPawn PROVE SnapshotInv'
  OBVIOUS
<1>1. PICK r \in Outcomes(world.table[at], Nil) :
        Tell(r) /\ IF r.value \in {Nil, snapshot.pawn} THEN Skip
                                                       ELSE Follow("player_class", r.value)
  BY DEF ReadPlayerPawn
<1>2. /\ step = "player_pawn" /\ UNCHANGED <<gameVars, seen>> /\ cache' = cache
      /\ cache \in Places \cup {Nil} /\ AtPlayers /\ at \in Indices /\ Handled(slot, at)
  BY DEF ReadPlayerPawn, SnapshotInv, ReadingOK, Typed, AtPlayers, SlotSteps, Witnessed, OnTheWay
<1>3. /\ MomentsOK' /\ world \in seen /\ world \in Moment /\ seen' = seen /\ failed \subseteq failed'
      /\ r.value = world.table[at] \/ r.value = Nil
      /\ slot \notin failed' => r.value = world.table[at]
  BY <1>1, <1>2, Told DEF SnapshotInv, Whose
<1>4. CASE r.value \in {Nil, snapshot.pawn}
  <2>1. ASSUME slot \notin failed', NEW i \in Indices, NEW p \in Pawns \ {snapshot.pawn},
               Steady(slot, i, p)
        PROVE  FALSE
    <3>1. at = i /\ world.table[i] = p
      BY <1>2, <2>1, SteadyTold DEF SnapshotInv
    <3> QED BY <1>3, <1>4, <2>1, <3>1, SlotNames
  <2>2. Skip
    BY <1>1, <1>4
  <2> QED BY <1>2, <1>3, <2>1, <2>2, SkipKeepsSnapshotInv
<1>5. CASE r.value \notin {Nil, snapshot.pawn}
  <2>1. Reached(slot, r.value) /\ r.value \in Pawns \ {snapshot.pawn}
    BY <1>2, <1>3, <1>5, PawnFields DEF Reached
  <2>2. Typed("player_class", r.value) /\ OnTheWay("player_class", r.value)
    BY <2>1 DEF Typed, OnTheWay
  <2>3. \A w : PointsTo(w, "player_class", r.value)
    BY DEF PointsTo
  <2>4. Follow("player_class", r.value)
    BY <1>1, <1>5
  <2> QED BY <1>2, <1>3, <2>2, <2>3, <2>4, FollowKeepsSnapshotInv DEF SlotSteps
<1> QED BY <1>4, <1>5

LEMMA ReadPlayerClassKeepsSnapshotInv == SnapshotInv /\ ReadPlayerClass => SnapshotInv'
<1> SUFFICES ASSUME SnapshotInv, ReadPlayerClass PROVE SnapshotInv'
  OBVIOUS
<1>1. PICK r \in Outcomes(world.pawn[at].class, FALSE) :
        Tell(r) /\ IF r.value THEN Follow("candidate", at) ELSE Skip
  BY DEF ReadPlayerClass
<1>2. /\ step = "player_class" /\ UNCHANGED <<gameVars, seen>> /\ cache' = cache
      /\ cache \in Places \cup {Nil} /\ AtPlayers
      /\ at \in Pawns \ {snapshot.pawn} /\ Reached(slot, at)
  BY DEF ReadPlayerClass, SnapshotInv, ReadingOK, Typed, AtPlayers, SlotSteps, Witnessed, OnTheWay
<1>3. /\ MomentsOK' /\ world \in seen /\ world \in Moment /\ seen' = seen /\ failed \subseteq failed'
      /\ r.value = world.pawn[at].class \/ r.value = FALSE
      /\ slot \notin failed' => r.value = world.pawn[at].class
  <2> DEFINE class == world.pawn[at].class
  <2>1. r \in Outcomes(class, FALSE)
    OBVIOUS
  <2> HIDE DEF class
  <2>2. /\ MomentsOK' /\ world \in seen /\ world \in Moment /\ seen' = seen /\ failed \subseteq failed'
        /\ r.value = class \/ r.value = FALSE
        /\ slot \notin failed' => r.value = class
    BY <1>1, <1>2, <2>1, Told DEF SnapshotInv, Whose
  <2> QED BY <2>2 DEF class
<1>4. CASE r.value
  <2>1. world.pawn[at].class
    BY <1>3, <1>4
  <2>2. Typed("candidate", at) /\ OnTheWay("candidate", at)
    BY <1>2, <1>3, <2>1 DEF Typed, OnTheWay
  <2>3. \A w : PointsTo(w, "candidate", at)
    BY DEF PointsTo
  <2>4. Follow("candidate", at)
    BY <1>1, <1>4
  <2> QED BY <1>2, <1>3, <2>2, <2>3, <2>4, FollowKeepsSnapshotInv DEF SlotSteps
<1>5. CASE ~r.value
  <2>1. ASSUME slot \notin failed', NEW i \in Indices, NEW p \in Pawns \ {snapshot.pawn},
               Steady(slot, i, p)
        PROVE  FALSE
    <3>1. at = p /\ world.pawn[p].class
      BY <1>2, <2>1, SteadyTold DEF SnapshotInv
    <3> QED BY <1>3, <1>5, <2>1, <3>1
  <2>2. Skip
    BY <1>1, <1>5
  <2> QED BY <1>2, <1>3, <2>1, <2>2, SkipKeepsSnapshotInv
<1> QED BY <1>4, <1>5

LEMMA ReadCandidateKeepsSnapshotInv == SnapshotInv /\ ReadCandidate => SnapshotInv'
<1> SUFFICES ASSUME SnapshotInv, ReadCandidate PROVE SnapshotInv'
  OBVIOUS
<1>1. PICK r \in Outcomes(world.pawn[at].origin, "null") :
        /\ Tell(r)
        /\ IF r.value # "good" THEN Skip
           ELSE /\ step' = "fields"
                /\ rest' = <<"health", "team", "life", "origin">>
                /\ player' = [NoPlayer EXCEPT !.pawn = at]
                /\ at' = Nil
                /\ UNCHANGED <<slot, snapshot>>
  BY DEF ReadCandidate
<1>2. /\ step = "candidate" /\ UNCHANGED <<gameVars, seen>> /\ cache' = cache
      /\ cache \in Places \cup {Nil} /\ AtPlayers
      /\ at \in Pawns \ {snapshot.pawn} /\ Reached(slot, at) /\ \E w \in seen : w.pawn[at].class
  BY DEF ReadCandidate, SnapshotInv, ReadingOK, Typed, AtPlayers, SlotSteps, Witnessed, OnTheWay
<1>3. /\ MomentsOK' /\ world \in seen /\ world \in Moment /\ seen' = seen /\ failed \subseteq failed'
      /\ r.value = world.pawn[at].origin \/ r.value = "null"
      /\ slot \notin failed' => r.value = world.pawn[at].origin
  BY <1>1, <1>2, Told DEF SnapshotInv, Whose
<1>4. CASE r.value # "good"
  <2>1. ASSUME slot \notin failed', NEW i \in Indices, NEW p \in Pawns \ {snapshot.pawn},
               Steady(slot, i, p)
        PROVE  FALSE
    <3>1. at = p /\ world.pawn[p].origin = "good"
      BY <1>2, <2>1, SteadyTold DEF SnapshotInv
    <3> QED BY <1>3, <1>4, <2>1, <3>1
  <2>2. Skip
    BY <1>1, <1>4
  <2> QED BY <1>2, <1>3, <2>1, <2>2, SkipKeepsSnapshotInv
<1>5. CASE r.value = "good"
  <2> DEFINE new == [NoPlayer EXCEPT !.pawn = at]
  <2>1. /\ step' = "fields" /\ at' = Nil /\ slot' = slot /\ snapshot' = snapshot
        /\ rest' = <<"health", "team", "life", "origin">> /\ player' = new
    BY <1>1, <1>5
  <2>2. /\ new \in Player /\ new.pawn = at /\ new.origin = "null" /\ \A f \in Fields : ~new[f]
    BY <1>2, Empty DEF Player, Fields
  <2> HIDE DEF new
  <2>3. AtPlayers' /\ step' \notin EarlySteps
    BY <1>2, <2>1, <2>2 DEF AtPlayers, EarlySteps
  <2>4. rest' \in Seq(FieldNames) /\ rest' # <<>>
    BY <2>1 DEF FieldNames, Fields
  <2>5. \A f \in FieldNames : Among(f, rest)'
    <3>1. /\ 1 \in DOMAIN rest' /\ 2 \in DOMAIN rest' /\ 3 \in DOMAIN rest' /\ 4 \in DOMAIN rest'
          /\ rest'[1] = "health" /\ rest'[2] = "team" /\ rest'[3] = "life" /\ rest'[4] = "origin"
      BY <2>1
    <3> QED BY <3>1 DEF Among, FieldNames, Fields
  <2>6. ReadingOK'
    <3>1. Typed(step, at)'
      BY <2>1 DEF Typed
    <3>2. snapshot.pawn \in Pawns
      BY <1>2 DEF SnapshotInv, ReadingOK, EarlySteps
    <3> QED BY <1>2, <2>1, <2>2, <2>3, <2>4, <3>1, <3>2 DEF SnapshotInv, ReadingOK
  <2>7. Witnessed'
    <3>1. Shown(player)'
      BY <2>1, <2>2 DEF Shown
    <3>2. Shown(snapshot.local)'
      BY <1>3, <2>1 DEF SnapshotInv, Witnessed, Shown
    <3>3. OnTheWay(step, at)'
      BY <2>1 DEF OnTheWay
    <3>4. Sighted(at) /\ \A x : x = at => Reached(slot, x)' /\ Sighted(x)'
      BY <1>2, <1>3, <1>5, <2>1, SeenSame DEF Sighted
    <3> QED BY <1>3, <2>1, <2>2, <3>1, <3>2, <3>3, <3>4, SeenSame DEF SnapshotInv, Witnessed
  <2>8. Fetched'
    BY <2>5 DEF Fetched
  <2>9. ListOK'
    <3>1. /\ \A x : ListedOK(x)' <=> ListedOK(x)
          /\ \A x, y : InOrder(x, y)' <=> InOrder(x, y)
          /\ \A c, x : Reached(c, x)' <=> Reached(c, x)
      BY <1>3, <2>1, SeenSame DEF ListedOK
    <3>2. step # "done" /\ ListOK
      BY <1>2 DEF SnapshotInv
    <3> QED BY <2>1, <3>1, <3>2 DEF ListOK
  <2>10. NobodyMissed'
    BY <1>2, <1>3, <2>1, SeenSame DEF SnapshotInv, NobodyMissed, Listed
  <2>11. ReadyFound'
    <3>1. \A w : StaysReady(w)' => StaysReady(w)
      BY <1>3 DEF StaysReady, Clean
    <3> QED BY <1>2, <2>1, <2>3, <3>1 DEF SnapshotInv, ReadyFound, PointsTo, Alive, EarlySteps
  <2> QED BY <1>3, <2>6, <2>7, <2>8, <2>9, <2>10, <2>11 DEF SnapshotInv
<1> QED BY <1>4, <1>5

-----------------------------------------------------------------------------
(* The fields of a player.                                                 *)

Filled(q, f, value) == [q EXCEPT ![f] = value]
ValuesOf(f) == IF f = "origin" THEN {"good", "zero", "null"} ELSE BOOLEAN

LEMMA FilledFields ==
  ASSUME NEW q \in Player, NEW f \in FieldNames, NEW value,
         value \in ValuesOf(f)
  PROVE  /\ Filled(q, f, value) \in Player /\ Filled(q, f, value).pawn = q.pawn
         /\ Filled(q, f, value)[f] = value
         /\ \A g \in FieldNames : g # f => Filled(q, f, value)[g] = q[g]
<1>1. CASE f = "origin"
  BY <1>1 DEF Filled, ValuesOf, Player, FieldNames, Fields
<1>2. CASE f = "health"
  BY <1>2 DEF Filled, ValuesOf, Player, FieldNames, Fields
<1>3. CASE f = "team"
  BY <1>3 DEF Filled, ValuesOf, Player, FieldNames, Fields
<1>4. CASE f = "life"
  BY <1>4 DEF Filled, ValuesOf, Player, FieldNames, Fields
<1> QED BY <1>1, <1>2, <1>3, <1>4 DEF FieldNames, Fields

\* What can be read of a pawn, or is put in its place.
LEMMA FieldTypes ==
  ASSUME NEW w \in Moment, NEW p \in Pawns, NEW f \in FieldNames, NEW value,
         value = w.pawn[p][f] \/ value = NoPlayer[f]
  PROVE  /\ value \in ValuesOf(f)
         /\ f \in Fields /\ value = TRUE => w.pawn[p][f] = TRUE
<1>1. w.pawn[p] \in Pawn
  BY PawnFields
<1>2. NoPlayer.origin = "null" /\ \A g \in Fields : NoPlayer[g] = FALSE
  BY Empty
<1>3. CASE f = "origin"
  BY <1>1, <1>2, <1>3 DEF Pawn, Fields, ValuesOf
<1>4. CASE f = "health"
  BY <1>1, <1>2, <1>4 DEF Pawn, Fields, ValuesOf
<1>5. CASE f = "team"
  BY <1>1, <1>2, <1>5 DEF Pawn, Fields, ValuesOf
<1>6. CASE f = "life"
  BY <1>1, <1>2, <1>6 DEF Pawn, Fields, ValuesOf
<1> QED BY <1>3, <1>4, <1>5, <1>6 DEF FieldNames, Fields

LEMMA FieldTold ==
  ASSUME SnapshotInv, step = "fields", UNCHANGED <<gameVars, seen>>,
         NEW f, f = Head(rest),
         NEW r \in Outcomes(world.pawn[player.pawn][f], NoPlayer[f]), Tell(r),
         NEW new, new = Filled(player, f, r.value)
  PROVE  /\ MomentsOK' /\ seen' = seen /\ failed \subseteq failed'
         /\ rest \in Seq(FieldNames) /\ rest # <<>>
         /\ new \in Player /\ new.pawn = player.pawn /\ new.pawn \in Pawns
         /\ Shown(new)
         /\ Whose \notin failed' => \A g \in FieldNames :
              (g # f /\ Among(g, rest)) \/ \E w \in seen : new[g] = w.pawn[new.pawn][g]
<1>1. /\ MomentsOK' /\ world \in seen /\ world \in Moment /\ seen' = seen /\ failed \subseteq failed'
      /\ r.value = world.pawn[player.pawn][f] \/ r.value = NoPlayer[f]
      /\ Whose \notin failed' => r.value = world.pawn[player.pawn][f]
  BY Told DEF SnapshotInv
<1>2. /\ rest \in Seq(FieldNames) /\ rest # <<>> /\ player \in Player /\ player.pawn \in Pawns
  BY DEF SnapshotInv, ReadingOK
<1>3. f \in FieldNames
  BY <1>2, AmongRest
<1>4. /\ r.value \in ValuesOf(f)
      /\ f = "origin" /\ r.value = "good" => world.pawn[player.pawn].origin = "good"
      /\ f \in Fields /\ r.value = TRUE => world.pawn[player.pawn][f] = TRUE
  <2> DEFINE value == r.value
             pawn == player.pawn
  <2>1. pawn \in Pawns /\ (value = world.pawn[pawn][f] \/ value = NoPlayer[f])
    BY <1>1, <1>2
  <2> HIDE DEF value, pawn
  <2>2. value \in ValuesOf(f)
    BY <1>1, <1>3, <2>1, FieldTypes
  <2>3. ASSUME f = "origin", value = "good" PROVE world.pawn[pawn].origin = "good"
    <3>1. NoPlayer[f] = "null"
      BY <2>3, Empty
    <3>2. value = world.pawn[pawn][f]
      BY <2>1, <2>3, <3>1
    <3> QED BY <2>3, <3>2
  <2>4. f \in Fields /\ value = TRUE => world.pawn[pawn][f] = TRUE
    BY <1>1, <1>3, <2>1, FieldTypes
  <2> QED BY <2>2, <2>3, <2>4 DEF value, pawn
<1>5. /\ new \in Player /\ new.pawn = player.pawn /\ new[f] = r.value
      /\ \A g \in FieldNames : g # f => new[g] = player[g]
  BY <1>2, <1>3, <1>4, FilledFields
<1>6. Shown(new)
  <2>1. Shown(player)
    BY DEF SnapshotInv, Witnessed
  <2>2. new.origin = "good" => \E w \in seen : w.pawn[new.pawn].origin = "good"
    <3>1. CASE f = "origin"
      BY <1>1, <1>4, <1>5, <3>1
    <3>2. CASE f # "origin"
      <4>1. new["origin"] = player["origin"]
        BY <1>5, <3>2 DEF FieldNames
      <4> QED BY <1>5, <2>1, <4>1 DEF Shown
    <3> QED BY <3>1, <3>2
  <2>3. ASSUME NEW g \in Fields, new[g] PROVE \E w \in seen : w.pawn[new.pawn][g]
    <3>1. g \in FieldNames /\ g # "origin"
      BY DEF FieldNames, Fields
    <3>2. CASE g = f
      <4>1. r.value = TRUE
        BY <1>4, <1>5, <2>3, <3>1, <3>2
      <4>2. world.pawn[player.pawn][g] = TRUE
        BY <1>4, <3>2, <4>1
      <4> QED BY <1>1, <1>5, <4>2
    <3>3. CASE g # f
      <4>1. player[g]
        BY <1>5, <2>3, <3>1, <3>3
      <4> QED BY <1>5, <2>1, <4>1 DEF Shown
    <3> QED BY <3>2, <3>3
  <2> QED BY <2>2, <2>3 DEF Shown
<1>7. ASSUME Whose \notin failed', NEW g \in FieldNames
      PROVE  (g # f /\ Among(g, rest)) \/ \E w \in seen : new[g] = w.pawn[new.pawn][g]
  <2>1. CASE g = f
    BY <1>1, <1>5, <1>7, <2>1
  <2>2. CASE g # f
    <3>1. Among(g, rest) \/ \E w \in seen : player[g] = w.pawn[player.pawn][g]
      BY <1>1, <1>7 DEF SnapshotInv, Fetched
    <3> QED BY <1>5, <2>2, <3>1
  <2> QED BY <2>1, <2>2
<1> QED BY <1>1, <1>2, <1>5, <1>6, <1>7

\* There are more fields to read.
LEMMA MoreFieldsKeepSnapshotInv ==
  ASSUME SnapshotInv, MomentsOK', seen' = seen, failed \subseteq failed', cache' = cache,
         step = "fields", UNCHANGED <<step, slot, at, snapshot>>,
         rest' \in Seq(FieldNames), rest' # <<>>,
         player' \in Player, player'.pawn = player.pawn, player'.pawn \in Pawns, Shown(player)',
         Fetched'
  PROVE  SnapshotInv'
<1> USE DEF SnapshotInv
<1>1. AtPlayers' <=> AtPlayers
  BY DEF AtPlayers
<1>2. ReadingOK'
  BY <1>1 DEF ReadingOK, Typed
<1>3. Witnessed'
  <2>1. Shown(snapshot.local)'
    BY DEF Witnessed, Shown
  <2>2. OnTheWay(step, at)'
    BY DEF OnTheWay
  <2>3. AtPlayers' => Reached(slot, player.pawn)' /\ Sighted(player.pawn)'
    BY <1>1 DEF Witnessed, Reached, Handled, Sighted
  <2> QED BY <2>1, <2>2, <2>3, SeenSame DEF Witnessed
<1>4. ListOK'
  <2>1. \A x : ListedOK(x)' <=> ListedOK(x)
    BY SeenSame DEF ListedOK
  <2> QED BY <2>1, SeenSame DEF ListOK
<1>5. NobodyMissed'
  BY <1>1, SeenSame DEF NobodyMissed, Listed
<1>6. ReadyFound'
  <2>1. \A w : StaysReady(w)' => StaysReady(w)
    BY DEF StaysReady, Clean
  <2> QED BY <1>1, <2>1 DEF ReadyFound, PointsTo, Alive
<1> QED BY <1>2, <1>3, <1>4, <1>5, <1>6

\* All there is of the local player was read; the slots are next.
LEMMA LocalDoneKeepsSnapshotInv ==
  ASSUME SnapshotInv, MomentsOK', seen' = seen, failed \subseteq failed', cache' = cache,
         step = "fields", NEW p \in Player, p.pawn = snapshot.pawn, p.pawn = player.pawn,
         Shown(p), FieldsDone(p),
         Nil \notin failed' => \A g \in FieldNames : \E w \in seen : p[g] = w.pawn[p.pawn][g]
  PROVE  SnapshotInv'
<1> USE DEF SnapshotInv
<1>1. /\ snapshot' = [snapshot EXCEPT !.local = p] /\ step' = "slot" /\ slot' = 1
      /\ rest' = <<>> /\ player' = NoPlayer /\ at' = Nil
  BY DEF FieldsDone
<1>2. /\ snapshot \in Snapshots /\ snapshot.pawn \in Pawns /\ snapshot.others = <<>>
      /\ ~AtPlayers
  BY DEF ReadingOK, AtPlayers, EarlySteps, SlotSteps
<1>3. /\ snapshot' \in Snapshots /\ snapshot'.pawn = snapshot.pawn
      /\ snapshot'.map = snapshot.map /\ snapshot'.local = p
      /\ snapshot'.others = <<>> /\ snapshot'.matrix = snapshot.matrix
  BY <1>1, <1>2 DEF Snapshots
<1>4. AtPlayers' /\ step' \notin EarlySteps
  BY <1>1 DEF AtPlayers, SlotSteps, EarlySteps
<1>5. ReadingOK'
  <2>1. Typed(step, at)'
    BY <1>1 DEF Typed
  <2>2. rest' \in Seq(FieldNames)
    BY <1>1
  <2> QED BY <1>1, <1>2, <1>3, <1>4, <2>1, <2>2, SlotNames, Empty DEF ReadingOK, SlotSteps
<1>6. Witnessed'
  <2>1. Shown(player)'
    BY <1>1, Empty DEF Shown
  <2>2. Shown(snapshot.local)'
    BY <1>3 DEF Shown
  <2>3. OnTheWay(step, at)'
    BY <1>1 DEF OnTheWay
  <2> QED BY <1>1, <1>3, <2>1, <2>2, <2>3, SeenSame DEF Witnessed
<1>7. Fetched' /\ ListOK'
  BY <1>1, <1>3 DEF Fetched, ListOK
<1>8. NobodyMissed'
  <2>1. \A c \in Slots : ~(c < 1)
    BY DEF Slots
  <2> QED BY <1>1, <2>1 DEF NobodyMissed
<1>9. ReadyFound'
  <2>1. ASSUME NEW w, StaysReady(w)'
        PROVE  /\ StaysReady(w) /\ p.origin = "good" /\ \A f \in Fields : p[f]
    <3>1. StaysReady(w) /\ seen = {w} /\ w \in Moment /\ ReadyAt(w)
      BY <2>1 DEF StaysReady, MomentsOK, Clean
    <3>2. snapshot.pawn = LocalAt(w)
      BY <3>1 DEF ReadyFound, EarlySteps
    <3>3. \A g \in FieldNames : p[g] = w.pawn[LocalAt(w)][g]
      BY <2>1, <3>1, <3>2 DEF StaysReady, Clean
    <3>4. w.pawn[LocalAt(w)]["origin"] = "good" /\ \A f \in Fields : w.pawn[LocalAt(w)][f]
      BY <3>1, WhenReady
    <3>5. "origin" \in FieldNames /\ Fields \subseteq FieldNames
      BY DEF FieldNames
    <3>6. p["origin"] = "good"
      BY <3>3, <3>4, <3>5
    <3>7. \A f \in Fields : p[f]
      BY <3>3, <3>4, <3>5
    <3> QED BY <3>1, <3>6, <3>7
  <2>2. \A w : PointsTo(w, step, at)'
    BY <1>1 DEF PointsTo
  <2>3. Alive(snapshot)' <=> \A f \in Fields : p[f]
    BY <1>3 DEF Alive
  <2> QED BY <1>1, <1>3, <1>4, <2>1, <2>2, <2>3 DEF ReadyFound, EarlySteps
<1> QED BY <1>5, <1>6, <1>7, <1>8, <1>9

\* Another player was read, who is listed if his origin still is plausible.
LEMMA OtherDoneKeepsSnapshotInv ==
  ASSUME SnapshotInv, MomentsOK', seen' = seen, failed \subseteq failed', cache' = cache,
         step = "fields", AtPlayers, NEW p \in Player, p.pawn \in Pawns, p.pawn = player.pawn,
         Shown(p), FieldsDone(p),
         slot \notin failed' => \A g \in FieldNames : \E w \in seen : p[g] = w.pawn[p.pawn][g]
  PROVE  SnapshotInv'
<1> DEFINE s == snapshot.others
           o == IF p.origin = "good" THEN Append(s, p) ELSE s
<1>1. p.pawn # snapshot.pawn /\ Reached(slot, p.pawn) /\ Sighted(p.pawn)
  BY DEF AtPlayers, SlotSteps, SnapshotInv, Witnessed
<1>2. /\ s \in Seq(Player) /\ slot \in Slots /\ slot \in Nat /\ snapshot.pawn # Nil
  BY SlotNames DEF SnapshotInv, ReadingOK, Snapshots, Slots, EarlySteps
<1>0. \A c \in Slots : c < slot => c <= slot
  BY <1>2, SlotNames
<1>3. NextSlot(o)
  BY <1>1 DEF FieldsDone
<1>4. /\ \A k \in DOMAIN s : /\ ListedOK(s[k])
                             /\ \E c \in Slots : Reached(c, s[k].pawn) /\ c < slot
      /\ \A j, k \in DOMAIN s : j < k => InOrder(s[j], s[k])
  BY DEF SnapshotInv, ListOK
<1>5. ListedOK(p)
  BY <1>1 DEF ListedOK
<1>6. \A c \in Slots \ failed', i \in Indices, q \in Pawns \ {snapshot.pawn} :
        Steady(c, i, q) /\ c < slot => \E k \in DOMAIN s : s[k].pawn = q
  BY <1>2 DEF SnapshotInv, NobodyMissed, Listed
<1>7. ASSUME slot \notin failed', NEW i \in Indices, NEW q \in Pawns \ {snapshot.pawn},
             Steady(slot, i, q)
      PROVE  p.origin = "good" /\ p.pawn = q
  <2>1. p.pawn = q
    BY <1>1, <1>7, SteadyTold DEF SnapshotInv
  <2>2. "origin" \in FieldNames
    BY DEF FieldNames
  <2>3. PICK w \in seen : p["origin"] = w.pawn[p.pawn]["origin"]
    BY <1>7, <2>2
  <2> QED BY <1>7, <2>1, <2>3 DEF Steady
<1> HIDE DEF s
<1>8. CASE p.origin = "good"
  <2>1. /\ Append(s, p) \in Seq(Player) /\ Len(s) \in Nat /\ DOMAIN s = 1 .. Len(s)
        /\ DOMAIN Append(s, p) = 1 .. Len(s) + 1 /\ Append(s, p)[Len(s) + 1] = p
        /\ \A k \in DOMAIN s : Append(s, p)[k] = s[k]
    BY <1>2
  <2>2. o = Append(s, p)
    BY <1>8
  <2> HIDE DEF o
  <2>3. /\ o \in Seq(Player) /\ DOMAIN o = DOMAIN s \cup {Len(s) + 1} /\ o[Len(s) + 1] = p
        /\ \A k \in DOMAIN s : o[k] = s[k]
    BY <2>1, <2>2
  <2>4. \A k \in DOMAIN o : /\ ListedOK(o[k])
                            /\ \E c \in Slots : Reached(c, o[k].pawn) /\ c <= slot
    <3>1. \A k \in DOMAIN s : /\ ListedOK(o[k])
                              /\ \E c \in Slots : Reached(c, o[k].pawn) /\ c <= slot
      BY <1>0, <1>4, <2>3
    <3>2. /\ ListedOK(o[Len(s) + 1])
          /\ \E c \in Slots : Reached(c, o[Len(s) + 1].pawn) /\ c <= slot
      BY <1>1, <1>2, <1>5, <2>3
    <3> QED BY <2>3, <3>1, <3>2
  <2>5. ASSUME NEW j \in DOMAIN o, NEW k \in DOMAIN o, j < k PROVE InOrder(o[j], o[k])
    <3>1. j \in DOMAIN s
      BY <2>1, <2>3, <2>5
    <3>2. CASE k \in DOMAIN s
      BY <1>4, <2>3, <2>5, <3>1, <3>2
    <3>3. CASE k = Len(s) + 1
      BY <1>1, <1>2, <1>4, <2>3, <3>1, <3>3 DEF InOrder
    <3> QED BY <2>3, <3>2, <3>3
  <2>6. ASSUME NEW c \in Slots \ failed', NEW i \in Indices, NEW q \in Pawns \ {snapshot.pawn},
               Steady(c, i, q), c <= slot
        PROVE  \E k \in DOMAIN o : o[k].pawn = q
    <3>1. CASE c < slot
      BY <1>6, <2>3, <2>6, <3>1
    <3>2. CASE c = slot
      <4>1. slot \notin failed' /\ Steady(slot, i, q)
        BY <2>6, <3>2
      <4>2. p.origin = "good" /\ p.pawn = q
        BY <1>7, <4>1
      <4> QED BY <2>3, <4>2
    <3>3. c \in Nat
      BY SlotNames
    <3>4. c < slot \/ c = slot
      BY <1>2, <2>6, <3>3
    <3> QED BY <3>1, <3>2, <3>4
  <2> QED BY <1>3, <2>3, <2>4, <2>5, <2>6, NextSlotKeepsSnapshotInv
<1>9. CASE p.origin # "good"
  <2>1. o = s
    BY <1>9
  <2> HIDE DEF o
  <2>2. \A k \in DOMAIN o : /\ ListedOK(o[k])
                            /\ \E c \in Slots : Reached(c, o[k].pawn) /\ c <= slot
    BY <1>0, <1>4, <2>1
  <2>3. ASSUME NEW c \in Slots \ failed', NEW i \in Indices, NEW q \in Pawns \ {snapshot.pawn},
               Steady(c, i, q), c <= slot
        PROVE  \E k \in DOMAIN o : o[k].pawn = q
    <3>1. c # slot
      BY <1>7, <1>9, <2>3
    <3>2. c < slot
      BY <1>2, <2>3, <3>1, SlotNames
    <3> QED BY <1>6, <2>1, <2>3, <3>2
  <2> QED BY <1>2, <1>3, <1>4, <2>1, <2>2, <2>3, NextSlotKeepsSnapshotInv
<1> QED BY <1>8, <1>9

LEMMA ReadFieldKeepsSnapshotInv == SnapshotInv /\ ReadField => SnapshotInv'
<1> SUFFICES ASSUME SnapshotInv, ReadField PROVE SnapshotInv'
  OBVIOUS
<1> DEFINE f == Head(rest)
<1>1. PICK r \in Outcomes(world.pawn[player.pawn][f], NoPlayer[f]) :
        /\ Tell(r)
        /\ IF Len(rest) = 1 THEN FieldsDone(Filled(player, f, r.value))
           ELSE /\ player' = Filled(player, f, r.value)
                /\ rest' = Tail(rest)
                /\ UNCHANGED <<step, slot, at, snapshot>>
  BY DEF ReadField, Filled
<1> DEFINE new == Filled(player, f, r.value)
<1>2. step = "fields" /\ UNCHANGED <<gameVars, seen>> /\ cache' = cache
  BY DEF ReadField
<1>3. /\ MomentsOK' /\ seen' = seen /\ failed \subseteq failed'
      /\ rest \in Seq(FieldNames) /\ rest # <<>>
      /\ new \in Player /\ new.pawn = player.pawn /\ new.pawn \in Pawns
      /\ Shown(new)
      /\ Whose \notin failed' => \A g \in FieldNames :
           (g # f /\ Among(g, rest)) \/ \E w \in seen : new[g] = w.pawn[new.pawn][g]
  BY <1>1, <1>2, FieldTold
<1>4. /\ \A x : Among(x, rest) => x = f \/ Among(x, Tail(rest))
      /\ Len(rest) = 1 => \A x : Among(x, rest) => x = f
      /\ Len(rest) # 1 => Tail(rest) # <<>>
      /\ Tail(rest) \in Seq(FieldNames)
  BY <1>3, AmongRest
<1>5. CASE Len(rest) # 1
  <2>1. /\ player' = new /\ rest' = Tail(rest) /\ UNCHANGED <<step, slot, at, snapshot>>
    BY <1>1, <1>5
  <2> HIDE DEF new, f
  <2>4. Whose' = Whose
    BY <1>3, <2>1 DEF Whose, AtPlayers
  <2>2. Fetched'
    BY <1>3, <1>4, <2>1, <2>4 DEF Fetched, Among
  <2>3. Shown(player)'
    BY <1>3, <2>1 DEF Shown
  <2> QED BY <1>2, <1>3, <1>4, <1>5, <2>1, <2>2, <2>3, MoreFieldsKeepSnapshotInv
<1>6. CASE Len(rest) = 1
  <2>1. FieldsDone(new)
    BY <1>1, <1>6
  <2> HIDE DEF new, f
  <2>2. Whose \notin failed' =>
          \A g \in FieldNames : \E w \in seen : new[g] = w.pawn[new.pawn][g]
    BY <1>3, <1>4, <1>6
  <2>3. CASE player.pawn = snapshot.pawn
    <3>1. Whose = Nil
      BY <1>2, <2>3 DEF Whose, AtPlayers, SlotSteps
    <3> QED BY <1>2, <1>3, <2>1, <2>2, <2>3, <3>1, LocalDoneKeepsSnapshotInv
  <2>4. CASE player.pawn # snapshot.pawn
    <3>1. AtPlayers /\ Whose = slot
      BY <1>2, <2>4 DEF Whose, AtPlayers
    <3> QED BY <1>2, <1>3, <2>1, <2>2, <3>1, OtherDoneKeepsSnapshotInv
  <2> QED BY <2>3, <2>4
<1> QED BY <1>5, <1>6

-----------------------------------------------------------------------------

LEMMA SnapshotInitInv == SnapshotInit => SnapshotInv
<1> SUFFICES ASSUME SnapshotInit PROVE SnapshotInv
  OBVIOUS
<1>1. /\ world = Start /\ changes = 0 /\ failures = 0 /\ seen = {} /\ failed = {}
      /\ step = "done" /\ slot = 1 /\ at = Nil /\ rest = <<>> /\ player = NoPlayer
      /\ snapshot = NoSnapshot /\ cache = Nil
  BY DEF SnapshotInit
<1>2. Start \in Moment
  <2>1. [class |-> TRUE, origin |-> "good", health |-> TRUE, team |-> TRUE, life |-> TRUE] \in Pawn
    BY DEF Pawn
  <2>2. NumPlaces \in Places
    BY SlotNames DEF Places
  <2>3. 1 \in Slots
    BY SlotNames
  <2>4. [c \in Slots |-> c] \in [Slots -> Indices \cup {Nil}]
    BY DEF Slots, Indices
  <2>5. [i \in Indices |-> i] \in [Indices -> Pawns \cup {Nil}]
    BY DEF Indices, Pawns
  <2> QED BY <2>1, <2>2, <2>3, <2>4, <2>5 DEF Start, Moment, Strings
<1>3. MomentsOK
  BY <1>1, <1>2, SlotNames DEF MomentsOK
<1>4. ~AtPlayers /\ step \notin EarlySteps
  BY <1>1 DEF AtPlayers, SlotSteps, EarlySteps
<1>5. ReadingOK
  <2>1. Typed(step, at)
    BY <1>1 DEF Typed
  <2>2. rest \in Seq(FieldNames)
    BY <1>1
  <2> QED BY <1>1, <1>4, <2>1, <2>2, Empty, SlotNames DEF ReadingOK
<1>6. Witnessed
  <2>1. Shown(player) /\ Shown(snapshot.local) /\ OnTheWay(step, at)
    BY <1>1, Empty, ShownEmpty DEF OnTheWay
  <2> QED BY <1>1, <2>1, Empty DEF Witnessed, NoSnapshot
<1>7. Fetched /\ ListOK /\ NobodyMissed /\ ReadyFound
  BY <1>1, Empty DEF Fetched, ListOK, NobodyMissed, ReadyFound, StaysReady
<1> QED BY <1>3, <1>5, <1>6, <1>7 DEF SnapshotInv

LEMMA NothingKeepsSnapshotInv == SnapshotInv /\ UNCHANGED snapshotVars => SnapshotInv'
<1> SUFFICES ASSUME SnapshotInv, UNCHANGED snapshotVars PROVE SnapshotInv'
  OBVIOUS
<1>1. /\ world' = world /\ changes' = changes /\ failures' = failures /\ seen' = seen
      /\ failed' = failed /\ step' = step /\ slot' = slot /\ at' = at /\ rest' = rest
      /\ player' = player /\ snapshot' = snapshot /\ cache' = cache
  BY DEF snapshotVars
<1>2. MomentsOK'
  BY <1>1 DEF SnapshotInv, MomentsOK
<1>3. ReadingOK'
  BY <1>1 DEF SnapshotInv, ReadingOK, Typed, AtPlayers
<1>4. Witnessed'
  <2>1. \A s, x : OnTheWay(s, x)' <=> OnTheWay(s, x)
    BY <1>1, SeenSame DEF OnTheWay
  <2> QED BY <1>1, <2>1, SeenSame DEF SnapshotInv, Witnessed, AtPlayers
<1>5. Fetched'
  BY <1>1 DEF SnapshotInv, Fetched, Whose, AtPlayers
<1>6. ListOK'
  <2>1. \A x : ListedOK(x)' <=> ListedOK(x)
    BY <1>1, SeenSame DEF ListedOK
  <2> QED BY <1>1, <2>1, SeenSame DEF SnapshotInv, ListOK
<1>7. NobodyMissed'
  BY <1>1, SeenSame DEF SnapshotInv, NobodyMissed, Listed, AtPlayers
<1>8. ReadyFound'
  <2>1. \A w : StaysReady(w)' <=> StaysReady(w)
    BY <1>1 DEF StaysReady, Clean
  <2> QED BY <1>1, <2>1 DEF SnapshotInv, ReadyFound, PointsTo, AtPlayers, Alive
<1> QED BY <1>2, <1>3, <1>4, <1>5, <1>6, <1>7, <1>8 DEF SnapshotInv

LEMMA SnapshotInductive == SnapshotSpec => []SnapshotInv
<1>1. SnapshotInv /\ [SnapshotNext]_snapshotVars => SnapshotInv'
  BY GameChangesKeepsSnapshotInv, ReadNameKeepsSnapshotInv, ReadPathKeepsSnapshotInv,
     ReadControllerKeepsSnapshotInv, ReadHandleKeepsSnapshotInv, ReadPawnKeepsSnapshotInv,
     ReadEyesKeepsSnapshotInv, CheckCachedKeepsSnapshotInv, FindVtableKeepsSnapshotInv,
     SearchKeepsSnapshotInv, CheckClassKeepsSnapshotInv, ReadCameraKeepsSnapshotInv,
     ReadSlotKeepsSnapshotInv, ReadPlayerHandleKeepsSnapshotInv, ReadPlayerPawnKeepsSnapshotInv,
     ReadPlayerClassKeepsSnapshotInv, ReadCandidateKeepsSnapshotInv, ReadFieldKeepsSnapshotInv,
     NothingKeepsSnapshotInv
     DEF SnapshotNext, Reads
<1> QED BY <1>1, SnapshotInitInv, PTL DEF SnapshotSpec

\* Who is listed is listed from a controller, a handle, a slot and a pawn that were
\* there while the list was read.
LEMMA WitnessesListed == SnapshotInv => ListedWereThere
<1> SUFFICES ASSUME SnapshotInv, NEW k \in DOMAIN snapshot.others,
                    NEW p, p = snapshot.others[k]
             PROVE  /\ p.pawn # snapshot.pawn
                    /\ \E c \in Slots, i \in Indices :
                         /\ \E w \in seen : c \in w.here
                         /\ \E w \in seen : w.handle[c] = i
                         /\ \E w \in seen : w.table[i] = p.pawn
                    /\ \E w \in seen : w.pawn[p.pawn].class
                    /\ \E w \in seen : w.pawn[p.pawn].origin = "good"
                    /\ \A f \in Fields : p[f] => \E w \in seen : w.pawn[p.pawn][f]
  BY DEF ListedWereThere, Sometime
<1>1. ListedOK(p) /\ \E c \in Slots : Reached(c, p.pawn)
  BY DEF SnapshotInv, ListOK
<1> QED BY <1>1 DEF ListedOK, Sighted, Shown, Reached, Handled

\* One pawn that is listed twice was reached through two controllers.
LEMMA TwiceThroughTwo == SnapshotInv => TwiceOnlyIfMoved
<1> SUFFICES ASSUME SnapshotInv,
                    NEW j \in DOMAIN snapshot.others, NEW k \in DOMAIN snapshot.others,
                    j # k, snapshot.others[j].pawn = snapshot.others[k].pawn,
                    \A v, w \in seen : v.handle = w.handle /\ v.table = w.table
             PROVE  \E w \in seen, c, d \in Slots, i, l \in Indices :
                      c # d /\ w.handle[c] = i /\ w.handle[d] = l /\ w.table[i] = w.table[l]
  BY DEF TwiceOnlyIfMoved
<1> DEFINE p == snapshot.others[j].pawn
<1>1. \E c, d \in Slots : c # d /\ Reached(c, p) /\ Reached(d, p)
  <2>1. DOMAIN snapshot.others \subseteq Nat
    BY DEF SnapshotInv, ReadingOK, Snapshots
  <2>2. j < k \/ k < j
    BY <2>1
  <2>3. InOrder(snapshot.others[j], snapshot.others[k]) \/ InOrder(snapshot.others[k], snapshot.others[j])
    BY <2>2 DEF SnapshotInv, ListOK
  <2> QED BY <2>3, SlotNames DEF InOrder
<1> HIDE DEF p
<1>2. PICK c \in Slots, d \in Slots : c # d /\ Reached(c, p) /\ Reached(d, p)
  BY <1>1
<1>3. PICK i \in Indices : Handled(c, i) /\ \E w \in seen : w.table[i] = p
  BY <1>2 DEF Reached
<1>4. PICK l \in Indices : Handled(d, l) /\ \E w \in seen : w.table[l] = p
  BY <1>2 DEF Reached
<1>5. PICK w \in seen : w.handle[c] = i
  BY <1>3 DEF Handled
<1>6. w.handle[d] = l /\ w.table[i] = p /\ w.table[l] = p
  BY <1>3, <1>4 DEF Handled
<1> QED BY <1>2, <1>5, <1>6

\* At the end nobody is missed who was there all the time and of whom no read failed.
LEMMA NoSteadyPlayerMissed == SnapshotInv => SteadyPlayersListed
<1> SUFFICES ASSUME SnapshotInv, step = "done", seen # {}, snapshot.pawn # Nil,
                    NEW c \in Slots \ failed, NEW i \in Indices, NEW p \in Pawns \ {snapshot.pawn},
                    \A w \in seen : /\ c \in w.here /\ w.handle[c] = i /\ w.table[i] = p
                                    /\ w.pawn[p].class /\ w.pawn[p].origin = "good"
             PROVE  \E k \in DOMAIN snapshot.others : snapshot.others[k].pawn = p
  BY DEF SteadyPlayersListed, Always, Done
<1>1. Steady(c, i, p)
  BY DEF Steady
<1> QED BY <1>1 DEF SnapshotInv, NobodyMissed, Listed

\* In every snapshot (read_snapshot), however the game moves between its reads and
\* whichever of them fail: who is listed was reached in it and is not the local
\* player, nobody is listed twice while handles and table stay, and of the players
\* who were there all the time only those are missing of whom a read itself failed.
THEOREM ListIsOfTheGame == SnapshotSpec => []ListFollowsGame
<1>1. SnapshotInv => ListFollowsGame
  BY WitnessesListed, TwiceThroughTwo, NoSteadyPlayerMissed DEF ListFollowsGame
<1> QED BY <1>1, SnapshotInductive, PTL

LEMMA PhaseFound == SnapshotInv => PhaseFollowsGame
<1> SUFFICES ASSUME SnapshotInv, Done PROVE PhaseFollowsGame
  BY DEF PhaseFollowsGame
<1>1. ASSUME Phase(snapshot) = "ready_for_bot"
      PROVE  /\ \E w \in seen : "real" \in {w.name, w.path}
             /\ \E w \in seen : w.pawn[snapshot.pawn].origin = "good"
             /\ \A f \in Fields : \E w \in seen : w.pawn[snapshot.pawn][f]
             /\ \/ \E w \in seen : w.view # Nil /\ w.near
                \/ \E w \in seen : w.left # {}
                \/ \E v, w \in seen : v.view # w.view
  <2>1. snapshot.map = "real" /\ snapshot.matrix /\ snapshot.local.origin = "good" /\ Alive(snapshot)
    BY <1>1 DEF Phase, InMenu, InMap
  <2>2. snapshot.local.pawn = snapshot.pawn
    BY <2>1, Empty DEF SnapshotInv, ReadingOK
  <2>3. Shown(snapshot.local)
    BY DEF SnapshotInv, Witnessed
  <2> QED BY <2>1, <2>2, <2>3 DEF SnapshotInv, Witnessed, MatrixSeen, Shown, Alive
<1>2. ASSUME Nil \notin failed, seen = {world}, ReadyAt(world) PROVE Phase(snapshot) = "ready_for_bot"
  <2>1. StaysReady(world) /\ step = "done"
    BY <1>2 DEF StaysReady, Clean, Done
  <2>2. /\ snapshot.map = "real" /\ snapshot.matrix /\ snapshot.local.origin = "good"
        /\ Alive(snapshot)
    BY <2>1 DEF SnapshotInv, ReadyFound
  <2> QED BY <2>2 DEF Phase, InMenu, InMap
<1> QED BY <1>1, <1>2 DEF PhaseFollowsGame, Sometime

\* A snapshot that classify_snapshot calls ready for the bot has each reason from a
\* moment of its own, and a game that stays ready during a snapshot in which only reads
\* of other players fail is called so, wherever the view object was before and whatever the cache says.
THEOREM PhaseIsOfTheGame == SnapshotSpec => []PhaseFollowsGame
BY SnapshotInductive, PhaseFound, PTL
===============================================================================
