----------------------------- MODULE TriggerProofs -----------------------------
(***************************************************************************)
(* For any number of processes, range of the tick and number of faults:    *)
(* the frame fun-trigger serves is the outcome of the reader's last read.  *)
(* For any players, slots of the entity table, checks and changes of the   *)
(* game: a frame fires with a reason for each condition from its own time, *)
(* and at every target that gave all of them throughout.                   *)
(***************************************************************************)
EXTENDS TriggerLane, TriggerDecision, TLAPS

\* Processes are numbered as they start.
Numbered ==
  /\ running \subseteq 1 .. games
  /\ active <= games
  /\ latest.kind = "read" => latest.of <= games

\* A process that runs is never older than the one the reader is attached to, or
\* than the one the frame was read from: no two ran when it was attached to.
NoneOlder == \A g \in running :
  active <= g /\ (latest.kind = "read" => latest.of <= g)

IInv == TypeOK /\ LatestIsLastRead /\ Numbered /\ NoneOlder

LEMMA Ranges ==
  ASSUME TypeOK
  PROVE  /\ active \in 0 .. MaxGames /\ latest.of \in 0 .. MaxGames
         /\ games \in 0 .. MaxGames /\ MaxGames \in Nat
<1>1. active \in Processes \cup {None} /\ latest \in Frames /\ games \in 0 .. MaxGames
  BY DEF TypeOK
<1>2. latest.of \in Processes \cup {None}
  BY <1>1, Zenon DEF Frames
<1> QED BY <1>1, <1>2, LaneAssumption DEF LaneAssumption, Processes, None

LEMMA FramesRead ==
  ASSUME TypeOK, active \in Processes
  PROVE  /\ Unavailable \in Frames /\ Booting \in Frames /\ ReadFrame \in Frames
         /\ Unavailable.kind # "read"
         /\ ReadFrame.kind = "read" => ReadFrame.of = active
         /\ ReadFrame.tick \in 0 .. TickRange - 1
<1>1. TickRange \in Nat \ {0} /\ tick \in 0 .. TickRange - 1
  BY LaneAssumption DEF LaneAssumption, TypeOK
<1>2. (tick + 1) % TickRange \in 0 .. TickRange - 1
  BY <1>1, SMTT(30)
<1>3. Unavailable \in Frames /\ Booting \in Frames /\ Unavailable.kind # "read"
  BY <1>1 DEF Unavailable, Booting, Frame, Frames, None
<1>4. CASE sampled = "no map"
  <2>1. ReadFrame = Unavailable
    BY <1>4 DEF ReadFrame
  <2>2. Unavailable.tick = 0
    BY DEF Unavailable, Frame
  <2> QED BY <1>1, <1>3, <2>1, <2>2
<1>5. CASE sampled # "no map"
  <2>1. ReadFrame = [kind |-> "read", fire |-> sampled = "fire",
                     tick |-> (tick + 1) % TickRange, of |-> active]
    BY <1>5 DEF ReadFrame, Frame
  <2>2. (sampled = "fire") \in BOOLEAN
    OBVIOUS
  <2>3. ReadFrame \in Frames
    BY <1>2, <2>1, <2>2 DEF Frames
  <2> QED BY <1>2, <1>3, <2>1, <2>3
<1> QED BY <1>4, <1>5

LEMMA StartFrames ==
  Unavailable \in Frames /\ Booting \in Frames /\ Unavailable.kind # "read"
    /\ Booting.kind # "read" /\ Booting.fire \in BOOLEAN
<1>1. TickRange \in Nat \ {0} /\ 0 \in 0 .. TickRange - 1
  BY LaneAssumption DEF LaneAssumption
<1> QED BY <1>1, SMTT(30) DEF Unavailable, Booting, Frame, Frames, None

LEMMA FaultCounts ==
  ASSUME TypeOK, Fault \/ UNCHANGED faults
  PROVE  faults' \in 0 .. MaxFaults
<1>1. faults \in 0 .. MaxFaults
  BY DEF TypeOK
<1> QED BY <1>1, LaneAssumption DEF LaneAssumption, Fault

LEMMA InitIInv == Init => IInv
<1> SUFFICES ASSUME Init PROVE IInv
  OBVIOUS
<1>1. TypeOK
  <2>1. latest \in Frames /\ answer \in Frames
    BY StartFrames DEF Init
  <2>2. /\ running = {} /\ games = 0 /\ faults = 0 /\ active = 0 /\ tick = 0
        /\ aim = "refuse" /\ sampled = "refuse" /\ reader = "connect" /\ client = "idle"
    BY DEF Init, None
  <2>3. /\ games \in 0 .. MaxGames /\ faults \in 0 .. MaxFaults
        /\ tick \in 0 .. TickRange - 1
    BY <2>2, LaneAssumption DEF LaneAssumption
  <2>4. listening \in BOOLEAN /\ decision \in BOOLEAN
    BY DEF Init
  <2>5. /\ active = None <=> reader \in {"down", "connect"}
        /\ active \in Processes \cup {None}
    BY <2>2 DEF None
  <2> QED BY <2>1, <2>2, <2>3, <2>4, <2>5, Zenon DEF TypeOK
<1>2. LatestIsLastRead /\ Numbered /\ NoneOlder
  BY StartFrames DEF Init, LatestIsLastRead, Numbered, NoneOlder, None
<1> QED BY <1>1, <1>2 DEF IInv

LEMMA WorldKeepsIInv ==
  ASSUME IInv, World
  PROVE  IInv'
<1> USE DEF IInv
<1>0. UNCHANGED <<faults, readerVars, socket>>
  BY DEF World, GameStarts, GameExits, AimChanges
<1>1. /\ active \in 0 .. MaxGames /\ latest.of \in 0 .. MaxGames
      /\ games \in 0 .. MaxGames /\ MaxGames \in Nat
  BY Ranges
<1>2. CASE GameStarts
  <2>1. /\ games' \in 0 .. MaxGames /\ running' \subseteq Processes
        /\ UNCHANGED <<aim, faults, readerVars, socket>>
    <3>1. games < MaxGames /\ games' = games + 1 /\ running' = running \cup {games + 1}
      BY <1>2 DEF GameStarts
    <3>2. running \subseteq Processes
      BY DEF TypeOK
    <3> QED BY <1>1, <1>2, <3>1, <3>2 DEF GameStarts, Processes
  <2>t. TypeOK'
    BY <2>1 DEF TypeOK, readerVars, socket
  <2>2. Numbered' /\ NoneOlder'
    <3>1. games < MaxGames /\ games' = games + 1 /\ running' = running \cup {games + 1}
      BY <1>2 DEF GameStarts
    <3> QED BY <1>0, <1>1, <3>1 DEF Numbered, NoneOlder, readerVars
  <2> QED BY <1>0, <2>t, <2>2 DEF LatestIsLastRead, readerVars
<1>3. CASE GameExits
  <2>1. TypeOK'
    BY <1>0, <1>3 DEF GameExits, TypeOK, readerVars, socket
  <2>2. Numbered' /\ NoneOlder'
    BY <1>0, <1>3 DEF GameExits, Numbered, NoneOlder, readerVars
  <2> QED BY <1>0, <2>1, <2>2 DEF LatestIsLastRead, readerVars
<1>4. CASE AimChanges
  <2>1. TypeOK'
    BY <1>0, <1>4 DEF AimChanges, TypeOK, readerVars, socket
  <2> QED BY <1>0, <1>4, <2>1
          DEF AimChanges, Numbered, NoneOlder, LatestIsLastRead, readerVars
<1> QED BY <1>2, <1>3, <1>4 DEF World

LEMMA ReaderKeepsIInv ==
  ASSUME IInv, Reader
  PROVE  IInv'
<1> USE DEF IInv
<1>0. UNCHANGED game /\ UNCHANGED socket
  BY DEF Reader, Connect, ConnectFails, Check, ProcessChanged, Read, ReadFails
<1>1. faults' \in 0 .. MaxFaults
  BY FaultCounts DEF Reader, Connect, ConnectFails, Check, ProcessChanged, Read, ReadFails
<1>2. /\ active \in 0 .. MaxGames /\ latest.of \in 0 .. MaxGames
      /\ games \in 0 .. MaxGames /\ MaxGames \in Nat
  BY Ranges
<1>3. CASE Connect
  <2>1. PICK g \in running : Resolves(g) /\ active' = g /\ reader' = "check"
    BY <1>3 DEF Connect
  <2>2. UNCHANGED <<faults, sampled, tick, latest>> /\ running = {g}
    BY <1>3, <2>1 DEF Connect, Resolves
  <2>3. TypeOK'
    <3>1. g \in Processes /\ active' # 0
      <4>1. running \subseteq 1 .. MaxGames
        BY DEF TypeOK, Processes
      <4> QED BY <2>1, <4>1, LaneAssumption DEF LaneAssumption, Processes
    <3>2. /\ active' = None <=> reader' \in {"down", "connect"}
          /\ active' \in Processes \cup {None}
      BY <2>1, <3>1 DEF None
    <3> QED BY <1>0, <2>1, <2>2, <3>2, Zenon DEF TypeOK, game, socket
  <2>4. LatestIsLastRead'
    BY <2>1, <2>2 DEF LatestIsLastRead, NoneOlder
  <2>5. Numbered' /\ NoneOlder'
    BY <1>0, <1>2, <2>1, <2>2 DEF Numbered, NoneOlder, game
  <2> QED BY <2>3, <2>4, <2>5
<1>4. CASE ConnectFails
  <2>1. TypeOK'
    <3>1. latest' \in Frames
      BY <1>4, StartFrames DEF ConnectFails
    <3> QED BY <1>0, <1>1, <1>4, <3>1 DEF ConnectFails, TypeOK, game, socket
  <2> QED BY <1>0, <1>4, <2>1, StartFrames
          DEF ConnectFails, LatestIsLastRead, Numbered, NoneOlder, game
<1>5. CASE Check
  <2>1. TypeOK'
    BY <1>0, <1>5 DEF Check, TypeOK, game, socket
  <2> QED BY <1>0, <1>5, <2>1 DEF Check, LatestIsLastRead, Numbered, NoneOlder, game
<1>6. CASE ProcessChanged
  <2>1. TypeOK'
    BY <1>0, <1>1, <1>6 DEF ProcessChanged, TypeOK, game, socket
  <2>2. active' = 0 /\ latest' = latest /\ tick' = tick
    BY <1>6 DEF ProcessChanged, None
  <2>3. LatestIsLastRead'
    BY <2>2 DEF LatestIsLastRead, None
  <2>4. Numbered' /\ NoneOlder'
    BY <1>0, <1>2, <2>2 DEF Numbered, NoneOlder, game
  <2> QED BY <2>1, <2>3, <2>4
<1>7. CASE Read
  <2>1. active \in Processes
    BY <1>7 DEF Read, TypeOK
  <2>2. /\ latest' = ReadFrame /\ tick' = ReadFrame.tick /\ active' = active
        /\ ReadFrame \in Frames /\ ReadFrame.tick \in 0 .. TickRange - 1
        /\ ReadFrame.kind = "read" => ReadFrame.of = active
    BY <1>7, <2>1, FramesRead DEF Read
  <2>3. TypeOK'
    BY <1>0, <1>7, <2>2 DEF Read, TypeOK, game, socket
  <2>4. LatestIsLastRead'
    BY <1>2, <2>2 DEF LatestIsLastRead
  <2>5. Numbered' /\ NoneOlder'
    BY <1>0, <2>2 DEF Numbered, NoneOlder, game
  <2> QED BY <2>3, <2>4, <2>5
<1>8. CASE ReadFails
  <2>1. TypeOK'
    <3>1. latest' \in Frames
      BY <1>8, StartFrames DEF ReadFails
    <3> QED BY <1>0, <1>1, <1>8, <3>1 DEF ReadFails, TypeOK, game, socket
  <2>2. active' = 0 /\ latest'.kind # "read"
    BY <1>8, StartFrames DEF ReadFails, None
  <2>3. Numbered' /\ NoneOlder'
    BY <1>0, <1>2, <2>2 DEF Numbered, NoneOlder, game
  <2> QED BY <2>1, <2>2, <2>3 DEF LatestIsLastRead
<1> QED BY <1>3, <1>4, <1>5, <1>6, <1>7, <1>8 DEF Reader

\* The socket and the client take copies of the frame and leave it alone.
LEMMA SocketKeepsIInv ==
  ASSUME IInv, Bind \/ Serve \/ Client
  PROVE  IInv'
<1>1. UNCHANGED <<game, readerVars>>
  BY DEF Bind, Serve, Client, ClientConnects, Store, StoreFails
<1>2. faults' \in 0 .. MaxFaults
  BY FaultCounts DEF IInv, Bind, Serve, Client, ClientConnects, Store, StoreFails
<1>3. /\ answer' \in Frames /\ decision' \in BOOLEAN /\ listening' \in BOOLEAN
      /\ client' \in {"idle", "connected", "answered", "broken"}
  <2>1. answer \in Frames /\ latest \in Frames /\ answer.fire \in BOOLEAN
    BY DEF IInv, TypeOK, Frames
  <2> QED BY <2>1, StartFrames
          DEF IInv, TypeOK, Bind, Serve, Client, ClientConnects, Store, StoreFails
<1>4. TypeOK'
  BY <1>1, <1>2, <1>3 DEF IInv, TypeOK, game, readerVars
<1> QED BY <1>1, <1>4 DEF IInv, LatestIsLastRead, Numbered, NoneOlder, game, readerVars

\* A new fun-trigger has read nothing yet.
LEMMA RestartKeepsIInv ==
  ASSUME IInv, TriggerEnds \/ TriggerStarts
  PROVE  IInv'
<1>1. CASE TriggerEnds
  <2>1. /\ faults' \in 0 .. MaxFaults /\ latest' \in Frames /\ latest'.kind # "read"
        /\ active' = 0 /\ tick' \in 0 .. TickRange - 1
    BY <1>1, FaultCounts, StartFrames, LaneAssumption
       DEF IInv, TriggerEnds, None, LaneAssumption
  <2>2. TypeOK'
    <3>1. active' \in Processes \cup {None} /\ active' = None
      BY <2>1 DEF None
    <3>2. /\ reader' = "down" /\ sampled' = "refuse" /\ listening' = FALSE
          /\ client' \in {"idle", "connected", "answered", "broken"}
          /\ UNCHANGED <<running, games, aim, answer, decision>>
      BY <1>1 DEF IInv, TypeOK, TriggerEnds, game
    <3> QED BY <2>1, <3>1, <3>2 DEF IInv, TypeOK
  <2>3. Numbered' /\ NoneOlder'
    <3>1. running \subseteq 1 .. games /\ games \in 0 .. MaxGames /\ MaxGames \in Nat
      BY Ranges DEF IInv, Numbered
    <3>2. running' = running /\ games' = games
      BY <1>1 DEF TriggerEnds, game
    <3> QED BY <2>1, <3>1, <3>2 DEF Numbered, NoneOlder
  <2> QED BY <2>1, <2>2, <2>3 DEF IInv, LatestIsLastRead
<1>2. CASE TriggerStarts
  <2>1. TypeOK'
    BY <1>2 DEF IInv, TypeOK, TriggerStarts, game, socket
  <2> QED BY <1>2, <2>1
          DEF IInv, TriggerStarts, LatestIsLastRead, Numbered, NoneOlder, game
<1> QED BY <1>1, <1>2

LEMMA NextKeepsIInv == IInv /\ [Next]_vars => IInv'
<1> SUFFICES ASSUME IInv, [Next]_vars PROVE IInv'
  OBVIOUS
<1>1. CASE Next
  BY <1>1, WorldKeepsIInv, ReaderKeepsIInv, SocketKeepsIInv, RestartKeepsIInv DEF Next
<1>2. CASE UNCHANGED vars
  <2>1. TypeOK'
    BY <1>2 DEF vars, IInv, TypeOK
  <2>2. LatestIsLastRead' /\ Numbered' /\ NoneOlder'
    BY <1>2 DEF vars, IInv, LatestIsLastRead, Numbered, NoneOlder
  <2> QED BY <2>1, <2>2 DEF IInv
<1> QED BY <1>1, <1>2

\* The threads' locals, the frames and the flag keep their types, and the reader
\* has a process exactly while it checks and reads.
THEOREM TypeCorrect == Spec => []TypeOK
<1>1. IInv => TypeOK
  BY DEF IInv
<1> QED BY <1>1, InitIInv, NextKeepsIInv, PTL DEF Spec

\* Whatever the range of the tick and however many games come and go, the frame
\* served carries the reader's tick and is not of a process later than the one
\* the reader is attached to.
THEOREM ServedIsLastRead == Spec => []LatestIsLastRead
<1>1. IInv => LatestIsLastRead
  BY DEF IInv
<1> QED BY <1>1, InitIInv, NextKeepsIInv, PTL DEF Spec

-----------------------------------------------------------------------------
(* The frame, read by read.                                                *)

\* What holds of the game's memory at every moment.
OfPawns(w) == \A i \in PawnSlots : w.table[i] \in Pawns \cup {Nil}
OfControllers(w) == \A c \in Controllers : w.table[c - 1] = c

LocalFieldSet == {"x", "z", "eye", "pitch", "yaw", "impaired", "crosshair", "health", "team",
                  "life", "immune"}
PlayerFieldSet == {"health", "team", "life", "immune", "dormant", "x", "z"}
BoneFieldSet == {"skeleton", "head_x", "head_z"}
FieldSet == CASE phase = "local" -> LocalFieldSet
              [] phase = "head" -> BoneFieldSet
              [] OTHER -> PlayerFieldSet
AllFields == LocalFieldSet \cup PlayerFieldSet \cup BoneFieldSet

Record == [pawn : Pawns \cup {Nil}, impaired : SUBSET Checks,
           crosshair : PawnSlots \cup {NoIndex}, health : BOOLEAN, team : Teams,
           life : BOOLEAN, immune : BOOLEAN, dormant : BOOLEAN, is_local : BOOLEAN,
           x : Places, z : Places, eye : Places, pitch : Turns, yaw : Turns,
           skeleton : BOOLEAN, head_x : Places, head_z : Places]

Among(x, s) == \E k \in DOMAIN s : s[k] = x

\* The moments seen are moments of the game, of which the last is the present.
GameOK ==
  /\ \A w \in seen \cup {world} : w \in Moment /\ OfPawns(w) /\ OfControllers(w)
  /\ phase # "done" => world \in seen
  /\ changes \in 0 .. MaxChanges
  /\ config \in [teammates : BOOLEAN, head_only : BOOLEAN, checks : SUBSET Checks]

\* Where the reader can be, and what it holds there.
PlaceOK ==
  /\ phase \in {"local", "again", "players", "decide", "head", "done"}
  /\ step \in CASE phase = "local" -> {"controller", "handle", "slot", "scene", "fields"}
                [] phase = "again" -> {"controller", "handle", "slot"}
                [] phase = "players" -> {"bucket", "handle", "slot", "scene", "fields"}
                [] phase = "head" -> {"scene", "fields"}
                [] OTHER -> {"none"}
  /\ CASE step = "handle" -> at \in Controllers
       [] step = "slot" -> at \in PawnSlots
       [] step \in {"scene", "fields"} -> at \in Pawns
       [] OTHER -> at = Nil
  /\ bucket \in Nat /\ bucket * BucketSize < 2 * NumPlayers
  /\ phase # "players" => bucket = 0
  /\ todo \in Seq(Controllers)
  /\ todo # <<>> <=> phase = "players" /\ step # "bucket"
  /\ phase = "players" /\ step = "handle" => at = Head(todo)

LocalsOK ==
  /\ map \in {"real", "empty", "none"}
  /\ rest \in Seq(FieldSet)
  /\ rest # <<>> <=> step = "fields"
  /\ record \in Record /\ me \in Record /\ players \in Seq(Record)
  /\ record.pawn = IF step = "fields" THEN at ELSE Nil
  /\ step # "fields" => record = NoRecord
  /\ mine \in Pawns \cup {Nil} /\ target \in Pawns \cup {Nil}
  /\ fire \in BOOLEAN /\ (phase # "done" => ~fire)

\* Each field of a record, of fs, is what the pawn had at some moment of the frame,
\* and so is the scene.
Sampled(r, fs) ==
  /\ \E w \in seen : w.pawn[r.pawn].scene
  /\ \A f \in fs : \E w \in seen : r[f] = w.pawn[r.pawn][f]

\* The pointers from the local controller on, each from a moment of its own.
LocalHandle(i) == \E v, w \in seen : v.local \in Controllers /\ w.handle[v.local] = i
LocalPawn(p) == \E i \in PawnSlots : LocalHandle(i) /\ \E w \in seen : w.table[i] = p
NoLocalPawn == (\E w \in seen : w.local = Nil) \/ LocalHandle(NoIndex) \/ LocalPawn(Nil)

\* The same for a player's controller.
HandleOf(d, i) == \E w \in seen : w.handle[d] = i
PawnOf(d, p) == \E i \in PawnSlots : HandleOf(d, i) /\ \E w \in seen : w.table[i] = p

After(p) == CASE phase = "again" -> p \in {"local"}
              [] phase = "players" -> p \in {"local", "again"}
              [] phase \in {"decide", "head"} -> p \in {"local", "again", "players"}
              [] OTHER -> FALSE

\* All that the frame holds is from moments of this frame.
Witnessed ==
  /\ phase # "done" => \E w \in seen : w.map = map
  /\ phase \in {"local", "again"} =>
       /\ step = "handle" => \E w \in seen : w.local = at
       /\ step = "slot" => LocalHandle(at)
       /\ step \in {"scene", "fields"} => LocalPawn(at)
  /\ phase = "players" =>
       /\ step = "slot" => HandleOf(Head(todo), at)
       /\ step \in {"scene", "fields"} => PawnOf(Head(todo), at)
  /\ step = "fields" => Sampled(record, {f \in FieldSet : ~Among(f, rest)})
  /\ After("local") => /\ me.pawn \in Pawns /\ LocalPawn(me.pawn)
                       /\ Sampled(me, LocalFieldSet)
                       /\ map # "none"
  /\ After("again") => LocalPawn(mine) \/ (mine = Nil /\ NoLocalPawn)

\* The players listed so far, each pawn with a first record.
ListOK ==
  phase # "done" =>
    /\ (players # <<>> => After("again"))
    /\ \A k \in DOMAIN players :
      /\ players[k].pawn \in Pawns
      /\ Sampled(players[k], PlayerFieldSet)
      /\ players[k].is_local <=> mine = players[k].pawn
      /\ \E m \in DOMAIN players : /\ players[m].pawn = players[k].pawn
                                   /\ \A j \in 1 .. m - 1 : players[j].pawn # players[k].pawn

\* A player who is there during the whole frame.
Stays(d, i, q) == \A w \in seen : /\ w.handle[d] = i /\ w.table[i] = q
                                  /\ d - 1 \notin w.stale /\ w.pawn[q].scene

Listed(q) == \E k \in DOMAIN players : players[k].pawn = q

ToCome(d) == \/ Among(d, todo)
             \/ (bucket + (IF step = "bucket" THEN 0 ELSE 1)) * BucketSize <= d - 1

\* Nobody who stays is left out.
NobodyMissed ==
  \A d \in Controllers, i \in PawnSlots, q \in Pawns :
    Stays(d, i, q) =>
      /\ phase = "players" => Listed(q) \/ ToCome(d)
      /\ phase \in {"decide", "head"} => Listed(q)

\* A pair of pawns is in opposite teams throughout only if neither changes sides.
SidesOK ==
  \A p, q \in Pawns :
    p # q /\ (\A w \in seen : /\ w.pawn[p].team \in Playing /\ w.pawn[q].team \in Playing
                             /\ w.pawn[p].team # w.pawn[q].team)
      => \A v, w \in seen : v.pawn[p].team = w.pawn[p].team

OnTarget == \E w \in seen : w.table[me.crosshair] = target

HeadOK == phase = "head" =>
  LocalOk /\ TargetOk(target) /\ OnTarget /\ config.head_only /\ at = target
    /\ (step = "fields" => Among("skeleton", rest) \/ record.skeleton)

FrameInv == /\ GameOK /\ PlaceOK /\ LocalsOK /\ Witnessed /\ ListOK /\ NobodyMissed
            /\ SidesOK /\ HeadOK
            /\ phase = "done" => FireIsJustified /\ SteadyTargetIsFiredAt

-----------------------------------------------------------------------------

LEMMA Names ==
  /\ NumPlayers \in Nat /\ NumPlayers > 1 /\ BucketSize \in Nat /\ BucketSize > 0
  /\ MaxChanges \in Nat /\ Span \in Nat /\ Span > 0
  /\ Places \subseteq Turns /\ 0 \in Places /\ 0 \in Turns /\ Span \in Places /\ Span \in Turns
  /\ Nil \notin Controllers /\ Nil \notin Pawns /\ NoIndex \notin PawnSlots
  /\ PawnSlots \subseteq Indices /\ PawnSlots \subseteq Nat
  /\ Controllers \subseteq Nat
  /\ \A c \in Controllers : c - 1 \in Indices /\ c - 1 \notin PawnSlots /\ c - 1 < 2 * NumPlayers
  /\ \A p \in Pawns : p \notin Controllers
BY DecisionAssumption
   DEF DecisionAssumption, Nil, NoIndex, Controllers, Pawns, PawnSlots, Indices, Places, Turns

LEMMA Fields ==
  ASSUME NEW w \in Moment, NEW p \in Pawns
  PROVE  /\ w.pawn[p] \in Pawn
         /\ w.map \in {"real", "empty", "none"} /\ w.local \in Controllers \cup {Nil}
         /\ \A c \in Controllers : w.handle[c] \in PawnSlots \cup {NoIndex}
BY DEF Moment

LEMMA NotEmpty ==
  ASSUME NEW S, NEW s \in Seq(S), s # <<>>
  PROVE  Len(s) = 1 \/ Len(s) > 1
<1>1. Len(s) \in Nat /\ DOMAIN s = 1 .. Len(s)
  OBVIOUS
<1>2. Len(s) = 0 => s = <<>>
  BY <1>1
<1> QED BY <1>1, <1>2

LEMMA AmongTail ==
  ASSUME NEW S, NEW s \in Seq(S), s # <<>>
  PROVE  \A x : Among(x, s) => x = Head(s) \/ Among(x, Tail(s))
<1>1. SUFFICES ASSUME NEW k \in DOMAIN s, k # 1 PROVE Among(s[k], Tail(s))
  BY DEF Among
<1>2. k - 1 \in DOMAIN Tail(s) /\ Tail(s)[k - 1] = s[k]
  BY <1>1
<1> QED BY <1>2 DEF Among

\* A change of the game leaves it a game, with the controllers where they were, and
\* changes the team of one pawn at most.
LEMMA GameStaysGame ==
  ASSUME GameOK, GameChanges
  PROVE  /\ world' \in Moment /\ OfPawns(world') /\ OfControllers(world')
         /\ \A x, y \in Pawns : x # y => \/ world'.pawn[x].team = world.pawn[x].team
                                        \/ world'.pawn[y].team = world.pawn[y].team
<1> DEFINE Game(w) == /\ w \in Moment /\ OfPawns(w) /\ OfControllers(w)
                      /\ \A x, y \in Pawns : x # y => \/ w.pawn[x].team = world.pawn[x].team
                                                     \/ w.pawn[y].team = world.pawn[y].team
<1>1. Game(world)
  BY DEF GameOK
<1>2. ASSUME NEW m \in {"real", "empty", "none"}, Becomes([world EXCEPT !.map = m])
      PROVE  Game(world')
  BY <1>1, <1>2 DEF Becomes, Moment, OfPawns, OfControllers
<1>3. ASSUME NEW c \in Controllers \cup {Nil}, Becomes([world EXCEPT !.local = c])
      PROVE  Game(world')
  BY <1>1, <1>3 DEF Becomes, Moment, OfPawns, OfControllers
<1>4. ASSUME NEW c \in Controllers, NEW i \in PawnSlots \cup {NoIndex},
             Becomes([world EXCEPT !.handle[c] = i])
      PROVE  Game(world')
  BY <1>1, <1>4 DEF Becomes, Moment, OfPawns, OfControllers
<1>5. ASSUME NEW i \in PawnSlots, NEW e \in Pawns \cup {Nil},
             Becomes([world EXCEPT !.table[i] = e])
      PROVE  Game(world')
  <2>1. /\ world'.table = [world.table EXCEPT ![i] = e] /\ world' \in Moment
        /\ world'.pawn = world.pawn
    BY <1>1, <1>5 DEF Becomes, Moment
  <2>2. DOMAIN world.table = Indices
    BY <1>1 DEF Moment
  <2>3. \A c \in Controllers : c - 1 # i /\ c - 1 \in Indices
    BY Names
  <2> QED BY <1>1, <2>1, <2>2, <2>3, Names DEF OfPawns, OfControllers
<1>6. ASSUME NEW c \in Controllers, Becomes([world EXCEPT !.stale = @ \cup {c - 1}])
      PROVE  Game(world')
  <2>1. c - 1 \in Indices
    BY Names
  <2> QED BY <1>1, <1>6, <2>1 DEF Becomes, Moment, OfPawns, OfControllers
<1>7. ASSUME NEW p \in Pawns, NEW new \in Pawn, Becomes([world EXCEPT !.pawn[p] = new])
      PROVE  Game(world')
  BY <1>1, <1>7 DEF Becomes, Moment, OfPawns, OfControllers
<1>8. ASSUME NEW p \in Pawns
      PROVE  /\ \A b \in {"scene", "health", "life", "immune", "dormant", "skeleton"} :
                  [world.pawn[p] EXCEPT ![b] = ~@] \in Pawn
             /\ \A s \in Teams : [world.pawn[p] EXCEPT !.team = s] \in Pawn
             /\ \A s \in SUBSET Checks : [world.pawn[p] EXCEPT !.impaired = s] \in Pawn
             /\ \A i \in PawnSlots \cup {NoIndex} : [world.pawn[p] EXCEPT !.crosshair = i] \in Pawn
             /\ \A f \in {"x", "z", "eye", "head_x", "head_z"}, a \in Places :
                  [world.pawn[p] EXCEPT ![f] = a] \in Pawn
             /\ \A a \in Turns : [world.pawn[p] EXCEPT !.pitch = a] \in Pawn
             /\ \A a \in Turns : [world.pawn[p] EXCEPT !.yaw = a] \in Pawn
  <2>1. world.pawn[p] \in Pawn
    BY <1>1, Fields
  <2>2. \A b \in {"scene", "health", "life"} : [world.pawn[p] EXCEPT ![b] = ~@] \in Pawn
    BY <2>1 DEF Pawn
  <2>3. \A b \in {"immune", "dormant", "skeleton"} : [world.pawn[p] EXCEPT ![b] = ~@] \in Pawn
    BY <2>1 DEF Pawn
  <2>4. /\ \A s \in Teams : [world.pawn[p] EXCEPT !.team = s] \in Pawn
        /\ \A s \in SUBSET Checks : [world.pawn[p] EXCEPT !.impaired = s] \in Pawn
    BY <2>1 DEF Pawn
  <2>5. \A i \in PawnSlots \cup {NoIndex} : [world.pawn[p] EXCEPT !.crosshair = i] \in Pawn
    BY <2>1 DEF Pawn
  <2>6. \A f \in {"x", "z", "eye"}, a \in Places : [world.pawn[p] EXCEPT ![f] = a] \in Pawn
    BY <2>1 DEF Pawn
  <2>7. \A f \in {"head_x", "head_z"}, a \in Places : [world.pawn[p] EXCEPT ![f] = a] \in Pawn
    BY <2>1 DEF Pawn
  <2>8. /\ \A a \in Turns : [world.pawn[p] EXCEPT !.pitch = a] \in Pawn
        /\ \A a \in Turns : [world.pawn[p] EXCEPT !.yaw = a] \in Pawn
    BY <2>1 DEF Pawn
  <2> QED BY <2>2, <2>3, <2>4, <2>5, <2>6, <2>7, <2>8
<1>9. ASSUME NEW p \in Pawns, NEW b \in {"scene", "health", "life", "immune", "dormant", "skeleton"},
             Becomes([world EXCEPT !.pawn[p][b] = ~@])
      PROVE  Game(world')
  <2>1. Becomes([world EXCEPT !.pawn[p] = [world.pawn[p] EXCEPT ![b] = ~@]])
    BY <1>9 DEF Becomes
  <2> QED BY <1>7, <1>8, <2>1
<1>10. ASSUME NEW p \in Pawns, NEW s, Becomes([world EXCEPT !.pawn[p].team = s]), s \in Teams
       PROVE  Game(world')
  <2>1. Becomes([world EXCEPT !.pawn[p] = [world.pawn[p] EXCEPT !.team = s]])
    BY <1>10 DEF Becomes
  <2> QED BY <1>7, <1>8, <1>10, <2>1
<1>11. ASSUME NEW p \in Pawns, NEW s \in SUBSET Checks,
              Becomes([world EXCEPT !.pawn[p].impaired = s])
       PROVE  Game(world')
  <2>1. Becomes([world EXCEPT !.pawn[p] = [world.pawn[p] EXCEPT !.impaired = s]])
    BY <1>11 DEF Becomes
  <2> QED BY <1>7, <1>8, <2>1
<1>12. ASSUME NEW p \in Pawns, NEW i \in PawnSlots \cup {NoIndex},
              Becomes([world EXCEPT !.pawn[p].crosshair = i])
       PROVE  Game(world')
  <2>1. Becomes([world EXCEPT !.pawn[p] = [world.pawn[p] EXCEPT !.crosshair = i]])
    BY <1>12 DEF Becomes
  <2> QED BY <1>7, <1>8, <2>1
<1>13. ASSUME NEW p \in Pawns, NEW f \in {"x", "z", "eye", "head_z"}, NEW a \in Places,
              Becomes([world EXCEPT !.pawn[p][f] = a])
       PROVE  Game(world')
  <2>1. Becomes([world EXCEPT !.pawn[p] = [world.pawn[p] EXCEPT ![f] = a]])
    BY <1>13 DEF Becomes
  <2> QED BY <1>7, <1>8, <2>1
<1>14. ASSUME NEW p \in Pawns, NEW a \in Turns, Becomes([world EXCEPT !.pawn[p].pitch = a])
       PROVE  Game(world')
  <2>1. Becomes([world EXCEPT !.pawn[p] = [world.pawn[p] EXCEPT !.pitch = a]])
    BY <1>14 DEF Becomes
  <2> QED BY <1>7, <1>8, <2>1
<1>15. ASSUME NEW p \in Pawns, NEW q \in Pawns \ {p}, NEW a \in Turns, NEW h \in Places,
              Becomes([world EXCEPT !.pawn[p].yaw = a, !.pawn[q].head_x = h])
       PROVE  Game(world')
  <2> DEFINE shooter == [world.pawn[p] EXCEPT !.yaw = a]
             body == [world.pawn[q] EXCEPT !.head_x = h]
             pawns == [[world.pawn EXCEPT ![p] = shooter] EXCEPT ![q] = body]
  <2>1. world' = [world EXCEPT !.pawn = pawns]
    BY <1>1, <1>15 DEF Becomes, Moment
  <2>2. shooter \in Pawn /\ body \in Pawn
    BY <1>8
  <2>3. shooter.team = world.pawn[p].team /\ body.team = world.pawn[q].team
    <3>1. world.pawn[p] \in Pawn /\ world.pawn[q] \in Pawn
      BY <1>1, Fields
    <3> QED BY <3>1 DEF Pawn
  <2>4. world.pawn \in [Pawns -> Pawn]
    BY <1>1 DEF Moment
  <2> HIDE DEF shooter, body
  <2>5. pawns \in [Pawns -> Pawn] /\ \A x \in Pawns : pawns[x].team = world.pawn[x].team
    BY <2>2, <2>3, <2>4
  <2> HIDE DEF pawns
  <2>6. /\ world' \in Moment /\ world'.pawn = pawns
        /\ world'.table = world.table /\ world'.handle = world.handle
        /\ world'.local = world.local
    BY <1>1, <2>1, <2>5 DEF Moment
  <2>7. OfPawns(world') /\ OfControllers(world')
    BY <1>1, <2>6 DEF OfPawns, OfControllers
  <2> QED BY <2>5, <2>6, <2>7
<1> HIDE DEF Game
<1>16. Game(world')
  BY ZenonT(40), <1>2, <1>3, <1>4, <1>5, <1>6, <1>9, <1>10, <1>11, <1>12, <1>13, <1>14, <1>15
     DEF GameChanges
<1> QED BY <1>16 DEF Game

\* What was seen stays seen.
LEMMA SeenStays ==
  ASSUME seen \subseteq seen'
  PROVE  /\ \A i : LocalHandle(i) => LocalHandle(i)'
         /\ \A p : LocalPawn(p) => LocalPawn(p)'
         /\ NoLocalPawn => NoLocalPawn'
         /\ \A d, i : HandleOf(d, i) => HandleOf(d, i)'
         /\ \A d, p : PawnOf(d, p) => PawnOf(d, p)'
         /\ \A r, fs : Sampled(r, fs) => Sampled(r, fs)'
         /\ \A d, i, q : Stays(d, i, q)' => Stays(d, i, q)
<1>1. \A i : LocalHandle(i) => LocalHandle(i)'
  BY DEF LocalHandle
<1>2. \A p : LocalPawn(p) => LocalPawn(p)'
  BY <1>1 DEF LocalPawn
<1>3. NoLocalPawn => NoLocalPawn'
  BY <1>1, <1>2 DEF NoLocalPawn
<1>4. \A d, i : HandleOf(d, i) => HandleOf(d, i)'
  BY DEF HandleOf
<1>5. \A d, p : PawnOf(d, p) => PawnOf(d, p)'
  BY <1>4 DEF PawnOf
<1>6. \A r, fs : Sampled(r, fs) => Sampled(r, fs)'
  BY DEF Sampled
<1>7. \A d, i, q : Stays(d, i, q)' => Stays(d, i, q)
  BY DEF Stays
<1> QED BY <1>1, <1>2, <1>3, <1>4, <1>5, <1>6, <1>7

\* What a frame can read does not depend on more.
LEMMA ReadingsStay ==
  ASSUME seen' = seen
  PROVE  \A p, q : /\ SomeReadingHits(p, q)' <=> SomeReadingHits(p, q)
                   /\ EveryReadingHits(p, q)' <=> EveryReadingHits(p, q)
<1>1. \A p, fs : Readings(p, fs)' = Readings(p, fs)
  BY DEF Readings
<1> QED BY <1>1 DEF SomeReadingHits, EveryReadingHits

LEMMA GameChangesKeepsFrameInv == FrameInv /\ GameChanges => FrameInv'
<1> SUFFICES ASSUME FrameInv, GameChanges PROVE FrameInv'
  OBVIOUS
<1> USE DEF FrameInv
<1>1. /\ seen' = IF phase = "done" THEN seen ELSE seen \cup {world'}
      /\ changes < MaxChanges /\ changes' = changes + 1
      /\ UNCHANGED <<config, phase, step, map, at, rest, record, me, mine, bucket, todo,
                     players, target, fire>>
  BY DEF GameChanges, reading
<1>2. seen \subseteq seen'
  BY <1>1
<1>3. GameOK'
  <2>1. world' \in Moment /\ OfPawns(world') /\ OfControllers(world')
    BY GameStaysGame
  <2>2. changes' \in 0 .. MaxChanges
    BY <1>1, Names DEF GameOK
  <2>3. \A w \in seen : w \in Moment /\ OfPawns(w) /\ OfControllers(w)
    BY DEF GameOK
  <2>4. \A w : OfPawns(w)' <=> OfPawns(w)
    BY DEF OfPawns
  <2>5. \A w : OfControllers(w)' <=> OfControllers(w)
    BY DEF OfControllers
  <2> QED BY <1>1, <2>1, <2>2, <2>3, <2>4, <2>5 DEF GameOK
<1>4. PlaceOK' /\ LocalsOK'
  BY <1>1 DEF PlaceOK, LocalsOK, FieldSet
<1>5. \A p : After(p)' <=> After(p)
  BY <1>1 DEF After
<1>6. \A r, fs : Sampled(r, fs) => Sampled(r, fs)'
  BY <1>2, SeenStays
<1>7. Witnessed'
  BY <1>1, <1>2, <1>5, <1>6, SeenStays DEF Witnessed, FieldSet, Among
<1>8. ListOK'
  BY <1>1, <1>5, <1>6 DEF ListOK
<1>9. NobodyMissed'
  BY <1>1, <1>2, SeenStays DEF NobodyMissed, Listed, ToCome, Among
<1>10. HeadOK'
  <2>1. LocalOk' <=> LocalOk
    BY <1>1 DEF LocalOk
  <2>2. TargetOk(target)' <=> TargetOk(target)
    BY <1>1 DEF TargetOk, First
  <2>3. OnTarget => OnTarget'
    BY <1>1, <1>2 DEF OnTarget
  <2>4. Among("skeleton", rest)' <=> Among("skeleton", rest)
    BY <1>1 DEF Among
  <2> QED BY <1>1, <2>1, <2>2, <2>3, <2>4 DEF HeadOK
<1>12. SidesOK'
  <2>1. CASE phase = "done"
    BY <1>1, <2>1 DEF SidesOK
  <2>2. CASE phase # "done"
    <3>1. SUFFICES ASSUME NEW p \in Pawns, NEW q \in Pawns, p # q,
                          \A w \in seen' : /\ w.pawn[p].team \in Playing
                                           /\ w.pawn[q].team \in Playing
                                           /\ w.pawn[p].team # w.pawn[q].team,
                          NEW v \in seen'
                   PROVE  v.pawn[p].team = world.pawn[p].team
      BY DEF SidesOK
    <3>2. world \in seen /\ seen' = seen \cup {world'}
      BY <1>1, <2>2 DEF GameOK
    <3>3. \A w \in seen : w.pawn[p].team = world.pawn[p].team
      BY <1>2, <3>1, <3>2 DEF SidesOK
    <3>4. \/ world'.pawn[p].team = world.pawn[p].team
          \/ world'.pawn[q].team = world.pawn[q].team
      BY <3>1, GameStaysGame
    <3>5. world'.pawn[p].team = world.pawn[p].team
      BY <3>1, <3>2, <3>4 DEF Playing
    <3> QED BY <3>2, <3>3, <3>5
  <2> QED BY <2>1, <2>2
<1>11. phase' = "done" => FireIsJustified' /\ SteadyTargetIsFiredAt'
  <2>1. CASE phase = "done"
    <3>1. \A w, p, q : Holds(w, p, q)' = Holds(w, p, q)
      BY <1>1 DEF Holds
    <3>2. \A v, w, p, q : DOMAIN Holds(v, p, q) = DOMAIN Holds(w, p, q)
      BY DEF Holds
    <3>6. \A p, q : /\ SomeReadingHits(p, q)' <=> SomeReadingHits(p, q)
                    /\ EveryReadingHits(p, q)' <=> EveryReadingHits(p, q)
      BY <1>1, <2>1, ReadingsStay
    <3>3. FireIsJustified'
      BY <1>1, <2>1, <3>1, <3>2, <3>6 DEF FireIsJustified
    <3>4. \A w, c, h, p, d, i, q : Eligible(w, c, h, p, d, i, q)' <=> Eligible(w, c, h, p, d, i, q)
      BY <1>1, <3>1 DEF Eligible
    <3>5. SteadyTargetIsFiredAt'
      BY <1>1, <2>1, <3>4, <3>6 DEF SteadyTargetIsFiredAt
    <3> QED BY <3>3, <3>5
  <2> QED BY <1>1, <2>1
<1> QED BY <1>3, <1>4, <1>7, <1>8, <1>9, <1>10, <1>11, <1>12

SteadyTarget(c, d, h, i, p, q) ==
  /\ p # q /\ \A w \in seen : Eligible(w, c, h, p, d, i, q)
  /\ config.head_only => EveryReadingHits(p, q)

\* What a target that stays eligible means for each moment of the frame.
LEMMA Conditions ==
  ASSUME NEW w, NEW c, NEW d, NEW h, NEW i, NEW p, NEW q, Eligible(w, c, h, p, d, i, q)
  PROVE  /\ w.local = c /\ w.handle[c] = h /\ w.table[h] = p
         /\ w.handle[d] = i /\ w.table[i] = q /\ d - 1 \notin w.stale
         /\ w.pawn[p].crosshair = i /\ w.map # "none"
         /\ w.pawn[p].health /\ w.pawn[p].life /\ ~w.pawn[p].immune /\ w.pawn[p].scene
         /\ w.pawn[p].team \in Playing /\ w.pawn[p].impaired \cap config.checks = {}
         /\ w.pawn[q].health /\ w.pawn[q].life /\ ~w.pawn[q].immune /\ w.pawn[q].scene
         /\ w.pawn[q].team \in Playing /\ ~w.pawn[q].dormant
         /\ config.head_only => w.pawn[q].skeleton
         /\ config.teammates \/ w.pawn[p].team # w.pawn[q].team
BY DEF Eligible, Holds

\* Whatever was found of such a target or its shooter is they.
LEMMA SteadyFound ==
  ASSUME NEW c \in Controllers, NEW d \in Controllers, NEW h \in PawnSlots, NEW i \in PawnSlots,
         NEW p \in Pawns, NEW q \in Pawns, SteadyTarget(c, d, h, i, p, q)
  PROVE  /\ \A x : LocalHandle(x) => x = h
         /\ \A x : LocalPawn(x) => x = p
         /\ ~NoLocalPawn
         /\ \A x : HandleOf(d, x) => x = i
         /\ \A x : PawnOf(d, x) => x = q
         /\ Stays(d, i, q)
<1>1. \A w \in seen : /\ w.local = c /\ w.handle[c] = h /\ w.table[h] = p
                      /\ w.handle[d] = i /\ w.table[i] = q /\ d - 1 \notin w.stale
                      /\ w.pawn[q].scene
  BY Conditions DEF SteadyTarget
<1>2. \A x : LocalHandle(x) => x = h
  BY <1>1 DEF LocalHandle
<1>3. \A x : LocalPawn(x) => x = p
  BY <1>1, <1>2 DEF LocalPawn
<1>4. ~NoLocalPawn
  BY <1>1, <1>2, <1>3, Names DEF NoLocalPawn
<1>5. \A x : HandleOf(d, x) => x = i
  BY <1>1 DEF HandleOf
<1>6. \A x : PawnOf(d, x) => x = q
  BY <1>1, <1>5 DEF PawnOf
<1>7. Stays(d, i, q)
  BY <1>1 DEF Stays
<1> QED BY <1>2, <1>3, <1>4, <1>5, <1>6, <1>7

\* So the local player's record lets him fire,
LEMMA SteadyShooterOk ==
  ASSUME NEW c \in Controllers, NEW d \in Controllers, NEW h \in PawnSlots, NEW i \in PawnSlots,
         NEW p \in Pawns, NEW q \in Pawns, SteadyTarget(c, d, h, i, p, q),
         NEW r \in Record, r.pawn = p, Sampled(r, LocalFieldSet)
  PROVE  /\ r.team \in Playing /\ r.health /\ r.life /\ ~r.immune
         /\ r.impaired \cap config.checks = {} /\ r.crosshair = i
<1>1. \A f \in LocalFieldSet : \E w \in seen : r[f] = w.pawn[p][f]
  BY DEF Sampled
<1>2. \A w \in seen : /\ w.pawn[p].health /\ w.pawn[p].life /\ ~w.pawn[p].immune
                      /\ w.pawn[p].team \in Playing /\ w.pawn[p].impaired \cap config.checks = {}
                      /\ w.pawn[p].crosshair = i
  BY Conditions DEF SteadyTarget
<1>3. /\ \E w \in seen : r.health = w.pawn[p].health
      /\ \E w \in seen : r.life = w.pawn[p].life
      /\ \E w \in seen : r.immune = w.pawn[p].immune
      /\ \E w \in seen : r.team = w.pawn[p].team
      /\ \E w \in seen : r.impaired = w.pawn[p].impaired
      /\ \E w \in seen : r.crosshair = w.pawn[p].crosshair
  BY <1>1 DEF LocalFieldSet
<1> QED BY <1>2, <1>3

\* and each record of the target lets it be fired at.
LEMMA SteadyTargetOk ==
  ASSUME NEW c \in Controllers, NEW d \in Controllers, NEW h \in PawnSlots, NEW i \in PawnSlots,
         NEW p \in Pawns, NEW q \in Pawns, SteadyTarget(c, d, h, i, p, q), SidesOK,
         NEW r \in Record, r.pawn = q, Sampled(r, PlayerFieldSet),
         me.pawn = p, Sampled(me, LocalFieldSet)
  PROVE  /\ ~r.dormant /\ ~r.immune /\ r.health /\ r.life /\ r.team \in Playing
         /\ config.teammates \/ r.team # me.team
<1>1. \A f \in PlayerFieldSet : \E w \in seen : r[f] = w.pawn[q][f]
  BY DEF Sampled
<1>2. \A w \in seen : /\ w.pawn[q].health /\ w.pawn[q].life /\ ~w.pawn[q].immune
                      /\ w.pawn[q].team \in Playing /\ w.pawn[p].team \in Playing
                      /\ ~w.pawn[q].dormant
                      /\ config.teammates \/ w.pawn[p].team # w.pawn[q].team
  BY Conditions DEF SteadyTarget
<1>3. /\ \E w \in seen : r.health = w.pawn[q].health
      /\ \E w \in seen : r.life = w.pawn[q].life
      /\ \E w \in seen : r.immune = w.pawn[q].immune
      /\ \E w \in seen : r.dormant = w.pawn[q].dormant
      /\ \E w \in seen : r.team = w.pawn[q].team
  BY <1>1 DEF PlayerFieldSet
<1>4. config.teammates \/ r.team # me.team
  <2>1. SUFFICES ASSUME ~config.teammates PROVE r.team # me.team
    OBVIOUS
  <2>2. PICK v \in seen : r.team = v.pawn[q].team
    BY <1>3
  <2>3. PICK w \in seen : me.team = w.pawn[p].team
    BY DEF Sampled, LocalFieldSet
  <2>4. v.pawn[p].team = w.pawn[p].team
    BY <1>2, <2>1 DEF SidesOK, SteadyTarget
  <2> QED BY <1>2, <2>1, <2>2, <2>3, <2>4
<1> QED BY <1>2, <1>3, <1>4

-----------------------------------------------------------------------------
(* How a lookup or the frame goes on.                                      *)

SomebodySteady == \E c, d \in Controllers, h, i \in PawnSlots, p, q \in Pawns :
                    SteadyTarget(c, d, h, i, p, q)

LEMMA GameOKStays ==
  ASSUME GameOK, UNCHANGED <<gameVars, config>>
  PROVE  /\ phase' = "done" \/ phase # "done" => GameOK'
         /\ seen' = seen
<1>1. world' = world /\ seen' = seen /\ changes' = changes /\ config' = config
  BY DEF gameVars
<1>2. \A w : OfPawns(w)' <=> OfPawns(w)
  BY DEF OfPawns
<1>3. \A w : OfControllers(w)' <=> OfControllers(w)
  BY DEF OfControllers
<1> QED BY <1>1, <1>2, <1>3 DEF GameOK

LEMMA SidesOKStays ==
  ASSUME SidesOK, seen' = seen
  PROVE  SidesOK'
BY DEF SidesOK

\* The end of a frame, with a decision that is right.
LEMMA FrameEnds ==
  ASSUME FrameInv, UNCHANGED <<gameVars, config, map>>, NEW verdict \in BOOLEAN,
         EndFrame(verdict), me' \in Record, players' \in Seq(Record),
         mine' \in Pawns \cup {Nil}, target' \in Pawns \cup {Nil},
         FireIsJustified', verdict \/ ~SomebodySteady
  PROVE  FrameInv'
<1> USE DEF FrameInv
<1>1. /\ phase' = "done" /\ step' = "none" /\ fire' = verdict /\ at' = Nil /\ rest' = <<>>
      /\ record' = NoRecord /\ bucket' = 0 /\ todo' = <<>> /\ config' = config /\ seen' = seen
  BY DEF EndFrame, Goto, gameVars
<1>2. GameOK' /\ SidesOK'
  BY <1>1, GameOKStays, SidesOKStays
<1>3. PlaceOK'
  BY <1>1, Names DEF PlaceOK
<1>4. NoRecord \in Record /\ NoRecord.pawn = Nil
  BY Names DEF NoRecord, Record, Teams
<1>5. LocalsOK'
  BY <1>1, <1>4 DEF LocalsOK
<1>6. Witnessed' /\ ListOK' /\ NobodyMissed' /\ HeadOK'
  BY <1>1 DEF Witnessed, ListOK, NobodyMissed, HeadOK, After
<1>7. SteadyTargetIsFiredAt'
  <2>1. \A w, p, q : Holds(w, p, q)' = Holds(w, p, q)
    BY <1>1 DEF Holds
  <2>2. \A w, c, h, p, d, i, q : Eligible(w, c, h, p, d, i, q)' <=> Eligible(w, c, h, p, d, i, q)
    BY <1>1, <2>1 DEF Eligible
  <2>3. \A p, q : EveryReadingHits(p, q)' <=> EveryReadingHits(p, q)
    BY <1>1, ReadingsStay
  <2> QED BY <1>1, <2>2, <2>3 DEF SteadyTargetIsFiredAt, SomebodySteady, SteadyTarget
<1> QED BY <1>2, <1>3, <1>5, <1>6, <1>7

\* One that is refused before anybody could be fired at.
LEMMA FrameRefused ==
  ASSUME FrameInv, UNCHANGED <<gameVars, config, map, target>>, EndFrame(FALSE),
         me' \in Record, players' = players, mine' = mine, ~SomebodySteady
  PROVE  FrameInv'
<1>1. FireIsJustified'
  BY DEF EndFrame, FireIsJustified
<1> QED BY <1>1, FrameEnds DEF FrameInv, LocalsOK

\* Looking for the local pawn once more ends, and the players are read.
LEMMA PlayersBegin ==
  ASSUME FrameInv, UNCHANGED <<gameVars, config, map, target, me, players>>, phase = "again",
         ReadPlayers, mine' \in Pawns \cup {Nil}, LocalPawn(mine') \/ (mine' = Nil /\ NoLocalPawn)
  PROVE  FrameInv'
<1> USE DEF FrameInv
<1>1. /\ phase' = "players" /\ step' = "bucket" /\ at' = Nil
      /\ seen' = seen /\ config' = config
      /\ UNCHANGED <<rest, record, bucket, todo, fire>>
  BY DEF ReadPlayers, Goto, gameVars
<1>2. GameOK' /\ SidesOK'
  BY <1>1, GameOKStays, SidesOKStays
<1>3. PlaceOK'
  BY <1>1, Names DEF PlaceOK
<1>4. LocalsOK'
  BY <1>1 DEF LocalsOK, FieldSet, PlaceOK
<1>5. /\ \A p : LocalPawn(p)' <=> LocalPawn(p)
      /\ NoLocalPawn' <=> NoLocalPawn
      /\ \A r, fs : Sampled(r, fs)' <=> Sampled(r, fs)
  BY <1>1 DEF LocalPawn, LocalHandle, NoLocalPawn, Sampled
<1>6. Witnessed'
  BY <1>1, <1>5 DEF Witnessed, After
<1>7. ListOK'
  BY <1>1, <1>5 DEF ListOK, After
<1>8. NobodyMissed'
  <2>1. ASSUME NEW d \in Controllers PROVE ToCome(d)'
    <3>1. bucket' = 0 /\ step' = "bucket" /\ (0 + 0) * BucketSize <= d - 1
      BY <1>1, Names DEF Controllers, PlaceOK
    <3> QED BY <3>1 DEF ToCome
  <2> QED BY <1>1, <2>1 DEF NobodyMissed
<1>9. HeadOK'
  BY <1>1 DEF HeadOK
<1> QED BY <1>1, <1>2, <1>3, <1>4, <1>6, <1>7, <1>8, <1>9

\* On to the next controller, bucket or the decision, after a player was listed or
\* skipped, or a bucket read.
LEMMA PlayersGoOn ==
  ASSUME FrameInv, UNCHANGED <<gameVars, config, map, target, me, mine>>, phase = "players",
         NEW s \in Seq(Controllers), NextPlayer(s, bucket), players' \in Seq(Record),
         \A k \in DOMAIN players' :
           /\ players'[k].pawn \in Pawns
           /\ Sampled(players'[k], PlayerFieldSet)
           /\ players'[k].is_local <=> mine = players'[k].pawn
           /\ \E m \in DOMAIN players' :
                /\ players'[m].pawn = players'[k].pawn
                /\ \A j \in 1 .. m - 1 : players'[j].pawn # players'[k].pawn,
         \A d \in Controllers, i \in PawnSlots, q \in Pawns :
           Stays(d, i, q) => \/ Listed(q)' \/ Among(d, s)
                             \/ (bucket + 1) * BucketSize <= d - 1
  PROVE  FrameInv'
<1> USE DEF FrameInv
<1>1. /\ phase' \in {"players", "decide"} /\ seen' = seen /\ config' = config
      /\ todo' = s /\ rest' = <<>> /\ record' = NoRecord /\ fire' = fire
      /\ map' = map /\ target' = target /\ me' = me /\ mine' = mine
  BY DEF NextPlayer, Goto, gameVars
<1>2. GameOK' /\ SidesOK'
  BY <1>1, GameOKStays, SidesOKStays
<1>3. NoRecord \in Record /\ NoRecord.pawn = Nil
  BY Names DEF NoRecord, Record, Teams
<1>4. /\ \A p : LocalPawn(p)' <=> LocalPawn(p)
      /\ NoLocalPawn' <=> NoLocalPawn
      /\ \A r, fs : Sampled(r, fs)' <=> Sampled(r, fs)
      /\ \A d, i, q : Stays(d, i, q)' <=> Stays(d, i, q)
  BY <1>1 DEF LocalPawn, LocalHandle, NoLocalPawn, Sampled, Stays
<1>5. ListOK'
  BY <1>1, <1>4 DEF ListOK, After
<1>6. HeadOK'
  BY <1>1 DEF HeadOK
<1>7. CASE s # <<>>
  <2>1. phase' = "players" /\ step' = "handle" /\ at' = Head(s) /\ bucket' = bucket
    BY <1>7 DEF NextPlayer, Goto
  <2>2. Head(s) \in Controllers
    BY <1>7
  <2>3. PlaceOK'
    BY <1>1, <1>7, <2>1, <2>2 DEF PlaceOK
  <2>4. LocalsOK'
    BY <1>1, <1>3, <2>1 DEF LocalsOK
  <2>5. Witnessed'
    BY <1>1, <1>4, <2>1 DEF Witnessed, After
  <2>6. NobodyMissed'
    <3>1. \A d \in Controllers :
            ToCome(d)' <=> Among(d, s) \/ (bucket + 1) * BucketSize <= d - 1
      BY <1>1, <2>1 DEF ToCome, Among
    <3> QED BY <1>4, <2>1, <3>1 DEF NobodyMissed
  <2> QED BY <1>2, <1>5, <1>6, <2>1, <2>3, <2>4, <2>5, <2>6
<1>8. CASE s = <<>> /\ (bucket + 1) * BucketSize < 2 * NumPlayers
  <2>1. phase' = "players" /\ step' = "bucket" /\ at' = Nil /\ bucket' = bucket + 1
    BY <1>8 DEF NextPlayer, Goto
  <2>2. PlaceOK'
    BY <1>1, <1>8, <2>1 DEF PlaceOK
  <2>3. LocalsOK'
    BY <1>1, <1>3, <2>1 DEF LocalsOK
  <2>4. Witnessed'
    BY <1>1, <1>4, <2>1 DEF Witnessed, After
  <2>5. NobodyMissed'
    <3>1. (bucket + 1) + 0 = bucket + 1
      BY DEF PlaceOK
    <3>2. \A d \in Controllers : (bucket + 1) * BucketSize <= d - 1 => ToCome(d)'
      BY <2>1, <3>1 DEF ToCome
    <3>3. \A d : ~Among(d, s)
      BY <1>8 DEF Among
    <3> QED BY <1>4, <2>1, <3>2, <3>3 DEF NobodyMissed
  <2> QED BY <1>2, <1>5, <1>6, <2>1, <2>2, <2>3, <2>4, <2>5
<1>9. CASE s = <<>> /\ ~((bucket + 1) * BucketSize < 2 * NumPlayers)
  <2>1. phase' = "decide" /\ step' = "none" /\ at' = Nil /\ bucket' = 0
    BY <1>9 DEF NextPlayer, Goto
  <2>2. PlaceOK'
    BY <1>1, <1>9, <2>1, Names DEF PlaceOK
  <2>3. LocalsOK'
    BY <1>1, <1>3, <2>1 DEF LocalsOK
  <2>4. Witnessed'
    BY <1>1, <1>4, <2>1 DEF Witnessed, After
  <2>5. NobodyMissed'
    <3>1. \A d \in Controllers : ~((bucket + 1) * BucketSize <= d - 1)
      <4>1. TAKE d \in Controllers
      <4>2. d - 1 < 2 * NumPlayers /\ d \in Nat /\ NumPlayers \in Nat
        BY Names
      <4>3. (bucket + 1) * BucketSize \in Int
        BY Names DEF PlaceOK
      <4> QED BY <1>9, <4>2, <4>3
    <3>2. \A d : ~Among(d, s)
      BY <1>9 DEF Among
    <3> QED BY <1>4, <2>1, <3>1, <3>2 DEF NobodyMissed
  <2> QED BY <1>2, <1>5, <1>6, <2>1, <2>2, <2>3, <2>4, <2>5
<1> QED BY <1>7, <1>8, <1>9

\* A controller that leads nowhere: nobody who stays is skipped.
LEMMA PlayerSkipped ==
  ASSUME FrameInv, UNCHANGED <<gameVars, config, map, target, me, mine, players>>,
         phase = "players", step # "bucket", NextPlayer(Tail(todo), bucket),
         \A i \in PawnSlots, q \in Pawns : ~Stays(Head(todo), i, q)
  PROVE  FrameInv'
<1> USE DEF FrameInv
<1>1. todo \in Seq(Controllers) /\ todo # <<>>
  BY DEF PlaceOK
<1>2. Tail(todo) \in Seq(Controllers)
  BY <1>1
<1>3. \A d : Among(d, todo) => d = Head(todo) \/ Among(d, Tail(todo))
  BY <1>1, AmongTail
<1>4. \A d \in Controllers, i \in PawnSlots, q \in Pawns :
        Stays(d, i, q) => \/ Listed(q)' \/ Among(d, Tail(todo))
                          \/ (bucket + 1) * BucketSize <= d - 1
  BY <1>3 DEF NobodyMissed, ToCome, Listed
<1>5. players' \in Seq(Record) /\ players' = players
  BY DEF LocalsOK
<1>6. \A k \in DOMAIN players' :
        /\ players'[k].pawn \in Pawns
        /\ Sampled(players'[k], PlayerFieldSet)
        /\ players'[k].is_local <=> mine = players'[k].pawn
        /\ \E m \in DOMAIN players' :
             /\ players'[m].pawn = players'[k].pawn
             /\ \A j \in 1 .. m - 1 : players'[j].pawn # players'[k].pawn
  BY <1>5 DEF ListOK
<1> HIDE DEF FrameInv
<1> QED BY <1>2, <1>4, <1>5, <1>6, PlayersGoOn

\* The pointer leads on.
LEMMA FollowKeepsFrameInv ==
  ASSUME FrameInv, UNCHANGED <<gameVars, config, map, target>>, NEW x, NEW s, Follow(x, s),
         step \in {"controller", "handle", "slot"},
         \/ /\ s = "handle" /\ phase \in {"local", "again"}
            /\ x \in Controllers /\ \E w \in seen : w.local = x
         \/ /\ s = "slot" /\ x \in PawnSlots /\ step = "handle"
            /\ IF phase = "players" THEN HandleOf(Head(todo), x) ELSE LocalHandle(x)
         \/ /\ s = "scene" /\ phase \in {"local", "players"} /\ x \in Pawns /\ step = "slot"
            /\ IF phase = "players" THEN PawnOf(Head(todo), x) ELSE LocalPawn(x)
  PROVE  FrameInv'
<1> USE DEF FrameInv
<1>1. /\ at' = x /\ step' = s /\ seen' = seen /\ config' = config
      /\ UNCHANGED <<phase, map, target, rest, record, me, mine, bucket, todo, players, fire>>
  BY DEF Follow, Goto, gameVars
<1>2. phase \in {"local", "again", "players"} /\ step \notin {"fields", "bucket"}
  BY DEF PlaceOK
<1>3. GameOK' /\ SidesOK'
  BY <1>1, <1>2, GameOKStays, SidesOKStays
<1>4. PlaceOK'
  BY <1>1, <1>2 DEF PlaceOK
<1>5. LocalsOK'
  BY <1>1, <1>2 DEF LocalsOK, FieldSet
<1>6. /\ \A p : LocalPawn(p)' <=> LocalPawn(p)
      /\ \A i : LocalHandle(i)' <=> LocalHandle(i)
      /\ NoLocalPawn' <=> NoLocalPawn
      /\ \A r, fs : Sampled(r, fs)' <=> Sampled(r, fs)
      /\ \A d, i, q : Stays(d, i, q)' <=> Stays(d, i, q)
      /\ \A d, i : HandleOf(d, i)' <=> HandleOf(d, i)
      /\ \A d, p : PawnOf(d, p)' <=> PawnOf(d, p)
  BY <1>1 DEF LocalPawn, LocalHandle, NoLocalPawn, Sampled, Stays, HandleOf, PawnOf
<1>7. Witnessed'
  BY <1>1, <1>2, <1>6 DEF Witnessed, After
<1>8. ListOK'
  BY <1>1, <1>6 DEF ListOK, After
<1>9. NobodyMissed'
  BY <1>1, <1>2, <1>6 DEF NobodyMissed, Listed, ToCome, Among
<1>10. HeadOK'
  BY <1>1, <1>2 DEF HeadOK
<1> QED BY <1>1, <1>2, <1>3, <1>4, <1>5, <1>7, <1>8, <1>9, <1>10

LEMMA NobodyWithoutPawn == NoLocalPawn => ~SomebodySteady
BY SteadyFound DEF SomebodySteady

LEMMA HeadOKStays ==
  ASSUME HeadOK, UNCHANGED <<phase, me, players, target, config, seen, at>>,
         phase = "head" /\ step' = "fields" => Among("skeleton", rest)' \/ record'.skeleton
  PROVE  HeadOK'
<1>1. LocalOk' <=> LocalOk
  BY DEF LocalOk
<1>2. TargetOk(target)' <=> TargetOk(target)
  BY DEF TargetOk, First
<1>3. OnTarget' <=> OnTarget
  BY DEF OnTarget
<1> QED BY <1>1, <1>2, <1>3 DEF HeadOK

\* The pointer leads nowhere.
LEMMA NotFoundKeepsFrameInv ==
  ASSUME FrameInv, UNCHANGED <<gameVars, config, map, target>>, NotFound,
         phase \in {"local", "again", "players", "head"},
         phase \in {"local", "head"} => ~SomebodySteady,
         phase = "again" => NoLocalPawn,
         phase = "players" => /\ step # "bucket"
                              /\ \A i \in PawnSlots, q \in Pawns : ~Stays(Head(todo), i, q)
  PROVE  FrameInv'
<1>1. UNCHANGED <<me, players>>
  BY DEF NotFound
<1>2. CASE phase \in {"local", "head"}
  <2>1. EndFrame(FALSE) /\ mine' = mine
    BY <1>2 DEF NotFound
  <2>2. me' \in Record
    BY <1>1 DEF FrameInv, LocalsOK
  <2> QED BY <1>1, <1>2, <2>1, <2>2, FrameRefused
<1>3. CASE phase = "again"
  <2>1. ReadPlayers /\ mine' = Nil
    BY <1>3 DEF NotFound
  <2> QED BY <1>1, <1>3, <2>1, PlayersBegin
<1>4. CASE phase = "players"
  <2>1. NextPlayer(Tail(todo), bucket) /\ mine' = mine
    BY <1>4 DEF NotFound
  <2> QED BY <1>1, <1>4, <2>1, PlayerSkipped
<1> QED BY <1>2, <1>3, <1>4

-----------------------------------------------------------------------------
(* The reads.                                                              *)

LEMMA ReadMapKeepsFrameInv == FrameInv /\ ReadMap => FrameInv'
<1> SUFFICES ASSUME FrameInv, ReadMap PROVE FrameInv'
  OBVIOUS
<1> USE DEF FrameInv
<1>1. /\ phase = "done" /\ phase' = "local" /\ step' = "controller" /\ seen' = {world}
      /\ map' = world.map /\ me' = NoRecord /\ mine' = Nil /\ players' = <<>> /\ target' = Nil
      /\ fire' = FALSE
      /\ UNCHANGED <<world, changes, config, at, rest, record, bucket, todo>>
  BY DEF ReadMap, Goto
<1>2. GameOK'
  <2>1. \A w : OfPawns(w)' <=> OfPawns(w)
    BY DEF OfPawns
  <2>2. \A w : OfControllers(w)' <=> OfControllers(w)
    BY DEF OfControllers
  <2> QED BY <1>1, <2>1, <2>2 DEF GameOK
<1>3. PlaceOK'
  BY <1>1 DEF PlaceOK
<1>4. LocalsOK'
  <2>1. NoRecord \in Record
    BY Names DEF NoRecord, Record, Teams
  <2>2. world.map \in {"real", "empty", "none"}
    BY DEF GameOK, Moment
  <2>3. step = "none"
    BY <1>1 DEF PlaceOK
  <2>4. rest' = <<>> /\ record' = NoRecord /\ NoRecord.pawn = Nil
    BY <1>1, <2>3 DEF LocalsOK, NoRecord
  <2>5. rest' \in Seq(FieldSet') /\ (rest' # <<>> <=> step' = "fields")
    BY <1>1, <2>4
  <2>6. players' \in Seq(Record)
    BY <1>1
  <2>7. record' \in Record /\ me' \in Record
    BY <1>1, <2>1, <2>4
  <2>8. record'.pawn = IF step' = "fields" THEN at' ELSE Nil
    BY <1>1, <2>4
  <2> QED BY <1>1, <2>2, <2>4, <2>5, <2>6, <2>7, <2>8 DEF LocalsOK
<1>5. Witnessed' /\ ListOK' /\ NobodyMissed' /\ HeadOK' /\ SidesOK'
  BY <1>1 DEF Witnessed, ListOK, NobodyMissed, HeadOK, SidesOK, After
<1> QED BY <1>1, <1>2, <1>3, <1>4, <1>5

LEMMA ReadControllerKeepsFrameInv == FrameInv /\ ReadController => FrameInv'
<1> SUFFICES ASSUME FrameInv, ReadController PROVE FrameInv'
  OBVIOUS
<1>1. /\ step = "controller" /\ phase \in {"local", "again"} /\ world \in seen
      /\ world.local \in Controllers \cup {Nil}
      /\ UNCHANGED <<gameVars, config, map, target>>
  BY DEF ReadController, FrameInv, PlaceOK, GameOK, Moment
<1>2. CASE world.local = Nil
  <2>1. NotFound /\ NoLocalPawn
    BY <1>1, <1>2 DEF ReadController, NoLocalPawn
  <2> QED BY <1>1, <2>1, NotFoundKeepsFrameInv, NobodyWithoutPawn
<1>3. CASE world.local # Nil
  <2>1. Follow(world.local, "handle") /\ world.local \in Controllers
    BY <1>1, <1>3 DEF ReadController
  <2> QED BY <1>1, <2>1, FollowKeepsFrameInv
<1> QED BY <1>2, <1>3

LEMMA ReadHandleKeepsFrameInv == FrameInv /\ ReadHandle => FrameInv'
<1> SUFFICES ASSUME FrameInv, ReadHandle PROVE FrameInv'
  OBVIOUS
<1>1. /\ step = "handle" /\ phase \in {"local", "again", "players"} /\ world \in seen
      /\ at \in Controllers /\ world.handle[at] \in PawnSlots \cup {NoIndex}
      /\ phase = "players" => at = Head(todo)
      /\ UNCHANGED <<gameVars, config, map, target>>
  BY DEF ReadHandle, FrameInv, PlaceOK, GameOK, Moment
<1>2. IF phase = "players" THEN HandleOf(Head(todo), world.handle[at])
                           ELSE LocalHandle(world.handle[at])
  BY <1>1 DEF HandleOf, LocalHandle, FrameInv, Witnessed
<1>3. CASE world.handle[at] = NoIndex
  <2>1. NotFound
    BY <1>3 DEF ReadHandle
  <2>2. phase # "players" => NoLocalPawn
    BY <1>2, <1>3 DEF NoLocalPawn
  <2>3. phase = "players" => \A i \in PawnSlots, q \in Pawns : ~Stays(Head(todo), i, q)
    BY <1>1, <1>3, Names DEF Stays
  <2> QED BY <1>1, <2>1, <2>2, <2>3, NotFoundKeepsFrameInv, NobodyWithoutPawn
<1>4. CASE world.handle[at] # NoIndex
  <2>1. Follow(world.handle[at], "slot") /\ world.handle[at] \in PawnSlots
    BY <1>1, <1>4 DEF ReadHandle
  <2> QED BY <1>1, <1>2, <2>1, FollowKeepsFrameInv
<1> QED BY <1>3, <1>4

LEMMA ReadSlotKeepsFrameInv == FrameInv /\ ReadSlot => FrameInv'
<1> SUFFICES ASSUME FrameInv, ReadSlot PROVE FrameInv'
  OBVIOUS
<1>1. /\ step = "slot" /\ phase \in {"local", "again", "players"} /\ world \in seen
      /\ at \in PawnSlots /\ world.table[at] \in Pawns \cup {Nil}
      /\ UNCHANGED <<gameVars, config, map, target>>
  BY DEF ReadSlot, FrameInv, PlaceOK, GameOK, OfPawns
<1>2. IF phase = "players" THEN HandleOf(Head(todo), at) /\ PawnOf(Head(todo), world.table[at])
                           ELSE LocalPawn(world.table[at])
  BY <1>1 DEF PawnOf, LocalPawn, FrameInv, Witnessed
<1>3. CASE world.table[at] = Nil
  <2>1. NotFound
    BY <1>3 DEF ReadSlot
  <2>2. phase # "players" => NoLocalPawn
    BY <1>2, <1>3 DEF NoLocalPawn
  <2>3. phase = "players" => \A i \in PawnSlots, q \in Pawns : ~Stays(Head(todo), i, q)
    BY <1>1, <1>2, <1>3, Names DEF Stays, HandleOf
  <2> QED BY <1>1, <2>1, <2>2, <2>3, NotFoundKeepsFrameInv, NobodyWithoutPawn
<1>4. CASE world.table[at] # Nil /\ phase = "again"
  <2>1. ReadPlayers /\ mine' = world.table[at] /\ UNCHANGED <<me, players>>
    BY <1>4 DEF ReadSlot
  <2> QED BY <1>1, <1>2, <1>4, <2>1, PlayersBegin
<1>5. CASE world.table[at] # Nil /\ phase # "again"
  <2>1. Follow(world.table[at], "scene") /\ world.table[at] \in Pawns
    BY <1>1, <1>5 DEF ReadSlot
  <2> QED BY <1>1, <1>2, <1>5, <2>1, FollowKeepsFrameInv
<1> QED BY <1>3, <1>4, <1>5

Filled(r, f, p) == [r EXCEPT ![f] = world.pawn[p][f]]

\* What a field read adds to the record.
LEMMA FieldRead ==
  ASSUME GameOK, NEW p \in Pawns, NEW r \in Record,
         NEW f \in AllFields
  PROVE  /\ Filled(r, f, p) \in Record /\ Filled(r, f, p).pawn = r.pawn
         /\ Filled(r, f, p)[f] = world.pawn[p][f]
         /\ \A g \in AllFields : g # f => Filled(r, f, p)[g] = r[g]
<1>1. world.pawn[p] \in Pawn
  BY Fields DEF GameOK
<1> USE DEF AllFields, LocalFieldSet, PlayerFieldSet, BoneFieldSet
<1>2. CASE f = "impaired"
  BY <1>1, <1>2 DEF Filled, Pawn, Record
<1>3. CASE f = "crosshair"
  BY <1>1, <1>3 DEF Filled, Pawn, Record
<1>4. CASE f = "health"
  BY <1>1, <1>4 DEF Filled, Pawn, Record
<1>5. CASE f = "team"
  BY <1>1, <1>5 DEF Filled, Pawn, Record
<1>6. CASE f = "life"
  BY <1>1, <1>6 DEF Filled, Pawn, Record
<1>7. CASE f = "immune"
  BY <1>1, <1>7 DEF Filled, Pawn, Record
<1>8. CASE f = "dormant"
  BY <1>1, <1>8 DEF Filled, Pawn, Record
<1>9. CASE f = "x"
  BY <1>1, <1>9 DEF Filled, Pawn, Record
<1>10. CASE f = "z"
  BY <1>1, <1>10 DEF Filled, Pawn, Record
<1>11. CASE f = "eye"
  BY <1>1, <1>11 DEF Filled, Pawn, Record
<1>12. CASE f = "pitch"
  BY <1>1, <1>12 DEF Filled, Pawn, Record
<1>13. CASE f = "yaw"
  BY <1>1, <1>13 DEF Filled, Pawn, Record
<1>14. CASE f = "skeleton"
  BY <1>1, <1>14 DEF Filled, Pawn, Record
<1>15. CASE f = "head_x"
  BY <1>1, <1>15 DEF Filled, Pawn, Record
<1>16. CASE f = "head_z"
  BY <1>1, <1>16 DEF Filled, Pawn, Record
<1> QED BY <1>2, <1>3, <1>4, <1>5, <1>6, <1>7, <1>8, <1>9, <1>10,
           <1>11, <1>12, <1>13, <1>14, <1>15, <1>16

\* The field at hand: what the record is from now on, and where its fields are from.
LEMMA SampledByField ==
  ASSUME FrameInv, step = "fields", NEW r, r = [record EXCEPT ![Head(rest)] = world.pawn[at][Head(rest)]]
  PROVE  /\ r \in Record /\ r.pawn = at /\ at \in Pawns /\ phase \in {"local", "players", "head"}
         /\ r[Head(rest)] = world.pawn[at][Head(rest)]
         /\ \A g \in AllFields : g # Head(rest) => r[g] = record[g]
         /\ rest \in Seq(FieldSet) /\ rest # <<>> /\ world \in seen
         /\ Sampled(r, {f \in FieldSet : ~Among(f, Tail(rest))})
         /\ Len(rest) = 1 => Sampled(r, FieldSet)
<1> DEFINE f == Head(rest)
<1>1. /\ at \in Pawns /\ phase \in {"local", "players", "head"} /\ world \in seen
      /\ rest \in Seq(FieldSet) /\ rest # <<>> /\ record \in Record /\ record.pawn = at
      /\ Sampled(record, {g \in FieldSet : ~Among(g, rest)})
  BY DEF FrameInv, PlaceOK, LocalsOK, GameOK, Witnessed
<1>0. r = Filled(record, f, at)
  BY DEF Filled
<1>2. f \in FieldSet /\ FieldSet \subseteq AllFields
  BY <1>1 DEF FieldSet, AllFields
<1> HIDE DEF f
<1>3. /\ r \in Record /\ r.pawn = at /\ r[f] = world.pawn[at][f]
      /\ \A g \in AllFields : g # f => r[g] = record[g]
  <2>1. GameOK /\ at \in Pawns /\ record \in Record /\ f \in AllFields
    BY <1>1, <1>2 DEF FrameInv
  <2>2. /\ Filled(record, f, at) \in Record /\ Filled(record, f, at).pawn = record.pawn
        /\ Filled(record, f, at)[f] = world.pawn[at][f]
        /\ \A g \in AllFields :
              g # f => Filled(record, f, at)[g] = record[g]
    BY <2>1, FieldRead
  <2> QED BY <1>0, <1>1, <2>2
<1>4. \A g : Among(g, rest) => g = f \/ Among(g, Tail(rest))
  BY <1>1, AmongTail DEF f
<1>5. \A g \in FieldSet : ~Among(g, Tail(rest)) => \E w \in seen : r[g] = w.pawn[at][g]
  <2>1. SUFFICES ASSUME NEW g \in FieldSet, ~Among(g, Tail(rest))
                 PROVE  \E w \in seen : r[g] = w.pawn[at][g]
    OBVIOUS
  <2>2. CASE g = f
    BY <1>1, <1>3, <2>2
  <2>3. CASE g # f
    <3>1. ~Among(g, rest)
      BY <1>4, <2>1, <2>3
    <3>2. PICK w \in seen : record[g] = w.pawn[at][g]
      BY <1>1, <3>1 DEF Sampled
    <3> QED BY <1>2, <1>3, <2>3, <3>2
  <2> QED BY <2>2, <2>3
<1>6. \E w \in seen : w.pawn[at].scene
  BY <1>1 DEF Sampled
<1>7. \A fs : (\A g \in fs : \E w \in seen : r[g] = w.pawn[at][g]) => Sampled(r, fs)
  <2>1. r.pawn = at
    BY <1>3
  <2> HIDE <1>0
  <2> QED BY <1>6, <2>1 DEF Sampled
<1>8. Len(rest) = 1 => \A g : ~Among(g, Tail(rest))
  <2>1. Len(rest) = 1 => DOMAIN Tail(rest) = 1 .. 0
    <3>1. Tail(rest) \in Seq(FieldSet) /\ Len(Tail(rest)) = Len(rest) - 1
      BY <1>1
    <3>2. DOMAIN Tail(rest) = 1 .. Len(Tail(rest))
      BY <3>1
    <3>3. Len(rest) = 1 => Len(Tail(rest)) = 0
      BY <3>1
    <3> QED BY <3>2, <3>3
  <2> QED BY <2>1 DEF Among
<1>9. Len(rest) = 1 => Sampled(r, FieldSet)
  BY <1>5, <1>7, <1>8
<1>10. Sampled(r, {g \in FieldSet : ~Among(g, Tail(rest))})
  BY <1>5, <1>7
<1> QED BY <1>1, <1>3, <1>9, <1>10 DEF f

LEMMA NextFieldKeepsFrameInv ==
  ASSUME FrameInv, step = "fields", UNCHANGED <<gameVars, config, map, mine, target>>,
         Len(rest) > 1, rest' = Tail(rest),
         record' = [record EXCEPT ![Head(rest)] = world.pawn[at][Head(rest)]],
         UNCHANGED <<phase, step, at, me, bucket, todo, players, fire>>,
         phase = "head" => Among("skeleton", Tail(rest)) \/ record'.skeleton
  PROVE  FrameInv'
<1>1. /\ record' \in Record /\ record'.pawn = at /\ at \in Pawns
      /\ phase \in {"local", "players", "head"}
      /\ rest \in Seq(FieldSet) /\ rest # <<>>
      /\ Sampled(record', {f \in FieldSet : ~Among(f, Tail(rest))})
  BY SampledByField
<1> USE DEF FrameInv
<1>2. seen' = seen /\ config' = config
  BY DEF gameVars
<1>3. GameOK' /\ SidesOK'
  BY <1>1, <1>2, GameOKStays, SidesOKStays
<1>4. PlaceOK'
  BY DEF PlaceOK
<1>5. Tail(rest) \in Seq(FieldSet) /\ Tail(rest) # <<>> /\ FieldSet' = FieldSet
  <2>1. FieldSet' = FieldSet
    BY DEF FieldSet
  <2>2. Tail(rest) \in Seq(FieldSet) /\ Len(Tail(rest)) = Len(rest) - 1
    BY <1>1
  <2>3. Len(Tail(rest)) # 0 /\ Len(<<>>) = 0
    BY <1>1, <2>2
  <2> QED BY <2>1, <2>2, <2>3
<1>6. LocalsOK'
  BY <1>1, <1>5 DEF LocalsOK
<1>7. /\ \A p : LocalPawn(p)' <=> LocalPawn(p)
      /\ \A r, fs : Sampled(r, fs)' <=> Sampled(r, fs)
      /\ \A d, i, q : Stays(d, i, q)' <=> Stays(d, i, q)
      /\ \A d, p : PawnOf(d, p)' <=> PawnOf(d, p)
      /\ NoLocalPawn' <=> NoLocalPawn
      /\ \A f : Among(f, rest)' <=> Among(f, Tail(rest))
  BY <1>2 DEF LocalPawn, LocalHandle, NoLocalPawn, Sampled, Stays, HandleOf, PawnOf, Among
<1>8. Sampled(record, {f \in FieldSet : ~Among(f, rest)})'
  BY <1>1, <1>2, <1>5, <1>7 DEF Sampled
<1>9. Witnessed'
  BY <1>1, <1>2, <1>7, <1>8 DEF Witnessed, After
<1>10. ListOK'
  BY <1>7 DEF ListOK, After
<1>11. NobodyMissed'
  BY <1>1, <1>7 DEF NobodyMissed, Listed, ToCome, Among
<1>12. HeadOK'
  BY <1>2, <1>7, HeadOKStays
<1> QED BY <1>1, <1>3, <1>4, <1>6, <1>9, <1>10, <1>11, <1>12

\* The local player's record is complete.
LEMMA LocalDoneKeepsFrameInv ==
  ASSUME FrameInv, phase = "local", step = "fields",
         UNCHANGED <<gameVars, config, map, mine, target>>,
         NEW r \in Record, r.pawn = at, Sampled(r, LocalFieldSet), LocalDone(r)
  PROVE  FrameInv'
<1>1. me' = r /\ players' = players
  BY DEF LocalDone
<1>2. LocalPawn(at) /\ at \in Pawns
  BY DEF FrameInv, Witnessed, PlaceOK
<1>3. CASE (InMenu /\ r.team \notin Playing) \/ map = "none"
  <2>1. EndFrame(FALSE)
    BY <1>3 DEF LocalDone
  <2>2. ASSUME NEW c \in Controllers, NEW d \in Controllers,
               NEW h \in PawnSlots, NEW i \in PawnSlots, NEW p \in Pawns, NEW q \in Pawns,
               SteadyTarget(c, d, h, i, p, q)
        PROVE  FALSE
    <3>1. at = p
      BY <1>2, <2>2, SteadyFound
    <3>2. r.team \in Playing
      BY <2>2, <3>1, SteadyShooterOk
    <3>3. PICK w \in seen : w.map = map
      BY DEF FrameInv, Witnessed
    <3>4. map # "none"
      BY <2>2, <3>3, Conditions DEF SteadyTarget
    <3> QED BY <1>3, <3>2, <3>4
  <2> QED BY <1>1, <2>1, <2>2, FrameRefused DEF SomebodySteady
<1>4. CASE ~((InMenu /\ r.team \notin Playing) \/ map = "none")
  <2> USE DEF FrameInv
  <2>1. /\ phase' = "again" /\ step' = "controller" /\ at' = Nil /\ rest' = <<>>
        /\ record' = NoRecord /\ seen' = seen /\ config' = config /\ map # "none"
        /\ UNCHANGED <<bucket, todo, fire>>
    BY <1>4 DEF LocalDone, Goto, gameVars
  <2>2. GameOK' /\ SidesOK'
    BY <2>1, GameOKStays, SidesOKStays
  <2>3. PlaceOK'
    BY <2>1 DEF PlaceOK
  <2>4. NoRecord \in Record /\ NoRecord.pawn = Nil
    BY Names DEF NoRecord, Record, Teams
  <2>5. LocalsOK'
    BY <1>1, <2>1, <2>4 DEF LocalsOK
  <2>6. /\ \A p : LocalPawn(p)' <=> LocalPawn(p)
        /\ \A x, fs : Sampled(x, fs)' <=> Sampled(x, fs)
    BY <2>1 DEF LocalPawn, LocalHandle, Sampled
  <2>7. Witnessed'
    BY <1>1, <1>2, <2>1, <2>6 DEF Witnessed, After
  <2>8. ListOK'
    BY <1>1, <2>1, <2>6 DEF ListOK, After
  <2>9. NobodyMissed' /\ HeadOK'
    BY <2>1 DEF NobodyMissed, HeadOK
  <2> QED BY <2>1, <2>2, <2>3, <2>5, <2>7, <2>8, <2>9
<1> QED BY <1>3, <1>4

\* A player's record is complete and listed.
LEMMA PlayerDoneKeepsFrameInv ==
  ASSUME FrameInv, phase = "players", step = "fields",
         UNCHANGED <<gameVars, config, map, mine, target>>,
         NEW r \in Record, r.pawn = at, Sampled(r, PlayerFieldSet), PlayerDone(r)
  PROVE  FrameInv'
<1> DEFINE x == [r EXCEPT !.is_local = (mine = r.pawn)]
<1>1. players' = Append(players, x) /\ NextPlayer(Tail(todo), bucket) /\ me' = me
  BY DEF PlayerDone
<1>2. /\ x \in Record /\ x.pawn = at
      /\ x.is_local <=> mine = at
      /\ \A f \in PlayerFieldSet : x[f] = r[f]
  <2>1. (mine = r.pawn) \in BOOLEAN
    OBVIOUS
  <2> QED BY <2>1 DEF Record, PlayerFieldSet
<1> HIDE DEF x
<1>3. Sampled(x, PlayerFieldSet)
  BY <1>2 DEF Sampled
<1>4. /\ at \in Pawns /\ todo \in Seq(Controllers) /\ todo # <<>> /\ players \in Seq(Record)
      /\ PawnOf(Head(todo), at)
  BY DEF FrameInv, PlaceOK, LocalsOK, Witnessed
<1> DEFINE n == Len(players)
<1>5. /\ n \in Nat /\ players' \in Seq(Record) /\ DOMAIN players' = 1 .. n + 1
      /\ DOMAIN players = 1 .. n
      /\ \A k \in 1 .. n : players'[k] = players[k]
      /\ players'[n + 1] = x
  BY <1>1, <1>2, <1>4
<1> HIDE DEF n
<1>6. \A k \in 1 .. n :
        /\ players[k].pawn \in Pawns
        /\ Sampled(players[k], PlayerFieldSet)
        /\ players[k].is_local <=> mine = players[k].pawn
        /\ \E m \in 1 .. n : /\ players[m].pawn = players[k].pawn
                             /\ \A j \in 1 .. m - 1 : players[j].pawn # players[k].pawn
  BY <1>5 DEF FrameInv, ListOK
<1>7. \A k \in 1 .. n :
        \E m \in 1 .. n : /\ players'[m].pawn = players[k].pawn
                          /\ \A j \in 1 .. m - 1 : players'[j].pawn # players[k].pawn
  <2>1. TAKE k \in 1 .. n
  <2>2. PICK m \in 1 .. n : /\ players[m].pawn = players[k].pawn
                            /\ \A j \in 1 .. m - 1 : players[j].pawn # players[k].pawn
    BY <1>6
  <2>3. \A j \in 1 .. m - 1 : j \in 1 .. n
    BY <1>5
  <2> QED BY <1>5, <2>2, <2>3
<1>8. \A k \in DOMAIN players' :
        /\ players'[k].pawn \in Pawns
        /\ Sampled(players'[k], PlayerFieldSet)
        /\ players'[k].is_local <=> mine = players'[k].pawn
        /\ \E m \in DOMAIN players' :
             /\ players'[m].pawn = players'[k].pawn
             /\ \A j \in 1 .. m - 1 : players'[j].pawn # players'[k].pawn
  <2>1. ASSUME NEW k \in 1 .. n
        PROVE  /\ players'[k].pawn \in Pawns
               /\ Sampled(players'[k], PlayerFieldSet)
               /\ players'[k].is_local <=> mine = players'[k].pawn
               /\ \E m \in 1 .. n + 1 :
                    /\ players'[m].pawn = players'[k].pawn
                    /\ \A j \in 1 .. m - 1 : players'[j].pawn # players'[k].pawn
    <3>1. PICK m \in 1 .. n : /\ players'[m].pawn = players[k].pawn
                              /\ \A j \in 1 .. m - 1 : players'[j].pawn # players[k].pawn
      BY <1>7
    <3>2. m \in 1 .. n + 1 /\ players'[k] = players[k]
      BY <1>5
    <3> QED BY <1>6, <3>1, <3>2
  <2>2. \E m \in 1 .. n + 1 : /\ players'[m].pawn = at
                              /\ \A j \in 1 .. m - 1 : players'[j].pawn # at
    <3>1. CASE \E k \in 1 .. n : players[k].pawn = at
      <4>1. PICK m \in 1 .. n : /\ players'[m].pawn = at
                                /\ \A j \in 1 .. m - 1 : players'[j].pawn # at
        BY <1>7, <3>1
      <4>2. m \in 1 .. n + 1
        BY <1>5
      <4> QED BY <4>1, <4>2
    <3>2. CASE \A k \in 1 .. n : players[k].pawn # at
      <4>1. n + 1 \in 1 .. n + 1 /\ (n + 1) - 1 = n
        BY <1>5
      <4> QED BY <1>2, <1>5, <3>2, <4>1
    <3> QED BY <3>1, <3>2
  <2>3. \A k \in 1 .. n + 1 : k \in 1 .. n \/ k = n + 1
    BY <1>5
  <2>4. /\ players'[n + 1].pawn \in Pawns
        /\ Sampled(players'[n + 1], PlayerFieldSet)
        /\ players'[n + 1].is_local <=> mine = players'[n + 1].pawn
        /\ players'[n + 1].pawn = at
    BY <1>2, <1>3, <1>4, <1>5
  <2>5. SUFFICES ASSUME NEW k \in 1 .. n + 1
                 PROVE  /\ players'[k].pawn \in Pawns
                        /\ Sampled(players'[k], PlayerFieldSet)
                        /\ players'[k].is_local <=> mine = players'[k].pawn
                        /\ \E m \in 1 .. n + 1 :
                             /\ players'[m].pawn = players'[k].pawn
                             /\ \A j \in 1 .. m - 1 : players'[j].pawn # players'[k].pawn
    BY <1>5
  <2>6. CASE k \in 1 .. n
    BY <2>1, <2>6
  <2>7. CASE k = n + 1
    BY <2>2, <2>4, <2>7
  <2> QED BY <2>3, <2>6, <2>7
<1>9. \A q : Listed(q) => Listed(q)'
  <2>1. SUFFICES ASSUME NEW q, NEW k \in 1 .. n, players[k].pawn = q PROVE Listed(q)'
    BY <1>5 DEF Listed
  <2>2. k \in 1 .. n + 1
    BY <1>5
  <2> QED BY <1>5, <2>1, <2>2 DEF Listed
<1>10. \A q : q = at => Listed(q)'
  <2>1. n + 1 \in 1 .. n + 1
    BY <1>5
  <2> QED BY <1>2, <1>5, <2>1 DEF Listed
<1>11. \A d \in Controllers, i \in PawnSlots, q \in Pawns :
         Stays(d, i, q) => \/ Listed(q)' \/ Among(d, Tail(todo))
                           \/ (bucket + 1) * BucketSize <= d - 1
  <2>1. SUFFICES ASSUME NEW d \in Controllers, NEW i \in PawnSlots, NEW q \in Pawns, Stays(d, i, q)
                 PROVE  \/ Listed(q)' \/ Among(d, Tail(todo))
                        \/ (bucket + 1) * BucketSize <= d - 1
    OBVIOUS
  <2>2. Listed(q) \/ Among(d, todo) \/ (bucket + 1) * BucketSize <= d - 1
    BY <2>1 DEF FrameInv, NobodyMissed, ToCome
  <2>3. Among(d, todo) => d = Head(todo) \/ Among(d, Tail(todo))
    BY <1>4, AmongTail
  <2>4. d = Head(todo) => at = q
    BY <1>4, <2>1 DEF PawnOf, HandleOf, Stays
  <2> QED BY <1>9, <1>10, <2>2, <2>3, <2>4
<1>12. Tail(todo) \in Seq(Controllers)
  BY <1>4
<1> QED BY <1>1, <1>5, <1>8, <1>11, <1>12, PlayersGoOn

LEMMA ReadBucketKeepsFrameInv == FrameInv /\ ReadBucket => FrameInv'
<1> SUFFICES ASSUME FrameInv, ReadBucket PROVE FrameInv'
  OBVIOUS
<1>1. /\ step = "bucket" /\ phase = "players" /\ world \in seen /\ OfControllers(world)
      /\ UNCHANGED <<gameVars, config, map, me, mine, players, target>>
      /\ bucket \in Nat /\ players \in Seq(Record) /\ todo = <<>>
  BY DEF ReadBucket, FrameInv, PlaceOK, GameOK, LocalsOK
<1>0. PICK n \in 0 .. BucketSize :
        \E order \in [1 .. n -> Identities(bucket)] :
          /\ \A i \in Identities(bucket) : \E k \in 1 .. n : order[k] = i
          /\ NextPlayer([k \in 1 .. n |-> world.table[order[k]]], bucket)
  BY DEF ReadBucket
<1>2. PICK order \in [1 .. n -> Identities(bucket)] :
        /\ \A i \in Identities(bucket) : \E k \in 1 .. n : order[k] = i
        /\ NextPlayer([k \in 1 .. n |-> world.table[order[k]]], bucket)
  BY <1>0
<1> DEFINE s == [k \in 1 .. n |-> world.table[order[k]]]
<1>3. \A k \in 1 .. n : world.table[order[k]] \in Controllers
  BY <1>2 DEF Identities
<1>4. n \in Nat
  BY Names
<1>5. s \in Seq(Controllers)
  BY <1>3, <1>4
<1>6. \A d \in Controllers, i \in PawnSlots, q \in Pawns :
        Stays(d, i, q) => \/ Listed(q)' \/ Among(d, s)
                          \/ (bucket + 1) * BucketSize <= d - 1
  <2>1. SUFFICES ASSUME NEW d \in Controllers, NEW i \in PawnSlots, NEW q \in Pawns,
                        Stays(d, i, q), ~((bucket + 1) * BucketSize <= d - 1), ~Listed(q)
                 PROVE  Among(d, s)
    BY <1>1 DEF Listed
  <2>2. ToCome(d) /\ ~Among(d, todo)
    BY <1>1, <2>1 DEF FrameInv, NobodyMissed, Among
  <2>3. (bucket + 0) * BucketSize <= d - 1
    BY <1>1, <2>2 DEF ToCome
  <2>4. d \in Nat /\ BucketSize \in Nat /\ bucket + 0 = bucket /\ (bucket + 1) * BucketSize \in Nat
    BY <1>1, Names
  <2>5. bucket * BucketSize <= d - 1 /\ d - 1 < (bucket + 1) * BucketSize
    BY <2>1, <2>3, <2>4
  <2>6. d - 1 \in Indices /\ d - 1 \notin world.stale /\ world.table[d - 1] = d
    BY <1>1, <2>1, Names DEF Stays, OfControllers
  <2>7. d - 1 \in Identities(bucket)
    BY <2>5, <2>6 DEF Identities
  <2>8. PICK k \in 1 .. n : order[k] = d - 1
    BY <1>2, <2>7
  <2>9. k \in DOMAIN s /\ s[k] = d
    BY <2>6, <2>8
  <2> QED BY <2>9 DEF Among
<1>7. \A k \in DOMAIN players' :
        /\ players'[k].pawn \in Pawns
        /\ Sampled(players'[k], PlayerFieldSet)
        /\ players'[k].is_local <=> mine = players'[k].pawn
        /\ \E m \in DOMAIN players' :
             /\ players'[m].pawn = players'[k].pawn
             /\ \A j \in 1 .. m - 1 : players'[j].pawn # players'[k].pawn
  BY <1>1 DEF FrameInv, ListOK
<1> HIDE DEF s
<1>8. NextPlayer(s, bucket)
  BY <1>2 DEF s
<1> QED BY <1>1, <1>5, <1>6, <1>7, <1>8, PlayersGoOn

-----------------------------------------------------------------------------
(* The decision.                                                           *)

\* What FireIsJustified says of a shot at pawn q.
Justified(q) ==
  LET p == me.pawn
  IN /\ \A c \in DOMAIN Holds(world, p, q) : \E w \in seen : Holds(w, p, q)[c]
     /\ \A c \in config.checks : \E w \in seen : c \notin w.pawn[p].impaired
     /\ \E v, w \in seen : /\ v.pawn[p].crosshair # NoIndex
                           /\ w.table[v.pawn[p].crosshair] = q
     /\ config.teammates \/ \E v, w \in seen : v.pawn[p].team # w.pawn[q].team
     /\ config.head_only => SomeReadingHits(p, q)
     /\ (\A v, w \in seen : v.local = w.local /\ v.handle = w.handle /\ v.table = w.table)
          => p # q

\* The conditions one by one.
LEMMA EachHolds ==
  ASSUME NEW p, NEW q,
         \E w \in seen : w.pawn[p].health, \E w \in seen : w.pawn[q].health,
         \E w \in seen : w.pawn[p].life, \E w \in seen : w.pawn[q].life,
         \E w \in seen : ~w.pawn[p].immune, \E w \in seen : ~w.pawn[q].immune,
         \E w \in seen : w.pawn[p].team \in Playing, \E w \in seen : w.pawn[q].team \in Playing,
         \E w \in seen : w.pawn[p].scene, \E w \in seen : w.pawn[q].scene,
         \E w \in seen : ~w.pawn[q].dormant, \E w \in seen : w.map # "none",
         \E w \in seen : config.head_only => w.pawn[q].skeleton
  PROVE  \A c \in DOMAIN Holds(world, p, q) : \E w \in seen : Holds(w, p, q)[c]
<1>1. DOMAIN Holds(world, p, q) =
        {"shooter_health", "target_health", "shooter_life", "target_life", "shooter_open",
         "target_open", "shooter_team", "target_team", "shooter_scene", "target_scene",
         "target_awake", "map", "skeleton"}
  BY DEF Holds
<1>2. /\ \E w \in seen : Holds(w, p, q)["shooter_health"]
      /\ \E w \in seen : Holds(w, p, q)["target_health"]
      /\ \E w \in seen : Holds(w, p, q)["shooter_life"]
      /\ \E w \in seen : Holds(w, p, q)["target_life"]
  BY DEF Holds
<1>3. /\ \E w \in seen : Holds(w, p, q)["shooter_open"]
      /\ \E w \in seen : Holds(w, p, q)["target_open"]
      /\ \E w \in seen : Holds(w, p, q)["shooter_team"]
      /\ \E w \in seen : Holds(w, p, q)["target_team"]
  BY DEF Holds
<1>4. /\ \E w \in seen : Holds(w, p, q)["shooter_scene"]
      /\ \E w \in seen : Holds(w, p, q)["target_scene"]
      /\ \E w \in seen : Holds(w, p, q)["target_awake"]
      /\ \E w \in seen : Holds(w, p, q)["map"]
      /\ \E w \in seen : Holds(w, p, q)["skeleton"]
  BY DEF Holds
<1> QED BY <1>1, <1>2, <1>3, <1>4

\* The first record of q, and what the frame saw of it.
LEMMA TargetSeen ==
  ASSUME FrameInv, phase # "done", NEW q, TargetOk(q)
  PROVE  /\ q \in Pawns /\ mine # q
         /\ \E w \in seen : w.pawn[q].scene
         /\ \E w \in seen : w.pawn[q].health
         /\ \E w \in seen : w.pawn[q].life
         /\ \E w \in seen : ~w.pawn[q].immune
         /\ \E w \in seen : ~w.pawn[q].dormant
         /\ \E w \in seen : /\ w.pawn[q].team \in Playing
                            /\ config.teammates \/ w.pawn[q].team # me.team
<1>1. PICK k \in DOMAIN players :
        /\ players[k].pawn = q /\ ~players[k].is_local /\ ~players[k].dormant
        /\ ~players[k].immune /\ players[k].health /\ players[k].life
        /\ players[k].team \in Playing
        /\ config.teammates \/ players[k].team # me.team
  BY DEF TargetOk, First
<1>2. /\ q \in Pawns /\ Sampled(players[k], PlayerFieldSet)
      /\ players[k].is_local <=> mine = q
  BY <1>1 DEF FrameInv, ListOK
<1>3. /\ \E w \in seen : w.pawn[q].scene
      /\ \A f \in PlayerFieldSet : \E w \in seen : players[k][f] = w.pawn[q][f]
  BY <1>1, <1>2 DEF Sampled
<1>4. /\ \E w \in seen : players[k].health = w.pawn[q].health
      /\ \E w \in seen : players[k].life = w.pawn[q].life
      /\ \E w \in seen : players[k].immune = w.pawn[q].immune
      /\ \E w \in seen : players[k].dormant = w.pawn[q].dormant
      /\ \E w \in seen : players[k].team = w.pawn[q].team
  BY <1>3 DEF PlayerFieldSet
<1> QED BY <1>1, <1>2, <1>3, <1>4

\* What the frame saw of the local player.
LEMMA ShooterSeen ==
  ASSUME FrameInv, phase \in {"decide", "head"}
  PROVE  /\ me.pawn \in Pawns /\ LocalPawn(me.pawn) /\ Sampled(me, LocalFieldSet)
         /\ LocalPawn(mine) \/ (mine = Nil /\ NoLocalPawn)
         /\ \E w \in seen : w.map # "none"
         /\ \E w \in seen : w.pawn[me.pawn].scene
         /\ \E w \in seen : w.pawn[me.pawn].health = me.health
         /\ \E w \in seen : w.pawn[me.pawn].life = me.life
         /\ \E w \in seen : w.pawn[me.pawn].immune = me.immune
         /\ \E w \in seen : w.pawn[me.pawn].team = me.team
         /\ \E w \in seen : w.pawn[me.pawn].impaired = me.impaired
         /\ \E w \in seen : w.pawn[me.pawn].crosshair = me.crosshair
<1>1. /\ me.pawn \in Pawns /\ LocalPawn(me.pawn) /\ Sampled(me, LocalFieldSet)
      /\ map # "none" /\ \E w \in seen : w.map = map
      /\ LocalPawn(mine) \/ (mine = Nil /\ NoLocalPawn)
  BY DEF FrameInv, Witnessed, After
<1>2. /\ \E w \in seen : w.pawn[me.pawn].scene
      /\ \A f \in LocalFieldSet : \E w \in seen : me[f] = w.pawn[me.pawn][f]
  BY <1>1 DEF Sampled
<1>3. /\ \E w \in seen : me.health = w.pawn[me.pawn].health
      /\ \E w \in seen : me.life = w.pawn[me.pawn].life
      /\ \E w \in seen : me.immune = w.pawn[me.pawn].immune
      /\ \E w \in seen : me.team = w.pawn[me.pawn].team
      /\ \E w \in seen : me.impaired = w.pawn[me.pawn].impaired
      /\ \E w \in seen : me.crosshair = w.pawn[me.pawn].crosshair
  BY <1>2 DEF LocalFieldSet
<1> QED BY <1>1, <1>2, <1>3

\* While neither the local controller nor a handle or a slot changes, the pointers lead
\* to one local pawn.
LEMMA OneLocalPawn ==
  ASSUME \A v, w \in seen : v.local = w.local /\ v.handle = w.handle /\ v.table = w.table,
         NEW p \in Pawns, LocalPawn(p)
  PROVE  (\A x : LocalPawn(x) => x = p) /\ ~NoLocalPawn
<1>1. PICK i \in PawnSlots : LocalHandle(i) /\ \E w \in seen : w.table[i] = p
  BY DEF LocalPawn
<1>2. \A x : LocalHandle(x) => x = i
  BY <1>1 DEF LocalHandle
<1>3. \A x : LocalPawn(x) => x = p
  BY <1>1, <1>2 DEF LocalPawn
<1>4. ~ \E w \in seen : w.local = Nil
  BY <1>1, Names DEF LocalHandle
<1>5. ~LocalHandle(NoIndex) /\ ~LocalPawn(Nil)
  BY <1>1, <1>2, <1>3, Names
<1> QED BY <1>3, <1>4, <1>5 DEF NoLocalPawn

LEMMA ShotJustified ==
  ASSUME FrameInv, phase \in {"decide", "head"}, LocalOk, NEW q, TargetOk(q),
         \E w \in seen : w.table[me.crosshair] = q,
         config.head_only => /\ SomeReadingHits(me.pawn, q)
                             /\ \E w \in seen : w.pawn[q].skeleton
  PROVE  Justified(q)
<1> DEFINE p == me.pawn
<1>1. /\ p \in Pawns /\ LocalPawn(p) /\ (LocalPawn(mine) \/ (mine = Nil /\ NoLocalPawn))
      /\ q \in Pawns /\ mine # q
  BY TargetSeen, ShooterSeen
<1>2. \A c \in DOMAIN Holds(world, p, q) : \E w \in seen : Holds(w, p, q)[c]
  <2>1. /\ \E w \in seen : w.pawn[p].health
        /\ \E w \in seen : w.pawn[p].life
        /\ \E w \in seen : ~w.pawn[p].immune
        /\ \E w \in seen : w.pawn[p].team \in Playing
        /\ \E w \in seen : w.pawn[p].scene
        /\ \E w \in seen : w.map # "none"
    BY ShooterSeen DEF LocalOk
  <2>2. \E w \in seen : config.head_only => w.pawn[q].skeleton
    BY <2>1
  <2>3. /\ \E w \in seen : w.pawn[q].scene
        /\ \E w \in seen : w.pawn[q].health
        /\ \E w \in seen : w.pawn[q].life
        /\ \E w \in seen : ~w.pawn[q].immune
        /\ \E w \in seen : ~w.pawn[q].dormant
        /\ \E w \in seen : w.pawn[q].team \in Playing
    BY TargetSeen
  <2> HIDE DEF p
  <2> QED BY <2>1, <2>2, <2>3, EachHolds
<1>3. \A c \in config.checks : \E w \in seen : c \notin w.pawn[p].impaired
  BY ShooterSeen DEF LocalOk
<1>4. \E v, w \in seen : v.pawn[p].crosshair # NoIndex /\ w.table[v.pawn[p].crosshair] = q
  BY ShooterSeen DEF LocalOk
<1>5. config.teammates \/ \E v, w \in seen : v.pawn[p].team # w.pawn[q].team
  BY ShooterSeen, TargetSeen
<1>6. (\A v, w \in seen : v.local = w.local /\ v.handle = w.handle /\ v.table = w.table)
        => p # q
  BY <1>1, OneLocalPawn
<1> QED BY <1>2, <1>3, <1>4, <1>5, <1>6, Zenon DEF Justified

\* A steady target is the one under the crosshair, and nothing speaks against a shot.
LEMMA SteadyAccepted ==
  ASSUME FrameInv, phase \in {"decide", "head"},
         NEW c \in Controllers, NEW d \in Controllers, NEW h \in PawnSlots, NEW i \in PawnSlots,
         NEW p \in Pawns, NEW q \in Pawns, SteadyTarget(c, d, h, i, p, q)
  PROVE  /\ LocalOk /\ TargetOk(q) /\ \A w \in seen : w.table[me.crosshair] = q
         /\ world.pawn[q].scene /\ (config.head_only => world.pawn[q].skeleton)
         /\ me.pawn = p
<1>1. /\ me.pawn = p /\ mine = p /\ me \in Record /\ Sampled(me, LocalFieldSet)
  BY ShooterSeen, SteadyFound DEF FrameInv, LocalsOK
<1>2. LocalOk /\ me.crosshair = i
  BY <1>1, SteadyShooterOk, Names DEF LocalOk
<1>3. Listed(q)
  BY SteadyFound DEF FrameInv, NobodyMissed
<1>4. PICK k \in DOMAIN players : players[k].pawn = q
  BY <1>3 DEF Listed
<1>5. PICK m \in DOMAIN players : /\ players[m].pawn = q
                                  /\ \A j \in 1 .. m - 1 : players[j].pawn # q
  BY <1>4 DEF FrameInv, ListOK
<1>6. /\ Sampled(players[m], PlayerFieldSet) /\ players[m] \in Record
      /\ players[m].is_local <=> mine = q
  <2>1. players \in Seq(Record) /\ ListOK /\ phase # "done"
    BY DEF FrameInv, LocalsOK
  <2>2. players[m] \in Record
    BY <1>5, <2>1
  <2>3. /\ Sampled(players[m], PlayerFieldSet)
        /\ players[m].is_local <=> mine = players[m].pawn
    BY <1>5, <2>1 DEF ListOK
  <2> QED BY <1>5, <2>2, <2>3
<1>7. /\ ~players[m].dormant /\ ~players[m].immune /\ players[m].health /\ players[m].life
      /\ players[m].team \in Playing
      /\ config.teammates \/ players[m].team # me.team
  BY <1>1, <1>5, <1>6, SteadyTargetOk DEF FrameInv
<1>8. ~players[m].is_local
  BY <1>1, <1>6 DEF SteadyTarget
<1>9. TargetOk(q)
  BY <1>5, <1>7, <1>8 DEF TargetOk, First
<1>10. \A w \in seen : w.table[i] = q /\ w.pawn[q].scene /\ (config.head_only => w.pawn[q].skeleton)
  BY Conditions DEF SteadyTarget
<1>11. world \in seen
  BY DEF FrameInv, GameOK
<1> QED BY <1>1, <1>2, <1>9, <1>10, <1>11

\* A target without a scene or a skeleton is nobody's steady target.
LEMMA NoHeadNobodySteady ==
  ASSUME FrameInv, phase = "head", ~world.pawn[at].scene \/ ~world.pawn[at].skeleton
  PROVE  ~SomebodySteady
<1>1. SUFFICES ASSUME SomebodySteady PROVE FALSE
  OBVIOUS
<1>2. PICK c \in Controllers, d \in Controllers, h \in PawnSlots, i \in PawnSlots,
           p \in Pawns, q \in Pawns : SteadyTarget(c, d, h, i, p, q)
  BY <1>1 DEF SomebodySteady
<1>3. OnTarget /\ at = target /\ config.head_only
  BY DEF FrameInv, HeadOK
<1>4. /\ \A w \in seen : w.table[me.crosshair] = q
      /\ world.pawn[q].scene /\ world.pawn[q].skeleton
  BY <1>2, <1>3, SteadyAccepted
<1> QED BY <1>3, <1>4 DEF OnTarget

\* The record of a head is of a head that was there.
LEMMA BoneThere ==
  ASSUME FrameInv, phase = "head", step = "fields", NEW r, Sampled(r, BoneFieldSet),
         r.pawn = target, r.skeleton
  PROVE  \E w \in seen : w.pawn[target].skeleton
BY DEF Sampled, BoneFieldSet

LEMMA OnHeadOf ==
  ASSUME NEW a, NEW b, NEW c, NEW r, NEW s, NEW t,
         \A f \in AimFields : r[f] = a[f], \A f \in BodyFields : s[f] = b[f],
         \A f \in HeadFields : t[f] = c[f]
  PROVE  OnHead(r, s, t) = OnHead(a, b, c)
<1>1. /\ r.x = a.x /\ r.z = a.z /\ r.eye = a.eye /\ r.pitch = a.pitch /\ r.yaw = a.yaw
      /\ s.x = b.x /\ s.z = b.z /\ t.head_x = c.head_x /\ t.head_z = c.head_z
  BY DEF AimFields, BodyFields, HeadFields
<1> QED BY <1>1 DEF OnHead

\* The records the head check joins are among what can be read of the two pawns.
LEMMA JudgedByReadings ==
  ASSUME NEW p, NEW q, NEW a \in Record, NEW b \in Record, NEW c \in Record,
         a.pawn = p, b.pawn = q, c.pawn = q,
         Sampled(a, LocalFieldSet), Sampled(b, PlayerFieldSet), Sampled(c, BoneFieldSet)
  PROVE  /\ OnHead(a, b, c) => SomeReadingHits(p, q)
         /\ EveryReadingHits(p, q) => OnHead(a, b, c)
<1> DEFINE view == [f \in AimFields |-> a[f]]
           body == [f \in BodyFields |-> b[f]]
           head == [f \in HeadFields |-> c[f]]
<1>1. view \in Readings(p, AimFields)
  <2>1. AimFields \subseteq LocalFieldSet /\ a \in Record
    BY DEF AimFields, LocalFieldSet
  <2>2. \A f \in AimFields : a[f] \in Turns
    BY <2>1, Names DEF AimFields, Record
  <2>3. view \in [AimFields -> Turns]
    BY <2>2
  <2>4. \A f \in AimFields : \E w \in seen : view[f] = w.pawn[p][f]
    BY <2>1 DEF Sampled
  <2> QED BY <2>3, <2>4 DEF Readings
<1>2. body \in Readings(q, BodyFields)
  <2>1. BodyFields \subseteq PlayerFieldSet /\ b \in Record
    BY DEF BodyFields, PlayerFieldSet
  <2>2. \A f \in BodyFields : b[f] \in Turns
    BY <2>1, Names DEF BodyFields, Record
  <2>3. body \in [BodyFields -> Turns]
    BY <2>2
  <2>4. \A f \in BodyFields : \E w \in seen : body[f] = w.pawn[q][f]
    BY <2>1 DEF Sampled
  <2> QED BY <2>3, <2>4 DEF Readings
<1>3. head \in Readings(q, HeadFields)
  <2>1. HeadFields \subseteq BoneFieldSet /\ c \in Record
    BY DEF HeadFields, BoneFieldSet
  <2>2. \A f \in HeadFields : c[f] \in Turns
    BY <2>1, Names DEF HeadFields, Record
  <2>3. head \in [HeadFields -> Turns]
    BY <2>2
  <2>4. \A f \in HeadFields : \E w \in seen : head[f] = w.pawn[q][f]
    BY <2>1 DEF Sampled
  <2> QED BY <2>3, <2>4 DEF Readings
<1>4. /\ \A f \in AimFields : view[f] = a[f]
      /\ \A f \in BodyFields : body[f] = b[f]
      /\ \A f \in HeadFields : head[f] = c[f]
  OBVIOUS
<1> HIDE DEF view, body, head
<1>5. OnHead(view, body, head) = OnHead(a, b, c)
  BY <1>4, OnHeadOf
<1> QED BY <1>1, <1>2, <1>3, <1>5 DEF SomeReadingHits, EveryReadingHits

\* A frame that ends with a decision is right about its target.
LEMMA FrameDecided ==
  ASSUME FrameInv, phase \in {"decide", "head"},
         UNCHANGED <<gameVars, config, map, me, mine, players>>,
         NEW verdict \in BOOLEAN, EndFrame(verdict), target' \in Pawns \cup {Nil},
         verdict => \A q : q = target' => Justified(q),
         verdict \/ ~SomebodySteady
  PROVE  FrameInv'
<1>1. /\ world' = world /\ seen' = seen /\ config' = config /\ me' = me /\ fire' = verdict
  BY DEF EndFrame, gameVars
<1>2. \A w, p, q : Holds(w, p, q)' = Holds(w, p, q)
  BY <1>1 DEF Holds
<1>6. \A p, q : SomeReadingHits(p, q)' <=> SomeReadingHits(p, q)
  BY <1>1, ReadingsStay
<1>3. \A q : Justified(q)' <=> Justified(q)
  BY <1>1, <1>2, <1>6 DEF Justified
<1>4. verdict => \A q : q = target' => Justified(q)'
  BY <1>3
<1>5. FireIsJustified'
  BY <1>1, <1>4 DEF FireIsJustified, Justified
<1> QED BY <1>5, FrameEnds DEF FrameInv, LocalsOK

LEMMA DecideKeepsFrameInv == FrameInv /\ Decide => FrameInv'
<1> SUFFICES ASSUME FrameInv, Decide PROVE FrameInv'
  OBVIOUS
<1> DEFINE q == IF LocalOk THEN world.table[me.crosshair] ELSE Nil
<1>1. /\ phase = "decide" /\ target' = q /\ UNCHANGED <<gameVars, config, map, me, mine, players>>
      /\ world \in seen /\ OfPawns(world) /\ me \in Record
  BY DEF Decide, FrameInv, GameOK, LocalsOK
<1>2. q \in Pawns \cup {Nil}
  BY <1>1 DEF LocalOk, Record, OfPawns
<1>3. LocalOk => \E w \in seen : w.table[me.crosshair] = q
  BY <1>1
<1>4. ASSUME SomebodySteady PROVE LocalOk /\ TargetOk(q)
  <2>1. PICK c \in Controllers, d \in Controllers, h \in PawnSlots, i \in PawnSlots,
             x \in Pawns, y \in Pawns : SteadyTarget(c, d, h, i, x, y)
    BY <1>4 DEF SomebodySteady
  <2>2. LocalOk /\ TargetOk(y) /\ world.table[me.crosshair] = y
    BY <1>1, <2>1, SteadyAccepted
  <2> QED BY <2>2
<1> HIDE DEF q
<1>5. CASE LocalOk /\ TargetOk(q) /\ config.head_only
  <2> USE DEF FrameInv
  <2>1. /\ phase' = "head" /\ step' = "scene" /\ step = "none" /\ seen' = seen /\ config' = config
        /\ at' = target' /\ UNCHANGED <<rest, record, bucket, todo, fire>>
    BY <1>1, <1>5 DEF Decide, Goto, gameVars, PlaceOK
  <2>2. GameOK' /\ SidesOK'
    BY <1>1, <2>1, GameOKStays, SidesOKStays
  <2>3. PlaceOK'
    <3>1. q \in Pawns
      BY <1>1, <1>5, TargetSeen
    <3> QED BY <1>1, <2>1, <3>1 DEF PlaceOK
  <2>4. LocalsOK'
    BY <1>1, <1>2, <2>1 DEF LocalsOK
  <2>5. /\ \A p : LocalPawn(p)' <=> LocalPawn(p)
        /\ NoLocalPawn' <=> NoLocalPawn
        /\ \A r, fs : Sampled(r, fs)' <=> Sampled(r, fs)
        /\ \A d, i, x : Stays(d, i, x)' <=> Stays(d, i, x)
    BY <2>1 DEF LocalPawn, LocalHandle, NoLocalPawn, Sampled, Stays
  <2>6. Witnessed'
    BY <1>1, <2>1, <2>5 DEF Witnessed, After
  <2>7. ListOK'
    BY <1>1, <2>1, <2>5 DEF ListOK, After
  <2>8. NobodyMissed'
    BY <1>1, <2>1, <2>5 DEF NobodyMissed, Listed
  <2>9. HeadOK'
    <3>1. LocalOk' <=> LocalOk
      BY <1>1, <2>1 DEF LocalOk
    <3>2. \A x : TargetOk(x)' <=> TargetOk(x)
      BY <1>1, <2>1 DEF TargetOk, First
    <3>3. \A x : x = target' => TargetOk(x)'
      BY <1>1, <1>5, <3>2
    <3>4. TargetOk(target)'
      BY <3>3 DEF TargetOk, First
    <3>5. OnTarget'
      BY <1>1, <1>3, <1>5, <2>1 DEF OnTarget
    <3> QED BY <1>1, <1>5, <2>1, <3>1, <3>4, <3>5 DEF HeadOK
  <2> QED BY <2>1, <2>2, <2>3, <2>4, <2>6, <2>7, <2>8, <2>9
<1>6. CASE LocalOk /\ TargetOk(q) /\ ~config.head_only
  <2>1. EndFrame(TRUE)
    BY <1>1, <1>6 DEF Decide
  <2>2. Justified(q)
    BY <1>1, <1>3, <1>6, ShotJustified
  <2> QED BY <1>1, <1>2, <2>1, <2>2, FrameDecided
<1>7. CASE ~(LocalOk /\ TargetOk(q))
  <2>1. EndFrame(FALSE)
    BY <1>1, <1>7 DEF Decide
  <2> QED BY <1>1, <1>2, <1>4, <1>7, <2>1, FrameDecided
<1> QED BY <1>5, <1>6, <1>7

LEMMA ReadSceneKeepsFrameInv == FrameInv /\ ReadScene => FrameInv'
<1> SUFFICES ASSUME FrameInv, ReadScene PROVE FrameInv'
  OBVIOUS
<1>1. /\ step = "scene" /\ phase \in {"local", "players", "head"} /\ world \in seen /\ at \in Pawns
      /\ phase = "players" => PawnOf(Head(todo), at)
      /\ phase = "local" => LocalPawn(at)
      /\ UNCHANGED <<gameVars, config, map, target>>
  BY DEF ReadScene, FrameInv, PlaceOK, GameOK, Witnessed
<1>2. CASE ~world.pawn[at].scene
  <2>1. NotFound
    BY <1>2 DEF ReadScene
  <2>2. ASSUME phase = "local", NEW c \in Controllers, NEW d \in Controllers,
               NEW h \in PawnSlots, NEW i \in PawnSlots, NEW p \in Pawns, NEW q \in Pawns,
               SteadyTarget(c, d, h, i, p, q)
        PROVE  FALSE
    <3>1. at = p
      BY <1>1, <2>2, SteadyFound
    <3>2. world.pawn[p].scene
      BY <1>1, <2>2, Conditions DEF SteadyTarget
    <3> QED BY <1>2, <3>1, <3>2
  <2>3. ASSUME phase = "players", NEW i \in PawnSlots, NEW q \in Pawns, Stays(Head(todo), i, q)
        PROVE  FALSE
    <3>1. at = q
      BY <1>1, <2>3 DEF PawnOf, HandleOf, Stays
    <3> QED BY <1>1, <1>2, <2>3, <3>1 DEF Stays
  <2>4. phase = "head" => ~SomebodySteady
    BY <1>2, NoHeadNobodySteady
  <2>5. phase = "local" => ~SomebodySteady
    BY <2>2 DEF SomebodySteady
  <2> QED BY <1>1, <2>1, <2>3, <2>4, <2>5, NotFoundKeepsFrameInv
<1>3. CASE world.pawn[at].scene
  <2> USE DEF FrameInv
  <2>1. /\ step' = "fields" /\ record' = [NoRecord EXCEPT !.pawn = at]
        /\ rest' = CASE phase = "local" -> LocalFields
                     [] phase = "players" -> PlayerFields
                     [] phase = "head" -> BoneFields
        /\ UNCHANGED <<phase, at, me, mine, bucket, todo, players, fire>>
        /\ seen' = seen /\ config' = config /\ map' = map /\ target' = target
    BY <1>1, <1>3 DEF ReadScene, Goto, gameVars
  <2>2. GameOK' /\ SidesOK'
    BY <1>1, <2>1, GameOKStays, SidesOKStays
  <2>3. PlaceOK'
    BY <1>1, <2>1 DEF PlaceOK
  <2>4. record' \in Record /\ record'.pawn = at
    BY <1>1, <2>1, Names DEF NoRecord, Record, Teams
  <2>5. /\ LocalFields \in Seq(LocalFieldSet) /\ PlayerFields \in Seq(PlayerFieldSet)
        /\ BoneFields \in Seq(BoneFieldSet)
    BY DEF LocalFields, PlayerFields, BoneFields, LocalFieldSet, PlayerFieldSet, BoneFieldSet
  <2>6. /\ \A f \in LocalFieldSet : Among(f, LocalFields)
        /\ \A f \in PlayerFieldSet : Among(f, PlayerFields)
        /\ \A f \in BoneFieldSet : Among(f, BoneFields)
    <3>1. /\ LocalFields[1] = "x" /\ LocalFields[2] = "z" /\ LocalFields[3] = "eye"
          /\ LocalFields[4] = "pitch" /\ LocalFields[5] = "yaw" /\ LocalFields[6] = "impaired"
          /\ LocalFields[7] = "crosshair" /\ LocalFields[8] = "health"
          /\ LocalFields[9] = "team" /\ LocalFields[10] = "life" /\ LocalFields[11] = "immune"
          /\ DOMAIN LocalFields = 1 .. 11
      BY DEF LocalFields
    <3>2. /\ PlayerFields[1] = "health" /\ PlayerFields[2] = "team" /\ PlayerFields[3] = "life"
          /\ PlayerFields[4] = "immune" /\ PlayerFields[5] = "dormant" /\ PlayerFields[6] = "x"
          /\ PlayerFields[7] = "z" /\ DOMAIN PlayerFields = 1 .. 7
      BY DEF PlayerFields
    <3>3. /\ BoneFields[1] = "skeleton" /\ BoneFields[2] = "head_x" /\ BoneFields[3] = "head_z"
          /\ DOMAIN BoneFields = 1 .. 3
      BY DEF BoneFields
    <3>4. \A f \in LocalFieldSet : Among(f, LocalFields)
      BY <3>1 DEF Among, LocalFieldSet
    <3>5. \A f \in PlayerFieldSet : Among(f, PlayerFields)
      BY <3>2 DEF Among, PlayerFieldSet
    <3>6. \A f \in BoneFieldSet : Among(f, BoneFields)
      BY <3>3 DEF Among, BoneFieldSet
    <3> QED BY <3>4, <3>5, <3>6
  <2>7. LocalFields # <<>> /\ PlayerFields # <<>> /\ BoneFields # <<>>
    BY DEF LocalFields, PlayerFields, BoneFields
  <2>8. rest' \in Seq(FieldSet') /\ rest' # <<>> /\ \A f \in FieldSet' : Among(f, rest')
    BY <1>1, <2>1, <2>5, <2>6, <2>7 DEF FieldSet
  <2>9. LocalsOK'
    BY <1>1, <2>1, <2>4, <2>8 DEF LocalsOK
  <2>10. /\ \A p : LocalPawn(p)' <=> LocalPawn(p)
         /\ \A r, fs : Sampled(r, fs)' <=> Sampled(r, fs)
         /\ \A d, i, q : Stays(d, i, q)' <=> Stays(d, i, q)
         /\ \A d, p : PawnOf(d, p)' <=> PawnOf(d, p)
         /\ NoLocalPawn' <=> NoLocalPawn
    BY <2>1 DEF LocalPawn, LocalHandle, NoLocalPawn, Sampled, Stays, HandleOf, PawnOf
  <2>11. Sampled(record, {f \in FieldSet : ~Among(f, rest)})'
    <3>1. {f \in FieldSet' : ~Among(f, rest')} = {}
      BY <2>8
    <3>2. \A w \in seen : w.pawn[record'.pawn].scene <=> w.pawn[at].scene
      BY <2>4
    <3> QED BY <1>1, <1>3, <2>1, <2>4, <3>1 DEF Sampled, Among
  <2>12. Witnessed'
    BY <1>1, <2>1, <2>10, <2>11 DEF Witnessed, After
  <2>13. ListOK'
    BY <2>1, <2>10 DEF ListOK, After
  <2>14. NobodyMissed'
    BY <1>1, <2>1, <2>10 DEF NobodyMissed, Listed, ToCome, Among
  <2>15. HeadOK'
    <3>1. me' = me /\ players' = players /\ phase' = phase /\ at' = at
      BY <2>1
    <3>2. phase = "head" => Among("skeleton", rest')
      BY <2>1, <2>6 DEF BoneFieldSet
    <3>3. Among("skeleton", rest)' <=> Among("skeleton", rest')
      BY DEF Among
    <3> QED BY <2>1, <3>1, <3>2, <3>3, HeadOKStays
  <2> QED BY <1>1, <2>1, <2>2, <2>3, <2>9, <2>12, <2>13, <2>14, <2>15
<1> QED BY <1>2, <1>3

\* The skeleton is there from its read on.
LEMMA SkeletonRead ==
  ASSUME FrameInv, step = "fields", phase = "head",
         NEW r, r = [record EXCEPT ![Head(rest)] = world.pawn[at][Head(rest)]],
         ~(Head(rest) = "skeleton" /\ ~r[Head(rest)])
  PROVE  /\ Among("skeleton", Tail(rest)) \/ r.skeleton
         /\ Len(rest) = 1 => r.skeleton
<1>1. /\ rest \in Seq(FieldSet) /\ rest # <<>>
      /\ \A g \in AllFields : g # Head(rest) => r[g] = record[g]
  BY SampledByField
<1>2. Among("skeleton", rest) \/ record.skeleton
  BY DEF FrameInv, HeadOK
<1>3. Among("skeleton", rest) => "skeleton" = Head(rest) \/ Among("skeleton", Tail(rest))
  BY <1>1, AmongTail
<1>4. "skeleton" \in AllFields
  BY DEF AllFields, BoneFieldSet
<1>5. Head(rest) # "skeleton" => r["skeleton"] = record["skeleton"]
  BY <1>1, <1>4
<1>6. Among("skeleton", Tail(rest)) \/ r.skeleton
  BY <1>2, <1>3, <1>5
<1>7. Len(rest) = 1 => ~Among("skeleton", Tail(rest))
  <2>1. Tail(rest) \in Seq(FieldSet) /\ Len(Tail(rest)) = Len(rest) - 1
    BY <1>1
  <2>2. DOMAIN Tail(rest) = 1 .. Len(Tail(rest))
    BY <2>1
  <2> QED BY <2>1, <2>2 DEF Among
<1> QED BY <1>6, <1>7

LEMMA BoneDoneKeepsFrameInv ==
  ASSUME FrameInv, step = "fields", phase = "head",
         UNCHANGED <<gameVars, config, map, mine, target>>,
         NEW r \in Record, r.pawn = at, r.skeleton, Sampled(r, BoneFieldSet), BoneDone(r)
  PROVE  FrameInv'
<1> DEFINE verdict == \E k \in DOMAIN players : First(k, target) /\ OnHead(me, players[k], r)
<1>1. /\ EndFrame(verdict) /\ world \in seen
      /\ UNCHANGED <<gameVars, config, map, me, mine, players, target>>
      /\ LocalOk /\ TargetOk(target) /\ OnTarget /\ config.head_only
      /\ target \in Pawns \cup {Nil} /\ r.pawn = target
      /\ me \in Record /\ players \in Seq(Record)
  BY DEF BoneDone, FrameInv, HeadOK, GameOK, LocalsOK
<1>2. target \in Pawns
  BY <1>1, TargetSeen
<1>3. verdict \in BOOLEAN
  OBVIOUS
<1>4. Sampled(me, LocalFieldSet)
  BY ShooterSeen
<1>5. \A k \in DOMAIN players : players[k] \in Record /\ Sampled(players[k], PlayerFieldSet)
  BY <1>1 DEF FrameInv, ListOK
<1>6. verdict => SomeReadingHits(me.pawn, target)
  <2>1. SUFFICES ASSUME NEW k \in DOMAIN players, First(k, target), OnHead(me, players[k], r)
                 PROVE  SomeReadingHits(me.pawn, target)
    OBVIOUS
  <2>2. players[k].pawn = target
    BY <2>1 DEF First
  <2> QED BY <1>1, <1>4, <1>5, <2>1, <2>2, JudgedByReadings
<1>7. \E w \in seen : w.pawn[target].skeleton
  BY <1>1, BoneThere
<1>8. verdict => Justified(target)
  BY <1>1, <1>6, <1>7, ShotJustified DEF OnTarget
<1>9. ASSUME SomebodySteady PROVE verdict
  <2>1. PICK c \in Controllers, d \in Controllers, h \in PawnSlots, i \in PawnSlots,
             p \in Pawns, q \in Pawns : SteadyTarget(c, d, h, i, p, q)
    BY <1>9 DEF SomebodySteady
  <2>2. (\A w \in seen : w.table[me.crosshair] = q) /\ me.pawn = p
    BY <1>1, <2>1, SteadyAccepted
  <2>3. q = target
    BY <1>1, <2>2 DEF OnTarget
  <2>4. PICK k \in DOMAIN players : First(k, target)
    BY <1>1 DEF TargetOk
  <2>5. EveryReadingHits(me.pawn, target)
    BY <1>1, <2>1, <2>2, <2>3 DEF SteadyTarget
  <2>6. players[k].pawn = target
    BY <2>4 DEF First
  <2>7. OnHead(me, players[k], r)
    BY <1>1, <1>4, <1>5, <2>4, <2>5, <2>6, JudgedByReadings
  <2> QED BY <2>4, <2>7
<1> HIDE DEF verdict
<1> QED BY <1>1, <1>3, <1>8, <1>9, FrameDecided

LEMMA ReadFieldKeepsFrameInv == FrameInv /\ ReadField => FrameInv'
<1> SUFFICES ASSUME FrameInv, ReadField PROVE FrameInv'
  OBVIOUS
<1> DEFINE r == [record EXCEPT ![Head(rest)] = world.pawn[at][Head(rest)]]
<1>1. step = "fields" /\ UNCHANGED <<gameVars, config, map, mine, target>>
  BY DEF ReadField
<1>2. /\ r \in Record /\ r.pawn = at /\ phase \in {"local", "players", "head"}
      /\ rest \in Seq(FieldSet) /\ rest # <<>>
      /\ Len(rest) = 1 => Sampled(r, FieldSet)
      /\ r[Head(rest)] = world.pawn[at][Head(rest)]
  BY <1>1, SampledByField
<1>3. Len(rest) = 1 \/ Len(rest) > 1
  BY <1>2, NotEmpty
<1>4. Head(rest) \in FieldSet
  BY <1>2
<1>5. CASE Head(rest) = "skeleton" /\ ~r[Head(rest)]
  <2>1. NotFound
    BY <1>5 DEF ReadField
  <2>2. phase = "head"
    BY <1>2, <1>4, <1>5 DEF FieldSet, LocalFieldSet, PlayerFieldSet
  <2>3. ~world.pawn[at].skeleton
    BY <1>2, <1>5
  <2>4. ~SomebodySteady
    BY <2>2, <2>3, NoHeadNobodySteady
  <2> QED BY <1>1, <2>1, <2>2, <2>4, NotFoundKeepsFrameInv
<1>6. CASE ~(Head(rest) = "skeleton" /\ ~r[Head(rest)]) /\ Len(rest) > 1
  <2>1. phase = "head" => Among("skeleton", Tail(rest)) \/ r.skeleton
    BY <1>1, <1>6, SkeletonRead
  <2>2. /\ rest' = Tail(rest) /\ record' = r
        /\ UNCHANGED <<phase, step, at, me, bucket, todo, players, fire>>
    BY <1>6 DEF ReadField
  <2> QED BY <1>1, <1>6, <2>1, <2>2, NextFieldKeepsFrameInv
<1>7. CASE ~(Head(rest) = "skeleton" /\ ~r[Head(rest)]) /\ ~(Len(rest) > 1) /\ phase = "local"
  <2>1. LocalDone(r) /\ Sampled(r, LocalFieldSet)
    BY <1>2, <1>3, <1>7 DEF ReadField, FieldSet
  <2> HIDE DEF r
  <2> QED BY <1>1, <1>2, <1>7, <2>1, LocalDoneKeepsFrameInv
<1>8. CASE ~(Head(rest) = "skeleton" /\ ~r[Head(rest)]) /\ ~(Len(rest) > 1) /\ phase = "players"
  <2>1. PlayerDone(r) /\ Sampled(r, PlayerFieldSet)
    BY <1>2, <1>3, <1>8 DEF ReadField, FieldSet
  <2> HIDE DEF r
  <2> QED BY <1>1, <1>2, <1>8, <2>1, PlayerDoneKeepsFrameInv
<1>9. CASE ~(Head(rest) = "skeleton" /\ ~r[Head(rest)]) /\ ~(Len(rest) > 1) /\ phase = "head"
  <2>1. BoneDone(r) /\ Sampled(r, BoneFieldSet)
    BY <1>2, <1>3, <1>9 DEF ReadField, FieldSet
  <2>2. r.skeleton
    BY <1>1, <1>3, <1>9, SkeletonRead
  <2> HIDE DEF r
  <2> QED BY <1>1, <1>2, <1>9, <2>1, <2>2, BoneDoneKeepsFrameInv
<1> QED BY <1>2, <1>5, <1>6, <1>7, <1>8, <1>9

\* The invariant: all that a frame holds is from moments of this frame, nobody who
\* stays is missed, and so its verdict is right.
LEMMA FrameInductive == FrameSpec => []FrameInv
<1>1. FrameInit => FrameInv
  <2> SUFFICES ASSUME FrameInit PROVE FrameInv
    OBVIOUS
  <2> USE DEF FrameInit
  <2>1. GameOK
    <3>1. \A p \in Pawns : 2 + (p % 2) \in Teams
      BY Names DEF Pawns, Teams
    <3>2. Start \in Moment
      <4>1. \A c \in Controllers : NumPlayers + c - 1 \in PawnSlots
        BY Names DEF Controllers, PawnSlots
      <4>2. \A i \in Indices : i + 1 \in Controllers \cup Pawns
        BY Names DEF Controllers, Pawns, Indices
      <4>3. NumPlayers + 1 \in PawnSlots /\ 1 \in Controllers
        BY Names DEF PawnSlots, Controllers
      <4>4. Start.pawn \in [Pawns -> Pawn]
        BY <3>1, <4>3, Names DEF Start, Pawn
      <4>5. Start.handle \in [Controllers -> PawnSlots \cup {NoIndex}]
        BY <4>1 DEF Start
      <4>6. Start.table \in [Indices -> Controllers \cup Pawns \cup {Nil}]
        BY <4>2 DEF Start
      <4> QED BY <4>3, <4>4, <4>5, <4>6 DEF Start, Moment
    <3>3. OfPawns(Start)
      <4>1. \A i \in PawnSlots : i \in Indices /\ i + 1 \in Pawns
        BY Names DEF PawnSlots, Indices, Pawns
      <4> QED BY <4>1 DEF Start, OfPawns
    <3>4. OfControllers(Start)
      <4>1. \A c \in Controllers : c - 1 \in Indices /\ (c - 1) + 1 = c
        BY Names DEF Controllers, Indices
      <4> QED BY <4>1 DEF Start, OfControllers
    <3> QED BY <3>2, <3>3, <3>4, Names DEF GameOK
  <2>2. PlaceOK
    BY Names DEF PlaceOK
  <2>3. NoRecord \in Record /\ NoRecord.pawn = Nil
    BY Names DEF NoRecord, Record, Teams
  <2>4. LocalsOK
    <3>1. rest \in Seq(FieldSet) /\ players \in Seq(Record)
      OBVIOUS
    <3> QED BY <2>3, <3>1 DEF LocalsOK
  <2>5. Witnessed /\ ListOK /\ NobodyMissed /\ SidesOK /\ HeadOK
    BY DEF Witnessed, ListOK, NobodyMissed, SidesOK, HeadOK, After
  <2>6. FireIsJustified /\ SteadyTargetIsFiredAt
    BY DEF FireIsJustified, SteadyTargetIsFiredAt
  <2> QED BY <2>1, <2>2, <2>4, <2>5, <2>6 DEF FrameInv
<1>2. FrameInv /\ [FrameNext]_frameVars => FrameInv'
  <2>1. FrameInv /\ Reads => FrameInv'
    BY ReadMapKeepsFrameInv, ReadControllerKeepsFrameInv, ReadHandleKeepsFrameInv,
       ReadSlotKeepsFrameInv, ReadSceneKeepsFrameInv, ReadFieldKeepsFrameInv,
       ReadBucketKeepsFrameInv, DecideKeepsFrameInv DEF Reads
  <2>2. FrameInv /\ UNCHANGED frameVars => FrameInv'
    <3> SUFFICES ASSUME FrameInv, UNCHANGED frameVars PROVE FrameInv'
      OBVIOUS
    <3>1. /\ world' = world /\ changes' = changes /\ seen' = seen /\ config' = config
          /\ phase' = phase /\ step' = step /\ map' = map /\ at' = at /\ rest' = rest
          /\ record' = record /\ me' = me /\ mine' = mine /\ bucket' = bucket /\ todo' = todo
          /\ players' = players /\ target' = target /\ fire' = fire
      BY DEF frameVars
    <3>2. GameOK' /\ PlaceOK' /\ LocalsOK' /\ SidesOK'
      BY <3>1 DEF FrameInv, GameOK, OfPawns, OfControllers, PlaceOK, LocalsOK, FieldSet, SidesOK
    <3>3. Witnessed'
      BY <3>1 DEF FrameInv, Witnessed, After, LocalHandle, LocalPawn, NoLocalPawn, HandleOf,
                  PawnOf, Sampled, Among, FieldSet
    <3>4. ListOK' /\ NobodyMissed'
      BY <3>1 DEF FrameInv, ListOK, After, Sampled, NobodyMissed, Stays, Listed, ToCome, Among
    <3>5. HeadOK'
      <4>1. Among("skeleton", rest)' <=> Among("skeleton", rest)
        BY <3>1 DEF Among
      <4>2. HeadOK /\ UNCHANGED <<phase, me, players, target, config, seen, at>>
        BY <3>1 DEF FrameInv
      <4>3. phase = "head" /\ step' = "fields" => Among("skeleton", rest)' \/ record'.skeleton
        BY <3>1, <4>1, <4>2 DEF HeadOK
      <4> QED BY <4>2, <4>3, HeadOKStays
    <3>6. \A w, p, q : Holds(w, p, q)' = Holds(w, p, q)
      BY <3>1 DEF Holds
    <3>7. \A w, c, h, p, d, i, q : Eligible(w, c, h, p, d, i, q)' <=> Eligible(w, c, h, p, d, i, q)
      BY <3>1, <3>6 DEF Eligible
    <3>10. \A p, q : /\ SomeReadingHits(p, q)' <=> SomeReadingHits(p, q)
                     /\ EveryReadingHits(p, q)' <=> EveryReadingHits(p, q)
      BY <3>1, ReadingsStay
    <3>8. \A q : Justified(q)' <=> Justified(q)
      BY <3>1, <3>6, <3>10 DEF Justified
    <3>9. phase = "done" => FireIsJustified' /\ SteadyTargetIsFiredAt'
      BY <3>1, <3>7, <3>8, <3>10 DEF FrameInv, FireIsJustified, Justified, SteadyTargetIsFiredAt
    <3> QED BY <3>1, <3>2, <3>3, <3>4, <3>5, <3>9 DEF FrameInv
  <2> QED BY <2>1, <2>2, GameChangesKeepsFrameInv DEF FrameNext
<1> QED BY <1>1, <1>2, PTL DEF FrameSpec

\* A shot that a frame calls for was right, condition by condition, at moments of that
\* frame (evaluate_trigger_deadlocked over read_trigger_frame), for any number of
\* players and changes of the game.
THEOREM ShotsAreJustified == FrameSpec => []FireIsJustified
<1>1. FrameInv => FireIsJustified
  BY DEF FrameInv, LocalsOK, FireIsJustified
<1> QED BY <1>1, FrameInductive, PTL

\* A target that may be fired at all through a frame is fired at.
THEOREM NoTargetMissed == FrameSpec => []SteadyTargetIsFiredAt
<1>1. FrameInv => SteadyTargetIsFiredAt
  BY DEF FrameInv, SteadyTargetIsFiredAt
<1> QED BY <1>1, FrameInductive, PTL

\* The frame's locals keep their types, and each read has what it reads from.
THEOREM FrameTypes == FrameSpec => []FrameTypeOK
<1>1. FrameInv => FrameTypeOK
  <2> SUFFICES ASSUME FrameInv PROVE FrameTypeOK
    OBVIOUS
  <2>1. world \in Moment /\ seen \subseteq Moment /\ changes \in 0 .. MaxChanges
    BY DEF FrameInv, GameOK
  <2>2. /\ CASE step = "handle" -> at \in Controllers
             [] step = "slot" -> at \in PawnSlots
             [] step \in {"scene", "fields"} -> at \in Pawns
             [] step \in {"controller", "bucket", "none"} -> at = Nil
    BY DEF FrameInv, PlaceOK
  <2>3. (step = "fields") = (rest # <<>>)
    BY DEF FrameInv, LocalsOK
  <2>4. (step = "fields") = (record # NoRecord)
    <3>1. step = "fields" => record.pawn \in Pawns
      BY DEF FrameInv, LocalsOK, PlaceOK
    <3>2. NoRecord.pawn \notin Pawns
      BY Names DEF NoRecord
    <3> QED BY <3>1, <3>2 DEF FrameInv, LocalsOK
  <2>5. /\ bucket * BucketSize < 2 * NumPlayers /\ todo \in Seq(Controllers)
        /\ (phase = "players" /\ step # "bucket") = (todo # <<>>)
        /\ phase \in {"local", "again", "players", "decide", "head", "done"}
    BY DEF FrameInv, PlaceOK
  <2>6. {me.pawn, target, mine} \subseteq Pawns \cup {Nil} /\ fire \in BOOLEAN
    BY DEF FrameInv, LocalsOK, Record
  <2> QED BY <2>1, <2>2, <2>3, <2>4, <2>5, <2>6 DEF FrameTypeOK
<1> QED BY <1>1, FrameInductive, PTL
=============================================================================
