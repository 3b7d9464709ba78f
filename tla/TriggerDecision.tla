---------------------------- MODULE TriggerDecision ----------------------------
(***************************************************************************)
(* One frame of fun-trigger, read by read: read_trigger_frame asks for the *)
(* map, chases pointers from the local controller to the local pawn, reads *)
(* its fields, walks the entity table for the other players, resolves the  *)
(* entity under the crosshair and decides.  The game goes on in between:   *)
(* any two reads may see different moments.                                *)
(*                                                                         *)
(* The game's memory is an entity table of controllers and pawns; the      *)
(* fields keep what the decision distinguishes (health: above zero; life:  *)
(* life_state is 0).  What the optional checks read is one field here, the *)
(* set of those that speak against a shot.  Where somebody stands, looks   *)
(* and has the head is a coordinate per read, on a plane: across and up.   *)
(* Every read succeeds: one that fails ends the frame with an error, which *)
(* TriggerLane models, or with a refusal.                                  *)
(***************************************************************************)
EXTENDS Integers, FiniteSets, Sequences

CONSTANTS
  NumPlayers,   \* controllers, and as many pawns
  BucketSize,   \* identities in one bucket of the entity table (512)
  Checks,       \* the optional checks of the local player: flash, scope, velocity
  Span,         \* bound: the extent of the map
  MaxChanges    \* bound: changes of the game

ASSUME DecisionAssumption ==
  NumPlayers \in Nat \ {0, 1} /\ BucketSize \in Nat \ {0}
  /\ Span \in Nat \ {0} /\ MaxChanges \in Nat

VARIABLES
  world,     \* the game
  changes,   \* how often it has changed
  seen,      \* history: the moments of the game since the frame began
  config,    \* Config: which checks are made, teammates allowed, head only
  phase,     \* what is read: "map", "local", "again" (the local pawn once more),
             \* "players", "decide", "head" (the bone) or "done"
  step,      \* and of it: "controller", "handle", "slot", "scene", "fields", "bucket"
  map,       \* snapshot.map_name
  at,        \* the pointer just read: a controller, an index or a pawn
  rest,      \* the fields of that pawn still to be read
  record,    \* the record being filled
  me,        \* the LocalPlayerRecord
  mine,      \* local_pawn of read_radar_player_records, or Nil
  bucket,    \* bucket_index
  todo,      \* the controllers of the bucket still to be looked at
  players,   \* the RadarPlayerRecords so far
  target,    \* the pawn under the crosshair, or Nil
  fire       \* TriggerFrame.should_fire

gameVars == <<world, changes, seen>>
reading == <<map, at, rest, record, me, mine, bucket, todo, players, target, fire>>
frameVars == <<world, changes, seen, config, phase, step, map, at, rest, record, me, mine,
               bucket, todo, players, target, fire>>

Nil == 0
NoIndex == -1
Controllers == 1 .. NumPlayers
Pawns == NumPlayers + 1 .. 2 * NumPlayers
Indices == 0 .. 2 * NumPlayers - 1

\* The slots of the table that pawns live in; controllers never move.
PawnSlots == NumPlayers .. 2 * NumPlayers - 1

Teams == {1, 2, 3}
Playing == {2, 3}

\* Where a thing is on one axis, and how far off that the next one is or is looked for.
Places == 0 .. Span
Turns == -Span .. Span

Pawn == [scene : BOOLEAN, health : BOOLEAN, team : Teams, life : BOOLEAN,
         immune : BOOLEAN, dormant : BOOLEAN, impaired : SUBSET Checks,
         crosshair : PawnSlots \cup {NoIndex}, x : Places, z : Places, eye : Places,
         pitch : Turns, yaw : Turns, skeleton : BOOLEAN, head_x : Places, head_z : Places]

Moment == [map : {"real", "empty", "none"}, local : Controllers \cup {Nil},
           handle : [Controllers -> PawnSlots \cup {NoIndex}],
           table : [Indices -> Controllers \cup Pawns \cup {Nil}],
           stale : SUBSET Indices, pawn : [Pawns -> Pawn]]

LocalFields == <<"x", "z", "eye", "pitch", "yaw", "impaired", "crosshair",
                 "health", "team", "life", "immune">>
PlayerFields == <<"health", "team", "life", "immune", "dormant", "x", "z">>
BoneFields == <<"skeleton", "head_x", "head_z">>

-----------------------------------------------------------------------------
(* The game.                                                               *)

Becomes(w) == world' = w

\* One thing changes: the map, the local controller, a handle, a slot, a field; or a
\* head moves across, and at once another player's view, after it or not.
GameChanges ==
  /\ changes < MaxChanges
  /\ \/ \E m \in {"real", "empty", "none"} : Becomes([world EXCEPT !.map = m])
     \/ \E c \in Controllers \cup {Nil} : Becomes([world EXCEPT !.local = c])
     \/ \E c \in Controllers, i \in PawnSlots \cup {NoIndex} :
          Becomes([world EXCEPT !.handle[c] = i])
     \/ \E i \in PawnSlots, e \in Pawns \cup {Nil} : Becomes([world EXCEPT !.table[i] = e])
     \/ \E c \in Controllers : Becomes([world EXCEPT !.stale = @ \cup {c - 1}])
     \/ \E p \in Pawns :
          \/ \E b \in {"scene", "health", "life", "immune", "dormant", "skeleton"} :
               Becomes([world EXCEPT !.pawn[p][b] = ~@])
          \/ \E t \in Teams : Becomes([world EXCEPT !.pawn[p].team = t])
          \/ \E s \in SUBSET Checks : Becomes([world EXCEPT !.pawn[p].impaired = s])
          \/ \E i \in PawnSlots \cup {NoIndex} : Becomes([world EXCEPT !.pawn[p].crosshair = i])
          \/ \E f \in {"x", "z", "eye", "head_z"}, a \in Places :
               Becomes([world EXCEPT !.pawn[p][f] = a])
          \/ \E a \in Turns : Becomes([world EXCEPT !.pawn[p].pitch = a])
          \/ \E q \in Pawns \ {p}, a \in Turns, h \in Places :
               Becomes([world EXCEPT !.pawn[p].yaw = a, !.pawn[q].head_x = h])
  /\ world' # world
  /\ changes' = changes + 1
  /\ seen' = IF phase = "done" THEN seen ELSE seen \cup {world'}
  /\ UNCHANGED <<config, phase, step, reading>>

-----------------------------------------------------------------------------
(* The end of a lookup or of a frame.                                      *)

NoRecord == [pawn |-> Nil, impaired |-> {}, crosshair |-> NoIndex, health |-> FALSE,
             team |-> 1, life |-> FALSE, immune |-> FALSE, dormant |-> FALSE,
             is_local |-> FALSE, x |-> 0, z |-> 0, eye |-> 0, pitch |-> 0, yaw |-> 0,
             skeleton |-> FALSE, head_x |-> 0, head_z |-> 0]

Goto(p, s) == phase' = p /\ step' = s

EndFrame(decision) == /\ fire' = decision
                      /\ Goto("done", "none")
                      /\ at' = Nil /\ rest' = <<>> /\ record' = NoRecord
                      /\ bucket' = 0 /\ todo' = <<>>

\* On to the next controller, to the next bucket, or to the decision.
NextPlayer(controllers, b) ==
  /\ todo' = controllers
  /\ rest' = <<>> /\ record' = NoRecord
  /\ IF controllers # <<>>
     THEN Goto("players", "handle") /\ at' = Head(controllers) /\ bucket' = b
     ELSE IF (b + 1) * BucketSize < 2 * NumPlayers
     THEN Goto("players", "bucket") /\ at' = Nil /\ bucket' = b + 1
     ELSE Goto("decide", "none") /\ at' = Nil /\ bucket' = 0
  /\ UNCHANGED fire

ReadPlayers == /\ Goto("players", "bucket")
               /\ at' = Nil
               /\ UNCHANGED <<rest, record, bucket, todo, fire>>

\* The pointer does not lead to a pawn: without a local one the frame is a
\* refusal (or unavailable) whatever else is read, so is one whose target has no head;
\* any other player is skipped.
NotFound == /\ CASE phase \in {"local", "head"} -> EndFrame(FALSE) /\ UNCHANGED mine
              [] phase = "again" -> ReadPlayers /\ mine' = Nil
              [] phase = "players" -> NextPlayer(Tail(todo), bucket) /\ UNCHANGED mine
            /\ UNCHANGED <<me, players>>

Follow(pointer, s) == /\ at' = pointer
                      /\ Goto(phase, s)
                      /\ UNCHANGED <<rest, record, me, mine, bucket, todo, players, fire>>

-----------------------------------------------------------------------------
(* The reads.                                                              *)

\* A frame begins with the snapshot; of it only the map name matters.
ReadMap == /\ phase = "done"
           /\ seen' = {world}
           /\ map' = world.map
           /\ me' = NoRecord /\ mine' = Nil /\ players' = <<>> /\ target' = Nil
           /\ fire' = FALSE
           /\ Goto("local", "controller")
           /\ UNCHANGED <<world, changes, config, at, rest, record, bucket, todo>>

ReadController == /\ step = "controller"
                  /\ IF world.local = Nil THEN NotFound ELSE Follow(world.local, "handle")
                  /\ UNCHANGED <<gameVars, config, map, target>>

ReadHandle == /\ step = "handle"
              /\ IF world.handle[at] = NoIndex THEN NotFound
                                               ELSE Follow(world.handle[at], "slot")
              /\ UNCHANGED <<gameVars, config, map, target>>

\* resolve_entity_index.
ReadSlot == /\ step = "slot"
            /\ IF world.table[at] = Nil THEN NotFound
               ELSE IF phase = "again"
               THEN ReadPlayers /\ mine' = world.table[at] /\ UNCHANGED <<me, players>>
               ELSE Follow(world.table[at], "scene")
            /\ UNCHANGED <<gameVars, config, map, target>>

ReadScene == /\ step = "scene"
             /\ IF ~world.pawn[at].scene THEN NotFound
                ELSE /\ Goto(phase, "fields")
                     /\ rest' = CASE phase = "local" -> LocalFields
                                  [] phase = "players" -> PlayerFields
                                  [] phase = "head" -> BoneFields
                     /\ record' = [NoRecord EXCEPT !.pawn = at]
                     /\ UNCHANGED <<at, me, mine, bucket, todo, players, fire>>
             /\ UNCHANGED <<gameVars, config, map, target>>

\* is_in_menu of classify_snapshot.
InMenu == map # "real"

\* The local record is complete: a refusal in the menu or without a map, unless a
\* live local player is there, in which case an "empty" map is a map.
LocalDone(r) == /\ me' = r
                /\ IF (InMenu /\ r.team \notin Playing) \/ map = "none" THEN EndFrame(FALSE)
                   ELSE /\ Goto("again", "controller")
                        /\ at' = Nil /\ rest' = <<>> /\ record' = NoRecord
                        /\ UNCHANGED <<bucket, todo, fire>>
                /\ UNCHANGED players

PlayerDone(r) == /\ players' = Append(players, [r EXCEPT !.is_local = (mine = r.pawn)])
                 /\ NextPlayer(Tail(todo), bucket)
                 /\ UNCHANGED me

Distance(a, b) == IF a < b THEN b - a ELSE a - b

\* head_radius_fov: what a head fills of the view, the less the further away.
HeadRadius(distance) == Span \div distance

\* The crosshair is on the head, as far as three records tell: how the shooter stands
\* and looks, where the target stands and where its head is.
OnHead(shooter, body, bone) ==
  LET distance == Distance(shooter.x, body.x) + Distance(shooter.z, body.z)
      fov == Distance(bone.head_x - shooter.x, shooter.yaw)
               + Distance(bone.head_z - (shooter.z + shooter.eye), shooter.pitch)
  IN distance > 0 /\ fov <= HeadRadius(distance)

\* players.iter().find: record k is the first of pawn q.
First(k, q) == players[k].pawn = q /\ \A j \in 1 .. k - 1 : players[j].pawn # q

\* Seeded fault: the record of any player will do.
BoneDone_AnyPlayer(r) == /\ EndFrame(\E k \in DOMAIN players : OnHead(me, players[k], r))
                         /\ UNCHANGED <<me, players>>

\* The head is judged by what was read of the two players before it.
BoneDone(r) == /\ EndFrame(\E k \in DOMAIN players :
                             First(k, target) /\ OnHead(me, players[k], r))
               /\ UNCHANGED <<me, players>>

ReadField ==
  LET f == Head(rest)
      r == [record EXCEPT ![f] = world.pawn[at][f]]
  IN /\ step = "fields"
     /\ IF f = "skeleton" /\ ~r[f] THEN NotFound
        ELSE IF Len(rest) > 1
        THEN /\ rest' = Tail(rest) /\ record' = r
             /\ UNCHANGED <<phase, step, at, me, bucket, todo, players, fire>>
        ELSE CASE phase = "local" -> LocalDone(r)
               [] phase = "players" -> PlayerDone(r)
               [] phase = "head" -> BoneDone(r)
     /\ UNCHANGED <<gameVars, config, map, mine, target>>

\* Seeded fault: the identity at the end of a bucket is left out.
Identities_SkipsLast(b) ==
  {i \in Indices : /\ b * BucketSize <= i /\ i < (b + 1) * BucketSize - 1
                   /\ i \notin world.stale /\ world.table[i] \in Controllers}

\* The identities of a bucket that are not stale and of class CCSPlayerController.
Identities(b) ==
  {i \in Indices : /\ b * BucketSize <= i /\ i < (b + 1) * BucketSize
                   /\ i \notin world.stale /\ world.table[i] \in Controllers}

\* The bucket is read in one piece and gone through in the order of the table; what
\* its entities hold is not.
ReadBucket ==
  /\ step = "bucket"
  /\ \E n \in 0 .. BucketSize : \E order \in [1 .. n -> Identities(bucket)] :
       /\ \A j, k \in 1 .. n : j < k => order[j] < order[k]
       /\ \A i \in Identities(bucket) : \E k \in 1 .. n : order[k] = i
       /\ NextPlayer([k \in 1 .. n |-> world.table[order[k]]], bucket)
  /\ UNCHANGED <<gameVars, config, map, me, mine, players, target>>

-----------------------------------------------------------------------------
(* evaluate_trigger_deadlocked.                                            *)

LocalOk == /\ me.team \in Playing
           /\ me.health /\ me.life /\ ~me.immune
           /\ me.impaired \cap config.checks = {}
           /\ me.crosshair # NoIndex

\* The first record of pawn q allows to fire at it.
TargetOk(q) ==
  \E k \in DOMAIN players :
    LET p == players[k]
    IN /\ First(k, q)
       /\ ~p.is_local /\ ~p.dormant /\ ~p.immune /\ p.health /\ p.life
       /\ p.team \in Playing
       /\ config.teammates \/ p.team # me.team

Decide == /\ phase = "decide"
          /\ target' = IF LocalOk THEN world.table[me.crosshair] ELSE Nil
          /\ IF LocalOk /\ TargetOk(target')
             THEN IF config.head_only
                  THEN /\ Goto("head", "scene") /\ at' = target'
                       /\ UNCHANGED <<rest, record, bucket, todo, fire>>
                  ELSE EndFrame(TRUE)
             ELSE EndFrame(FALSE)
          /\ UNCHANGED <<gameVars, config, map, me, mine, players>>

-----------------------------------------------------------------------------

\* A match: everybody is alive, and the first player looks at the second's head.
Start == [map |-> "real", local |-> 1,
          handle |-> [c \in Controllers |-> NumPlayers + c - 1],
          table |-> [i \in Indices |-> i + 1],
          stale |-> {},
          pawn |-> [p \in Pawns |->
            [scene |-> TRUE, health |-> TRUE, team |-> 2 + (p % 2), life |-> TRUE,
             immune |-> FALSE, dormant |-> FALSE, impaired |-> {},
             crosshair |-> NumPlayers + 1,
             x |-> IF p = NumPlayers + 1 THEN 0 ELSE Span,
             z |-> IF p = NumPlayers + 1 THEN 0 ELSE Span,
             eye |-> Span, pitch |-> 0, yaw |-> Span,
             skeleton |-> TRUE, head_x |-> Span, head_z |-> Span]]]

FrameInit == /\ world = Start /\ changes = 0 /\ seen = {}
             /\ config \in [teammates : BOOLEAN, head_only : BOOLEAN, checks : SUBSET Checks]
             /\ phase = "done" /\ step = "none" /\ map = "none"
             /\ at = Nil /\ rest = <<>> /\ record = NoRecord /\ me = NoRecord /\ mine = Nil
             /\ bucket = 0 /\ todo = <<>> /\ players = <<>> /\ target = Nil /\ fire = FALSE

Reads == \/ ReadMap \/ ReadController \/ ReadHandle \/ ReadSlot \/ ReadScene
         \/ ReadField \/ ReadBucket \/ Decide

FrameNext == GameChanges \/ Reads

FrameSpec == FrameInit /\ [][FrameNext]_frameVars

-----------------------------------------------------------------------------
(* Properties.                                                             *)

\* The frame's locals keep their types, and each read has what it reads from.
FrameTypeOK ==
  /\ world \in Moment /\ seen \subseteq Moment /\ changes \in 0 .. MaxChanges
  /\ phase \in {"local", "again", "players", "decide", "head", "done"}
  /\ CASE step = "handle" -> at \in Controllers
       [] step = "slot" -> at \in PawnSlots
       [] step \in {"scene", "fields"} -> at \in Pawns
       [] step \in {"controller", "bucket", "none"} -> at = Nil
  /\ (step = "fields") = (rest # <<>>) /\ (step = "fields") = (record # NoRecord)
  /\ bucket * BucketSize < 2 * NumPlayers
  /\ todo \in Seq(Controllers) /\ (phase = "players" /\ step # "bucket") = (todo # <<>>)
  /\ {me.pawn, target, mine} \subseteq Pawns \cup {Nil}
  /\ fire \in BOOLEAN

\* What makes a shot by p at q right at the moment w, condition by condition.
Holds(w, p, q) ==
  [shooter_health |-> w.pawn[p].health, target_health |-> w.pawn[q].health,
   shooter_life |-> w.pawn[p].life, target_life |-> w.pawn[q].life,
   shooter_open |-> ~w.pawn[p].immune, target_open |-> ~w.pawn[q].immune,
   shooter_team |-> w.pawn[p].team \in Playing, target_team |-> w.pawn[q].team \in Playing,
   shooter_scene |-> w.pawn[p].scene, target_scene |-> w.pawn[q].scene,
   target_awake |-> ~w.pawn[q].dormant,
   map |-> w.map # "none",
   skeleton |-> config.head_only => w.pawn[q].skeleton]

AimFields == {"x", "z", "eye", "pitch", "yaw"}
BodyFields == {"x", "z"}
HeadFields == {"head_x", "head_z"}

\* What a frame can read of these fields of pawn p: each at a moment of its own.
Readings(p, fs) == {r \in [fs -> Turns] : \A f \in fs : \E w \in seen : r[f] = w.pawn[p][f]}

SomeReadingHits(p, q) ==
  \E aim \in Readings(p, AimFields), body \in Readings(q, BodyFields),
     head \in Readings(q, HeadFields) : OnHead(aim, body, head)
EveryReadingHits(p, q) ==
  \A aim \in Readings(p, AimFields), body \in Readings(q, BodyFields),
     head \in Readings(q, HeadFields) : OnHead(aim, body, head)

\* However the game moved between the reads: when the frame calls for fire, each
\* condition held at some moment of this very frame (none is left over from an
\* earlier one), the crosshair was on a slot that held the target, and unless the
\* entity table moved, the target is not the player himself.  The head check joins
\* coordinates of different moments (the view first, then where the target stands,
\* the bone last): each is of this frame, and while neither moves the crosshair was
\* on the head; of two that move, there need not have been a moment when it was.
FireIsJustified ==
  fire =>
    LET p == me.pawn
        q == target
    IN /\ \A c \in DOMAIN Holds(world, p, q) : \E w \in seen : Holds(w, p, q)[c]
       /\ \A c \in config.checks : \E w \in seen : c \notin w.pawn[p].impaired
       /\ \E v, w \in seen : /\ v.pawn[p].crosshair # NoIndex
                             /\ w.table[v.pawn[p].crosshair] = q
       /\ config.teammates \/ \E v, w \in seen : v.pawn[p].team # w.pawn[q].team
       /\ config.head_only => SomeReadingHits(p, q)
       /\ (\A v, w \in seen : v.local = w.local /\ v.handle = w.handle /\ v.table = w.table)
            => p # q

\* At moment w, the local pawn p (of controller c, in slot h) may fire at the pawn
\* q (of controller d, in slot i, with the crosshair on it).
Eligible(w, c, h, p, d, i, q) ==
  /\ w.local = c /\ w.handle[c] = h /\ w.table[h] = p
  /\ w.handle[d] = i /\ w.table[i] = q /\ d - 1 \notin w.stale
  /\ w.pawn[p].crosshair = i
  /\ \A cond \in DOMAIN Holds(w, p, q) : Holds(w, p, q)[cond]
  /\ w.pawn[p].impaired \cap config.checks = {}
  /\ config.teammates \/ w.pawn[p].team # w.pawn[q].team

\* The other side: a target that may be fired at during the whole frame is fired
\* at, whatever else moves meanwhile: other players, other slots of the table,
\* what the target itself does apart from the conditions.  To be on its head at each
\* moment is not enough: the shooter who follows a head that moves is fired for only
\* if any moment's view would also do for any other moment's head.
SteadyTargetIsFiredAt ==
  phase = "done" /\ ~fire /\ seen # {} =>
    ~ \E c, d \in Controllers, h, i \in PawnSlots, p, q \in Pawns :
        /\ p # q /\ \A w \in seen : Eligible(w, c, h, p, d, i, q)
        /\ config.head_only => EveryReadingHits(p, q)
=============================================================================
