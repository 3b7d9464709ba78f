------------------------------- MODULE Snapshot -------------------------------
(***************************************************************************)
(* One snapshot of the game after the other, read by read (read_snapshot): *)
(* the map's name, the local player's pawn, the view matrix, the local     *)
(* player's fields and the other players of the entity table; then its     *)
(* classification.  The game goes on between any two reads, and every read *)
(* may fail.  Between snapshots only VIEW_RENDER_CACHE is kept: where the  *)
(* view object was found, asked again each time whether it still is there. *)
(*                                                                         *)
(* The memory is kept as far as the snapshot tells it apart.  Strings are  *)
(* "real", "menu" or a null pointer, origins "good", "zero" or behind a    *)
(* null pointer; health, team and life are whether they are those of a     *)
(* player who is alive.  A place is an address of the listed memory that   *)
(* may hold the vtable pointer of CViewRender: that of the object, or one  *)
(* left behind without an object.                                          *)
(***************************************************************************)
EXTENDS Integers, Sequences

CONSTANTS
  NumSlots,     \* player slots looked at (64), and as many pawns and their slots
  NumPlaces,    \* places where the vtable pointer may be, in the order of the search
  MaxChanges,   \* bound: changes of the game
  MaxFailures   \* bound: failed reads

ASSUME SnapshotAssumption ==
  /\ NumSlots \in Nat \ {0} /\ NumPlaces \in Nat \ {0}
  /\ MaxChanges \in Nat /\ MaxFailures \in Nat

VARIABLES
  world,     \* the game
  changes,   \* how often it has changed
  failures,  \* how many reads have failed
  seen,      \* history: the moments of the game since the snapshot was begun
  failed,    \* history: whose reads have failed in this snapshot, see Whose
  step,      \* the read that comes next, or "done"
  slot,      \* the slot read_other_players looks at
  at,        \* the pointer just read: a controller, an index, a pawn or a place
  rest,      \* the fields still to be read of the pawn at hand
  player,    \* the LocalPlayerState or EntityState being filled
  snapshot,  \* the Snapshot so far
  cache      \* the instance of the entry of VIEW_RENDER_CACHE, or Nil

gameVars == <<world, changes>>
snapshotVars == <<world, changes, failures, seen, failed, step, slot, at, rest, player,
                  snapshot, cache>>

Nil == 0
Slots == 1 .. NumSlots
Pawns == 1 .. NumSlots
Indices == 1 .. NumSlots
Places == 1 .. NumPlaces
Strings == {"real", "menu", "null"}
Fields == {"health", "team", "life"}

Pawn == [class : BOOLEAN, origin : {"good", "zero", "null"},
         health : BOOLEAN, team : BOOLEAN, life : BOOLEAN]

Moment == [name : Strings \cup {"no_client"},   \* of the map, at the game client
           path : Strings,
           local : Slots \cup {Nil},            \* the local player's controller
           here : SUBSET Slots,                 \* the slots that hold a controller
           handle : [Slots -> Indices \cup {Nil}],
           table : [Indices -> Pawns \cup {Nil}],
           pawn : [Pawns -> Pawn],
           view : Places \cup {Nil},            \* where the view object is
           left : SUBSET Places,                \* where a copy of its vtable pointer is left
           near : BOOLEAN]                      \* whether its camera is at the local eyes

\* The fields of an entity or of the local player, FALSE when they were not read.
NoPlayer == [pawn |-> Nil, origin |-> "null", health |-> FALSE, team |-> FALSE, life |-> FALSE]

NoSnapshot == [map |-> "null", pawn |-> Nil, matrix |-> FALSE, local |-> NoPlayer, others |-> <<>>]

-----------------------------------------------------------------------------
(* The game.                                                               *)

\* One thing changes.  The view object moves, comes or goes, and may leave its
\* vtable pointer behind.
GameChanges ==
  /\ changes < MaxChanges
  /\ \/ \E s \in Strings \cup {"no_client"} : world' = [world EXCEPT !.name = s]
     \/ \E s \in Strings : world' = [world EXCEPT !.path = s]
     \/ \E c \in Slots \cup {Nil} : world' = [world EXCEPT !.local = c]
     \/ \E c \in Slots : world' = [world EXCEPT !.here = (@ \ {c}) \cup ({c} \ @)]
     \/ \E c \in Slots, i \in Indices \cup {Nil} : world' = [world EXCEPT !.handle[c] = i]
     \/ \E i \in Indices, p \in Pawns \cup {Nil} : world' = [world EXCEPT !.table[i] = p]
     \/ \E p \in Pawns, f \in Fields \cup {"class"} : world' = [world EXCEPT !.pawn[p][f] = ~@]
     \/ \E p \in Pawns, o \in {"good", "zero", "null"} :
          world' = [world EXCEPT !.pawn[p].origin = o]
     \/ \E v \in Places \cup {Nil}, copies \in SUBSET {world.view} :
          world' = [world EXCEPT !.view = v, !.left = (@ \cup (copies \ {Nil})) \ {v}]
     \/ world' = [world EXCEPT !.near = ~@]
  /\ world' # world
  /\ changes' = changes + 1
  /\ seen' = IF step = "done" THEN seen ELSE seen \cup {world'}
  /\ UNCHANGED <<failures, failed, step, slot, at, rest, player, snapshot, cache>>

\* Whose the next read is: of the player in the slot read_other_players looks at, or,
\* Nil, of the map, the local player and the view.
SlotSteps == {"slot", "player_handle", "player_pawn", "player_class", "candidate"}
AtPlayers == step \in SlotSteps \/ (step = "fields" /\ player.pawn # snapshot.pawn)
Whose == IF AtPlayers THEN slot ELSE Nil

\* What a read may return: the value, or, when it fails, what the code makes of that.
Outcomes(value, fallback) ==
  {[value |-> value, failures |-> failures, failed |-> failed]} \cup
  {[value |-> fallback, failures |-> f, failed |-> failed \cup {Whose}] :
     f \in {failures + 1} \cap 0 .. MaxFailures}

Tell(r) == failures' = r.failures /\ failed' = r.failed

-----------------------------------------------------------------------------
(* read_map_name, and the local player's pawn.                             *)

\* A snapshot begins.  Without a game client there is no name, and no path either.
ReadName ==
  /\ step = "done"
  /\ seen' = {world}
  /\ \E r \in Outcomes(world.name, "null") \cup Outcomes(world.name, "no_client") :
       /\ failures' = r.failures
       /\ failed' = IF r.failures = failures THEN {} ELSE {Nil}
       /\ snapshot' = [NoSnapshot EXCEPT !.map = r.value]
       /\ step' = IF r.value = "null" THEN "path" ELSE "controller"
  /\ UNCHANGED <<gameVars, slot, at, rest, player, cache>>

\* Without a name its path is taken.
ReadPath ==
  /\ step = "path"
  /\ \E r \in Outcomes(world.path, "null") :
       /\ Tell(r)
       /\ snapshot' = [snapshot EXCEPT !.map = r.value]
  /\ step' = "controller"
  /\ UNCHANGED <<gameVars, seen, slot, at, rest, player, cache>>

Follow(s, pointer) == /\ step' = s /\ at' = pointer
                      /\ UNCHANGED <<slot, rest, player, snapshot>>

\* Without a local pawn the snapshot ends with the map's name.
Ends == /\ step' = "done" /\ at' = Nil /\ slot' = 1
        /\ UNCHANGED <<rest, player, snapshot>>

ReadController ==
  /\ step = "controller"
  /\ \E r \in Outcomes(world.local, Nil) :
       Tell(r) /\ IF r.value = Nil THEN Ends ELSE Follow("handle", r.value)
  /\ UNCHANGED <<gameVars, seen, cache>>

ReadHandle ==
  /\ step = "handle"
  /\ \E r \in Outcomes(world.handle[at], Nil) :
       Tell(r) /\ IF r.value = Nil THEN Ends ELSE Follow("pawn", r.value)
  /\ UNCHANGED <<gameVars, seen, cache>>

\* entity_addr_for_handle: the serial number in the handle is not compared.
ReadPawn ==
  /\ step = "pawn"
  /\ \E r \in Outcomes(world.table[at], Nil) :
       /\ Tell(r)
       /\ IF r.value = Nil THEN Ends
          ELSE /\ snapshot' = [snapshot EXCEPT !.pawn = r.value]
               /\ step' = "eyes" /\ at' = Nil
               /\ UNCHANGED <<slot, rest, player>>
  /\ UNCHANGED <<gameVars, seen, cache>>

-----------------------------------------------------------------------------
(* read_view_matrix.                                                       *)

\* Any failure leaves the snapshot without a matrix and goes on.
ViewDone(matrix) == /\ snapshot' = [snapshot EXCEPT !.matrix = matrix]
                    /\ step' = "fields" /\ at' = Nil
                    /\ rest' = <<"origin", "health", "team", "life">>
                    /\ player' = [NoPlayer EXCEPT !.pawn = snapshot.pawn]
                    /\ UNCHANGED slot

HoldsVtable(p) == p = world.view \/ p \in world.left

\* Where the local player looks from; then the cached instance, if there is one.
ReadEyes ==
  /\ step = "eyes"
  /\ \E r \in Outcomes(world.pawn[snapshot.pawn].origin, "null") :
       /\ Tell(r)
       /\ IF r.value = "null" THEN ViewDone(FALSE)
          ELSE IF cache = Nil THEN Follow("vtable", Nil) ELSE Follow("cached", cache)
  /\ UNCHANGED <<gameVars, seen, cache>>

\* Its vtable pointer and, through it, its class are still right, or all is searched.
CheckCached ==
  /\ step = "cached"
  /\ \E r \in Outcomes(HoldsVtable(at), FALSE) :
       Tell(r) /\ IF r.value THEN Follow("camera", at) ELSE Follow("vtable", Nil)
  /\ UNCHANGED <<gameVars, seen, cache>>

\* The vtable is found from its type's name, in the module, unless a read of it fails.
FindVtable ==
  /\ step = "vtable"
  /\ \E r \in Outcomes(TRUE, FALSE) :
       Tell(r) /\ IF r.value THEN Follow("search", 1) ELSE ViewDone(FALSE)
  /\ UNCHANGED <<gameVars, seen, cache>>

\* Seeded fault: the last place is not searched.
Search_StopsShort ==
  /\ step = "search"
  /\ \E r \in Outcomes(HoldsVtable(at), FALSE) :
       /\ Tell(r)
       /\ IF r.value THEN Follow("class", at)
          ELSE IF at < NumPlaces - 1 THEN Follow("search", at + 1)
          ELSE ViewDone(FALSE)
  /\ UNCHANGED <<gameVars, seen, cache>>

\* The memory that may hold the object is searched, up to the first hit.
Search ==
  /\ step = "search"
  /\ \E r \in Outcomes(HoldsVtable(at), FALSE) :
       /\ Tell(r)
       /\ IF r.value THEN Follow("class", at)
          ELSE IF at < NumPlaces THEN Follow("search", at + 1)
          ELSE ViewDone(FALSE)
  /\ UNCHANGED <<gameVars, seen, cache>>

\* The class of the hit is read through the pointer found; only the first hit is tried.
CheckClass ==
  /\ step = "class"
  /\ \E r \in Outcomes(HoldsVtable(at), FALSE) :
       /\ Tell(r)
       /\ IF r.value THEN Follow("camera", at) /\ cache' = at
                     ELSE ViewDone(FALSE) /\ UNCHANGED cache
  /\ UNCHANGED <<gameVars, seen>>

\* Camera, rows and scales of the object, which pass the plausibility checks when the
\* camera is the local player's; what is left of an object may pass them or not.  The
\* checks compare with the eyes read before; how those moved since is not told apart:
\* near is whether the camera of a moment is within the checks' limits of these eyes.
ReadCamera ==
  /\ step = "camera"
  /\ \E plausible \in IF at = world.view THEN {world.near} ELSE BOOLEAN :
       \E r \in Outcomes(plausible, FALSE) : Tell(r) /\ ViewDone(r.value)
  /\ UNCHANGED <<gameVars, seen, cache>>

-----------------------------------------------------------------------------
(* read_local_player_state and read_other_players.                         *)

\* Seeded fault: a failed read of a slot ends the list, as an error passed on would.
NextSlot_StopsAtFailure(others) ==
  /\ snapshot' = [snapshot EXCEPT !.others = others]
  /\ rest' = <<>> /\ player' = NoPlayer /\ at' = Nil
  /\ IF slot < NumSlots /\ slot \notin failed'
     THEN step' = "slot" /\ slot' = slot + 1
     ELSE step' = "done" /\ slot' = 1

\* On to the next slot, or to the end.
NextSlot(others) ==
  /\ snapshot' = [snapshot EXCEPT !.others = others]
  /\ rest' = <<>> /\ player' = NoPlayer /\ at' = Nil
  /\ IF slot < NumSlots THEN step' = "slot" /\ slot' = slot + 1
                        ELSE step' = "done" /\ slot' = 1

Skip == NextSlot(snapshot.others)

\* A controller in the slot; its handle; the pawn in the slot of the handle.
ReadSlot ==
  /\ step = "slot"
  /\ \E r \in Outcomes(slot \in world.here, FALSE) :
       Tell(r) /\ IF r.value THEN Follow("player_handle", slot) ELSE Skip
  /\ UNCHANGED <<gameVars, seen, cache>>

ReadPlayerHandle ==
  /\ step = "player_handle"
  /\ \E r \in Outcomes(world.handle[at], Nil) :
       Tell(r) /\ IF r.value = Nil THEN Skip ELSE Follow("player_pawn", r.value)
  /\ UNCHANGED <<gameVars, seen, cache>>

ReadPlayerPawn ==
  /\ step = "player_pawn"
  /\ \E r \in Outcomes(world.table[at], Nil) :
       Tell(r) /\ IF r.value \in {Nil, snapshot.pawn} THEN Skip
                                                      ELSE Follow("player_class", r.value)
  /\ UNCHANGED <<gameVars, seen, cache>>

ReadPlayerClass ==
  /\ step = "player_class"
  /\ \E r \in Outcomes(world.pawn[at].class, FALSE) :
       Tell(r) /\ IF r.value THEN Follow("candidate", at) ELSE Skip
  /\ UNCHANGED <<gameVars, seen, cache>>

\* The first read_live_player_candidate only asks whether the origin is plausible.
ReadCandidate ==
  /\ step = "candidate"
  /\ \E r \in Outcomes(world.pawn[at].origin, "null") :
       /\ Tell(r)
       /\ IF r.value # "good" THEN Skip
          ELSE /\ step' = "fields"
               /\ rest' = <<"health", "team", "life", "origin">>
               /\ player' = [NoPlayer EXCEPT !.pawn = at]
               /\ at' = Nil
               /\ UNCHANGED <<slot, snapshot>>
  /\ UNCHANGED <<gameVars, seen, cache>>

\* All fields of the local player are there, or those of another one, who is listed
\* if the origin still is plausible.
FieldsDone(p) ==
  IF p.pawn = snapshot.pawn
  THEN /\ snapshot' = [snapshot EXCEPT !.local = p]
       /\ step' = "slot" /\ slot' = 1
       /\ rest' = <<>> /\ player' = NoPlayer /\ at' = Nil
  ELSE NextSlot(IF p.origin = "good" THEN Append(snapshot.others, p) ELSE snapshot.others)

\* A field that cannot be read stays empty.
ReadField ==
  /\ step = "fields"
  /\ LET f == Head(rest)
     IN \E r \in Outcomes(world.pawn[player.pawn][f], NoPlayer[f]) :
          /\ Tell(r)
          /\ IF Len(rest) = 1 THEN FieldsDone([player EXCEPT ![f] = r.value])
             ELSE /\ player' = [player EXCEPT ![f] = r.value]
                  /\ rest' = Tail(rest)
                  /\ UNCHANGED <<step, slot, at, snapshot>>
  /\ UNCHANGED <<gameVars, seen, cache>>

-----------------------------------------------------------------------------
(* classify_snapshot.                                                      *)

InMenu(s) == s.map # "real"
InMap(s) == ~InMenu(s) /\ s.matrix /\ s.local.origin = "good"
Alive(s) == \A f \in Fields : s.local[f]

Phase(s) == IF InMenu(s) THEN "menu"
            ELSE IF InMap(s) /\ Alive(s) THEN "ready_for_bot"
            ELSE IF InMap(s) THEN "in_map_not_playable"
            ELSE "unknown"

-----------------------------------------------------------------------------

\* A match: everybody is alive, the view object is at the last place.
Start == [name |-> "real", path |-> "real", local |-> 1, here |-> Slots,
          handle |-> [c \in Slots |-> c], table |-> [i \in Indices |-> i],
          pawn |-> [p \in Pawns |-> [class |-> TRUE, origin |-> "good",
                                     health |-> TRUE, team |-> TRUE, life |-> TRUE]],
          view |-> NumPlaces, left |-> {}, near |-> TRUE]

SnapshotInit ==
  /\ world = Start /\ changes = 0 /\ failures = 0 /\ seen = {} /\ failed = {}
  /\ step = "done" /\ slot = 1 /\ at = Nil /\ rest = <<>> /\ player = NoPlayer
  /\ snapshot = NoSnapshot /\ cache = Nil

Reads == \/ ReadName \/ ReadPath \/ ReadController \/ ReadHandle \/ ReadPawn
         \/ ReadEyes \/ CheckCached \/ FindVtable \/ Search \/ CheckClass \/ ReadCamera
         \/ ReadSlot \/ ReadPlayerHandle \/ ReadPlayerPawn \/ ReadPlayerClass
         \/ ReadCandidate \/ ReadField

SnapshotNext == GameChanges \/ Reads

SnapshotSpec == SnapshotInit /\ [][SnapshotNext]_snapshotVars

-----------------------------------------------------------------------------
(* Properties.                                                             *)

Sometime(P(_)) == \E w \in seen : P(w)
Always(P(_)) == \A w \in seen : P(w)
Done == step = "done" /\ seen # {}

\* However the table, the handles and the pawns change between the reads: who is
\* listed was reached through a controller, as a player at a good origin, and each
\* field read is of this very snapshot; it is not the pawn the snapshot took for
\* the local one.
ListedWereThere ==
  \A k \in DOMAIN snapshot.others :
    LET p == snapshot.others[k]
    IN /\ p.pawn # snapshot.pawn
       /\ \E c \in Slots, i \in Indices :
            /\ Sometime(LAMBDA w : c \in w.here)
            /\ Sometime(LAMBDA w : w.handle[c] = i)
            /\ Sometime(LAMBDA w : w.table[i] = p.pawn)
       /\ Sometime(LAMBDA w : w.pawn[p.pawn].class)
       /\ Sometime(LAMBDA w : w.pawn[p.pawn].origin = "good")
       /\ \A f \in Fields : p[f] => Sometime(LAMBDA w : w.pawn[p.pawn][f])

\* Nobody is listed twice unless handles or table moved, or two controllers name
\* one slot.
TwiceOnlyIfMoved ==
  (\E j, k \in DOMAIN snapshot.others :
     j # k /\ snapshot.others[j].pawn = snapshot.others[k].pawn) =>
    \/ \E v, w \in seen : v.handle # w.handle \/ v.table # w.table
    \/ \E w \in seen, c, d \in Slots, i, j \in Indices :
         c # d /\ w.handle[c] = i /\ w.handle[d] = j /\ w.table[i] = w.table[j]

\* A player who was there all the time and of whom no read failed is listed, whatever
\* else changed and whoever else could not be read: a failed read in one slot neither
\* ends the list nor hides another slot's player.
SteadyPlayersListed ==
  Done /\ snapshot.pawn # Nil =>
    \A c \in Slots \ failed, i \in Indices, p \in Pawns \ {snapshot.pawn} :
      Always(LAMBDA w : /\ c \in w.here /\ w.handle[c] = i /\ w.table[i] = p
                        /\ w.pawn[p].class /\ w.pawn[p].origin = "good")
        => \E k \in DOMAIN snapshot.others : snapshot.others[k].pawn = p

\* The list of the other players is that of the game, as far as a list read over a
\* moving game can be: nobody in it was not there, no steady player is missing.
ListFollowsGame == ListedWereThere /\ TwiceOnlyIfMoved /\ SteadyPlayersListed

\* What makes the moment w one in which the local player is ready.
MapAt(w) == IF w.name = "null" THEN w.path ELSE w.name
LocalAt(w) == IF w.local = Nil \/ w.handle[w.local] = Nil THEN Nil
              ELSE w.table[w.handle[w.local]]
ReadyAt(w) == /\ MapAt(w) = "real"
              /\ LocalAt(w) # Nil
              /\ w.pawn[LocalAt(w)].origin = "good"
              /\ \A f \in Fields : w.pawn[LocalAt(w)][f]
              /\ w.view # Nil /\ w.near /\ w.left = {}

\* The phase is neither made up of what never was in this snapshot nor missed: a
\* snapshot that calls the player ready has each reason from some moment of its
\* own (its matrix from an object at the eyes, from what one has left, or from one
\* that went away between the search and the camera), and a game that is
\* ready and stays as it is during a snapshot is called so, wherever the object was
\* before, whatever the cache says and whichever reads of other players failed.
PhaseFollowsGame ==
  Done =>
    /\ Phase(snapshot) = "ready_for_bot" =>
         /\ Sometime(LAMBDA w : "real" \in {w.name, w.path})
         /\ Sometime(LAMBDA w : w.pawn[snapshot.pawn].origin = "good")
         /\ \A f \in Fields : Sometime(LAMBDA w : w.pawn[snapshot.pawn][f])
         /\ \/ Sometime(LAMBDA w : w.view # Nil /\ w.near)
            \/ Sometime(LAMBDA w : w.left # {})
            \/ \E v, w \in seen : v.view # w.view
    /\ Nil \notin failed /\ seen = {world} /\ ReadyAt(world) => Phase(snapshot) = "ready_for_bot"
=============================================================================
