----------------------------- MODULE RadarReader -----------------------------
(***************************************************************************)
(* The reader task of fun-radar: it loads the map assets once, connects to *)
(* the one cs2 process, reads a snapshot and then the player records, and  *)
(* publishes what it built in two places, each behind a lock of its own:   *)
(* the compare response first, the radar snapshot after it.  The HTTP      *)
(* handlers clone one of the two under its read lock and change nothing.   *)
(*                                                                         *)
(* A cs2 process is a number given out once (the pair of pid and start     *)
(* time).  Of a snapshot only the map is kept: a name the assets know, one *)
(* they do not know, or none.  Sleeps are not timed.                       *)
(***************************************************************************)
EXTENDS Naturals, FiniteSets

CONSTANTS
  KnownMaps,   \* map keys with an image and a transform
  MaxGames,    \* bound: how many cs2 processes start
  TickRange,   \* the tick wraps here (2^64)
  MaxFaults    \* bound: failed connects and failed reads

ASSUME RadarAssumption ==
  /\ "unknown" \notin KnownMaps /\ "none" \notin KnownMaps
  /\ MaxGames \in Nat /\ MaxFaults \in Nat /\ TickRange \in Nat \ {0, 1}

VARIABLES
  running,   \* the cs2 processes alive
  games,     \* how many have been started
  map,       \* the map the game is on
  faults,    \* how many faults have happened
  reader,    \* the task: "assets", "connect", "check", "snapshot", "players",
             \* "compare", "latest" (what it does next) or "ended"
  active,    \* the process of ActiveProcess, or None
  sampled,   \* the map name in the snapshot just read
  tick,      \* the task's tick
  compare,   \* latest_compare
  latest     \* latest

game == <<running, games, map>>
vars == <<running, games, map, faults, reader, active, sampled, tick, compare, latest>>

Processes == 1 .. MaxGames
None == 0
Maps == KnownMaps \cup {"unknown", "none"}

Frame(status, t, m, of) == [status |-> status, tick |-> t, map |-> m, of |-> of]
Booting == Frame("booting", 0, "none", None)
ReaderUnavailable == Frame("unavailable", 0, "none", None)

-----------------------------------------------------------------------------
(* The world.                                                              *)

GameStarts == /\ games < MaxGames
              /\ games' = games + 1
              /\ running' = running \cup {games + 1}
              /\ UNCHANGED <<map, faults, reader, active, sampled, tick, compare, latest>>

GameExits == \E g \in running :
  /\ running' = running \ {g}
  /\ UNCHANGED <<games, map, faults, reader, active, sampled, tick, compare, latest>>

MapChanges == \E m \in Maps \ {map} :
  /\ map' = m
  /\ UNCHANGED <<running, games, faults, reader, active, sampled, tick, compare, latest>>

Fault == faults < MaxFaults /\ faults' = faults + 1

\* resolve_host_process_by_name finds exactly one process called cs2.
Resolves(g) == running = {g}

-----------------------------------------------------------------------------
(* The task.                                                               *)

LoadAssets == /\ reader = "assets"
              /\ reader' = "connect"
              /\ UNCHANGED <<game, faults, active, sampled, tick, compare, latest>>

\* The images or the transforms cannot be loaded: the task returns.
AssetsFail == /\ reader = "assets"
              /\ latest' = ReaderUnavailable
              /\ reader' = "ended"
              /\ UNCHANGED <<game, faults, active, sampled, tick, compare>>

Connect == \E g \in running :
  /\ reader = "connect"
  /\ Resolves(g)
  /\ active' = g
  /\ reader' = "check"
  /\ UNCHANGED <<game, faults, sampled, tick, compare, latest>>

\* Seeded fault: the old frame stays when no process can be attached to.
ConnectFails_KeepsFrame ==
  /\ reader = "connect"
  /\ IF \E g \in running : Resolves(g) THEN Fault ELSE UNCHANGED faults
  /\ UNCHANGED <<game, reader, active, sampled, tick, compare, latest>>

\* connect_process fails: there is not exactly one cs2, or attaching fails.
ConnectFails ==
  /\ reader = "connect"
  /\ IF \E g \in running : Resolves(g) THEN Fault ELSE UNCHANGED faults
  /\ latest' = ReaderUnavailable
  /\ UNCHANGED <<game, reader, active, sampled, tick, compare>>

\* Seeded fault: a failed lookup counts as a change.
Changed_OnError == ~Resolves(active)

\* process_changed: another process is the one cs2.  A failed lookup (no cs2,
\* several of them, /proc unreadable) counts as no change.
Changed == \E g \in running : Resolves(g) /\ g # active

Check == /\ reader = "check"
         /\ IF Changed THEN active' = None /\ reader' = "connect"
                       ELSE active' = active /\ reader' = "snapshot"
         /\ UNCHANGED <<game, faults, sampled, tick, compare, latest>>

\* The lookup fails and hides a change.
CheckFails == /\ reader = "check" /\ Changed
              /\ Fault
              /\ reader' = "snapshot"
              /\ UNCHANGED <<game, active, sampled, tick, compare, latest>>

\* read_snapshot.  Of a process that is gone it returns an empty snapshot.
ReadSnapshot == /\ reader = "snapshot"
                /\ sampled' = IF active \in running THEN map ELSE "none"
                /\ reader' = "players"
                /\ UNCHANGED <<game, faults, active, tick, compare, latest>>

\* The error paths of the two reads: give up the process, show it.
Reconnect == /\ latest' = ReaderUnavailable
             /\ active' = None
             /\ reader' = "connect"
             /\ UNCHANGED <<game, sampled, tick, compare>>

\* read_snapshot fails: a read failed after the first, or the process has just
\* gone.
ReadSnapshotFails == /\ reader = "snapshot"
                     /\ IF active \in running THEN Fault ELSE UNCHANGED faults
                     /\ Reconnect

\* read_radar_player_records; build_snapshot and build_compare_response only
\* compute.
ReadPlayers == /\ reader = "players" /\ active \in running
               /\ tick' = (tick + 1) % TickRange
               /\ reader' = "compare"
               /\ UNCHANGED <<game, faults, active, sampled, compare, latest>>

\* Seeded fault: a failed player read is tried again with the same process.
ReadPlayersFails_Retries ==
  /\ reader = "players"
  /\ IF active \in running THEN Fault ELSE UNCHANGED faults
  /\ reader' = "snapshot"
  /\ UNCHANGED <<game, active, latest, sampled, tick, compare>>

ReadPlayersFails == /\ reader = "players"
                    /\ IF active \in running THEN Fault ELSE UNCHANGED faults
                    /\ Reconnect

\* build_snapshot: "ok" on a map with assets, "no_map" otherwise.
Built == IF sampled \in KnownMaps THEN Frame("ok", tick, sampled, active)
         ELSE Frame("no_map", tick, "none", active)

\* Seeded fault: the snapshot is published before its compare response.
WriteCompare_LatestFirst ==
  /\ reader = "compare"
  /\ latest' = Built
  /\ reader' = "latest"
  /\ UNCHANGED <<game, faults, active, sampled, tick, compare>>

\* The compare response takes tick and map from the snapshot it goes with.
WriteCompare == /\ reader = "compare"
                /\ compare' = Built
                /\ reader' = "latest"
                /\ UNCHANGED <<game, faults, active, sampled, tick, latest>>

WriteLatest == /\ reader = "latest"
               /\ latest' = Built
               /\ reader' = "check"
               /\ UNCHANGED <<game, faults, active, sampled, tick, compare>>

-----------------------------------------------------------------------------

Init == /\ running = {} /\ games = 0 /\ map \in Maps /\ faults = 0
        /\ reader = "assets" /\ active = None /\ sampled = "none" /\ tick = 0
        /\ compare = Booting /\ latest = Booting

World == GameStarts \/ GameExits \/ MapChanges
Reader == \/ LoadAssets \/ AssetsFail \/ Connect \/ ConnectFails
          \/ Check \/ CheckFails \/ ReadSnapshot \/ ReadSnapshotFails
          \/ ReadPlayers \/ ReadPlayersFails \/ WriteCompare \/ WriteLatest

Next == World \/ Reader

\* The task sleeps between iterations and awaits only locks held for one clone.
Spec == Init /\ [][Next]_vars /\ WF_vars(Reader)

-----------------------------------------------------------------------------
(* Properties.                                                             *)

Frames == [status : {"booting", "unavailable", "ok", "no_map"},
           tick : 0 .. TickRange - 1, map : KnownMaps \cup {"none"},
           of : Processes \cup {None}]

\* The task's locals and the shared values keep their types, and the task reads
\* only while it has a process.
TypeOK ==
  /\ running \subseteq Processes /\ games \in 0 .. MaxGames
  /\ map \in Maps /\ sampled \in Maps
  /\ faults \in 0 .. MaxFaults
  /\ reader \in {"assets", "connect", "check", "snapshot", "players",
                 "compare", "latest", "ended"}
  /\ active \in Processes \cup {None}
  /\ (active = None) = (reader \in {"assets", "connect", "ended"})
  /\ tick \in 0 .. TickRange - 1
  /\ compare \in Frames /\ latest \in Frames

Published(frame) == frame.status \in {"ok", "no_map"}

\* Two requests see the two halves at different times.  The compare response is
\* never older than the snapshot: it is the one built with it or, between the two
\* writes, the one of the next tick; no tick is given to two of them, over
\* reconnects and over the zero in the frames of an unavailable reader.
CompareIsAhead ==
  /\ compare.tick = IF reader = "compare" THEN (tick + TickRange - 1) % TickRange ELSE tick
  /\ Published(latest) =>
       IF reader = "latest" THEN (latest.tick + 1) % TickRange = compare.tick
                            ELSE latest = compare

\* The task lets go of a process that still runs only when a read of it failed:
\* not because a second cs2 has started, nor because the lookup failed.
KeepsLiveProcess ==
  [][(active \in running /\ active' # active) => faults' # faults]_vars

\* Once no cs2 runs any more, the snapshot served says so for good: the radar
\* does not go on showing the last positions.
GoneIsShown == <>[](running = {}) => <>[](latest.status = "unavailable")

\* Once one cs2 runs for good, its frames are served again for good, whatever has
\* failed before, unless the assets could not be loaded.
Recovers == \A g \in Processes :
  <>[](running = {g}) => <>[](reader = "ended" \/ (Published(latest) /\ latest.of = g))
=============================================================================
