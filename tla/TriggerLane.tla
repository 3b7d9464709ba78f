----------------------------- MODULE TriggerLane -----------------------------
(***************************************************************************)
(* The way of a fire decision: cs2 processes come and go; the reader       *)
(* thread of fun-trigger connects to one, reads it and replaces the shared *)
(* latest frame; its main thread answers each connection of the Unix       *)
(* socket with a copy of that frame; the trigger client thread of          *)
(* fun-mouse polls the socket and stores should_fire in an atomic flag.    *)
(*                                                                         *)
(* A cs2 process is named by the pair of pid and start time, here a number *)
(* given out once.  Sleeps are not timed: a sleeping thread is at the head *)
(* of its loop.  Of the game's state only what a frame depends on is kept: *)
(* whether it calls for fire, for refusal (in the menu, no live target and *)
(* the other reasons), or has a live local player on a map without a name. *)
(* The reads of one frame see the game as it was when they began.          *)
(***************************************************************************)
EXTENDS Naturals, FiniteSets

CONSTANTS
  MaxGames,    \* bound: how many cs2 processes start
  TickRange,   \* the tick wraps here (2^64)
  MaxFaults    \* bound: failed connects, reads and socket operations, ends of fun-trigger

ASSUME LaneAssumption ==
  MaxGames \in Nat /\ MaxFaults \in Nat /\ TickRange \in Nat \ {0}

VARIABLES
  running,     \* the cs2 processes alive
  games,       \* how many have been started
  aim,         \* what the game's state calls for: "fire", "refuse" or "no map"
  faults,      \* how many faults have happened
  reader,      \* reader_loop: "connect", "check", "read"; "down" without fun-trigger
  active,      \* the process of ActiveProcess, or None
  sampled,     \* what the read in progress has seen of the game
  tick,        \* reader_loop's tick
  latest,      \* the shared TriggerFrame
  listening,   \* whether serve_loop has bound the socket
  client,      \* the trigger client: "idle", "connected", "answered", "broken"
  answer,      \* the frame on the socket
  decision     \* TriggerDecision.should_fire

game == <<running, games, aim>>
readerVars == <<reader, active, sampled, tick, latest>>
socket == <<listening, client, answer, decision>>
vars == <<running, games, aim, faults, reader, active, sampled, tick, latest,
          listening, client, answer, decision>>

Processes == 1 .. MaxGames
None == 0

\* What the lane tells apart in a TriggerFrame: its kind, should_fire, tick and,
\* for the properties, the process it was read from.
Frame(kind, fire, t, of) == [kind |-> kind, fire |-> fire, tick |-> t, of |-> of]
Booting == Frame("booting", FALSE, 0, None)
Unavailable == Frame("unavailable", FALSE, 0, None)

-----------------------------------------------------------------------------
(* The world.                                                              *)

GameStarts == /\ games < MaxGames
              /\ games' = games + 1
              /\ running' = running \cup {games + 1}
              /\ UNCHANGED <<aim, faults, readerVars, socket>>

GameExits == \E g \in running :
  /\ running' = running \ {g}
  /\ UNCHANGED <<games, aim, faults, readerVars, socket>>

AimChanges == /\ aim' \in {"fire", "refuse", "no map"} \ {aim}
              /\ UNCHANGED <<running, games, faults, readerVars, socket>>

\* resolve_host_process_by_name finds exactly one process called cs2.
Resolves(g) == running = {g}

Fault == faults < MaxFaults /\ faults' = faults + 1

-----------------------------------------------------------------------------
(* reader_loop.                                                            *)

\* connect_process attaches and finds its offsets.
Connect == \E g \in running :
  /\ reader = "connect" /\ active = None
  /\ Resolves(g)
  /\ active' = g
  /\ reader' = "check"
  /\ UNCHANGED <<game, faults, sampled, tick, latest, socket>>

\* Seeded fault: the old frame stays when no process can be attached to.
ConnectFails_KeepsFrame ==
  /\ reader = "connect" /\ active = None
  /\ IF \E g \in running : Resolves(g) THEN Fault ELSE UNCHANGED faults
  /\ UNCHANGED <<game, readerVars, socket>>

\* connect_process fails: there is not exactly one cs2, or attaching fails.
ConnectFails ==
  /\ reader = "connect" /\ active = None
  /\ IF \E g \in running : Resolves(g) THEN Fault ELSE UNCHANGED faults
  /\ latest' = Unavailable
  /\ UNCHANGED <<game, reader, active, sampled, tick, socket>>

\* process_changed says no; the read begins and samples the game.
Check == /\ reader = "check"
         /\ Resolves(active)
         /\ sampled' = aim
         /\ reader' = "read"
         /\ UNCHANGED <<game, faults, active, tick, latest, socket>>

\* process_changed says yes, as it does when resolving fails.  The frame stays.
ProcessChanged ==
  /\ reader = "check"
  /\ IF Resolves(active) THEN Fault ELSE UNCHANGED faults
  /\ active' = None
  /\ reader' = "connect"
  /\ UNCHANGED <<game, sampled, tick, latest, socket>>

\* read_trigger_frame of a process that could be read: a decision with the next
\* tick or, for a live player on no map, the unavailable frame, whose tick is 0.
ReadFrame == IF sampled = "no map" THEN Unavailable
             ELSE Frame("read", sampled = "fire", (tick + 1) % TickRange, active)

\* Seeded fault: a frame replaces the latest one only if it is newer.
Read_OnlyNewer ==
  /\ reader = "read" /\ active \in running
  /\ tick' = ReadFrame.tick
  /\ latest' = IF ReadFrame.tick > latest.tick THEN ReadFrame ELSE latest
  /\ reader' = "check"
  /\ UNCHANGED <<game, faults, active, sampled, socket>>

\* read_trigger_frame returns a frame; it is published.
Read ==
  /\ reader = "read" /\ active \in running
  /\ tick' = ReadFrame.tick
  /\ latest' = ReadFrame
  /\ reader' = "check"
  /\ UNCHANGED <<game, faults, active, sampled, socket>>

\* Seeded fault: after a failed read the reader goes on with the same process.
ReadFails_NoReconnect ==
  /\ reader = "read"
  /\ IF active \in running THEN Fault ELSE UNCHANGED faults
  /\ reader' = "read"
  /\ UNCHANGED <<game, active, latest, sampled, tick, socket>>

\* read_trigger_frame fails: the process is gone (read_snapshot swallows that, but
\* not the read of the local player's controller), or a read of it failed.
ReadFails ==
  /\ reader = "read"
  /\ IF active \in running THEN Fault ELSE UNCHANGED faults
  /\ latest' = Unavailable
  /\ active' = None
  /\ reader' = "connect"
  /\ UNCHANGED <<game, sampled, tick, socket>>

-----------------------------------------------------------------------------
(* serve_loop and the trigger client.                                      *)

\* serve_loop removes an old socket and binds its own.
Bind == /\ ~listening /\ reader # "down"
        /\ listening' = TRUE
        /\ UNCHANGED <<game, faults, readerVars, client, answer, decision>>

ClientConnects == /\ client = "idle" /\ listening
                  /\ client' = "connected"
                  /\ UNCHANGED <<game, faults, readerVars, listening, answer, decision>>

\* accept, clone the frame under its lock and write it.
Serve == /\ client = "connected"
         /\ client' = "answered"
         /\ answer' = latest
         /\ UNCHANGED <<game, faults, readerVars, listening, decision>>

\* read_latest_frame returns the frame; its decision is stored.
Store == /\ client = "answered"
         /\ client' = "idle"
         /\ answer' = Booting
         /\ decision' = answer.fire
         /\ UNCHANGED <<game, faults, readerVars, listening>>

\* read_latest_frame fails (no socket yet, or the connection breaks): the
\* decision is not to fire.
StoreFails == /\ IF client = "broken" \/ (client = "idle" /\ ~listening)
                 THEN UNCHANGED faults ELSE Fault
              /\ client' = "idle"
              /\ answer' = Booting
              /\ decision' = FALSE
              /\ UNCHANGED <<game, readerVars, listening>>

-----------------------------------------------------------------------------
(* fun-trigger ends and is started again.                                  *)

\* serve_loop returns: the socket cannot be bound, accept fails or the lock is
\* poisoned; or the process is killed.  The reader thread ends with it, wherever
\* it is, and so does a connection without an answer; one on the socket stays.
TriggerEnds ==
  /\ reader # "down" /\ Fault
  /\ reader' = "down" /\ active' = None /\ sampled' = "refuse"
  /\ tick' = 0 /\ latest' = Booting
  /\ listening' = FALSE
  /\ client' = IF client = "connected" THEN "broken" ELSE client
  /\ UNCHANGED <<game, answer, decision>>

\* main of the next one, while fun-mouse goes on.
TriggerStarts == /\ reader = "down"
                 /\ reader' = "connect"
                 /\ UNCHANGED <<game, faults, active, sampled, tick, latest, socket>>

-----------------------------------------------------------------------------

Init == /\ running = {} /\ games = 0 /\ aim = "refuse" /\ faults = 0
        /\ reader = "connect" /\ active = None /\ sampled = "refuse"
        /\ tick = 0 /\ latest = Booting
        /\ listening = FALSE /\ client = "idle" /\ answer = Booting /\ decision = FALSE

World == GameStarts \/ GameExits \/ AimChanges
Reader == Connect \/ ConnectFails \/ Check \/ ProcessChanged \/ Read \/ ReadFails
Client == ClientConnects \/ Store \/ StoreFails

Next == World \/ Reader \/ Bind \/ Serve \/ Client \/ TriggerEnds \/ TriggerStarts

\* Each thread runs: it sleeps between iterations, and blocks on nothing but
\* the answer of another thread.  Nobody need start fun-trigger again.
Fairness == WF_vars(Reader) /\ WF_vars(Bind) /\ WF_vars(Serve) /\ WF_vars(Client)

Spec == Init /\ [][Next]_vars /\ Fairness

-----------------------------------------------------------------------------
(* Properties.                                                             *)

Frames == [kind : {"booting", "unavailable", "read"}, fire : BOOLEAN,
           tick : 0 .. TickRange - 1, of : Processes \cup {None}]

\* The threads' locals, the frames and the flag keep their types.
TypeOK ==
  /\ running \subseteq Processes /\ games \in 0 .. MaxGames
  /\ aim \in {"fire", "refuse", "no map"} /\ sampled \in {"fire", "refuse", "no map"}
  /\ faults \in 0 .. MaxFaults
  /\ reader \in {"down", "connect", "check", "read"}
  /\ active \in Processes \cup {None}
  /\ active = None <=> reader \in {"down", "connect"}
  /\ tick \in 0 .. TickRange - 1
  /\ latest \in Frames /\ answer \in Frames
  /\ listening \in BOOLEAN /\ decision \in BOOLEAN
  /\ client \in {"idle", "connected", "answered", "broken"}

\* The frame served is the outcome of the reader's last read and of no earlier
\* one, over reconnects, the tick's reset by a frame without map and its wrap; a
\* frame of an earlier process is only served until the first read of the next.
LatestIsLastRead ==
  latest.kind = "read" =>
    /\ latest.tick = tick
    /\ active # None => latest.of <= active

\* When the game stops calling for fire for good, or no game runs any more, or
\* fun-trigger does not, the decision is eventually not to fire and stays so,
\* whatever frame was latest and whatever answer was on its way.
FireEnds ==
  /\ <>[](aim # "fire") => <>[]~decision
  /\ <>[](running = {}) => <>[]~decision
  /\ <>[](reader = "down") => <>[]~decision

\* The lane recovers from every fault: once one game runs and calls for fire for
\* good and fun-trigger is there to see it, the decision is eventually to fire and
\* stays so.
FireReturns ==
  <>[](aim = "fire" /\ Cardinality(running) = 1 /\ reader # "down") => <>[]decision
=============================================================================
