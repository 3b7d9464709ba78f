# A verification project for cs2-linux-radar

TLA+ models of the radar, trigger and mouse programs and of the kernel module
they read through, model-checked with TLC; proofs with TLAPS in eight modules.
Paths below are relative to the repository root.

## The system

Four user programs and a kernel module. `fun` starts the others and watches
them. `fun-radar` and `fun-trigger` each attach to the one process called `cs2`
through `/dev/memreader`, read it over and over and serve what they read:
`fun-radar` over HTTP to a web page, `fun-trigger` over a Unix socket to
`fun-mouse`, which relays the physical mice to a virtual one and holds its left
button when the trigger says so.

```
             fun (spawns, polls, kills)
   +-----------------+----------------+
 fun-radar       fun-trigger ------> fun-mouse
   |  \               |   unix socket     |  evdev, uinput
   |   HTTP -> page   |                physical mice -> virtual mouse
   v                  v
 attach + read     attach + read         (one session each)
   \                 /
    /dev/memreader: ioctls, poll, shared ring
```

| Component | State | Operations | What is hard | What makes it correct |
|---|---|---|---|---|
| memreader ring: `memreader_core.rs`, `memreader_kernel_api.c`, `client/src/lib.rs` | head, tail, sequence, drop counter, ring memory; the client's cursor, cookie | SUBMIT_READ pushes a record, poll, walk, ADVANCE_TAIL | wrapping in two ways, full against empty, records left behind by a read that gave up | nothing unread is overwritten; the walk finds the oldest record; a release is exact; FIFO |
| memreader session: `memreader_glue.c` | kref, descriptors, mappings, three allocations | open and its failures, mmap, fork, split, munmap, close | any order of the last close and the last unmap, in several processes, some of them killed | memory lives while it can be reached and no longer |
| attachment: `attach/host_runtime.rs`, `memreader_kernel_api.c` | pid, start time, module list, selector of the session | resolve, inspect, list modules, open, find offsets, check, read | each step is a call of its own; pids are reused; the game is still loading | everything in a session is of one process, which is a game |
| `fun-trigger`: `main.rs` | reader's phase, process, tick; latest frame; socket | connect, check, read, publish, serve, end and start again | a frame read from a process that has gone; retries; ticks reset; its end in mid-answer | the frame is the last one read; fire ends when it must and returns |
| trigger client: `trigger_client.rs` | decision flag | poll the socket, store | socket missing or broken | part of the same lane |
| `fun-mouse`: `app.rs`, `relay.rs`, `virtual_mouse.rs`, `mouse_grab.rs` | kill switch, grabs, batches, hold count, emitted buttons | pump events, fire, F9 on and off | F9 in mid-press; two sources of one button; failing grabs; unplugged mice; another program that grabs them | no stuck button, no fire without a hold (but what a missed release makes it believe), grabs all or nothing |
| `fun`: `apps/fun/src/main.rs` | children and their exits | spawn, poll, kill siblings | exits between a check and a kill; checks, kills and waits that fail | an exit is noticed, nobody is left behind but who could not be inspected or waited for |
| `fun-radar` reader: `reader.rs` | phase, process, tick, two published values | as the trigger's, with two locks | values that belong together are published apart | the two stay in step; a live game is kept, a gone one is shown |
| web page: `app.js` | snapshot, image shown, loads under way, overlay | poll, load images | loads ending out of order; a server that goes away | the page settles on the map the server names |
| game state readers: `runtime_snapshot/`, `snapshot_frame.rs` | where the view object was found | read the local player, the view, the other players; classify | tables that change while they are read; a cached address that is stale | who stays and can be read is listed, whoever else cannot; who never was there is not; the phase is one the game was in |
| offset discovery: `deadlocked/`, `attach/interfaces.rs` | none that lasts | scan for patterns, walk schema lists | matches across chunk boundaries; lists that grow while they are read | the scan finds the first match; no class that was there is missed |
| trigger decision: `evaluate_trigger_deadlocked` | none that lasts | decide from dozens of reads | reads of different moments | a shot has its reasons, each at a moment of its own; a target that is steady enough is fired at |
| `fun-mouse` set-up: `config.rs`, `mouse_grab.rs`, `app.rs` | the configuration file, the grabs | run, setup, learn-binding, several at a time | the file is rewritten as a whole and without a lock; mice come and go | no binding is lost; learners give the mice back |
| shared types, logging, scripts | none | I/O, plain data | none beyond I/O | not modelled |

Every component, with its files and what is left out of it, is also in
`PROJECT.json`, with the list of hazards at their source lines.

## The modules

| Module | Component | Run | Proofs |
|---|---|---|---|
| `RecordChannel` | what a memreader session promises (abstract) | as `ChannelSpec` of `ring` | |
| `MemRing` | the ring and its client | `ring` | `MemRingProofs` |
| `SessionRef` | the session's lifetime | `shutdown` | `ShutdownProofs` |
| `Supervisor` | `fun` | `shutdown` | `ShutdownProofs` |
| `Shutdown` | `fun` and the session of one of its children, composed | `shutdown` | `ShutdownProofs` |
| `Attach` | attaching to the game | `attach` | `AttachProofs` |
| `PatternScan` | offset discovery: the scan of a module's memory | `pattern_scan` | `OffsetProofs` |
| `QwordScan` | the search of the mappings for a word | `pattern_scan` | `OffsetProofs` |
| `MCPatternScan` | the instance of both for TLC | `pattern_scan` | |
| `Snapshot` | the game state readers, read by read | `snapshot` | `RadarProofs` |
| `SchemaWalk` | offset discovery: the game's classes and fields | `schema_walk` | `OffsetProofs` |
| `TriggerDecision` | one frame of `fun-trigger`, read by read | `trigger_decision` | `TriggerProofs` |
| `TriggerLane` | `fun-trigger` and the trigger client | `trigger_lane` | `TriggerProofs` |
| `MouseRelay` | `fun-mouse run` | `relay` | `MouseRelayProofs` |
| `MouseBinding` | the programs of `fun-mouse` and their configuration | `mouse_binding` | `MouseBindingProofs` |
| `RadarReader` | `fun-radar`'s task | `radar_reader` | `RadarProofs` |
| `RadarPage` | the web page | `radar_page` | |

The modules have one action per step another actor can come between. They meet
at small interfaces: `Attach` details what `TriggerLane` and `RadarReader` call
`Connect` and `Check`, `PatternScan` and `SchemaWalk` what `Attach` calls
`FindOffsets`; `TriggerDecision` what `TriggerLane` calls `Read`; `Snapshot` what
`RadarReader` calls `ReadSnapshot`, and `QwordScan` how it finds the view;
`TriggerLane`'s `decision` is an input of `MouseRelay`; `RadarReader`'s `latest`
is what `RadarPage` calls `served`. Launcher and session are composed in
`Shutdown`. The other modules treat what a neighbour hands them as free to change
at any time, and the promises of the lane chain:
`TriggerLane`'s `FireEnds` says that the decision becomes FALSE for good when the
game, or the calls for fire, or fun-trigger itself are over, and `MouseRelay`'s
`FireEnds` that the virtual button is up for good once the decision is. Neighbours
that share a device rather than a value are in the module itself: another program
that grabs the mice in `MouseRelay`, other learners in `MouseBinding`.

Each module carries its seeded faults: operators named after the definition they
corrupt (`Fits_NoSlack` for `Fits`), which a property must find violated when
they take its place. They are no part of any specification.

### MemRing

`head`, `tail`, `nextSeq`, `dropped` and `layout` are the session's fields and
the copy of the positions in the shared mapping; `mem` maps each word of the
ring to what it holds: a record header, a word of a record's body, a padding
header or zero. `pc` and `cursor` say where the client is in `submit_read` and
`decode_next_record_raw`. `SubmitRead` and `SubmitRefused` are the ioctl, with
`PushRecord` or `DropRecord`; `PollReady`/`PollFails` the wait; `Decode` one
iteration of the walk; `AdvanceTail` the second ioctl with its range check and
`read_bytes` on the record. `unread`, `place`, `delivered` and `abandoned` are
history variables: no guard of the model reads them but the bound on
`abandoned`.

Abstractions: positions are counted in words of 8 bytes, as all lengths are
multiples of 8 (a partial read is rounded to words); a read has one range, as
every request of the client has; a session has one target.

`PollFails` covers poll() returning an error, timing out after 2 s, or returning
other events than POLLIN. Since SUBMIT_READ publishes its record before it
returns, poll() finds it at once; the failing branch is written in the code and
so is in the model. It leads to the one surprising thing here: nothing compares
the cookie of a reply with that of the request, so after one failed poll every
later read of the session is answered with the reply of an earlier request.
`BytesLagByAbandoned` states precisely how far behind, and that with no failed
poll the reply is the right one.

`SizingAssumption` (two of the largest records fit) is the rule the module
parameter `ring_bytes` has to respect: the code does not check it. Without it an
empty ring can refuse a record at some positions, and as only a delivered record
moves the tail it would refuse it for ever.

### SessionRef, Supervisor, Shutdown

Each process has a descriptor or not (copies in one process only repeat what
other processes do) and a number of mappings. `Fork`, `Split` and `Munmap` are
the kernel's use of `vm_ops`; `Close` calls `release` when the last copy goes.

`Open` fails at each of its three allocations (`OpenFails`) or at
`thub_rust_session_init` (`InitFails`, which puts the file's reference).

`Supervisor` has main's phases (spawning, polling, killing siblings) with one
action per `try_wait`, `kill` and `wait`, each of which may fail. An error of
`try_wait` ends the supervision or, of a sibling, skips it (`Unknown`); errors of
`kill` and `wait` are dropped (`let _ =`, `apps/fun/src/main.rs:180-181`): after
`KillFails` the launcher waits for a sibling it has not killed, after `WaitFails` it
leaves the sibling as it is. `signalled` are the children that SIGKILL was sent to
and `unknown` those a `try_wait` or a `wait` failed on. `NoneLeftBehind` therefore
promises nothing of the children in `unknown`, and `ExitIsNoticed` leaves out the
one way the launcher can hang: `Blocked`, in `wait` for a sibling that runs on
because its kill failed.

`Shutdown` extends `Supervisor` and instantiates `SessionRef` with the children
and the processes they fork. A child ends, by itself or killed, only when the
kernel has taken back what it had of the session (`Released`), and the kernel
goes on with that (`Teardown`) wherever SIGKILL has hit: between two allocations
of open(), with several mappings, with a descriptor that a forked process shares.
A child that was sent SIGKILL runs no code of its own any more (`Lives`); one whose
kill failed does. `NothingLeft` joins both: when the launcher ends after a child's
exit, every child is reaped but those `try_wait` or `wait` failed on, whichever kill
failed, and if there are none of these and no forked process holds the session, its
memory is gone.

### Attach

One reader, any processes coming and going under two pids. A process is its
name, start time and number of mappings; start times are unique, which assumes
that one pid is not reused within the 10 ms clock tick of the start time. The
two readers differ in one thing, whether a failed lookup in `process_changed`
counts as a change; `Attach` allows both. `FindOffsets` succeeds only on a
complete module list of a live game: how it gets them is in the next two.

### PatternScan

`memory`, `pattern` and `segments` are chosen at the start and stay: what is
scanned is code. `NextSegment` takes the segment with the least base, which is
the order the code sorts them in; segments are those already filtered (readable
and of the module). `ChunkFound` and `ChunkPassed` are one iteration over a
chunk, with `Advance` the arithmetic of the overlap and of the last chunk;
`ReadFails` is a read that fails. None of the patterns used has a "..." token.

### QwordScan

`find_qword_in_mappings` calls `find_qword_in_range` for one mapping after the other.
`PassMapping`, `EnterMapping` and `NoMappingLeft` are the outer loop, `ReadChunk`,
`ChunkUnread`, `ChunkDone` and `RegionDone` the loop over the chunks, with the bytes
carried over in `carry`, `Compare` the loop over `window`. What is searched is data,
so `GameWrites` may change any byte at any time; the history `wasThere` keeps what
each byte has been and `unread` which could not be read, and what is promised is in
terms of these: a hit is a place where every byte of the needle has been at some
moment (the bytes of a chunk, or of two, may be of different moments), and a needle
that stays is not missed. `MCPatternScan` checks this search and `PatternScan` in
one run; no behaviour has both.

### SchemaWalk

One attempt of `find_deadlocked_style_offsets` after the other. `scopes` and
`lists` are the game's: the vector of type scopes and the lists of classes of the
client's scope, buckets first and blobs last. `Begin` reads the length of the
vector, `ReadScope` a scope, `ReadHead`, `ReadClass` and `ReadNext` the head of a
list, a class and the link behind it, `LookUp` the fields. Three classes stand
for all. The game registers scopes and classes at any time, at either end of a
list; its lists end, and it takes nothing away. What the walk reads of scopes
other than the client's ends up under other keys and is one step.

### Snapshot

`world` is what the reads of `read_snapshot` can see: the map's name and path,
the controllers, the handles, the entity table, the pawns and the view object
with the vtable pointers other objects have left behind. `step` names the next
read; one action is one read, which may fail, and the game may change between any
two, as in `TriggerDecision`. `cache` is the entry of `VIEW_RENDER_CACHE`, the
only thing kept from one snapshot to the next. `seen` and `failed` are history:
the moments of the game since the snapshot began, and whose reads have failed: those
of a slot of the list, or (`Nil`) those of the map, the local player and the view.

`ListFollowsGame` has three parts: who is listed was reached through reads of
this very snapshot; nobody is listed twice unless handles or table moved; and who
was there all the time is listed if no read of his slot failed, whatever moved around
him and whichever reads of other slots failed (the code skips such a slot and goes on,
`entities.rs:23-43`).
`PhaseFollowsGame` is two-sided as well: the phase "ready for bot" has each of its
reasons from some moment of the snapshot, and a game that is ready and holds still
is called so, wherever the cached address points and whichever reads of other players
fail.

Abstractions: strings, origins and fields are what the classification tells apart;
the rows of the view matrix, angles, bones and names of other players are data; a
vtable is found by its type's name, or it is not (the ELF side is left out). The code
compares the camera with the eyes it has read before; `near` is whether the camera of
a moment lies within the limits of those eyes, and changes on its own, so a camera
that moves away, or comes near, after the eyes were read is one of the changes.

### TriggerDecision

`world` is what the frame's reads can see: the map name, the local controller,
the pawn handle of each controller, the entity table with its stale identities,
and the fields of each pawn. A frame passes through `phase`: the map name, the
local pawn's fields, the local pawn once more for the list of players, the
players bucket by bucket, the decision, the head check. One action is one read,
and the game may change between any two, as it may before the frame begins.

The head check is not one read. Where the shooter stands, his eye offset and his
view come with the local record, where the target stands with the list of players,
and the bone last, after scene node and skeleton (`read_bone_position`). Each of
these coordinates is a read of its own, and `BoneDone` joins what was read
(`OnHead`), whatever the game has become since.

Abstractions: every read succeeds (`TriggerLane` has the failing ones); bucket
pointers and class names stay as they are; what the optional checks (flash,
scope, velocity) read is one field each. Space has two axes, across and up, and the
angle between view and head is the sum of the differences on both, against a radius
that falls with the distance; the formulas are the module's own, the order of the
reads and what is compared with what are the code's. The proofs use nothing of the
formulas but which coordinates they are about.

A torn frame cannot be ruled out and the code does not try to. What holds is
two-sided: `FireIsJustified` says for each condition of a shot, and for each
coordinate of the head check, that it is from some moment of the same frame, not
that all were at once; `SteadyTargetIsFiredAt` that a target which met every
condition throughout the frame is fired at, with the head check if the view of any
moment would do for the head of any other (`EveryReadingHits`). More is not true,
and TLC finds counterexamples to both of the stronger forms one may expect: a shot
comes although the head was under the crosshair at no moment of the frame (the view
is read, then view and head move apart, then the bone is read at the place where the
view was), and a shooter who follows a moving head exactly, at every moment of the
frame, is not fired for (the view of the beginning is compared with the head of the
end).

### TriggerLane, RadarReader

A process is a number given out once (the pair of pid and start time, which
`Attach` justifies). Frames keep their kind, tick, process and whether they call
for fire, or the map. The reads of one frame are one sample at `Check` or
`ReadSnapshot`; the process may die between the sample and the end of the read.
The tick wraps at `TickRange` instead of 2^64. In `RadarReader` the snapshot and
the compare response are written by two actions, since requests can fall in
between.

fun-trigger may end at any point, killed or by an error of `serve_loop`
(`TriggerEnds`): the reader ends with it, a connection without an answer breaks,
an answer already on the socket is still stored. It may be started again
(`TriggerStarts`), with nothing but the old socket left.

### MouseRelay

The kernel's side is modelled from its use: `queue` holds the events of each
mouse, `vdown` the buttons the uinput mouse shows pressed, `phys` those the hand
holds. `Fetch` takes a prefix of the queue, `Apply` processes one event of it,
`Fire` ends an iteration with the decision. F9 presses arrive as commands from
another thread at any time and are handled between iterations. Any write or
read may fail; the loop then returns and everything is dropped. Motion and wheel
events keep no state from one to the next and are left out, as are the sounds.

While the relay is off its mice are free, and another program may grab one (`Take`,
`GiveBack`): `learn-binding` and `setup` of this repository do (`mouse_grab.rs:40`).
What the mouse reports then (`TakenReport`) the relay never sees. `held_count` is
counted on and off alike (`relay.rs:57-59`) and cleared only when F9 turns the relay
off, so a release taken by the other program leaves it too high: with F9 on, the
relay then fires with nobody holding the trigger, as long as the decision says so,
until a release that was not counted or the next F9 off. The history `missed` counts
those releases since F9 off; `FireNeedsHold` says that the count is never off by more
than that, and, with `FireEnds`, that without such a release there is no fire without
a hold. `overtaken` are the buttons of which the other program took an event while an
older one was still unread by the relay, which sees presses and releases out of turn;
the grab may fail because the other program has the mouse (`CanGrab`), which leaves
the relay off.

### MouseBinding

Any number of `fun-mouse` programs, each started as `run`, `setup` or
`learn-binding` (`kind`). `Discover`, `Grab` (one mouse at a time), `GrabFails`
are `PhysicalMouseSet`; `Capture` the wait for a key with its deadline; `Load`,
`Truncate`, `Write` the read-change-write of the configuration, in which
`fs::write` is two steps as another program can read in between. The grab is the
only lock there is, and it is one only between programs that have a mouse in
common: `steady` are the mice that never went away, `saved` what was last saved
for each binding. What the relay does with events is in `MouseRelay`.

Three things the code does that no property excludes. `run` reads the file before
it grabs a mouse and may read it truncated: it then starts without a trigger. A
program killed between truncation and write takes all bindings with it. And
`learn-binding` takes any key a mouse sends, though `usage()` (`config.rs:99`)
speaks of "BTN_*" presses; with a trigger it does not know, `run` refuses to start.

### RadarPage

The page's globals and the loads under way; loads are counted per image, so any
of them may end next. A load fails (`LoadFails`) when the server has no such image, or
is down.

## The runs

| Run | Question | Instance | States |
|---|---|---|---|
| `ring` | Are records ever lost, corrupted, repeated or released wrongly? Does the ring implement the channel? | 12 words, headers 2, ranges 1, payload up to 2, 6 reads, 2 failed polls | 115,379 |
| `shutdown` | Does a session live exactly as long as it is reachable? Is an exit noticed, is anything left behind? | 3 children, one with a session, 2 forked processes, 2 mappings each; try_wait, kill, wait and open fail anywhere | 114,098 |
| `attach` | Can a session mix two processes? Does the reader end up with the game that stays? | 2 pids, 3 processes, 3 modules, a first buffer of 1 | 3,164 |
| `pattern_scan` | Is a match lost between two chunks? Does the scan end? Is every word found? | every memory of 5 bits, chunks of 3, patterns of 1 to 3 tokens, 1 or 2 segments; words of 2 in chunks of 2, 4 lists of mappings, 1 chunk unreadable, 1 write of the game | 675,640 |
| `snapshot` | Is the list of players the game's? Is the phase? | 3 slots, 2 places of the view object, 2 changes of the game, 1 failed read | 4,164,586 |
| `schema_walk` | Is a class missed while lists grow? Are the offsets found in the end? | 3 classes on 2 lists, 2 scopes, 2 failed reads | 1,277,725 |
| `trigger_decision` | Can a frame fire without a reason? Can it miss a steady target? | 2 players, buckets of 2, one optional check, coordinates 0 and 1, 2 changes of the game | 4,512,254 |
| `trigger_lane` | Which frame is served, does fire end, does it return? | 2 games, tick modulo 2, 2 faults | 93,450 |
| `relay` | Stuck buttons, fire without a hold, grabs; does fire end, is F9 obeyed? | 2 mice, 2 buttons, 2 reports, 2 presses of F9, another program | 1,571,386 |
| `mouse_binding` | Is a saved binding ever lost? Does a learner give the mice back? | 2 programs, 2 mice, 2 keys (one `run` knows), 2 bindings, 1 death | 361,626 |
| `radar_reader` | Do the two values stay in step, is the next game found? | 2 games, 1 known map, tick modulo 3, 2 faults | 14,292 |
| `radar_page` | Does the page settle on the right map? | 2 images and a missing one, 3 loads at once | 10,890 |

All runs pass. Why the bounds are enough:

- `ring`: records are 3 to 5 words in 12, so the ring is full with two of them
  and the head passes the end at every remainder: an exact fit, a remainder
  below a header (skipped implicitly), one of a header and more (padding). Six
  reads are two laps; two failed polls leave the unread records a refusal needs.
  For other sizes there are the proofs.
- `attach`: three processes under two pids give a pid back to a second game or
  to another program between any two calls; a first buffer of 1 entry with
  3 modules takes the second LIST_MODULES call, in several ways.
- `pattern_scan`: five bytes in chunks of three give up to three chunks of a
  segment, with patterns as long as a chunk (an advance by one byte) and shorter;
  every place a match can have relative to a border occurs. Larger sizes: proof.
  A word of two bytes in chunks of two lies within a chunk or across a border,
  with either side unreadable, in the first or a later mapping, behind one that is
  empty or too large; it comes, goes or changes while half of it has been read;
  limits 0 to 2. Larger sizes: proof.
- `snapshot`: three slots put one player, two or none beside the local one, with a
  gap before the last; two changes move a player from one slot to another, give a
  pawn another place, or move the view object and bring something else where it
  was; the failed read can be any, so it is of a slot before, at or behind that of
  a player who stays. Several snapshots follow one another, so the cache is right,
  stale or empty.
- `schema_walk`: a class can come first or last on a list, alone or behind the
  one being read, in a bucket or among the blobs, before, during and after a
  walk; two failures hit two links of one attempt, or two attempts.
- `trigger_decision`: local player and target, each in its own bucket or both in
  one with the controllers; two changes give a slot or a handle away and back, or
  change two of the reasons, between any two reads. With coordinates 0 and 1 (`Span`)
  a head is on the crosshair or off it on either axis, and the distance is none, one
  or two, with a radius of one or none; one change can move a head and the view that
  follows it.
- `trigger_lane`, `radar_reader`: the second game starts before or after the
  first ends; two faults hit a connect and a read, or end fun-trigger and break
  the first connection to the next one. The ticks wrap within the run.
- `relay`: two reports of two buttons over two mice give press and release on
  one mouse, one on each, and a press with the release after F9, or with the release
  taken by another program; buttons may be held from the start.
- `mouse_binding`: the second program learns the same binding or another, or is
  `run`, at any step of the first; a mouse comes or goes during each.
- `shutdown`: the exited child can be first, middle or last among siblings, with
  the one that has the session before or after it; two forked processes give a
  chain of forks, two mappings a split; the failing kill or wait can be that of the
  child with the session, that of the other, or both.
- `radar_page`: two images that exist and one that does not, three loads.

What they show, property by property, is in the comments above each property in
the modules. The hazards in `PROJECT.json` say which property covers which
hazard, and why the rest is not covered.

`CHECK_DEADLOCK FALSE` stands where the system really stops: the ring's client
after its last read, the relay after an error, the launcher at its end, the
programs of `mouse_binding` when all have ended, the radar's task without its
assets, the two searches when they return and the schema walk when it has the offsets.

No run checks a `TypeOK`: it is proved where a module has one (`MouseBinding`,
`Snapshot`, `SchemaWalk` and `QwordScan` have their types in the proof).

## Fairness

Only the code's own threads are fair, and only weakly:

- `MemRing`: a read that was submitted runs to its end; poll() returns within
  2 s. That another read follows is not assumed.
- `TriggerLane`: reader, server and client each loop with a sleep and block on
  nothing but an answer of the other. That fun-trigger is started again is not
  assumed. `RadarReader`: the task awaits only locks
  held for one clone.
- `MouseRelay`: the loop sleeps 5 ms at most and never blocks (non-blocking
  reads). The hand, F9, the decision, unplugging and the other program are not fair.
- `Shutdown`: the launcher polls every 250 ms, and the kernel ends what SIGKILL
  has hit, so that wait() returns. Children need never exit, and wait() need never
  fail: with a failed kill the launcher may wait for ever (`Blocked`).
- `MouseBinding`: every program runs, and its wait for a key has a deadline of
  30 s. That anybody presses a key, starts or stops a program is not assumed.
- `PatternScan`: the scan goes on; a failing read is not assumed.
- `SchemaWalk`: the walk goes on and the reader tries again. Whether the game ever
  registers everything is its own affair, on the left of `OffsetsFound`.
- `QwordScan`, `TriggerDecision`, `Snapshot`: none, they have no liveness property.
- `Attach`: the reader loops, and a game that runs goes on loading its modules.
- `RadarPage`: the browser fires timers, ends requests and image loads, one way
  or the other; each image is fair on its own.

Where the outcome depends on the world, liveness is conditional on the world
settling (`<>[]` on the left; in `OffsetsFound`, the last class registered), and
faults are bounded by `MaxFaults`: a fault on every attempt would defeat any of
these properties.

## What is proved

`MemRingProofs` proves, for every ring size, header and range length, payload
bound and number of reads that satisfy `RingAssumption` and
`SizingAssumption`, what the run `ring` checks:

| Theorem | Statement |
|---|---|
| `TypeCorrect` | `Spec => []TypeOK` |
| `NeverOverwritten` | `Spec => []UnreadIntact` |
| `EmptyMeansRead` | `Spec => []EmptyIffNothingUnread` |
| `WalkCorrect` | `Spec => []WalkFindsOldest` |
| `ReleaseCorrect` | `Spec => []ReleaseIsExact` |
| `BytesMatchRequest` | `Spec => []BytesLagByAbandoned` |
| `EmptyAccepts` | `Spec => EmptyRingAccepts` |
| `ImplementsChannel` | `Spec => Channel!SafeSpec` |

None of the invariants is inductive. `UnreadIntact` alone does not say where the
records lie relative to the free part, so a push could write over one; nor does
`WalkFindsOldest` say where the *second* record is, which the next walk needs
after a release. `IInv` adds what is missing: `Ordered` (the records lie between
tail and head, one after the other, by their distance from the tail), `Chained`
(each is where the walk gets to from the end of the one before: at once, through
padding, or by the implicit wrap), `HeadAtEnd` (the last one ends at the head),
`ClientAt` (where the client's locals point) and `Numbered` (sequence numbers
are consecutive, and the records left behind are those of failed polls).

The argument has two hard steps. `PushKeepsRing`: `Fits` counts the words
skipped at the end and keeps one free, so (`Room`) no word of an unread record
lies in what a push writes; distances from the tail do not change and the new
record extends order and chain. `ReleaseKeepsRing`: moving the tail by exactly
the first record shifts every distance by the same amount, and the chain's first
link is that of the second record. `EmptyAccepts` uses `SizingAssumption` (a
ring with head = tail fits any record at any position); the other theorems do
not depend on it.

The other proofs, for every value of the constants:

| Module | Theorem | Statement |
|---|---|---|
| `OffsetProofs` | `ScanCorrect` | `ScanSpec => []FirstMatchFound` |
| | `WalkComplete` | `Spec => []RegisteredIsFound` |
| | `SearchCorrect` | `QwordSpec => []QwordsFound` |
| `ShutdownProofs` | `CountIsRight` | `Session!Spec => []SessionInv` |
| | `NoUseAfterFree` | `Session!Spec => []Session!LiveWhileReachable` |
| | `NoLeak` | `Session!Spec => []Session!FreedWhenUnreachable` |
| | `AllAreReaped` | `Spec => []NoneLeftBehind` |
| | `SessionLivesRight` | `ShutdownSpec => []LivesWhileReachable` |
| | `NothingIsLeft` | `ShutdownSpec => []NothingLeft` |
| `AttachProofs` | `NeverMixed` | `Spec => []OneProcess` |
| | `ReadsGames` | `Spec => []OnlyGamesRead` |
| `TriggerProofs` | `ServedIsLastRead` | `Spec => []LatestIsLastRead` |
| | `ShotsAreJustified` | `FrameSpec => []FireIsJustified` |
| | `NoTargetMissed` | `FrameSpec => []SteadyTargetIsFiredAt` |
| | `FrameTypes` | `FrameSpec => []FrameTypeOK` |
| `RadarProofs` | `ValuesStayInStep` | `Spec => []CompareIsAhead` |
| | `LiveIsKept` | `Spec => KeepsLiveProcess` |
| | `ListIsOfTheGame` | `SnapshotSpec => []ListFollowsGame` |
| | `PhaseIsOfTheGame` | `SnapshotSpec => []PhaseFollowsGame` |
| `MouseRelayProofs` | `LeftIsRight` | `Spec => []LeftHasTwoHolders` |
| | `OffIsOff` | `Spec => []OffReleasesEverything` |
| | `AllOrNothing` | `Spec => []GrabFollowsSwitch` |
| | `FireIsHeld` | `Spec => []FireNeedsHold` |
| | `NoneIsStuck` | `Spec => []NothingStuck` |
| `MouseBindingProofs` | `NoBindingLost` | `Spec => []BindingsKept` |

Where a proof module is about two modules, `Spec` is that of the first one it
extends without a prefix of its own (`SchemaWalk`, `TriggerLane`, `RadarReader`);
the others' definitions are called `ScanSpec`, `QwordSpec`, `FrameSpec`,
`SnapshotSpec` so that all can be in scope. `MemRing`, `Shutdown`, `Attach`, `TriggerLane`, `RadarReader`
and `MouseRelay` also have their `TypeOK` as a theorem (`TypeCorrect`); of the
others it is part of the invariant. What each adds to be inductive:

- `PatternScan`: `Passed`, the addresses at which a match has been excluded: all
  of the segments done, and of the current one those before the next chunk. The
  assumption that no pattern is longer than a chunk is what lets `Advance` move.
- `SchemaWalk`: `WalkInv`, of the classes that were registered when the walk of the
  scope began, those not found and not lost to a failed read are still ahead: from
  the element at hand to the end of its list, or on a list to come. As a list grows
  at its ends only and holds nothing twice, what is ahead stays ahead.
- `QwordScan`: `QwordInv`. What is carried over and what is in the window was read
  from consecutive addresses, all readable (`ReadAt`), and enough is carried over:
  all a needle can need, or back to the beginning of the mapping or of what could
  be read (`CarryOK`); so a place that reaches beyond the cursor begins in it
  (`CarryReaches`). Each place is behind, among the hits in order, or still to come
  (`Yet`), or enough hits lie before it (`Covered`).
- `TriggerDecision`: `FrameInv`. Everything a frame holds is from some moment of its
  own (`Witnessed`: the local player, the fields fetched so far, the pointer at
  hand); whoever stays in place is listed or still to come (`NobodyMissed`); each
  pawn listed has a first record, the one the code takes (`ListOK`). A shot compares
  the teams of two pawns read at two moments; `SidesOK` says why this is enough for
  a target that is an enemy throughout: as the game changes one thing at a time,
  neither of the two can have changed sides without being in one team in between.
- `Snapshot`: `SnapshotInv`, of the same kind. Its `ListOK` orders the players listed
  by the controllers they were reached through, which is why one pawn listed twice
  needs two of them; `ReadyFound` follows a game that stays ready: what has been
  read of it so far is right, and the search of the places has not passed the one
  the view object is at.
- `Shutdown`, the session by itself: `Counted`, the kref is the file's reference
  (as long as any process has a descriptor) plus the number of mappings held by
  all processes.
- `Shutdown`, the launcher by itself: `Behind`, the siblings dealt with are reaped,
  or try_wait or wait has failed on them.
- `Shutdown`: every step of the composition is a step of the session or leaves it
  alone, and a step of the launcher or leaves it alone, so both invariants carry
  over; a child that is not running has nothing left of the session, which is
  what `NothingLeft` needs beyond them.
- `Attach`: `Progress`, what is held at which step, and `Listed`, that the process
  the modules were listed of has no fewer of them since; since start times only
  grow, a process that takes a pid over never matches the selector, and one that
  is not a game never has enough mappings.
- `TriggerLane`: `Numbered` and `NoneOlder`: no running process is older than the
  one read, because attaching takes that there is only one.
- `RadarReader`: `BuiltTogether`, between the two writes the compare response is
  the one built with the snapshot about to be written.
- `MouseRelay`: the first three invariants need each other: F9 off clears the
  device because the books match it, and a batch in flight cannot be sent while
  off; and `OneGrab`, no mouse is grabbed twice, so the other program takes nothing
  while the relay is on. The other two need the hands (`Hands`): unless `overtaken`,
  the events of a button that are still to be processed are presses and releases in
  turn and end with the state of the hand (`QueuesAlternate`), and a batch ends, for
  each of its buttons, in what the loop has seen of it last (`BatchesAgree`); a button
  the hands have pressed on the virtual mouse is held by one of them, or its release
  is in a batch or was taken (`HandsHold`); and no more holds are counted than mice
  have been seen to hold and releases were missed, which is the first half of
  `FireNeedsHold` itself.
- `MouseBinding`: `Grabs`, whoever has opened the mice has opened those that stay,
  and whoever learns or relays has them grabbed. As one mouse has one holder, no
  two learners are between reading the file and having written it.

Assumptions on the constants are the named ASSUMEs of the modules: they rule out
empty systems and name clashes between stand-ins, and nothing else but the sizing
of ring and chunk.

Only model-checked: liveness (the fairness half of `ChannelSpec` and the temporal
properties of the other runs), which the prover does not do under fairness. Every
invariant and every action property of the runs is a theorem.

## Not modelled, and why

- The interface lists of `interfaces.rs`: planned (below). RIP decoding and the ELF
  files of the modules: decoding of fixed formats without state. The numbers of a
  snapshot (view matrix, bones, projection) beyond whether they are plausible.
- A schema list that is cyclic: nothing in the code would end the walk.
- Concurrent use of one memreader descriptor: the ioctl handlers take no lock,
  but every client in the repository uses its descriptor from one thread.
  REMOVE_TARGET and more than one target: no client uses them.
- Panics: one of `main` ends the process, which is `TriggerEnds`, a child's exit or
  a death elsewhere; one of fun-trigger's reader thread alone goes unnoticed, and
  the last frame is served on. The code says nothing of that case.
- Time: sleeps and timeouts are steps that happen at any time. How stale a
  decision may be in milliseconds is not a question these models answer.
- What the system sees of the physical mice while the relay is off.
- Drawing, colours, logging, argument parsing, the encoding of the configuration,
  which devices count as mice or keyboards, sounds, downloads: I/O and formatting.

## Plan

Done: the ring and its proofs, because everything reads through it; the lanes
where several actors meet (relay, trigger lane, attach, radar), with the end and
restart of fun-trigger; the launcher composed with the session of a child it
kills; the web page; the programs of `fun-mouse` over their configuration; one
trigger frame and one snapshot read by read; the searches for offsets and for the
view; and a proof of every safety property that a run checks.

What is left, in this order:

1. `Attach` as the refinement of `Connect` and `Check` of both readers, and an
   abstract decision from one sample, which `TriggerDecision` implements when the
   game holds still for the length of a frame.
2. The interface lists of `interfaces.rs`.
