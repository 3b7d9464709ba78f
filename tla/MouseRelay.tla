------------------------------ MODULE MouseRelay ------------------------------
(***************************************************************************)
(* fun-mouse: the loop of app::run.  It reads the button events of the     *)
(* grabbed physical mice, replays them on a uinput mouse and holds its     *)
(* left button while the bound trigger button is held and fun-trigger says *)
(* so.  F9, read by the keyboard thread, switches the relay off (releases  *)
(* everything, ungrabs the mice) and on again (grabs all or none).  While  *)
(* it is off another program may grab a mouse for itself, as learn-binding *)
(* and setup do: its events then never reach the relay.                    *)
(*                                                                         *)
(* The kernel's side (event queues, EVIOCGRAB, uinput) is modelled from    *)
(* how the code uses it.  Motion and wheel events carry no state from one  *)
(* event to the next and are left out.                                     *)
(***************************************************************************)
EXTENDS Naturals, Sequences, FiniteSets

CONSTANTS
  NumMice,     \* physical mice, in the order PhysicalMouseSet keeps them
  Buttons,     \* the buttons is_supported_button lets through
  Left,        \* BTN_LEFT
  Binding,     \* the button bound to the trigger
  HeldAtStart, \* bound: the buttons that may be held when the program starts
  MaxReports,  \* bound: button reports of all mice together
  MaxToggles   \* bound: presses of F9

ASSUME RelayAssumption ==
  /\ NumMice \in Nat \ {0}
  /\ Left \in Buttons /\ Binding \in Buttons /\ "SYN_REPORT" \notin Buttons
  /\ HeldAtStart \subseteq Buttons
  /\ MaxReports \in Nat /\ MaxToggles \in Nat

VARIABLES
  phys,       \* which buttons are held on each mouse
  queue,      \* the events the kernel holds for the relay, per mouse
  alive,      \* which mice are plugged in
  decision,   \* the flag the trigger client thread stores
  commands,   \* how many ToggleRelay commands are in the channel
  reports, presses,        \* how much of the two bounds is used
  pc,         \* where the loop is: "commands", "pump", "apply", "fire", "stopped"
  cur,        \* the mouse being pumped
  fetched,    \* the events fetch_events returned, not yet processed
  enabled,    \* KillSwitch.enabled
  grabbed,    \* PhysicalMouse.grabbed
  batch,      \* PhysicalMouse.pending_batch
  held,       \* ButtonBindingState.held_count
  emitted,    \* VirtualMouse.emitted_buttons
  physicalLeft, syntheticLeft,   \* VirtualMouse.physical_left_down, synthetic_left_down
  vdown,      \* the buttons the system sees held on the uinput mouse
  taken       \* which mice another program has grabbed

\* For the properties: what another program took since the relay was last switched off.
VARIABLES
  missed,     \* the releases of the bound button
  overtaken   \* the buttons, per mouse, it took while the relay had older events unread

neighbour == <<taken, missed, overtaken>>
world == <<phys, queue, alive, decision, commands, reports, presses, neighbour>>
virtual == <<emitted, physicalLeft, syntheticLeft, vdown>>
vars == <<phys, queue, alive, decision, commands, reports, presses, pc, cur, fetched,
          enabled, grabbed, batch, held, emitted, physicalLeft, syntheticLeft, vdown,
          taken, missed, overtaken>>

Mice == 1 .. NumMice

Key(b, v) == [key |-> b, value |-> v]
Keys == [key : Buttons, value : {0, 1}]
Syn == Key("SYN_REPORT", 0)
Event == Keys \cup {Syn}

-----------------------------------------------------------------------------
(* The world: mice, keyboard, trigger client.                              *)

\* The event for a change of button b of mouse m.
Change(m, b) == Key(b, IF b \in phys[m] THEN 0 ELSE 1)

\* Events of mouse m the loop has still to process.
Pending(m) == (IF pc = "apply" /\ cur = m THEN fetched ELSE <<>>) \o queue[m]

\* One or two buttons of a mouse change.
Moves(m, b, c) ==
  /\ alive[m] /\ reports < MaxReports
  /\ phys' = [phys EXCEPT ![m] = (@ \ {b, c}) \cup ({b, c} \ @)]
  /\ reports' = reports + 1
  /\ UNCHANGED <<alive, decision, commands, presses, taken, pc, cur, fetched,
                 enabled, grabbed, batch, held, virtual>>

\* The mouse reports the change to every program that has it open.
Report(m) ==
  /\ ~taken[m]
  /\ \E b, c \in Buttons :
       /\ Moves(m, b, c)
       /\ queue' = [queue EXCEPT ![m] = @ \o
                     IF b = c THEN <<Change(m, b), Syn>>
                              ELSE <<Change(m, b), Change(m, c), Syn>>]
  /\ UNCHANGED <<missed, overtaken>>

\* The mouse reports the change to the program that has grabbed it, and to no other.
TakenReport(m) ==
  /\ taken[m]
  /\ \E b, c \in Buttons :
       /\ Moves(m, b, c)
       /\ missed' = IF Binding \in {b, c} \cap phys[m] THEN missed + 1 ELSE missed
       /\ overtaken' = [overtaken EXCEPT ![m] =
                          @ \cup {x \in {b, c} : \E i \in DOMAIN Pending(m) : Pending(m)[i].key = x}]
  /\ UNCHANGED queue

\* Another program grabs a mouse, which the relay must not have grabbed, or gives it back.
Take(m) ==
  /\ alive[m] /\ ~grabbed[m] /\ ~taken[m]
  /\ taken' = [taken EXCEPT ![m] = TRUE]
  /\ UNCHANGED <<phys, queue, alive, decision, commands, reports, presses, missed, overtaken,
                 pc, cur, fetched, enabled, grabbed, batch, held, virtual>>

GiveBack(m) ==
  /\ taken[m]
  /\ taken' = [taken EXCEPT ![m] = FALSE]
  /\ UNCHANGED <<phys, queue, alive, decision, commands, reports, presses, missed, overtaken,
                 pc, cur, fetched, enabled, grabbed, batch, held, virtual>>

\* A mouse is unplugged: from now on every call on its device fails.
Unplug(m) ==
  /\ alive[m]
  /\ alive' = [alive EXCEPT ![m] = FALSE]
  /\ UNCHANGED <<phys, queue, decision, commands, reports, presses, neighbour, pc, cur, fetched,
                 enabled, grabbed, batch, held, virtual>>

\* The keyboard thread sees F9 go down and sends ToggleRelay.
KeyboardMonitor ==
  /\ presses < MaxToggles
  /\ presses' = presses + 1
  /\ commands' = commands + 1
  /\ UNCHANGED <<phys, queue, alive, decision, reports, neighbour, pc, cur, fetched,
                 enabled, grabbed, batch, held, virtual>>

\* The trigger client stores should_fire of the frame it read, or false.
TriggerClient ==
  /\ decision' = ~decision
  /\ UNCHANGED <<phys, queue, alive, commands, reports, presses, neighbour, pc, cur, fetched,
                 enabled, grabbed, batch, held, virtual>>

-----------------------------------------------------------------------------
(* The virtual mouse.                                                      *)

\* The value of button b after a batch that changes it.
PressedLast(events, b) ==
  \E i \in DOMAIN events : /\ events[i] = Key(b, 1)
                           /\ \A j \in DOMAIN events : j > i => events[j].key # b
Changes(events, b) == \E i \in DOMAIN events : events[i].key = b
After(events, b, before) == IF Changes(events, b) THEN PressedLast(events, b) ELSE before

\* Seeded fault: the left button follows the physical one only.
SyncLeft_PhysicalOnly(others, phy, syn) == others \cup (IF phy THEN {Left} ELSE {})

\* sync_left_edge: the left button is down when the physical or the synthetic one is.
SyncLeft(others, phy, syn) == others \cup (IF phy \/ syn THEN {Left} ELSE {})

\* emit_batch.
EmitBatch(events) ==
  /\ physicalLeft' = After(events, Left, physicalLeft)
  /\ emitted' = SyncLeft({b \in Buttons \ {Left} : After(events, b, b \in emitted)},
                         physicalLeft', syntheticLeft)
  /\ vdown' = emitted'
  /\ UNCHANGED syntheticLeft

\* set_synthetic_left.
SetSyntheticLeft(down) ==
  IF syntheticLeft = down THEN UNCHANGED virtual
  ELSE /\ syntheticLeft' = down
       /\ emitted' = SyncLeft(emitted \ {Left}, physicalLeft, down)
       /\ vdown' = emitted'
       /\ UNCHANGED physicalLeft

\* Seeded faults: the left flags survive; only the left button is released.
ReleasePressedButtons_KeepsFlags ==
  /\ vdown' = vdown \ emitted
  /\ emitted' = {}
  /\ UNCHANGED <<physicalLeft, syntheticLeft>>

ReleasePressedButtons_LeftOnly ==
  /\ vdown' = vdown \ {Left}
  /\ emitted' = emitted \ {Left}
  /\ physicalLeft' = FALSE
  /\ syntheticLeft' = FALSE

\* release_pressed_buttons.
ReleasePressedButtons ==
  /\ vdown' = vdown \ emitted
  /\ emitted' = {}
  /\ physicalLeft' = FALSE
  /\ syntheticLeft' = FALSE

-----------------------------------------------------------------------------
(* The physical mice.                                                      *)

\* Seeded fault: a failed grab keeps the mice grabbed before it.
Regrabbed_NoRollback(failing) ==
  [m \in Mice |-> IF m < failing THEN TRUE ELSE grabbed[m]]

\* grab_all when the grab of mouse `failing` fails (none does if it is
\* NumMice + 1): the mice before it are ungrabbed again.
Regrabbed(failing) ==
  [m \in Mice |-> IF failing > NumMice THEN TRUE
                  ELSE IF m < failing THEN ~alive[m] ELSE grabbed[m]]

\* A mouse can be grabbed while it is there and no other program has grabbed it.
CanGrab(m) == alive[m] /\ ~taken[m]

\* Ungrab fails, and the mouse stays marked as grabbed, when it is gone.
Ungrabbed == [m \in Mice |-> grabbed[m] /\ ~alive[m]]

\* run returns an error: the virtual mouse, the mice and every local are dropped.
Stops == /\ pc' = "stopped"
         /\ cur' = 1 /\ fetched' = <<>>
         /\ grabbed' = [m \in Mice |-> FALSE]
         /\ batch' = [m \in Mice |-> <<>>]
         /\ held' = 0
         /\ emitted' = {} /\ physicalLeft' = FALSE /\ syntheticLeft' = FALSE
         /\ vdown' = {}
         /\ UNCHANGED <<world, enabled>>

-----------------------------------------------------------------------------
(* The loop of app::run.                                                   *)

\* toggle_relay, relay on: release, clear, ungrab, switch off.
ToggleOff ==
  /\ pc = "commands" /\ commands > 0 /\ enabled
  /\ ReleasePressedButtons
  /\ held' = 0
  /\ grabbed' = Ungrabbed
  /\ batch' = [m \in Mice |-> <<>>]
  /\ enabled' = FALSE
  /\ commands' = commands - 1
  /\ missed' = 0
  /\ overtaken' = [m \in Mice |-> IF queue[m] = <<>> THEN {} ELSE overtaken[m]]
  /\ UNCHANGED <<phys, queue, alive, decision, reports, presses, taken, pc, cur, fetched>>

\* Seeded fault: a failed grab is tried again at once.
ToggleOn_Retries ==
  /\ pc = "commands" /\ commands > 0 /\ ~enabled
  /\ \E failing \in 1 .. NumMice + 1 :
       /\ \A m \in Mice : m < failing => grabbed[m] \/ CanGrab(m)
       /\ failing \in Mice => ~grabbed[failing]
       /\ grabbed' = Regrabbed(failing)
       /\ enabled' = (failing > NumMice)
       /\ commands' = IF failing > NumMice THEN commands - 1 ELSE commands
  /\ UNCHANGED <<phys, queue, alive, decision, reports, presses, neighbour, pc, cur, fetched,
                 batch, held, virtual>>

\* toggle_relay, relay off: grab every mouse or none.
ToggleOn ==
  /\ pc = "commands" /\ commands > 0 /\ ~enabled
  /\ \E failing \in 1 .. NumMice + 1 :
       /\ \A m \in Mice : m < failing => grabbed[m] \/ CanGrab(m)
       /\ failing \in Mice => ~grabbed[failing]
       /\ grabbed' = Regrabbed(failing)
       /\ batch' = [m \in Mice |-> IF failing <= NumMice /\ m < failing THEN <<>> ELSE batch[m]]
       /\ enabled' = (failing > NumMice)
  /\ commands' = commands - 1
  /\ UNCHANGED <<phys, queue, alive, decision, reports, presses, neighbour, pc, cur, fetched,
                 held, virtual>>

\* handle_commands has emptied the channel.
CommandsDone ==
  /\ pc = "commands" /\ commands = 0
  /\ pc' = "pump"
  /\ cur' = 1
  /\ UNCHANGED <<world, fetched, enabled, grabbed, batch, held, virtual>>

\* On to the next mouse, or to the decision.
NextMouse == /\ cur' = cur + 1
             /\ pc' = IF cur = NumMice THEN "fire" ELSE "pump"

\* fetch_events returns events: a prefix of those queued, all of them unless
\* they exceed one read.
Fetch ==
  /\ pc = "pump" /\ alive[cur] /\ queue[cur] # <<>>
  /\ \E n \in 1 .. Len(queue[cur]) :
       /\ fetched' = SubSeq(queue[cur], 1, n)
       /\ queue' = [queue EXCEPT ![cur] = SubSeq(@, n + 1, Len(@))]
  /\ pc' = "apply"
  /\ UNCHANGED <<phys, alive, decision, commands, reports, presses, neighbour, cur,
                 enabled, grabbed, batch, held, virtual>>

\* fetch_events would block.
FetchNothing ==
  /\ pc = "pump" /\ alive[cur] /\ queue[cur] = <<>>
  /\ NextMouse
  /\ UNCHANGED <<world, fetched, enabled, grabbed, batch, held, virtual>>

\* fetch_events fails: the mouse is gone.
FetchFails == pc = "pump" /\ ~alive[cur] /\ Stops

\* Seeded fault: a release while off is missed.
Observed_OnlyEnabled(e) ==
  IF e.key # Binding \/ (~enabled /\ e.value = 0) THEN held
  ELSE IF e.value = 1 THEN held + 1
  ELSE IF held > 0 THEN held - 1 ELSE 0

\* ButtonBindingState::observe: the count saturates at zero.
Observed(e) ==
  IF e.key # Binding THEN held
  ELSE IF e.value = 1 THEN held + 1
  ELSE IF held > 0 THEN held - 1 ELSE 0

\* process_event for a button: queued for the virtual mouse while the relay is on.
ProcessKey(e) ==
  /\ held' = Observed(e)
  /\ batch' = IF enabled THEN [batch EXCEPT ![cur] = Append(@, e)] ELSE batch
  /\ UNCHANGED virtual

\* process_event for SYN_REPORT: the batch goes out, or is thrown away.
ProcessSyn ==
  /\ IF enabled /\ batch[cur] # <<>> THEN EmitBatch(batch[cur]) ELSE UNCHANGED virtual
  /\ batch' = [batch EXCEPT ![cur] = <<>>]
  /\ UNCHANGED held

Apply ==
  /\ pc = "apply"
  /\ IF Head(fetched) = Syn THEN ProcessSyn ELSE ProcessKey(Head(fetched))
  /\ fetched' = Tail(fetched)
  /\ IF Len(fetched) = 1 THEN NextMouse ELSE UNCHANGED <<cur, pc>>
  /\ UNCHANGED <<world, enabled, grabbed>>

ShouldFire == enabled /\ held > 0 /\ decision

\* Seeded fault: once down, the synthetic button stays down.
Fire_Latches ==
  /\ pc = "fire"
  /\ SetSyntheticLeft(syntheticLeft \/ ShouldFire)
  /\ pc' = "commands"
  /\ UNCHANGED <<world, cur, fetched, enabled, grabbed, batch, held>>

\* The end of an iteration: the synthetic left button follows the decision.
Fire ==
  /\ pc = "fire"
  /\ SetSyntheticLeft(ShouldFire)
  /\ pc' = "commands"
  /\ UNCHANGED <<world, cur, fetched, enabled, grabbed, batch, held>>

\* Writing to the uinput device fails wherever something is to be written.
EmitFails ==
  /\ \/ pc = "commands" /\ commands > 0 /\ enabled /\ emitted # {}
     \/ pc = "apply" /\ Head(fetched) = Syn /\ enabled /\ batch[cur] # <<>>
     \/ pc = "fire" /\ syntheticLeft # ShouldFire
  /\ Stops

-----------------------------------------------------------------------------

\* run has grabbed every mouse and created the virtual one.  Buttons may be
\* held already.
Init ==
  /\ phys \in [Mice -> SUBSET HeldAtStart]
  /\ queue = [m \in Mice |-> <<>>]
  /\ alive = [m \in Mice |-> TRUE]
  /\ decision = FALSE
  /\ commands = 0 /\ reports = 0 /\ presses = 0
  /\ pc = "commands" /\ cur = 1 /\ fetched = <<>>
  /\ enabled = TRUE
  /\ grabbed = [m \in Mice |-> TRUE]
  /\ batch = [m \in Mice |-> <<>>]
  /\ held = 0
  /\ emitted = {} /\ physicalLeft = FALSE /\ syntheticLeft = FALSE /\ vdown = {}
  /\ taken = [m \in Mice |-> FALSE]
  /\ missed = 0 /\ overtaken = [m \in Mice |-> {}]

Loop == \/ ToggleOff \/ ToggleOn \/ CommandsDone
        \/ Fetch \/ FetchNothing \/ FetchFails \/ Apply
        \/ Fire \/ EmitFails

\* What happens after the program has stopped is no concern of it.
World == /\ pc # "stopped"
         /\ \/ \E m \in Mice : \/ Report(m) \/ TakenReport(m) \/ Unplug(m)
                             \/ Take(m) \/ GiveBack(m)
            \/ KeyboardMonitor \/ TriggerClient

Next == Loop \/ World

\* The loop sleeps 5 ms at most and never blocks.
Spec == Init /\ [][Next]_vars /\ WF_vars(Loop)

-----------------------------------------------------------------------------
(* Properties.                                                             *)

\* The relay's books, the queues and the flags keep their types.
TypeOK ==
  /\ phys \in [Mice -> SUBSET Buttons]
  /\ queue \in [Mice -> Seq(Event)] /\ fetched \in Seq(Event)
  /\ alive \in [Mice -> BOOLEAN] /\ grabbed \in [Mice -> BOOLEAN]
  /\ decision \in BOOLEAN /\ enabled \in BOOLEAN
  /\ commands \in Nat /\ reports \in Nat /\ presses \in Nat /\ held \in Nat
  /\ pc \in {"commands", "pump", "apply", "fire", "stopped"}
  /\ cur \in 1 .. NumMice + 1
  /\ batch \in [Mice -> Seq(Keys)]
  /\ emitted \subseteq Buttons /\ vdown \subseteq Buttons
  /\ physicalLeft \in BOOLEAN /\ syntheticLeft \in BOOLEAN
  /\ pc \in {"pump", "apply"} => cur \in Mice
  /\ pc = "apply" => fetched # <<>>
  /\ taken \in [Mice -> BOOLEAN]
  /\ missed \in Nat /\ overtaken \in [Mice -> SUBSET Buttons]

\* Whether button b of mouse m is down as far as the loop has processed events.
Seen(m, b) ==
  LET of == {i \in DOMAIN Pending(m) : Pending(m)[i].key = b}
  IN IF of = {} THEN b \in phys[m]
     ELSE \E i \in of : (\A j \in of : i <= j) /\ Pending(m)[i].value = 0

\* The system sees the buttons the relay believes it has pressed, and the left
\* one is down exactly when a physical or the synthetic press holds it: neither
\* source lets go for the other.
LeftHasTwoHolders ==
  pc # "stopped" =>
    /\ vdown = emitted
    /\ (Left \in emitted) = (physicalLeft \/ syntheticLeft)

\* F9 off: nothing stays pressed on the virtual mouse, whatever was held or in
\* flight, and nothing is pressed until the relay is on again.
OffReleasesEverything == ~enabled => vdown = {} /\ ~physicalLeft /\ ~syntheticLeft

\* The grab is all or nothing: while the relay is on every mouse is grabbed;
\* while it is off no mouse that still exists is.
GrabFollowsSwitch ==
  pc # "stopped" =>
    IF enabled THEN \A m \in Mice : grabbed[m]
               ELSE \A m \in Mice : grabbed[m] => ~alive[m]

\* The count of held trigger buttons exceeds the mice that hold one by no more than
\* the releases another program took since F9 off, over presses before the start,
\* toggles in mid-press and saturation at zero: with none taken the synthetic left
\* button never outlives the hold by more than an iteration.  (Not when an event was
\* taken while the relay had an older one of the same button unread.)
FireNeedsHold ==
  (\A m \in Mice : Binding \notin overtaken[m]) =>
    /\ held <= Cardinality({m \in Mice : Seen(m, Binding)}) + missed
    /\ pc = "commands" /\ syntheticLeft =>
         enabled /\ (missed = 0 => \E m \in Mice : Seen(m, Binding))

\* No button is left pressed on the virtual mouse after the hand let go: some
\* mouse holds it still, or its release waits in a batch; or another program took
\* its release while the press was unread.
NothingStuck ==
  pc # "stopped" =>
    \A b \in vdown :
      \/ b = Left /\ syntheticLeft
      \/ \E m \in Mice : \/ Seen(m, b) \/ b \in overtaken[m]
                        \/ \E i \in DOMAIN batch[m] : batch[m][i] = Key(b, 0)

\* No release of the bound button has passed the relay by since F9 off.
Undisturbed == missed = 0 /\ \A m \in Mice : Binding \notin overtaken[m]

\* Once nobody holds the trigger button for good and no release of it has passed the
\* relay by, or fun-trigger says no for good (as its lane does once the game no
\* longer calls for fire), synthetic fire ends for good.
FireEnds ==
  /\ <>[](Undisturbed /\ \A m \in Mice : Binding \notin phys[m]) => <>[]~syntheticLeft
  /\ <>[]~decision => <>[]~syntheticLeft

\* Every F9 is obeyed: the channel is emptied again and again.
CommandsHandled == []<>(pc = "stopped" \/ commands = 0)
=============================================================================
