----------------------------- MODULE MouseBinding -----------------------------
(***************************************************************************)
(* The programs of fun-mouse side by side: `run`, `setup` and              *)
(* `learn-binding` share the mice, which one of them at a time can grab,   *)
(* and the configuration file, which has no lock.  A learner reads the     *)
(* whole file, sets its one binding and writes the whole file back, all    *)
(* while it has the mice.  Mice come and go, and programs are killed.      *)
(*                                                                         *)
(* A file that is absent, empty or just truncated is read as one without   *)
(* bindings.  A mouse that is unplugged does not come back: plugged in     *)
(* again it is another one.  The kernel's side (EVIOCGRAB, the file        *)
(* system) is modelled from how the code uses it.  What the relay does     *)
(* with events is in MouseRelay.                                           *)
(***************************************************************************)
EXTENDS Naturals

CONSTANTS
  Programs,    \* the programs started
  Mice,        \* the mice there ever are
  Keys,        \* what the mice's keys are called
  Supported,   \* those parse_mouse_button_key knows
  Names,       \* the bindings that can be learned; `setup` learns "trigger"
  MaxDeaths    \* bound: programs killed, and writes that fail

ASSUME BindingAssumption ==
  /\ Supported \subseteq Keys /\ "none" \notin Keys
  /\ "trigger" \in Names /\ "run" \notin Names /\ "nobody" \notin Programs
  /\ MaxDeaths \in Nat

VARIABLES
  plugged,   \* the mice that can be opened
  unplugged, \* those that are gone
  holder,    \* which program has grabbed each mouse
  file,      \* the bindings in the configuration file
  kind,      \* what each program was started as: "run" or the binding it learns
  pc,        \* what it does next
  opened,    \* its PhysicalMouseSet
  key,       \* the key it has captured
  config,    \* its PersistedConfig
  deaths,    \* how many programs have died
  saved,     \* history: the key last saved for each binding
  torn,      \* history: a program has died over a truncated file
  steady     \* history: the mice that have been plugged in from the start

devices == <<plugged, unplugged, holder>>
vars == <<plugged, unplugged, holder, file, kind, pc, opened, key, config, deaths, saved, torn, steady>>

Nobody == "nobody"
None == "none"
NoBindings == [n \in Names |-> None]

Grabbing == {"grab", "regrab"}

-----------------------------------------------------------------------------
(* The world.                                                              *)

Plug(m) ==
  /\ m \notin plugged \cup unplugged
  /\ plugged' = plugged \cup {m}
  /\ UNCHANGED <<unplugged, holder, file, kind, pc, opened, key, config, deaths, saved, torn, steady>>

\* Calls on its device fail from now on; the grab is gone with it.
Unplug(m) ==
  /\ m \in plugged
  /\ plugged' = plugged \ {m} /\ unplugged' = unplugged \cup {m}
  /\ holder' = [holder EXCEPT ![m] = Nobody]
  /\ steady' = steady \ {m}
  /\ UNCHANGED <<file, kind, pc, opened, key, config, deaths, saved, torn>>

\* The launcher or the user starts a program: `run` loads the configuration first,
\* the others begin with the mice.
Start(p) ==
  /\ pc[p] = "idle"
  /\ \E k \in Names \cup {"run"} :
       /\ kind' = [kind EXCEPT ![p] = k]
       /\ pc' = [pc EXCEPT ![p] = IF k = "run" THEN "config" ELSE "discover"]
  /\ UNCHANGED <<devices, file, opened, key, config, deaths, saved, torn, steady>>

-----------------------------------------------------------------------------
(* The programs.                                                           *)

\* ungrab_all, or the end of the program.
LetGo(p) == holder' = [m \in Mice |-> IF holder[m] = p THEN Nobody ELSE holder[m]]

GoesOn(p, next) == pc' = [pc EXCEPT ![p] = next]

\* The program ends, well or with an error: its mice are let go and what it held is gone.
Ends(p) == /\ GoesOn(p, "ended")
           /\ LetGo(p)
           /\ opened' = [opened EXCEPT ![p] = {}] /\ key' = [key EXCEPT ![p] = None]
           /\ config' = [config EXCEPT ![p] = NoBindings]
           /\ UNCHANGED <<plugged, unplugged, file, kind, saved, steady>>

Fails(p) == Ends(p) /\ UNCHANGED <<deaths, torn>>

\* A program is killed, or its write fails, at any point.
Dies(p) ==
  /\ pc[p] \notin {"idle", "ended"} /\ deaths < MaxDeaths
  /\ deaths' = deaths + 1
  /\ torn' = (torn \/ pc[p] = "write")
  /\ Ends(p)

\* load_or_default in run; a trigger that is no mouse button ends it.  What the relay
\* does with the bindings is in MouseRelay.
LoadConfig(p) ==
  /\ pc[p] = "config"
  /\ IF file["trigger"] \in Supported \cup {None}
     THEN /\ GoesOn(p, "discover")
          /\ UNCHANGED <<devices, file, kind, opened, key, config, deaths, saved, torn, steady>>
     ELSE Fails(p)

\* discover_mouse_paths and open: every mouse there is, and at least one.
Discover(p) ==
  /\ pc[p] = "discover"
  /\ IF plugged = {} THEN Fails(p)
     ELSE /\ opened' = [opened EXCEPT ![p] = plugged]
          /\ GoesOn(p, "grab")
          /\ UNCHANGED <<devices, file, kind, key, config, deaths, saved, torn, steady>>

\* grab_all, one mouse after the other.
Grab(p) ==
  /\ pc[p] \in Grabbing
  /\ \E m \in opened[p] : /\ m \in plugged /\ holder[m] = Nobody
                          /\ holder' = [holder EXCEPT ![m] = p]
  /\ UNCHANGED <<plugged, unplugged, file, kind, pc, opened, key, config, deaths, saved, torn, steady>>

\* All mice are grabbed; one that has gone since its grab is still taken for grabbed.
GrabbedAll(p) ==
  /\ pc[p] \in Grabbing
  /\ \A m \in opened[p] : holder[m] = p \/ m \in unplugged
  /\ GoesOn(p, IF kind[p] = "run" THEN "relay" ELSE "capture")
  /\ UNCHANGED <<devices, file, kind, opened, key, config, deaths, saved, torn, steady>>

\* A mouse is grabbed by another program or gone: the ones grabbed are let go.
GrabFails(p) ==
  /\ pc[p] \in Grabbing
  /\ \E m \in opened[p] : m \in unplugged \/ holder[m] \notin {p, Nobody}
  /\ IF pc[p] = "grab" THEN Fails(p)
     ELSE /\ GoesOn(p, "off")
          /\ LetGo(p)
          /\ UNCHANGED <<plugged, unplugged, file, kind, opened, key, config, deaths, saved, torn, steady>>

\* Seeded fault: the mice are let go as soon as a key is captured.
Capture_LetsGo(p) ==
  /\ pc[p] = "capture"
  /\ \E k \in Keys : key' = [key EXCEPT ![p] = k]
  /\ GoesOn(p, "load")
  /\ LetGo(p)
  /\ UNCHANGED <<plugged, unplugged, file, kind, opened, config, deaths, saved, torn, steady>>

\* poll_first_pressed_button: any key that goes down.
Capture(p) ==
  /\ pc[p] = "capture"
  /\ \E k \in Keys : key' = [key EXCEPT ![p] = k]
  /\ GoesOn(p, "load")
  /\ UNCHANGED <<devices, file, kind, opened, config, deaths, saved, torn, steady>>

\* Seeded fault: there is no deadline.
CaptureFails_Waits(p) ==
  /\ pc[p] = "capture" /\ opened[p] \cap unplugged # {}
  /\ Fails(p)

\* 30 s are over, or a mouse is gone.
CaptureFails(p) ==
  /\ pc[p] = "capture"
  /\ Fails(p)

\* load_or_default and set_binding in a learner.
Load(p) ==
  /\ pc[p] = "load"
  /\ config' = [config EXCEPT ![p] = [file EXCEPT ![kind[p]] = key[p]]]
  /\ key' = [key EXCEPT ![p] = None]
  /\ GoesOn(p, "truncate")
  /\ UNCHANGED <<devices, file, kind, opened, deaths, saved, torn, steady>>

\* save: fs::write truncates the file and then writes it.
Truncate(p) ==
  /\ pc[p] = "truncate"
  /\ file' = NoBindings
  /\ GoesOn(p, "write")
  /\ UNCHANGED <<devices, kind, opened, key, config, deaths, saved, torn, steady>>

Write(p) ==
  /\ pc[p] = "write"
  /\ file' = config[p]
  /\ saved' = [saved EXCEPT ![kind[p]] = config[p][kind[p]]]
  /\ config' = [config EXCEPT ![p] = NoBindings]
  /\ GoesOn(p, "finish")
  /\ UNCHANGED <<devices, kind, opened, key, deaths, torn, steady>>

\* The learner returns and drops the mice.
Finish(p) ==
  /\ pc[p] = "finish"
  /\ Fails(p)

\* F9 in run: the mice are let go, or grabbed again.
Toggle(p) ==
  /\ \/ pc[p] = "relay" /\ GoesOn(p, "off") /\ LetGo(p)
     \/ pc[p] = "off" /\ GoesOn(p, "regrab") /\ UNCHANGED holder
  /\ UNCHANGED <<plugged, unplugged, file, kind, opened, key, config, deaths, saved, torn, steady>>

\* pump finds a mouse gone, whether the relay is on or off.
RelayFails(p) ==
  /\ pc[p] \in {"relay", "off"} /\ opened[p] \cap unplugged # {}
  /\ Fails(p)

-----------------------------------------------------------------------------

\* The file is one that was saved before, or written by hand.
Init ==
  /\ plugged \in SUBSET Mice /\ unplugged = {}
  /\ holder = [m \in Mice |-> Nobody]
  /\ file \in [Names -> Keys \cup {None}]
  /\ kind = [p \in Programs |-> "run"] /\ pc = [p \in Programs |-> "idle"]
  /\ opened = [p \in Programs |-> {}] /\ key = [p \in Programs |-> None]
  /\ config = [p \in Programs |-> NoBindings]
  /\ deaths = 0 /\ saved = file /\ torn = FALSE /\ steady = plugged

\* What a program does without the user.
Step(p) == \/ LoadConfig(p) \/ Discover(p) \/ Grab(p) \/ GrabbedAll(p) \/ GrabFails(p)
           \/ CaptureFails(p) \/ Load(p) \/ Truncate(p) \/ Write(p) \/ Finish(p)
           \/ RelayFails(p)

Next == \/ \E m \in Mice : Plug(m) \/ Unplug(m)
        \/ \E p \in Programs : Start(p) \/ Dies(p) \/ Capture(p) \/ Toggle(p) \/ Step(p)

\* Every program runs; its wait for a key has a deadline.
Spec == Init /\ [][Next]_vars /\ \A p \in Programs : WF_vars(Step(p))

-----------------------------------------------------------------------------
(* Properties.                                                             *)

\* No program undoes what another one has saved: the file has, for every binding,
\* the key last saved, and whoever is about to write it has them too.  That needs
\* a mouse that is there all the time, as the grab is the only lock there is; and a
\* program that dies over the truncated file takes all bindings with it.
BindingsKept ==
  ~torn /\ steady # {} =>
    /\ \A n \in Names : file[n] = saved[n] \/ \E p \in Programs : pc[p] = "write"
    /\ \A p \in Programs, n \in Names :
         pc[p] \in {"truncate", "write"} /\ n # kind[p] => config[p][n] = saved[n]

\* A learner grabs the mice only for a while: whatever the user does, and whoever
\* else wants them, it lets go of each.
Holds(p) == \E m \in Mice : holder[m] = p

LearnersLetGo ==
  \A p \in Programs :
    kind[p] \in Names /\ Holds(p) ~> ~Holds(p)
=============================================================================
