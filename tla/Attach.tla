-------------------------------- MODULE Attach --------------------------------
(***************************************************************************)
(* How a reader gets hold of the game: connect_process resolves the name   *)
(* cs2 to a pid, asks for the start time of that pid, lists the modules of *)
(* the pair, opens a session for it, finds the offsets and reads.  Each    *)
(* step is a call of its own into the kernel module, processes end and     *)
(* pids are reused between them, and a game loads its modules while it is  *)
(* already running.                                                        *)
(*                                                                         *)
(* A start time is a number given out once: two processes with one pid do  *)
(* not start in the same tick of 10 ms.                                    *)
(***************************************************************************)
EXTENDS Naturals, FiniteSets

CONSTANTS
  Pids,           \* the pids there are
  MaxStarts,      \* bound: processes started
  MaxModules,     \* mappings of a game that has loaded everything
  FirstCapacity   \* entries of the first LIST_MODULES call (64)

ASSUME AttachAssumption ==
  /\ 0 \notin Pids   \* 0 stands for no pid
  /\ MaxStarts \in Nat /\ MaxModules \in Nat \ {0, 1} /\ FirstCapacity \in Nat \ {0}

VARIABLES
  proc,      \* the process of each pid: its name, start time and mappings
  started,   \* the last start time given out
  step,      \* connect_process: "resolve", "inspect", "list", "open", "offsets";
             \* the reader's loop: "check", "read"
  pid,       \* the pid resolved
  start,     \* the start time of the selector
  capacity,  \* of the entries passed to LIST_MODULES
  modules,   \* the modules listed: of which process, and how many
  target,    \* the selector in the session's slot
  from       \* history: the start times of the processes read in this session

world == <<proc, started>>
vars == <<proc, started, step, pid, start, capacity, modules, target, from>>

NoProcess == [name |-> "none", start |-> 0, mapped |-> 0]
NoModules == [of |-> 0, listed |-> 0]
Selector(p, s) == [pid |-> p, start |-> s]

-----------------------------------------------------------------------------
(* Processes.                                                              *)

\* A process starts under a free pid with one mapping: the game, or another one.
Starts == \E p \in Pids, name \in {"cs2", "other"} :
  /\ proc[p] = NoProcess /\ started < MaxStarts
  /\ proc' = [proc EXCEPT ![p] = [name |-> name, start |-> started + 1, mapped |-> 1]]
  /\ started' = started + 1
  /\ UNCHANGED <<step, pid, start, capacity, modules, target, from>>

Ends == \E p \in Pids :
  /\ proc[p] # NoProcess
  /\ proc' = [proc EXCEPT ![p] = NoProcess]
  /\ UNCHANGED <<started, step, pid, start, capacity, modules, target, from>>

\* The game maps one more module.
Loads == \E p \in Pids :
  /\ proc[p].name = "cs2" /\ proc[p].mapped < MaxModules
  /\ proc' = [proc EXCEPT ![p].mapped = @ + 1]
  /\ UNCHANGED <<started, step, pid, start, capacity, modules, target, from>>

-----------------------------------------------------------------------------
(* The kernel module.                                                      *)

\* thub_kernel_resolve_host_process: the processes with the name cs2.
Matches == {p \in Pids : proc[p].name = "cs2"}

\* Seeded fault: the pid alone names a process.
Lookup_PidOnly(selector) ==
  selector.pid \in Pids /\ proc[selector.pid] # NoProcess

\* thub_lookup_task finds the process of a selector: a process that has taken
\* over its pid is refused (ESTALE).
Lookup(selector) ==
  selector.pid \in Pids /\ proc[selector.pid] # NoProcess
    /\ proc[selector.pid].start = selector.start

-----------------------------------------------------------------------------
(* connect_process.                                                        *)

\* An error: no session is left; the reader starts over after a second.
Fails == /\ step' = "resolve"
         /\ pid' = 0 /\ start' = 0 /\ capacity' = FirstCapacity
         /\ modules' = NoModules /\ target' = Selector(0, 0) /\ from' = {}
         /\ UNCHANGED world

\* resolve_pid keeps the pid only; it fails unless exactly one process matches.
Resolve == /\ step = "resolve"
           /\ \E p \in Pids : Matches = {p} /\ pid' = p
           /\ step' = "inspect"
           /\ UNCHANGED <<world, start, capacity, modules, target, from>>

ResolveFails == step = "resolve" /\ Cardinality(Matches) # 1 /\ UNCHANGED vars

\* inspect_process_start_time asks for the process that has the pid by now.
Inspect == /\ step = "inspect"
           /\ proc[pid] # NoProcess
           /\ start' = proc[pid].start
           /\ step' = "list"
           /\ UNCHANGED <<world, pid, capacity, modules, target, from>>

InspectFails == step = "inspect" /\ proc[pid] = NoProcess /\ Fails

\* Seeded fault: too small a buffer is tried again as it is.
ListModules_SameCapacity ==
  /\ step = "list" /\ Lookup(Selector(pid, start))
  /\ IF proc[pid].mapped > capacity
     THEN UNCHANGED <<modules, step>>
     ELSE /\ modules' = [of |-> proc[pid].start, listed |-> proc[pid].mapped]
          /\ step' = "open"
  /\ UNCHANGED <<world, pid, start, target, from, capacity>>

\* list_modules: again with room for all when there were more than fitted.
ListModules ==
  /\ step = "list" /\ Lookup(Selector(pid, start))
  /\ IF proc[pid].mapped > capacity
     THEN /\ capacity' = proc[pid].mapped
          /\ UNCHANGED <<modules, step>>
     ELSE /\ modules' = [of |-> proc[pid].start, listed |-> proc[pid].mapped]
          /\ step' = "open"
          /\ UNCHANGED capacity
  /\ UNCHANGED <<world, pid, start, target, from>>

ListModulesFails == step = "list" /\ ~Lookup(Selector(pid, start)) /\ Fails

\* open_target stores the selector in the slot, unchecked.
OpenTarget == /\ step = "open"
              /\ target' = Selector(pid, start)
              /\ step' = "offsets"
              /\ UNCHANGED <<world, pid, start, capacity, modules, from>>

\* Whether the modules listed are those of a game that has loaded all of them; a
\* process of another name never maps the game's modules.
Complete == modules.listed = MaxModules

\* Seeded fault: offsets are made up when the modules of the game are not there.
FindOffsets_Unchecked == /\ step = "offsets"
                         /\ Lookup(target)
                         /\ from' = {proc[target.pid].start}
                         /\ step' = "check"
                         /\ UNCHANGED <<world, pid, start, capacity, modules, target>>

\* The offsets are found by reading the modules of a game.
FindOffsets == /\ step = "offsets"
               /\ Lookup(target) /\ Complete
               /\ from' = {proc[target.pid].start}
               /\ step' = "check"
               /\ UNCHANGED <<world, pid, start, capacity, modules, target>>

FindOffsetsFails == step = "offsets" /\ (~Lookup(target) \/ ~Complete) /\ Fails

-----------------------------------------------------------------------------
(* The reader's loop.                                                      *)

\* process_changed when exactly one process is found.
Changed == \E p \in Matches : p # pid \/ proc[p].start # start

\* A failed lookup is a change to fun-trigger and none to fun-radar: either.
LookupFails == Cardinality(Matches) # 1

Check == /\ step = "check" /\ (LookupFails \/ ~Changed)
         /\ step' = "read"
         /\ UNCHANGED <<world, pid, start, capacity, modules, target, from>>

CheckChanged == step = "check" /\ (LookupFails \/ Changed) /\ Fails

\* One read through the session's slot (thub_kernel_read_target).
Read == /\ step = "read" /\ Lookup(target)
        /\ from' = from \cup {proc[target.pid].start}
        /\ step' = "check"
        /\ UNCHANGED <<world, pid, start, capacity, modules, target>>

ReadFails == step = "read" /\ ~Lookup(target) /\ Fails

-----------------------------------------------------------------------------

Init == /\ proc = [p \in Pids |-> NoProcess] /\ started = 0
        /\ step = "resolve" /\ pid = 0 /\ start = 0 /\ capacity = FirstCapacity
        /\ modules = NoModules /\ target = Selector(0, 0) /\ from = {}

Processes == Starts \/ Ends \/ Loads

Reader == \/ Resolve \/ ResolveFails \/ Inspect \/ InspectFails \/ ListModules \/ ListModulesFails
          \/ OpenTarget \/ FindOffsets \/ FindOffsetsFails
          \/ Check \/ CheckChanged \/ Read \/ ReadFails

Next == Processes \/ Reader

\* The reader's thread tries again and again, and the game goes on loading.
Spec == Init /\ [][Next]_vars /\ WF_vars(Reader) /\ WF_vars(Loads)

-----------------------------------------------------------------------------
(* Properties.                                                             *)

\* The processes, the selector and the reader's locals keep their types.
TypeOK ==
  /\ proc \in [Pids -> [name : {"none", "cs2", "other"}, start : 0 .. MaxStarts,
                        mapped : 0 .. MaxModules]]
  /\ started \in 0 .. MaxStarts
  /\ step \in {"resolve", "inspect", "list", "open", "offsets", "check", "read"}
  /\ pid \in Pids \cup {0} /\ (pid = 0) = (step = "resolve")
  /\ start \in 0 .. MaxStarts
  /\ capacity \in Nat
  /\ modules \in [of : 0 .. MaxStarts, listed : 0 .. MaxModules]
  /\ target \in [pid : Pids \cup {0}, start : 0 .. MaxStarts]
  /\ from \subseteq 1 .. MaxStarts

\* The module list, the offsets and every value read in one session are of one
\* and the same process, the one with the start time process_changed compares,
\* although each comes from a call of its own and pids are reused in between.
OneProcess ==
  /\ modules # NoModules => modules.of = start
  /\ from \subseteq {start}

\* A process that took over the pid of cs2 between resolve_pid and
\* inspect_process_start_time does get a session, but not one that is read: the
\* reader only ever reads a process that was a game.
OnlyGamesRead ==
  step \in {"check", "read"} /\ Lookup(target) => proc[pid].name = "cs2"

\* Once one game runs for good, the reader ends up reading it, whatever it was
\* attached to or attaching to before; it does not stay with a process that is
\* gone, nor with a half-loaded one.
AttachesToTheGame == \A p \in Pids, s \in 1 .. MaxStarts :
  <>[](Matches = {p} /\ proc[p].start = s)
    => <>[](step \in {"check", "read"} /\ target = Selector(p, s))
=============================================================================
