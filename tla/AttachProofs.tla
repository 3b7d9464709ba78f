------------------------------ MODULE AttachProofs -----------------------------
(***************************************************************************)
(* For any pids, processes, mappings and size of the first module buffer:  *)
(* a session never mixes two processes and is only read of a game.         *)
(***************************************************************************)
EXTENDS Attach, Integers, TLAPS

\* A process has a start time given out already and a mapping; one that is not
\* the game never gets a second.
WellFormed(p) ==
  \/ proc[p] = NoProcess
  \/ /\ proc[p].name \in {"cs2", "other"}
     /\ proc[p].start \in 1 .. started
     /\ proc[p].mapped \in 1 .. MaxModules
     /\ proc[p].name = "other" => proc[p].mapped = 1

\* How far connect_process has come, and what it holds by then.
Progress ==
  /\ start \in 0 .. started
  /\ (start = 0) = (step \in {"resolve", "inspect"})
  /\ step \in {"resolve", "inspect", "list"} => modules = NoModules
  /\ step \in {"open", "offsets", "check", "read"} => modules.of = start
  /\ step \in {"offsets", "check", "read"} => target = Selector(pid, start)
  /\ step \notin {"check", "read"} => from = {}
  /\ from \subseteq {start}

\* The process the modules were listed of has not fewer of them since, and a
\* session that is read has seen them all.
Listed ==
  /\ step \in {"open", "offsets", "check", "read"} /\ proc[pid].start = start
       => modules.listed <= proc[pid].mapped
  /\ step \in {"check", "read"} => modules.listed = MaxModules

WorldOK == \A p \in Pids : WellFormed(p)

IInv == TypeOK /\ WorldOK /\ Progress /\ Listed

-----------------------------------------------------------------------------

LEMMA Ranges ==
  ASSUME TypeOK
  PROVE  /\ started \in 0 .. MaxStarts /\ MaxStarts \in Nat /\ MaxModules \in Nat \ {0, 1}
         /\ modules.of \in 0 .. MaxStarts /\ modules.listed \in 0 .. MaxModules
         /\ \A p \in Pids : /\ proc[p].start \in 0 .. MaxStarts
                            /\ proc[p].mapped \in 0 .. MaxModules
         /\ step # "resolve" => pid \in Pids
         /\ 0 \notin Pids /\ DOMAIN proc = Pids
<1>1. (pid = 0) = (step = "resolve") /\ pid \in Pids \cup {0}
  BY DEF TypeOK
<1>2. step # "resolve" => pid \in Pids
  BY <1>1, Zenon
<1> QED BY <1>2, AttachAssumption DEF TypeOK, AttachAssumption

LEMMA InitIInv == Init => IInv
<1> SUFFICES ASSUME Init PROVE IInv
  OBVIOUS
<1>1. /\ NoProcess \in [name : {"none", "cs2", "other"}, start : 0 .. MaxStarts,
                        mapped : 0 .. MaxModules]
      /\ NoModules \in [of : 0 .. MaxStarts, listed : 0 .. MaxModules]
      /\ Selector(0, 0) \in [pid : Pids \cup {0}, start : 0 .. MaxStarts]
  BY AttachAssumption DEF AttachAssumption, NoProcess, NoModules, Selector
<1>2. TypeOK
  BY <1>1, AttachAssumption DEF AttachAssumption, Init, TypeOK
<1>3. WorldOK /\ Progress /\ Listed
  BY DEF Init, WorldOK, WellFormed, Progress, Listed
<1> QED BY <1>2, <1>3 DEF IInv

\* What a step of the processes does to the one a session is about: it stays as it
\* is, gains a mapping, or is not that process any more.
LEMMA ProcessesKeepIInv ==
  ASSUME IInv, Processes
  PROVE  IInv'
<1> DEFINE P == [name : {"none", "cs2", "other"}, start : 0 .. MaxStarts,
                 mapped : 0 .. MaxModules]
<1>0. UNCHANGED <<step, pid, start, capacity, modules, target, from>>
  BY DEF Processes, Starts, Ends, Loads
<1>1. /\ started \in 0 .. MaxStarts /\ MaxStarts \in Nat /\ MaxModules \in Nat \ {0, 1}
      /\ proc \in [Pids -> P] /\ modules.listed \in 0 .. MaxModules
      /\ step # "resolve" => pid \in Pids
  BY Ranges DEF IInv, TypeOK
<1>2. start \in 0 .. started /\ (step \in {"resolve", "inspect"} <=> start = 0)
  BY DEF IInv, Progress
<1>3. CASE Starts
  <2>1. PICK p \in Pids, name \in {"cs2", "other"} :
          /\ proc[p] = NoProcess /\ started < MaxStarts /\ started' = started + 1
          /\ proc' = [proc EXCEPT ![p] =
                        [name |-> name, start |-> started + 1, mapped |-> 1]]
    BY <1>3 DEF Starts
  <2> DEFINE new == [name |-> name, start |-> started + 1, mapped |-> 1]
  <2>2. /\ new \in P /\ new.name = name /\ new.start = started + 1 /\ new.mapped = 1
        /\ started' \in 0 .. MaxStarts /\ started' = started + 1
    BY <1>1, <2>1
  <2>3. proc' = [proc EXCEPT ![p] = new]
    BY <2>1
  <2> HIDE DEF new
  <2>4. proc' \in [Pids -> P] /\ proc'[p] = new
          /\ \A q \in Pids : q # p => proc'[q] = proc[q]
    BY <1>1, <2>2, <2>3
  <2>5. TypeOK'
    BY <1>0, <2>2, <2>4 DEF IInv, TypeOK
  <2>6. WorldOK'
    <3> SUFFICES ASSUME NEW q \in Pids PROVE WellFormed(q)'
      BY DEF WorldOK
    <3>1. CASE q = p
      BY <1>1, <2>1, <2>2, <2>4, <3>1 DEF WellFormed
    <3>2. CASE q # p
      BY <1>1, <2>2, <2>4, <3>2 DEF IInv, WorldOK, WellFormed
    <3> QED BY <3>1, <3>2
  <2>7. Progress'
    BY <1>0, <1>1, <1>2, <2>2 DEF IInv, Progress, Selector
  <2>8. Listed'
    BY <1>0, <1>1, <1>2, <2>2, <2>4 DEF IInv, Listed
  <2> QED BY <2>5, <2>6, <2>7, <2>8 DEF IInv
<1>4. CASE Ends
  <2>1. PICK p \in Pids : proc' = [proc EXCEPT ![p] = NoProcess] /\ started' = started
    BY <1>4 DEF Ends
  <2>2. NoProcess \in P /\ NoProcess.start = 0
    BY <1>1 DEF NoProcess
  <2>3. proc' \in [Pids -> P] /\ proc'[p] = NoProcess
          /\ \A q \in Pids : q # p => proc'[q] = proc[q]
    BY <1>1, <2>1, <2>2
  <2>4. TypeOK'
    BY <1>0, <2>1, <2>3 DEF IInv, TypeOK
  <2>5. WorldOK'
    BY <2>1, <2>3 DEF IInv, WorldOK, WellFormed
  <2>6. Progress'
    BY <1>0, <2>1 DEF IInv, Progress, Selector
  <2>7. Listed'
    BY <1>0, <1>1, <1>2, <2>2, <2>3 DEF IInv, Listed
  <2> QED BY <2>4, <2>5, <2>6, <2>7 DEF IInv
<1>5. CASE Loads
  <2>1. PICK p \in Pids :
          /\ proc[p].name = "cs2" /\ proc[p].mapped < MaxModules /\ started' = started
          /\ proc' = [proc EXCEPT ![p].mapped = @ + 1]
    BY <1>5 DEF Loads
  <2>2. /\ proc[p] \in P
        /\ proc'[p] = [proc[p] EXCEPT !.mapped = @ + 1]
        /\ \A q \in Pids : q # p => proc'[q] = proc[q]
    BY <1>1, <2>1
  <2>3. /\ proc'[p].name = "cs2" /\ proc'[p].start = proc[p].start
        /\ proc'[p].mapped = proc[p].mapped + 1
        /\ proc'[p].mapped \in 1 .. MaxModules
        /\ proc'[p] \in P
    BY <1>1, <2>1, <2>2
  <2>4. proc' \in [Pids -> P]
    BY <1>1, <2>1, <2>3
  <2>5. TypeOK'
    BY <1>0, <2>1, <2>4 DEF IInv, TypeOK
  <2>6. WorldOK'
    <3> SUFFICES ASSUME NEW q \in Pids PROVE WellFormed(q)'
      BY DEF WorldOK
    <3>1. CASE q = p
      BY <2>1, <2>3, <3>1 DEF IInv, WorldOK, WellFormed, NoProcess
    <3>2. CASE q # p
      BY <2>1, <2>2, <3>2 DEF IInv, WorldOK, WellFormed
    <3> QED BY <3>1, <3>2
  <2>7. Progress'
    BY <1>0, <2>1 DEF IInv, Progress, Selector
  <2>8. Listed'
    BY <1>0, <1>1, <1>2, <2>1, <2>2, <2>3 DEF IInv, Listed
  <2> QED BY <2>5, <2>6, <2>7, <2>8 DEF IInv
<1> QED BY <1>3, <1>4, <1>5 DEF Processes

\* An error leaves nothing of the session.
LEMMA FailsKeepsIInv ==
  ASSUME IInv, Fails
  PROVE  IInv'
<1>1. /\ NoModules \in [of : 0 .. MaxStarts, listed : 0 .. MaxModules]
      /\ Selector(0, 0) \in [pid : Pids \cup {0}, start : 0 .. MaxStarts]
  BY AttachAssumption DEF AttachAssumption, NoModules, Selector
<1>2. TypeOK'
  BY <1>1, AttachAssumption DEF AttachAssumption, IInv, TypeOK, Fails, world
<1>3. WorldOK' /\ Progress' /\ Listed'
  <2>1. 0 \in 0 .. started
    BY Ranges DEF IInv
  <2> QED BY <2>1 DEF IInv, Fails, world, WorldOK, WellFormed, Progress, Listed
<1> QED BY <1>2, <1>3 DEF IInv

\* A step of the reader leaves the processes alone.
LEMMA WorldUnchanged ==
  ASSUME WorldOK, UNCHANGED world
  PROVE  WorldOK'
BY DEF WorldOK, WellFormed, world

LEMMA ReaderKeepsIInv ==
  ASSUME IInv, Reader
  PROVE  IInv'
<1> USE DEF IInv
<1>0. UNCHANGED world /\ WorldOK'
  <2>1. UNCHANGED world
    BY DEF Reader, Resolve, ResolveFails, Inspect, InspectFails, ListModules,
       ListModulesFails, OpenTarget, FindOffsets, FindOffsetsFails, Check, CheckChanged,
       Read, ReadFails, Fails, world, vars
  <2> QED BY <2>1, WorldUnchanged
<1>1. /\ started \in 0 .. MaxStarts /\ MaxStarts \in Nat /\ MaxModules \in Nat \ {0, 1}
      /\ step # "resolve" => pid \in Pids
      /\ 0 \notin Pids
      /\ \A p \in Pids : proc[p].start \in 0 .. MaxStarts /\ proc[p].mapped \in 0 .. MaxModules
  BY Ranges
<1>2. CASE Resolve
  <2>1. /\ step = "resolve" /\ step' = "inspect" /\ pid' \in Pids
        /\ UNCHANGED <<start, capacity, modules, target, from>>
    BY <1>2 DEF Resolve
  <2>2. TypeOK'
    BY <1>0, <1>1, <2>1 DEF TypeOK, world
  <2> QED BY <1>0, <2>1, <2>2 DEF Progress, Listed, world
<1>3. CASE ResolveFails
  BY <1>3 DEF ResolveFails, vars, TypeOK, WorldOK, WellFormed, Progress, Listed
<1>4. CASE Inspect
  <2>1. /\ step = "inspect" /\ step' = "list" /\ pid' = pid /\ pid \in Pids
        /\ start' = proc[pid].start /\ proc[pid] # NoProcess
        /\ UNCHANGED <<capacity, modules, target, from>>
    BY <1>1, <1>4 DEF Inspect
  <2>2. start' \in 1 .. started
    BY <2>1 DEF WorldOK, WellFormed
  <2>3. TypeOK'
    BY <1>0, <1>1, <2>1, <2>2 DEF TypeOK, world
  <2>4. Progress'
    BY <1>0, <1>1, <2>1, <2>2 DEF Progress, world
  <2> QED BY <1>0, <2>1, <2>3, <2>4 DEF Listed
<1>5. CASE InspectFails
  BY <1>5, FailsKeepsIInv DEF InspectFails
<1>6. CASE ListModules
  <2>1. /\ step = "list" /\ pid' = pid /\ start' = start /\ target' = target /\ from' = from
        /\ pid \in Pids /\ proc[pid].start = start
    BY <1>1, <1>6 DEF ListModules, Lookup, Selector
  <2>2. CASE proc[pid].mapped > capacity
    <3>1. /\ capacity' = proc[pid].mapped /\ modules' = modules /\ step' = step
      BY <1>6, <2>2 DEF ListModules
    <3>2. capacity' \in Nat
      BY <1>1, <2>1, <3>1
    <3>3. TypeOK'
      BY <1>0, <2>1, <3>1, <3>2 DEF TypeOK, world
    <3> QED BY <1>0, <2>1, <3>1, <3>3 DEF Progress, Listed, world
  <2>3. CASE ~(proc[pid].mapped > capacity)
    <3>1. /\ modules' = [of |-> proc[pid].start, listed |-> proc[pid].mapped]
          /\ step' = "open" /\ capacity' = capacity
      BY <1>6, <2>3 DEF ListModules
    <3>2. /\ modules' \in [of : 0 .. MaxStarts, listed : 0 .. MaxModules]
          /\ modules'.of = start /\ modules'.listed = proc[pid].mapped
      BY <1>1, <2>1, <3>1
    <3>3. TypeOK'
      BY <1>0, <2>1, <3>1, <3>2 DEF TypeOK, world
    <3>4. Progress'
      BY <1>0, <2>1, <3>1, <3>2 DEF Progress, world
    <3>5. Listed'
      BY <1>0, <1>1, <2>1, <3>1, <3>2 DEF Listed, world
    <3> QED BY <1>0, <3>3, <3>4, <3>5
  <2> QED BY <2>2, <2>3
<1>7. CASE ListModulesFails
  BY <1>7, FailsKeepsIInv DEF ListModulesFails
<1>8. CASE OpenTarget
  <2>1. /\ step = "open" /\ step' = "offsets" /\ target' = Selector(pid, start)
        /\ pid \in Pids
        /\ UNCHANGED <<pid, start, capacity, modules, from>>
    BY <1>1, <1>8 DEF OpenTarget
  <2>2. target' \in [pid : Pids \cup {0}, start : 0 .. MaxStarts]
    BY <2>1 DEF TypeOK, Selector
  <2>3. TypeOK'
    BY <1>0, <2>1, <2>2 DEF TypeOK, world
  <2> QED BY <1>0, <2>1, <2>3 DEF Progress, Listed, world, Selector
<1>9. CASE FindOffsets
  <2>1. /\ step = "offsets" /\ step' = "check" /\ modules.listed = MaxModules
        /\ target.pid \in Pids /\ proc[target.pid].start = target.start
        /\ from' = {proc[target.pid].start}
        /\ UNCHANGED <<pid, start, capacity, modules, target>>
    BY <1>9 DEF FindOffsets, Lookup, Complete
  <2>2. target.start = start /\ target = Selector(pid, start)
    BY <2>1 DEF Progress, Selector
  <2>3. start \in 1 .. MaxStarts /\ from' = {start}
    <3>1. start # 0
      BY <2>1 DEF Progress
    <3> QED BY <1>1, <2>1, <2>2, <3>1 DEF TypeOK
  <2>4. TypeOK'
    BY <1>0, <2>1, <2>3 DEF TypeOK, world
  <2>5. Progress'
    BY <1>0, <2>1, <2>2, <2>3 DEF Progress, world, Selector
  <2>6. Listed'
    BY <1>0, <2>1 DEF Listed, world
  <2> QED BY <1>0, <2>4, <2>5, <2>6
<1>10. CASE FindOffsetsFails
  BY <1>10, FailsKeepsIInv DEF FindOffsetsFails
<1>11. CASE Check
  <2>1. /\ step = "check" /\ step' = "read"
        /\ UNCHANGED <<pid, start, capacity, modules, target, from>>
    BY <1>11 DEF Check
  <2>2. TypeOK'
    BY <1>0, <2>1 DEF TypeOK, world
  <2> QED BY <1>0, <2>1, <2>2 DEF Progress, Listed, world, Selector
<1>12. CASE CheckChanged
  BY <1>12, FailsKeepsIInv DEF CheckChanged
<1>13. CASE Read
  <2>1. /\ step = "read" /\ step' = "check"
        /\ proc[target.pid].start = target.start
        /\ from' = from \cup {proc[target.pid].start}
        /\ UNCHANGED <<pid, start, capacity, modules, target>>
    BY <1>13 DEF Read, Lookup
  <2>2. target.start = start /\ target = Selector(pid, start)
    BY <2>1 DEF Progress, Selector
  <2>3. start \in 1 .. MaxStarts /\ from' = from \cup {start}
    <3>1. start # 0
      BY <2>1 DEF Progress
    <3> QED BY <1>1, <2>1, <2>2, <3>1 DEF TypeOK
  <2>4. TypeOK'
    BY <1>0, <2>1, <2>3 DEF TypeOK, world
  <2>5. Progress'
    <3>1. from' \subseteq {start}
      BY <2>3 DEF Progress
    <3> QED BY <1>0, <2>1, <3>1 DEF Progress, world, Selector
  <2>6. Listed'
    BY <1>0, <2>1 DEF Listed, world
  <2> QED BY <1>0, <2>4, <2>5, <2>6
<1>14. CASE ReadFails
  BY <1>14, FailsKeepsIInv DEF ReadFails
<1> QED BY <1>2, <1>3, <1>4, <1>5, <1>6, <1>7, <1>8, <1>9, <1>10, <1>11, <1>12, <1>13,
           <1>14 DEF Reader

LEMMA NextKeepsIInv == IInv /\ [Next]_vars => IInv'
<1> SUFFICES ASSUME IInv, [Next]_vars PROVE IInv'
  OBVIOUS
<1>1. CASE Next
  BY <1>1, ProcessesKeepIInv, ReaderKeepsIInv DEF Next
<1>2. CASE UNCHANGED vars
  BY <1>2 DEF vars, IInv, TypeOK, WorldOK, WellFormed, Progress, Listed
<1> QED BY <1>1, <1>2

\* The processes, the selector and the reader's locals keep their types.
THEOREM TypeCorrect == Spec => []TypeOK
<1>1. IInv => TypeOK
  BY DEF IInv
<1> QED BY <1>1, InitIInv, NextKeepsIInv, PTL DEF Spec

\* Whatever pids are reused when, the module list, the offsets and every value
\* read in a session are of one process.
THEOREM NeverMixed == Spec => []OneProcess
<1>1. IInv => OneProcess
  BY DEF IInv, TypeOK, Progress, OneProcess
<1> QED BY <1>1, InitIInv, NextKeepsIInv, PTL DEF Spec

\* A process that took over the pid between two calls of connect_process is never
\* read, unless it is a game itself.
THEOREM ReadsGames == Spec => []OnlyGamesRead
<1>1. IInv => OnlyGamesRead
  <2> SUFFICES ASSUME IInv, step \in {"check", "read"}, Lookup(target)
               PROVE  proc[pid].name = "cs2"
    BY DEF OnlyGamesRead
  <2>1. /\ target = Selector(pid, start) /\ modules.listed = MaxModules
    <3>1. Progress /\ Listed
      BY DEF IInv
    <3> QED BY <3>1 DEF Progress, Listed
  <2>2. pid \in Pids /\ proc[pid] # NoProcess /\ proc[pid].start = start
    BY <2>1 DEF Lookup, Selector
  <2>3. MaxModules <= proc[pid].mapped
    BY <2>1, <2>2 DEF IInv, Listed
  <2> QED BY <2>2, <2>3, Ranges DEF IInv, WorldOK, WellFormed
<1> QED BY <1>1, InitIInv, NextKeepsIInv, PTL DEF Spec
===============================================================================
