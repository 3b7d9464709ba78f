--------------------------- MODULE MouseRelayProofs ----------------------------
(***************************************************************************)
(* For any number of mice, buttons, reports and presses of F9: the left    *)
(* button has two holders and no third, F9 off releases everything, and    *)
(* the grab is all or nothing; and neither the synthetic button nor one    *)
(* the hands have pressed stays down when the hands have let go.           *)
(***************************************************************************)
EXTENDS MouseRelay, Integers, SequenceTheorems, FiniteSetTheorems, TLAPS

\* No two programs have a mouse grabbed.
OneGrab == \A m \in Mice : taken[m] => ~grabbed[m]

IInv == TypeOK /\ LeftHasTwoHolders /\ OffReleasesEverything /\ GrabFollowsSwitch /\ OneGrab

LEMMA InitIInv == Init => IInv
<1> SUFFICES ASSUME Init PROVE IInv
  OBVIOUS
<1>1. TypeOK
  <2>1. NumMice \in Nat \ {0} /\ HeldAtStart \subseteq Buttons
    BY RelayAssumption DEF RelayAssumption
  <2>2. phys \in [Mice -> SUBSET Buttons]
    BY <2>1 DEF Init
  <2>3. <<>> \in Seq(Event) /\ <<>> \in Seq(Keys)
    OBVIOUS
  <2>4. queue \in [Mice -> Seq(Event)] /\ fetched \in Seq(Event) /\ batch \in [Mice -> Seq(Keys)]
    BY <2>3 DEF Init
  <2>5. alive \in [Mice -> BOOLEAN] /\ grabbed \in [Mice -> BOOLEAN]
    BY DEF Init
  <2>6. /\ decision \in BOOLEAN /\ enabled \in BOOLEAN
        /\ physicalLeft \in BOOLEAN /\ syntheticLeft \in BOOLEAN
    BY DEF Init
  <2>7. /\ commands \in Nat /\ reports \in Nat /\ presses \in Nat /\ held \in Nat
        /\ cur \in 1 .. NumMice + 1 /\ pc = "commands"
        /\ emitted \subseteq Buttons /\ vdown \subseteq Buttons
    BY <2>1 DEF Init
  <2>8. /\ taken \in [Mice -> BOOLEAN] /\ missed \in Nat
        /\ overtaken \in [Mice -> SUBSET Buttons]
    BY DEF Init
  <2> QED BY <2>2, <2>4, <2>5, <2>6, <2>7, <2>8, Zenon DEF TypeOK
<1>2. LeftHasTwoHolders /\ OneGrab
  BY DEF Init, LeftHasTwoHolders, OneGrab
<1>3. OffReleasesEverything
  BY DEF Init, OffReleasesEverything
<1>4. GrabFollowsSwitch
  BY DEF Init, GrabFollowsSwitch
<1> QED BY <1>1, <1>2, <1>3, <1>4 DEF IInv

-----------------------------------------------------------------------------
(* The world keeps the invariant: it only adds events, commands and          *)
(* decisions, and takes mice away.                                           *)

LEMMA WorldMoves ==
  ASSUME World
  PROVE  \/ \E m \in Mice : \/ \E b, c \in Buttons : Moves(m, b, c)
                            \/ Unplug(m) \/ Take(m) \/ GiveBack(m)
         \/ KeyboardMonitor \/ TriggerClient
BY DEF World, Report, TakenReport

LEMMA WorldKeepsIInv ==
  ASSUME IInv, World
  PROVE  IInv'
<1> USE DEF IInv
<1> USE WorldMoves
<1>1. UNCHANGED <<pc, cur, fetched, enabled, grabbed, batch, held, virtual>>
  BY DEF Moves, Take, GiveBack, Unplug, KeyboardMonitor, TriggerClient
<1>2. /\ phys' \in [Mice -> SUBSET Buttons] /\ queue' \in [Mice -> Seq(Event)]
      /\ reports' \in Nat
  <2>1. CASE \E m \in Mice : Report(m)
    <3>1. PICK m \in Mice : Report(m)
      BY <2>1
    <3>2. PICK b \in Buttons, c \in Buttons :
            /\ Moves(m, b, c)
            /\ queue' = [queue EXCEPT ![m] = @ \o
                           IF b = c THEN <<Change(m, b), Syn>>
                                    ELSE <<Change(m, b), Change(m, c), Syn>>]
      BY <3>1 DEF Report
    <3>3. phys' \in [Mice -> SUBSET Buttons] /\ reports' \in Nat
      BY <3>2 DEF Moves, TypeOK
    <3>4. \A x \in Buttons : Change(m, x) \in Event /\ Syn \in Event
      BY DEF Change, Key, Event, Keys
    <3> DEFINE new == IF b = c THEN <<Change(m, b), Syn>>
                               ELSE <<Change(m, b), Change(m, c), Syn>>
    <3>5. new \in Seq(Event)
      BY <3>4
    <3> HIDE DEF new
    <3>6. queue[m] \in Seq(Event)
      BY DEF TypeOK
    <3>7. queue[m] \o new \in Seq(Event)
      BY <3>5, <3>6
    <3>8. queue' = [queue EXCEPT ![m] = queue[m] \o new]
      BY <3>2 DEF new
    <3> QED BY <3>3, <3>7, <3>8 DEF TypeOK
  <2>2. CASE \E m \in Mice : TakenReport(m)
    <3>1. PICK m \in Mice, b \in Buttons, c \in Buttons : Moves(m, b, c) /\ queue' = queue
      BY <2>2 DEF TakenReport
    <3> QED BY <3>1 DEF Moves, TypeOK
  <2>3. CASE ~ \E m \in Mice : Report(m) \/ TakenReport(m)
    BY <2>3 DEF World, Take, GiveBack, Unplug, KeyboardMonitor, TriggerClient, TypeOK
  <2> QED BY <2>1, <2>2, <2>3
<1>3. alive' \in [Mice -> BOOLEAN] /\ \A m \in Mice : alive'[m] => alive[m]
  BY DEF Moves, Take, GiveBack, Unplug, KeyboardMonitor, TriggerClient, TypeOK
<1>4. decision' \in BOOLEAN
  BY Zenon DEF Moves, Take, GiveBack, Unplug, KeyboardMonitor, TriggerClient, TypeOK
<1>5. commands' \in Nat /\ presses' \in Nat
  <2>1. commands \in Nat /\ presses \in Nat
    BY DEF TypeOK
  <2>2. CASE KeyboardMonitor
    BY <2>1, <2>2 DEF KeyboardMonitor
  <2>3. CASE ~KeyboardMonitor
    BY <2>1, <2>3 DEF Moves, Take, GiveBack, Unplug, TriggerClient
  <2> QED BY <2>2, <2>3
<1>6. /\ taken' \in [Mice -> BOOLEAN] /\ \A m \in Mice : taken'[m] => ~grabbed[m]
      /\ missed' \in Nat /\ overtaken' \in [Mice -> SUBSET Buttons]
  <2>1. CASE \E m \in Mice : TakenReport(m)
    <3>1. PICK m \in Mice, b \in Buttons, c \in Buttons :
            /\ taken' = taken
            /\ missed' = IF Binding \in {b, c} \cap phys[m] THEN missed + 1 ELSE missed
            /\ overtaken' = [overtaken EXCEPT ![m] =
                 @ \cup {x \in {b, c} : \E i \in DOMAIN Pending(m) : Pending(m)[i].key = x}]
      BY <2>1 DEF TakenReport, Moves
    <3>2. missed' \in Nat
      BY <3>1 DEF TypeOK
    <3> QED BY <3>1, <3>2 DEF TypeOK, OneGrab
  <2>2. CASE \E m \in Mice : Take(m) \/ GiveBack(m)
    BY <2>2 DEF Take, GiveBack, TypeOK, OneGrab
  <2>3. CASE ~ \E m \in Mice : TakenReport(m) \/ Take(m) \/ GiveBack(m)
    BY <2>3 DEF World, Report, Moves, Unplug, KeyboardMonitor, TriggerClient, neighbour, TypeOK, OneGrab
  <2> QED BY <2>1, <2>2, <2>3
<1>7. TypeOK'
  BY <1>1, <1>2, <1>3, <1>4, <1>5, <1>6, Zenon DEF TypeOK, virtual
<1>8. LeftHasTwoHolders' /\ OffReleasesEverything'
  BY <1>1 DEF virtual, LeftHasTwoHolders, OffReleasesEverything
<1>9. GrabFollowsSwitch' /\ OneGrab'
  BY <1>1, <1>3, <1>6 DEF GrabFollowsSwitch, OneGrab
<1> QED BY <1>7, <1>8, <1>9

-----------------------------------------------------------------------------
(* The virtual mouse.                                                        *)

\* What the operations on the virtual mouse keep, in the terms of LeftHasTwoHolders.
VirtualTypes ==
  /\ emitted \subseteq Buttons /\ vdown \subseteq Buttons
  /\ physicalLeft \in BOOLEAN /\ syntheticLeft \in BOOLEAN
TwoHolders == vdown = emitted /\ (Left \in emitted) = (physicalLeft \/ syntheticLeft)

LEMMA EmitBatchKeeps ==
  ASSUME VirtualTypes, NEW events, EmitBatch(events)
  PROVE  VirtualTypes' /\ TwoHolders'
<1> DEFINE others == {b \in Buttons \ {Left} : After(events, b, b \in emitted)}
<1>1. /\ emitted' = SyncLeft(others, physicalLeft', syntheticLeft) /\ vdown' = emitted'
      /\ syntheticLeft' = syntheticLeft
      /\ physicalLeft' = After(events, Left, physicalLeft)
  BY DEF EmitBatch
<1>2. physicalLeft' \in BOOLEAN
  BY <1>1, Zenon DEF After, PressedLast, Changes, VirtualTypes
<1>3. others \subseteq Buttons /\ Left \notin others /\ Left \in Buttons
  BY RelayAssumption DEF RelayAssumption
<1> HIDE DEF others
<1>4. emitted' \subseteq Buttons
        /\ (Left \in emitted') = (physicalLeft' \/ syntheticLeft')
  BY <1>1, <1>3 DEF SyncLeft
<1> QED BY <1>1, <1>2, <1>4, Zenon DEF VirtualTypes, TwoHolders

LEMMA SetSyntheticKeeps ==
  ASSUME VirtualTypes, TwoHolders, NEW down \in BOOLEAN, SetSyntheticLeft(down)
  PROVE  VirtualTypes' /\ TwoHolders' /\ syntheticLeft' = down
<1>1. CASE syntheticLeft = down
  BY <1>1, Zenon DEF SetSyntheticLeft, VirtualTypes, TwoHolders, virtual
<1>2. CASE syntheticLeft # down
  <2>1. /\ syntheticLeft' = down /\ vdown' = emitted' /\ physicalLeft' = physicalLeft
        /\ emitted' = SyncLeft(emitted \ {Left}, physicalLeft, down)
    BY <1>2 DEF SetSyntheticLeft
  <2>2. emitted' \subseteq Buttons
          /\ (Left \in emitted') = (physicalLeft' \/ syntheticLeft')
    BY <2>1, RelayAssumption DEF RelayAssumption, VirtualTypes, SyncLeft
  <2> QED BY <2>1, <2>2, Zenon DEF VirtualTypes, TwoHolders
<1> QED BY <1>1, <1>2

-----------------------------------------------------------------------------
(* The loop.                                                                 *)

LEMMA StopsKeepsIInv ==
  ASSUME IInv, Stops
  PROVE  IInv'
<1>1. grabbed' \in [Mice -> BOOLEAN] /\ batch' \in [Mice -> Seq(Keys)]
  BY DEF Stops
<1>2. cur' \in 1 .. NumMice + 1 /\ held' \in Nat /\ fetched' \in Seq(Event)
  BY RelayAssumption DEF RelayAssumption, Stops
<1>3. /\ physicalLeft' \in BOOLEAN /\ syntheticLeft' \in BOOLEAN
      /\ emitted' \subseteq Buttons /\ vdown' \subseteq Buttons /\ pc' = "stopped"
  BY DEF Stops
<1>4. UNCHANGED <<phys, queue, alive, decision, commands, reports, presses, enabled>>
      /\ UNCHANGED <<taken, missed, overtaken>>
  BY DEF Stops, world, neighbour
<1>5. TypeOK'
  BY <1>1, <1>2, <1>3, <1>4, Zenon DEF IInv, TypeOK
<1>6. LeftHasTwoHolders' /\ GrabFollowsSwitch' /\ OneGrab'
  BY <1>3 DEF Stops, LeftHasTwoHolders, GrabFollowsSwitch, OneGrab
<1>7. OffReleasesEverything'
  BY DEF Stops, OffReleasesEverything
<1> QED BY <1>5, <1>6, <1>7 DEF IInv

\* What the switch and the grab keep from a step that leaves them alone.
LEMMA SwitchKept ==
  ASSUME GrabFollowsSwitch, OneGrab, UNCHANGED <<enabled, grabbed, alive, neighbour>>,
         pc # "stopped"
  PROVE  GrabFollowsSwitch' /\ OneGrab'
BY DEF GrabFollowsSwitch, OneGrab, neighbour

\* The next mouse, or the decision when there is none.
LEMMA NextMouseTypes ==
  ASSUME cur \in Mice, NextMouse
  PROVE  /\ cur' \in 1 .. NumMice + 1 /\ pc' \in {"pump", "fire"}
         /\ pc' = "pump" => cur' \in Mice
BY RelayAssumption DEF RelayAssumption, Mice, NextMouse

LEMMA ToggleOffKeepsIInv ==
  ASSUME IInv, ToggleOff
  PROVE  IInv'
<1> USE DEF IInv
<1>1. /\ pc = "commands" /\ pc' = pc /\ cur' = cur /\ fetched' = fetched
      /\ UNCHANGED <<phys, queue, alive, decision, reports, presses, taken>>
      /\ held' = 0 /\ enabled' = FALSE /\ batch' = [m \in Mice |-> <<>>]
      /\ grabbed' = Ungrabbed
      /\ vdown' = vdown \ emitted /\ emitted' = {}
      /\ physicalLeft' = FALSE /\ syntheticLeft' = FALSE
  BY DEF ToggleOff, ReleasePressedButtons
<1>2. commands' \in Nat
  BY DEF ToggleOff, TypeOK
<1>3. vdown' = {}
  BY <1>1 DEF LeftHasTwoHolders
<1>4. grabbed' \in [Mice -> BOOLEAN] /\ \A m \in Mice : grabbed'[m] => ~alive'[m]
  BY <1>1 DEF Ungrabbed
<1>5. /\ batch' \in [Mice -> Seq(Keys)]
      /\ missed' \in Nat /\ overtaken' \in [Mice -> SUBSET Buttons]
  BY <1>1 DEF ToggleOff, TypeOK
<1>6. TypeOK'
  BY <1>1, <1>2, <1>3, <1>4, <1>5, Zenon DEF TypeOK
<1>7. LeftHasTwoHolders' /\ OffReleasesEverything'
  BY <1>1, <1>3 DEF LeftHasTwoHolders, OffReleasesEverything
<1>8. GrabFollowsSwitch' /\ OneGrab'
  BY <1>1, <1>4 DEF GrabFollowsSwitch, OneGrab, Ungrabbed
<1> QED BY <1>6, <1>7, <1>8

LEMMA ToggleOnKeepsIInv ==
  ASSUME IInv, ToggleOn
  PROVE  IInv'
<1> USE DEF IInv
<1>1. PICK failing \in 1 .. NumMice + 1 :
        /\ \A m \in Mice : m < failing => grabbed[m] \/ CanGrab(m)
        /\ grabbed' = Regrabbed(failing)
        /\ batch' = [m \in Mice |-> IF failing <= NumMice /\ m < failing THEN <<>> ELSE batch[m]]
        /\ enabled' = (failing > NumMice)
  BY DEF ToggleOn
<1>2. /\ pc = "commands" /\ pc' = pc /\ ~enabled
      /\ UNCHANGED <<phys, queue, alive, decision, reports, presses, cur, fetched, held, virtual>>
      /\ UNCHANGED <<taken, missed, overtaken>>
  BY DEF ToggleOn, neighbour
<1>3. commands' \in Nat
  BY DEF ToggleOn, TypeOK
<1>4. batch' \in [Mice -> Seq(Keys)]
  <2>1. \A m \in Mice : batch[m] \in Seq(Keys) /\ <<>> \in Seq(Keys)
    BY DEF TypeOK
  <2> QED BY <1>1, <2>1
<1>5. grabbed' \in [Mice -> BOOLEAN]
  BY <1>1 DEF Regrabbed, TypeOK
<1>6. GrabFollowsSwitch'
  <2>1. NumMice \in Nat
    BY RelayAssumption DEF RelayAssumption
  <2>2. CASE failing > NumMice
    <3>1. enabled' /\ \A m \in Mice : grabbed'[m]
      BY <1>1, <2>2 DEF Regrabbed
    <3> QED BY <3>1 DEF GrabFollowsSwitch
  <2>3. CASE ~(failing > NumMice)
    <3>1. ~enabled'
      BY <1>1, <2>3
    <3>2. \A m \in Mice : grabbed[m] => ~alive[m]
      BY <1>2 DEF GrabFollowsSwitch
    <3>3. \A m \in Mice : grabbed'[m] => ~alive[m]
      BY <1>1, <2>3, <3>2 DEF Regrabbed
    <3> QED BY <1>2, <3>1, <3>3 DEF GrabFollowsSwitch
  <2> QED BY <2>2, <2>3
<1>7. enabled' \in BOOLEAN
  BY <1>1
<1>8. TypeOK'
  BY <1>2, <1>3, <1>4, <1>5, <1>7, Zenon DEF TypeOK, virtual
<1>9. LeftHasTwoHolders'
  BY <1>2 DEF virtual, LeftHasTwoHolders
<1>10. OffReleasesEverything'
  BY <1>2 DEF virtual, OffReleasesEverything
<1>11. OneGrab'
  <2> SUFFICES ASSUME NEW m \in Mice, taken[m], grabbed'[m] PROVE FALSE
    BY <1>2 DEF OneGrab
  <2>1. ~grabbed[m] /\ m \in 1 .. NumMice /\ NumMice \in Nat
    BY RelayAssumption DEF RelayAssumption, OneGrab, Mice
  <2>2. ~(m < failing)
    BY <1>1, <2>1 DEF CanGrab
  <2>3. grabbed'[m] = grabbed[m]
    BY <1>1, <2>1, <2>2 DEF Regrabbed
  <2> QED BY <2>1, <2>3
<1> QED BY <1>6, <1>8, <1>9, <1>10, <1>11

LEMMA FetchKeepsIInv ==
  ASSUME IInv, Fetch
  PROVE  IInv'
<1> USE DEF IInv
<1>1. /\ pc = "pump" /\ pc' = "apply" /\ cur' = cur /\ cur \in Mice
      /\ UNCHANGED <<phys, alive, decision, commands, reports, presses, neighbour,
                     enabled, grabbed, batch, held, virtual>>
  BY DEF Fetch, TypeOK
<1>2. PICK n \in 1 .. Len(queue[cur]) :
        /\ fetched' = SubSeq(queue[cur], 1, n)
        /\ queue' = [queue EXCEPT ![cur] = SubSeq(@, n + 1, Len(@))]
  BY DEF Fetch
<1>3. queue[cur] \in Seq(Event) /\ Len(queue[cur]) \in Nat
  BY <1>1 DEF TypeOK
<1>4. fetched' \in Seq(Event) /\ fetched' # <<>>
  <2>1. Len(SubSeq(queue[cur], 1, n)) = n /\ SubSeq(queue[cur], 1, n) \in Seq(Event)
    BY <1>3
  <2> QED BY <1>2, <2>1
<1>5. SubSeq(queue[cur], n + 1, Len(queue[cur])) \in Seq(Event)
  BY <1>3
<1>6. queue' \in [Mice -> Seq(Event)]
  BY <1>2, <1>5 DEF TypeOK
<1>7. TypeOK'
  BY <1>1, <1>4, <1>6, Zenon DEF TypeOK, virtual, neighbour
<1>8. GrabFollowsSwitch' /\ OneGrab'
  BY <1>1, SwitchKept
<1> QED BY <1>1, <1>7, <1>8 DEF virtual, LeftHasTwoHolders, OffReleasesEverything

LEMMA FetchNothingKeepsIInv ==
  ASSUME IInv, FetchNothing \/ CommandsDone
  PROVE  IInv'
<1> USE DEF IInv
<1>1. /\ UNCHANGED <<world, fetched, enabled, grabbed, batch, held, virtual>>
      /\ pc # "stopped"
  BY DEF FetchNothing, CommandsDone
<1>2. cur' \in 1 .. NumMice + 1 /\ pc' \in {"pump", "fire"} /\ (pc' = "pump" => cur' \in Mice)
  <2>1. CASE FetchNothing
    BY <2>1, NextMouseTypes DEF FetchNothing, TypeOK
  <2>2. CASE CommandsDone
    BY <2>2, RelayAssumption DEF CommandsDone, RelayAssumption, Mice
  <2> QED BY <2>1, <2>2
<1>3. TypeOK'
  BY <1>1, <1>2 DEF TypeOK, world, virtual, neighbour
<1> QED BY <1>1, <1>3, SwitchKept
        DEF world, virtual, LeftHasTwoHolders, OffReleasesEverything

LEMMA ApplyKeepsIInv ==
  ASSUME IInv, Apply
  PROVE  IInv'
<1> USE DEF IInv
<1>1. /\ pc = "apply" /\ cur \in Mice /\ fetched # <<>> /\ fetched \in Seq(Event)
      /\ UNCHANGED <<phys, queue, alive, decision, commands, reports, presses, enabled, grabbed>>
      /\ UNCHANGED <<taken, missed, overtaken>>
      /\ fetched' = Tail(fetched)
  BY DEF Apply, TypeOK, world, neighbour
<1>2. VirtualTypes /\ TwoHolders /\ enabled \in BOOLEAN /\ batch[cur] \in Seq(Keys)
  BY <1>1 DEF TypeOK, VirtualTypes, TwoHolders, LeftHasTwoHolders
<1>3. /\ VirtualTypes' /\ TwoHolders' /\ held' \in Nat /\ batch' \in [Mice -> Seq(Keys)]
      /\ ~enabled => UNCHANGED virtual
  <2>1. CASE Head(fetched) = Syn
    <3>1. ProcessSyn
      BY <2>1 DEF Apply
    <3>2. held' = held /\ batch' \in [Mice -> Seq(Keys)]
      <4>1. <<>> \in Seq(Keys) /\ batch' = [batch EXCEPT ![cur] = <<>>]
        BY <3>1 DEF ProcessSyn
      <4> QED BY <3>1, <4>1 DEF ProcessSyn, TypeOK
    <3>3. CASE enabled /\ batch[cur] # <<>>
      <4>1. EmitBatch(batch[cur])
        BY <3>1, <3>3 DEF ProcessSyn
      <4> QED BY <1>2, <3>2, <3>3, <4>1, EmitBatchKeeps DEF TypeOK
    <3>4. CASE ~(enabled /\ batch[cur] # <<>>)
      <4>1. UNCHANGED virtual
        BY <3>1, <3>4 DEF ProcessSyn
      <4>2. VirtualTypes' /\ TwoHolders'
        BY <1>2, <4>1 DEF virtual, VirtualTypes, TwoHolders
      <4> QED BY <3>2, <4>1, <4>2 DEF TypeOK
    <3> QED BY <3>3, <3>4
  <2>2. CASE Head(fetched) # Syn
    <3>1. ProcessKey(Head(fetched))
      BY <2>2 DEF Apply
    <3>2. Head(fetched) \in Keys
      <4>1. Head(fetched) \in Event
        BY <1>1
      <4> QED BY <2>2, <4>1 DEF Event
    <3>3. UNCHANGED virtual
      BY <3>1 DEF ProcessKey
    <3>4. VirtualTypes' /\ TwoHolders'
      BY <1>2, <3>3 DEF virtual, VirtualTypes, TwoHolders
    <3>5. held' \in Nat
      <4>1. held' = Observed(Head(fetched)) /\ held \in Nat
        BY <3>1 DEF ProcessKey, TypeOK
      <4> QED BY <4>1 DEF Observed
    <3>6. batch' \in [Mice -> Seq(Keys)]
      <4>1. Append(batch[cur], Head(fetched)) \in Seq(Keys)
        BY <1>2, <3>2
      <4>2. batch \in [Mice -> Seq(Keys)]
        BY DEF TypeOK
      <4>3. batch' = [batch EXCEPT ![cur] = Append(batch[cur], Head(fetched))] \/ batch' = batch
        BY <3>1 DEF ProcessKey
      <4> QED BY <4>1, <4>2, <4>3
    <3> QED BY <3>3, <3>4, <3>5, <3>6
  <2> QED BY <2>1, <2>2
<1>4. /\ fetched' \in Seq(Event)
      /\ cur' \in 1 .. NumMice + 1 /\ pc' \in {"pump", "apply", "fire"}
      /\ pc' \in {"pump", "apply"} => cur' \in Mice
      /\ pc' = "apply" => fetched' # <<>>
  <2>1. fetched' \in Seq(Event) /\ Len(fetched') = Len(fetched) - 1 /\ Len(fetched) \in Nat \ {0}
    BY <1>1
  <2>2. CASE Len(fetched) = 1
    BY <1>1, <2>1, <2>2, NextMouseTypes DEF Apply
  <2>3. CASE Len(fetched) # 1
    <3>1. cur' = cur /\ pc' = pc
      BY <2>3 DEF Apply
    <3>2. fetched' # <<>>
      <4>1. Len(fetched') # 0
        BY <2>1, <2>3
      <4> QED BY <4>1
    <3> QED BY <1>1, <2>1, <3>1, <3>2 DEF TypeOK
  <2> QED BY <2>2, <2>3
<1>5. TypeOK'
  BY <1>1, <1>3, <1>4, Zenon DEF TypeOK, VirtualTypes
<1>6. LeftHasTwoHolders'
  BY <1>3 DEF TwoHolders, LeftHasTwoHolders
<1>7. OffReleasesEverything'
  BY <1>1, <1>3 DEF virtual, OffReleasesEverything
<1>8. GrabFollowsSwitch' /\ OneGrab'
  BY <1>1, SwitchKept DEF neighbour
<1> QED BY <1>5, <1>6, <1>7, <1>8

LEMMA FireKeepsIInv ==
  ASSUME IInv, Fire
  PROVE  IInv'
<1> USE DEF IInv
<1>1. /\ pc = "fire" /\ pc' = "commands" /\ SetSyntheticLeft(ShouldFire)
      /\ UNCHANGED <<world, cur, fetched, enabled, grabbed, batch, held>>
  BY DEF Fire
<1>2. VirtualTypes /\ TwoHolders /\ ShouldFire \in BOOLEAN
  BY <1>1 DEF TypeOK, VirtualTypes, TwoHolders, LeftHasTwoHolders, ShouldFire
<1>3. VirtualTypes' /\ TwoHolders'
  BY <1>1, <1>2, SetSyntheticKeeps
<1>4. ~enabled => UNCHANGED virtual
  <2>1. ASSUME ~enabled PROVE syntheticLeft = FALSE /\ ShouldFire = FALSE
    BY <1>2, <2>1 DEF OffReleasesEverything, ShouldFire, VirtualTypes
  <2> QED BY <1>1, <2>1 DEF SetSyntheticLeft
<1>5. TypeOK'
  BY <1>1, <1>3, Zenon DEF TypeOK, VirtualTypes, world, neighbour
<1>6. LeftHasTwoHolders'
  BY <1>3 DEF TwoHolders, LeftHasTwoHolders
<1>7. OffReleasesEverything'
  BY <1>1, <1>4 DEF virtual, OffReleasesEverything
<1>8. GrabFollowsSwitch' /\ OneGrab'
  BY <1>1, SwitchKept DEF world
<1> QED BY <1>5, <1>6, <1>7, <1>8

LEMMA NextKeepsIInv == IInv /\ [Next]_vars => IInv'
<1> SUFFICES ASSUME IInv, [Next]_vars PROVE IInv'
  OBVIOUS
<1>1. CASE Loop
  <2>1. FetchFails \/ EmitFails => Stops
    BY DEF FetchFails, EmitFails
  <2> QED BY <1>1, <2>1, ToggleOffKeepsIInv, ToggleOnKeepsIInv, FetchKeepsIInv,
             FetchNothingKeepsIInv, ApplyKeepsIInv, FireKeepsIInv, StopsKeepsIInv
          DEF Loop
<1>2. CASE World
  BY <1>2, WorldKeepsIInv
<1>3. CASE UNCHANGED vars
  BY <1>3 DEF vars, IInv, TypeOK, LeftHasTwoHolders, OffReleasesEverything,
              GrabFollowsSwitch, OneGrab
<1> QED BY <1>1, <1>2, <1>3 DEF Next

\* The relay's books, the queues and the flags keep their types.
THEOREM TypeCorrect == Spec => []TypeOK
<1>1. IInv => TypeOK
  BY DEF IInv
<1> QED BY <1>1, InitIInv, NextKeepsIInv, PTL DEF Spec

\* For any mice and buttons: what the relay believes pressed is pressed, and the
\* left button is down exactly when the hand or the trigger holds it.
THEOREM LeftIsRight == Spec => []LeftHasTwoHolders
<1>1. IInv => LeftHasTwoHolders
  BY DEF IInv
<1> QED BY <1>1, InitIInv, NextKeepsIInv, PTL DEF Spec

\* While the relay is off nothing is pressed on the virtual mouse, whatever was
\* held, queued or in a batch when F9 was pressed.
THEOREM OffIsOff == Spec => []OffReleasesEverything
<1>1. IInv => OffReleasesEverything
  BY DEF IInv
<1> QED BY <1>1, InitIInv, NextKeepsIInv, PTL DEF Spec

\* Every mouse is grabbed while the relay is on, and no live one while it is off,
\* whichever grab fails.
THEOREM AllOrNothing == Spec => []GrabFollowsSwitch
<1>1. IInv => GrabFollowsSwitch
  BY DEF IInv
<1> QED BY <1>1, InitIInv, NextKeepsIInv, PTL DEF Spec

-----------------------------------------------------------------------------
(* The hands.  The queue of a mouse holds presses and releases of a button   *)
(* in turn; from the next one on, they tell what the loop has seen so far.   *)

\* Whether a button is down before event i of s, if after s it is when it is in `hand`.
DownAt(s, b, hand, i) ==
  IF \E j \in DOMAIN s : j >= i /\ s[j].key = b
  THEN \E j \in DOMAIN s : /\ j >= i /\ s[j].key = b /\ s[j].value = 0
                           /\ \A k \in DOMAIN s : k >= i /\ s[k].key = b => j <= k
  ELSE b \in hand

\* The events of b in s are presses and releases in turn and end with what `hand` says.
Alternates(s, b, hand) ==
  \A i \in DOMAIN s : s[i].key = b => DownAt(s, b, hand, i + 1) <=> (s[i].value = 1)

LEMMA EventValues == \A e \in Event : e.value \in {0, 1}
BY DEF Event, Keys, Key, Syn

\* The report of a change goes to the end: what was down before the other events stays.
LEMMA AppendEvent ==
  ASSUME NEW s \in Seq(Event), NEW e \in Event, NEW b \in Buttons,
         NEW hand, NEW after,
         e.key = b => e.value = (IF b \in hand THEN 0 ELSE 1) /\ (b \in after <=> b \notin hand),
         e.key # b => (b \in after <=> b \in hand)
  PROVE  /\ DownAt(Append(s, e), b, after, 1) <=> DownAt(s, b, hand, 1)
         /\ Alternates(s, b, hand) => Alternates(Append(s, e), b, after)
<1> DEFINE t == Append(s, e)
<1>1. /\ Len(s) \in Nat /\ DOMAIN s = 1 .. Len(s) /\ DOMAIN t = 1 .. Len(s) + 1
      /\ t[Len(s) + 1] = e /\ \A i \in 1 .. Len(s) : t[i] = s[i]
  OBVIOUS
<1> HIDE DEF t
<1>2. ASSUME NEW i \in 1 .. Len(s) + 1 PROVE DownAt(t, b, after, i) <=> DownAt(s, b, hand, i)
  <2>1. CASE \E j \in DOMAIN s : j >= i /\ s[j].key = b
    <3>1. \E j \in DOMAIN t : j >= i /\ t[j].key = b
      BY <1>1, <2>1
    <3>2. \A j \in DOMAIN t :
            j >= i /\ t[j].key = b /\ (\A k \in DOMAIN t : k >= i /\ t[k].key = b => j <= k)
            => j \in DOMAIN s
      BY <1>1, <2>1
    <3>3. \A j \in DOMAIN s :
            (\A k \in DOMAIN s : k >= i /\ s[k].key = b => j <= k)
            => (\A k \in DOMAIN t : k >= i /\ t[k].key = b => j <= k)
      BY <1>1
    <3>4. \A j \in DOMAIN s :
            (\A k \in DOMAIN t : k >= i /\ t[k].key = b => j <= k)
            => (\A k \in DOMAIN s : k >= i /\ s[k].key = b => j <= k)
      BY <1>1
    <3>5. ASSUME DownAt(s, b, hand, i) PROVE DownAt(t, b, after, i)
      <4>1. PICK j \in DOMAIN s : /\ j >= i /\ s[j].key = b /\ s[j].value = 0
                                  /\ \A k \in DOMAIN s : k >= i /\ s[k].key = b => j <= k
        BY <2>1, <3>5 DEF DownAt
      <4>2. j \in DOMAIN t /\ t[j] = s[j]
        BY <1>1
      <4> QED
        BY <3>1, <3>3, <4>1, <4>2 DEF DownAt
    <3>6. ASSUME DownAt(t, b, after, i) PROVE DownAt(s, b, hand, i)
      <4>1. PICK j \in DOMAIN t : /\ j >= i /\ t[j].key = b /\ t[j].value = 0
                                  /\ \A k \in DOMAIN t : k >= i /\ t[k].key = b => j <= k
        BY <3>1, <3>6 DEF DownAt
      <4>2. j \in DOMAIN s /\ s[j] = t[j]
        BY <1>1, <3>2, <4>1
      <4> QED
        BY <2>1, <3>4, <4>1, <4>2 DEF DownAt
    <3> QED
      BY <3>5, <3>6
  <2>2. CASE ~ \E j \in DOMAIN s : j >= i /\ s[j].key = b
    <3>1. DownAt(s, b, hand, i) <=> b \in hand
      BY <2>2 DEF DownAt
    <3>2. CASE e.key # b
      <4>1. ~ \E j \in DOMAIN t : j >= i /\ t[j].key = b
        BY <1>1, <2>2, <3>2
      <4> QED
        BY <3>1, <3>2, <4>1 DEF DownAt
    <3>3. CASE e.key = b
      <4>1. \A j \in DOMAIN t : j >= i /\ t[j].key = b <=> j = Len(s) + 1
        BY <1>1, <2>2, <3>3
      <4>2. DownAt(t, b, after, i) <=> (e.value = 0)
        BY <1>1, <4>1 DEF DownAt
      <4> QED
        BY <3>1, <3>3, <4>2
    <3> QED
      BY <3>2, <3>3
  <2> QED
    BY <2>1, <2>2
<1>3. ASSUME Alternates(s, b, hand), NEW i \in DOMAIN t, t[i].key = b
      PROVE  DownAt(t, b, after, i + 1) <=> (t[i].value = 1)
  <2>1. CASE i <= Len(s)
    <3>1. i \in DOMAIN s /\ i + 1 \in 1 .. Len(s) + 1 /\ t[i] = s[i]
      BY <1>1, <2>1
    <3>2. DownAt(s, b, hand, i + 1) <=> (s[i].value = 1)
      BY <1>3, <3>1 DEF Alternates
    <3> QED
      BY <1>2, <3>1, <3>2
  <2>2. CASE i = Len(s) + 1
    <3>1. DownAt(t, b, after, i + 1) <=> b \in after
      BY <1>1, <2>2 DEF DownAt
    <3> QED
      BY <1>1, <1>3, <2>2, <3>1
  <2> QED
    BY <1>1, <2>1, <2>2
<1>4. DownAt(t, b, after, 1) <=> DownAt(s, b, hand, 1)
  BY <1>1, <1>2
<1> QED
  BY <1>3, <1>4 DEF t, Alternates

\* The loop takes the first event.
LEMMA TailEvent ==
  ASSUME NEW s \in Seq(Event), s # <<>>, NEW b \in Buttons, NEW hand
  PROVE  /\ Alternates(s, b, hand) => Alternates(Tail(s), b, hand)
         /\ Head(s).key # b => DownAt(Tail(s), b, hand, 1) <=> DownAt(s, b, hand, 1)
         /\ Head(s).key = b /\ Alternates(s, b, hand) =>
              /\ DownAt(s, b, hand, 1) <=> (Head(s).value = 0)
              /\ DownAt(Tail(s), b, hand, 1) <=> (Head(s).value = 1)
<1> DEFINE t == Tail(s)
<1>1. /\ Len(s) \in Nat \ {0} /\ DOMAIN s = 1 .. Len(s) /\ DOMAIN t = 1 .. Len(s) - 1
      /\ \A i \in 1 .. Len(s) - 1 : t[i] = s[i + 1]
      /\ Head(s) = s[1]
  OBVIOUS
<1> HIDE DEF t
<1>2. ASSUME NEW i \in Nat \ {0} PROVE DownAt(t, b, hand, i) <=> DownAt(s, b, hand, i + 1)
  <2>1. \A j \in DOMAIN t : j + 1 \in DOMAIN s /\ t[j] = s[j + 1] /\ (j >= i <=> j + 1 >= i + 1)
    BY <1>1
  <2>2. \A j \in DOMAIN s : j >= i + 1 => j - 1 \in DOMAIN t /\ t[j - 1] = s[j] /\ j - 1 >= i
    BY <1>1
  <2>3. (\E j \in DOMAIN t : j >= i /\ t[j].key = b) <=> (\E j \in DOMAIN s : j >= i + 1 /\ s[j].key = b)
    BY <1>1, <2>1, <2>2
  <2>4. ASSUME NEW j \in DOMAIN t, j >= i, t[j].key = b, t[j].value = 0,
               \A k \in DOMAIN t : k >= i /\ t[k].key = b => j <= k
        PROVE  \E l \in DOMAIN s : /\ l >= i + 1 /\ s[l].key = b /\ s[l].value = 0
                                   /\ \A k \in DOMAIN s : k >= i + 1 /\ s[k].key = b => l <= k
    <3>1. j + 1 \in DOMAIN s /\ j + 1 >= i + 1 /\ s[j + 1].key = b /\ s[j + 1].value = 0
      BY <1>1, <2>1, <2>4
    <3>2. \A k \in DOMAIN s : k >= i + 1 /\ s[k].key = b => j + 1 <= k
      BY <1>1, <2>2, <2>4
    <3> QED
      BY <3>1, <3>2
  <2>5. ASSUME NEW j \in DOMAIN s, j >= i + 1, s[j].key = b, s[j].value = 0,
               \A k \in DOMAIN s : k >= i + 1 /\ s[k].key = b => j <= k
        PROVE  \E l \in DOMAIN t : /\ l >= i /\ t[l].key = b /\ t[l].value = 0
                                   /\ \A k \in DOMAIN t : k >= i /\ t[k].key = b => l <= k
    <3>1. j - 1 \in DOMAIN t /\ j - 1 >= i /\ t[j - 1].key = b /\ t[j - 1].value = 0
      BY <1>1, <2>2, <2>5
    <3>2. \A k \in DOMAIN t : k >= i /\ t[k].key = b => j - 1 <= k
      BY <1>1, <2>1, <2>5
    <3> QED
      BY <3>1, <3>2
  <2> QED
    BY <2>3, <2>4, <2>5 DEF DownAt
<1>3. ASSUME Alternates(s, b, hand), NEW i \in DOMAIN t, t[i].key = b
      PROVE  DownAt(t, b, hand, i + 1) <=> (t[i].value = 1)
  <2>1. i \in Nat \ {0} /\ i + 1 \in Nat \ {0} /\ i + 1 \in DOMAIN s /\ t[i] = s[i + 1]
    BY <1>1
  <2> QED
    BY <1>2, <1>3, <2>1 DEF Alternates
<1>4. DownAt(t, b, hand, 1) <=> DownAt(s, b, hand, 2)
  BY <1>2
<1>5. ASSUME s[1].key # b PROVE DownAt(s, b, hand, 2) <=> DownAt(s, b, hand, 1)
  <2>1. \A j \in DOMAIN s : s[j].key = b => (j >= 1 <=> j >= 2)
    BY <1>1, <1>5
  <2> QED
    BY <2>1 DEF DownAt
<1>6. ASSUME s[1].key = b, Alternates(s, b, hand)
      PROVE  /\ DownAt(s, b, hand, 1) <=> (s[1].value = 0)
             /\ DownAt(s, b, hand, 2) <=> (s[1].value = 1)
  <2>1. 1 \in DOMAIN s /\ \A j \in DOMAIN s : j >= 1
    BY <1>1
  <2>2. DownAt(s, b, hand, 1) <=> (s[1].value = 0)
    BY <1>1, <1>6, <2>1 DEF DownAt
  <2> QED
    BY <1>6, <2>1, <2>2 DEF Alternates
<1> QED
  BY <1>1, <1>3, <1>4, <1>5, <1>6 DEF t, Alternates

\* Of the hand, only what it does with the button counts, and that only after the events.
LEMMA HandOnly ==
  ASSUME NEW s \in Seq(Event), NEW b \in Buttons, NEW hand, NEW after
  PROVE  /\ (b \in after <=> b \in hand) =>
              /\ DownAt(s, b, after, 1) <=> DownAt(s, b, hand, 1)
              /\ Alternates(s, b, hand) => Alternates(s, b, after)
         /\ (\E i \in DOMAIN s : s[i].key = b) =>
              (DownAt(s, b, after, 1) <=> DownAt(s, b, hand, 1))
         /\ (\A i \in DOMAIN s : s[i].key # b) =>
              /\ DownAt(s, b, hand, 1) <=> b \in hand
              /\ Alternates(s, b, hand)
<1>1. ASSUME b \in after <=> b \in hand, NEW i PROVE DownAt(s, b, after, i) <=> DownAt(s, b, hand, i)
  BY <1>1 DEF DownAt
<1>2. ASSUME b \in after <=> b \in hand, Alternates(s, b, hand) PROVE Alternates(s, b, after)
  BY <1>1, <1>2 DEF Alternates
<1>3. ASSUME \E i \in DOMAIN s : s[i].key = b
      PROVE  DownAt(s, b, after, 1) <=> DownAt(s, b, hand, 1)
  <2>1. \E i \in DOMAIN s : i >= 1 /\ s[i].key = b
    BY <1>3
  <2> QED
    BY <2>1 DEF DownAt
<1>4. ASSUME \A i \in DOMAIN s : s[i].key # b
      PROVE  (DownAt(s, b, hand, 1) <=> b \in hand) /\ Alternates(s, b, hand)
  BY <1>4 DEF DownAt, Alternates
<1> QED
  BY <1>1, <1>2, <1>3, <1>4

-----------------------------------------------------------------------------
(* The invariants about the hands.                                           *)

\* The events pending for a button are presses and releases in turn, and the last of
\* them is what the hand does now: unless some that followed them were taken.
QueuesAlternate ==
  pc # "stopped" =>
    \A m \in Mice, b \in Buttons : b \notin overtaken[m] => Alternates(Pending(m), b, phys[m])

\* A batch ends, for each of its buttons, in what the loop has seen of the button last;
\* while the relay is off the batches are empty.
BatchesAgree ==
  pc # "stopped" =>
    \A m \in Mice :
      /\ ~enabled => batch[m] = <<>>
      /\ \A b \in Buttons :
           b \notin overtaken[m] /\ Changes(batch[m], b) =>
             (PressedLast(batch[m], b) <=> Seen(m, b))

\* A button the hands have pressed on the virtual mouse is held by one of them, or its
\* release waits in a batch or was taken.
Pressed(b) == IF b = Left THEN physicalLeft ELSE b \in emitted
Waits(b) == \E m \in Mice : \/ Seen(m, b) \/ b \in overtaken[m]
                           \/ \E i \in DOMAIN batch[m] : batch[m][i] = Key(b, 0)
HandsHold == pc # "stopped" => \A b \in Buttons : Pressed(b) => Waits(b)

Hands == QueuesAlternate /\ BatchesAgree /\ HandsHold /\ FireNeedsHold

\* Seen, of any sequence of events.
SeenIn(s, b, hand) ==
  LET of == {i \in DOMAIN s : s[i].key = b}
  IN IF of = {} THEN b \in hand
     ELSE \E i \in of : (\A j \in of : i <= j) /\ s[i].value = 0

LEMMA SeenIsDown ==
  ASSUME NEW s \in Seq(Event), NEW b, NEW hand
  PROVE  SeenIn(s, b, hand) <=> DownAt(s, b, hand, 1)
<1> DEFINE of == {i \in DOMAIN s : s[i].key = b}
<1>1. SeenIn(s, b, hand) <=> IF of = {} THEN b \in hand
                             ELSE \E i \in of : (\A j \in of : i <= j) /\ s[i].value = 0
  BY DEF SeenIn
<1>2. \A j \in DOMAIN s : j >= 1
  OBVIOUS
<1> QED
  BY <1>1, <1>2 DEF DownAt

LEMMA SeenOf ==
  ASSUME NEW m \in Mice, NEW b \in Buttons
  PROVE  /\ Seen(m, b) = SeenIn(Pending(m), b, phys[m])
         /\ Seen(m, b)' = SeenIn(Pending(m)', b, phys'[m])
BY DEF Seen, SeenIn

LEMMA PendingTypes ==
  ASSUME TypeOK, NEW m \in Mice
  PROVE  Pending(m) \in Seq(Event)
BY DEF TypeOK, Pending

SeenSame == \A m \in Mice, b \in Buttons : Seen(m, b)' <=> Seen(m, b)

\* A step that neither takes events from what is pending nor adds to it.
LEMMA PendingSame ==
  ASSUME QueuesAlternate, phys' = phys, overtaken' = overtaken, pc # "stopped",
         \A m \in Mice : Pending(m)' = Pending(m)
  PROVE  SeenSame /\ QueuesAlternate'
<1>1. SeenSame
  BY SeenOf DEF SeenSame
<1>2. QueuesAlternate'
  BY DEF QueuesAlternate
<1> QED
  BY <1>1, <1>2

LEMMA PendingKept ==
  ASSUME UNCHANGED queue, UNCHANGED <<pc, cur, fetched>> \/ (pc # "apply" /\ pc' # "apply")
  PROVE  \A m \in Mice : Pending(m)' = Pending(m)
BY DEF Pending

LEMMA FetchPending ==
  ASSUME TypeOK, Fetch
  PROVE  \A m \in Mice : Pending(m)' = Pending(m)
<1>1. /\ pc = "pump" /\ pc' = "apply" /\ cur' = cur /\ cur \in Mice
  BY DEF Fetch, TypeOK
<1>2. PICK n \in 1 .. Len(queue[cur]) :
        /\ fetched' = SubSeq(queue[cur], 1, n)
        /\ queue' = [queue EXCEPT ![cur] = SubSeq(@, n + 1, Len(@))]
  BY DEF Fetch
<1>3. queue[cur] \in Seq(Event) /\ queue \in [Mice -> Seq(Event)]
  BY <1>1 DEF TypeOK
<1>4. SubSeq(queue[cur], 1, n) \o SubSeq(queue[cur], n + 1, Len(queue[cur])) = queue[cur]
  BY <1>3
<1>5. ASSUME NEW m \in Mice PROVE Pending(m)' = Pending(m)
  <2>1. Pending(m) = <<>> \o queue[m] /\ queue[m] \in Seq(Event)
    BY <1>1, <1>3 DEF Pending
  <2>2. CASE m = cur
    BY <1>1, <1>2, <1>3, <1>4, <2>1, <2>2 DEF Pending
  <2>3. CASE m # cur
    BY <1>1, <1>2, <1>3, <2>1, <2>3 DEF Pending
  <2> QED
    BY <2>2, <2>3
<1> QED
  BY <1>5

LEMMA ReportPending ==
  ASSUME TypeOK, QueuesAlternate, pc # "stopped", NEW m \in Mice, Report(m)
  PROVE  SeenSame /\ QueuesAlternate'
<1>1. PICK b \in Buttons, c \in Buttons :
        /\ phys' = [phys EXCEPT ![m] = (@ \ {b, c}) \cup ({b, c} \ @)]
        /\ queue' = [queue EXCEPT ![m] = @ \o
                       IF b = c THEN <<Change(m, b), Syn>>
                                ELSE <<Change(m, b), Change(m, c), Syn>>]
        /\ UNCHANGED <<pc, cur, fetched, overtaken>>
  BY DEF Report, Moves
<1>2. UNCHANGED <<pc, cur, fetched, overtaken>> /\ phys \in [Mice -> SUBSET Buttons]
      /\ queue \in [Mice -> Seq(Event)] /\ fetched \in Seq(Event)
  BY <1>1 DEF TypeOK
<1> DEFINE s == Pending(m)
           old == phys[m]
           eb == Change(m, b)
           ec == Change(m, c)
           s1 == Append(s, eb)
           s2 == IF b = c THEN s1 ELSE Append(s1, ec)
           s3 == Append(s2, Syn)
           down1 == IF b \in old THEN old \ {b} ELSE old \cup {b}
           down2 == IF b = c THEN down1 ELSE IF c \in old THEN down1 \ {c} ELSE down1 \cup {c}
<1>3. s \in Seq(Event) /\ eb \in Event /\ ec \in Event /\ Syn \in Event
  BY PendingTypes DEF Change, Key, Event, Keys
<1>4. /\ eb.key = b /\ eb.value = IF b \in old THEN 0 ELSE 1
      /\ ec.key = c /\ ec.value = IF c \in old THEN 0 ELSE 1
      /\ Syn.key \notin Buttons
  BY RelayAssumption DEF RelayAssumption, Change, Key, Syn
<1>5. Pending(m)' = s3
  <2>1. Pending(m)' = (IF pc = "apply" /\ cur = m THEN fetched ELSE <<>>) \o queue'[m]
    BY <1>2 DEF Pending
  <2>2. queue[m] \in Seq(Event)
    BY <1>2
  <2>3. queue'[m] = queue[m] \o IF b = c THEN <<eb, Syn>> ELSE <<eb, ec, Syn>>
    BY <1>1, <1>2
  <2> DEFINE f == IF pc = "apply" /\ cur = m THEN fetched ELSE <<>>
             q == queue[m]
  <2>4. f \in Seq(Event) /\ q \in Seq(Event) /\ s = f \o q
    BY <1>2 DEF Pending
  <2>5. Pending(m)' = f \o queue'[m]
    BY <2>1
  <2>6. queue'[m] = q \o IF b = c THEN <<eb, Syn>> ELSE <<eb, ec, Syn>>
    BY <2>3
  <2> HIDE DEF f, q, s, eb, ec
  <2>7. ASSUME NEW new \in Seq(Event) PROVE f \o (q \o new) = s \o new
    BY <2>4
  <2>8. <<eb, Syn>> \in Seq(Event) /\ <<eb, ec, Syn>> \in Seq(Event)
    BY <1>3
  <2>9. /\ s \o <<eb, Syn>> = Append(Append(s, eb), Syn)
        /\ s \o <<eb, ec, Syn>> = Append(Append(Append(s, eb), ec), Syn)
    BY <1>3
  <2> QED
    BY <2>5, <2>6, <2>7, <2>8, <2>9
<1>6. phys'[m] = down2
  BY <1>1, <1>2
<1> HIDE DEF s, old, eb, ec
<1>7. s1 \in Seq(Event) /\ s2 \in Seq(Event) /\ s3 \in Seq(Event)
  BY <1>3
<1>8. ASSUME NEW d \in Buttons
      PROVE  /\ DownAt(s3, d, down2, 1) <=> DownAt(s, d, old, 1)
             /\ Alternates(s, d, old) => Alternates(s3, d, down2)
  <2>1. /\ DownAt(s1, d, down1, 1) <=> DownAt(s, d, old, 1)
        /\ Alternates(s, d, old) => Alternates(s1, d, down1)
    <3>1. eb.key = d => eb.value = (IF d \in old THEN 0 ELSE 1) /\ (d \in down1 <=> d \notin old)
      BY <1>4
    <3>2. eb.key # d => (d \in down1 <=> d \in old)
      BY <1>4
    <3> HIDE DEF down1
    <3> QED
      BY <1>3, <3>1, <3>2, AppendEvent
  <2>2. /\ DownAt(s2, d, down2, 1) <=> DownAt(s1, d, down1, 1)
        /\ Alternates(s1, d, down1) => Alternates(s2, d, down2)
    <3>1. CASE b = c
      BY <3>1
    <3>2. CASE b # c
      <4>1. c \in old <=> c \in down1
        BY <3>2
      <4>2. ec.key = d => ec.value = (IF d \in down1 THEN 0 ELSE 1) /\ (d \in down2 <=> d \notin down1)
        BY <1>4, <3>2, <4>1
      <4>3. ec.key # d => (d \in down2 <=> d \in down1)
        BY <1>4, <3>2
      <4>4. s2 = Append(s1, ec)
        BY <3>2
      <4> HIDE DEF down1, down2, s1, s2
      <4> QED
        BY <1>3, <1>7, <4>2, <4>3, <4>4, AppendEvent
    <3> QED
      BY <3>1, <3>2
  <2>3. /\ DownAt(s3, d, down2, 1) <=> DownAt(s2, d, down2, 1)
        /\ Alternates(s2, d, down2) => Alternates(s3, d, down2)
    <3>1. Syn.key # d
      BY <1>4
    <3> HIDE DEF down2, s2
    <3> QED
      BY <1>3, <1>7, <3>1, AppendEvent
  <2> QED
    BY <2>1, <2>2, <2>3
<1>9. phys' = [phys EXCEPT ![m] = down2] /\ \A k \in Mice : k # m => Pending(k)' = Pending(k)
  BY <1>1, <1>2 DEF Pending, old
<1> HIDE DEF s1, s2, s3, down1, down2
<1>10. SeenSame
  <2>1. ASSUME NEW k \in Mice, NEW d \in Buttons, k # m PROVE Seen(k, d)' <=> Seen(k, d)
    BY <1>2, <1>9, <2>1, SeenOf
  <2>2. ASSUME NEW d \in Buttons PROVE Seen(m, d)' <=> Seen(m, d)
    BY <1>3, <1>5, <1>6, <1>7, <1>8, SeenOf, SeenIsDown DEF s, old
  <2> QED
    BY <2>1, <2>2 DEF SeenSame
<1>11. QueuesAlternate'
  BY <1>2, <1>5, <1>6, <1>8, <1>9 DEF QueuesAlternate, s, old
<1> QED
  BY <1>10, <1>11

\* The event at the head of `fetched` is the next one pending for the mouse: for its
\* button, the loop sees what the event says; nothing else changes.
LEMMA ApplyPending ==
  ASSUME TypeOK, QueuesAlternate, Apply
  PROVE  /\ QueuesAlternate'
         /\ \A m \in Mice, b \in Buttons :
              /\ m = cur /\ Head(fetched).key = b /\ b \notin overtaken[m] =>
                   /\ Seen(m, b) <=> Head(fetched).value = 0
                   /\ Seen(m, b)' <=> Head(fetched).value = 1
              /\ ~(m = cur /\ Head(fetched).key = b) => (Seen(m, b)' <=> Seen(m, b))
<1>1. /\ pc = "apply" /\ cur \in Mice /\ fetched # <<>> /\ fetched \in Seq(Event)
      /\ phys' = phys /\ queue' = queue /\ fetched' = Tail(fetched) /\ overtaken' = overtaken
      /\ queue \in [Mice -> Seq(Event)]
  BY DEF Apply, TypeOK, world, neighbour
<1>2. \/ pc' = "apply" /\ cur' = cur
      \/ pc' # "apply" /\ fetched' = <<>>
  BY <1>1 DEF Apply, NextMouse
<1>3. ASSUME NEW m \in Mice, m # cur PROVE Pending(m)' = Pending(m)
  BY <1>1, <1>2, <1>3 DEF Pending
<1>4. Pending(cur) = fetched \o queue[cur] /\ queue[cur] \in Seq(Event)
  BY <1>1 DEF Pending
<1>5. ASSUME NEW m \in Mice, m = cur
      PROVE  /\ Pending(m)' = Tail(Pending(m)) /\ Head(Pending(m)) = Head(fetched)
             /\ Pending(m) # <<>>
  <2>1. /\ Tail(fetched \o queue[cur]) = Tail(fetched) \o queue[cur]
        /\ Head(fetched \o queue[cur]) = Head(fetched) /\ fetched \o queue[cur] # <<>>
    BY <1>1, <1>4
  <2>2. <<>> \o queue[cur] = queue[cur]
    BY <1>4
  <2>3. Pending(m)' = fetched' \o queue[cur]
    BY <1>1, <1>2, <1>5, <2>2 DEF Pending
  <2> QED
    BY <1>1, <1>4, <1>5, <2>1, <2>3
<1>6. ASSUME NEW m \in Mice, m = cur, NEW b \in Buttons
      PROVE  /\ b \notin overtaken[m] => Alternates(Pending(m)', b, phys'[m])
             /\ Head(fetched).key # b => (Seen(m, b)' <=> Seen(m, b))
             /\ Head(fetched).key = b /\ b \notin overtaken[m] =>
                  /\ Seen(m, b) <=> Head(fetched).value = 0
                  /\ Seen(m, b)' <=> Head(fetched).value = 1
  <2> DEFINE s == Pending(m)
  <2>1. s \in Seq(Event) /\ s # <<>> /\ Tail(s) \in Seq(Event)
    BY <1>5, <1>6, PendingTypes
  <2>2. b \notin overtaken[m] => Alternates(s, b, phys[m])
    BY <1>1 DEF QueuesAlternate
  <2>3. /\ Seen(m, b) <=> DownAt(s, b, phys[m], 1)
        /\ Seen(m, b)' <=> DownAt(Tail(s), b, phys[m], 1)
    BY <1>1, <1>5, <1>6, <2>1, SeenOf, SeenIsDown
  <2>4. Head(s) = Head(fetched) /\ Pending(m)' = Tail(s) /\ phys'[m] = phys[m]
    BY <1>1, <1>5, <1>6
  <2> HIDE DEF s
  <2> QED
    BY <2>1, <2>2, <2>3, <2>4, TailEvent
<1>7. ASSUME NEW m \in Mice, m # cur, NEW b \in Buttons PROVE Seen(m, b)' <=> Seen(m, b)
  BY <1>1, <1>3, <1>7, SeenOf
<1>8. QueuesAlternate'
  BY <1>1, <1>3, <1>6 DEF QueuesAlternate
<1> QED
  BY <1>6, <1>7, <1>8

\* A report another program takes: of a button with older events pending nothing is seen
\* yet, and a button without changes for the loop as it does in the hand.
LEMMA TakenPending ==
  ASSUME TypeOK, QueuesAlternate, pc # "stopped", NEW m \in Mice, TakenReport(m)
  PROVE  /\ QueuesAlternate'
         /\ \A k \in Mice, d \in Buttons :
              Seen(k, d) /\ ~Seen(k, d)' => k = m /\ (d = Binding => missed' = missed + 1)
         /\ missed' = missed \/ missed' = missed + 1
         /\ UNCHANGED <<pc, cur, fetched, enabled, batch, held, virtual>>
<1>1. PICK b \in Buttons, c \in Buttons :
        /\ phys' = [phys EXCEPT ![m] = (@ \ {b, c}) \cup ({b, c} \ @)]
        /\ UNCHANGED <<queue, pc, cur, fetched, enabled, batch, held, virtual>>
        /\ missed' = IF Binding \in {b, c} \cap phys[m] THEN missed + 1 ELSE missed
        /\ overtaken' = [overtaken EXCEPT ![m] =
             @ \cup {x \in {b, c} : \E i \in DOMAIN Pending(m) : Pending(m)[i].key = x}]
  BY DEF TakenReport, Moves
<1>2. /\ phys \in [Mice -> SUBSET Buttons] /\ overtaken \in [Mice -> SUBSET Buttons]
  BY DEF TypeOK
<1>3. \A k \in Mice : Pending(k)' = Pending(k)
  BY <1>1, PendingKept
<1>4. ASSUME NEW k \in Mice, NEW d \in Buttons
      PROVE  /\ d \notin overtaken'[k] => Alternates(Pending(k)', d, phys'[k])
             /\ Seen(k, d) /\ ~Seen(k, d)' => k = m /\ d \in {b, c} \cap phys[m]
  <2> DEFINE s == Pending(k)
  <2>1. /\ s \in Seq(Event) /\ Pending(k)' = s
        /\ d \notin overtaken[k] => Alternates(s, d, phys[k])
    BY <1>3, PendingTypes DEF QueuesAlternate
  <2>2. /\ Seen(k, d) <=> DownAt(s, d, phys[k], 1)
        /\ Seen(k, d)' <=> DownAt(s, d, phys'[k], 1)
    BY <1>3, <2>1, SeenOf, SeenIsDown
  <2>3. d \notin overtaken'[k] => d \notin overtaken[k]
    BY <1>1, <1>2
  <2>4. CASE ~(k = m /\ d \in {b, c})
    <3>1. d \in phys'[k] <=> d \in phys[k]
      BY <1>1, <1>2, <2>4
    <3> HIDE DEF s
    <3> QED
      BY <2>1, <2>2, <2>3, <3>1, HandOnly
  <2>5. CASE k = m /\ d \in {b, c} /\ \E i \in DOMAIN s : s[i].key = d
    <3>1. d \in overtaken'[k]
      BY <1>1, <1>2, <2>5
    <3> HIDE DEF s
    <3> QED
      BY <2>1, <2>2, <2>5, <3>1, HandOnly
  <2>6. CASE k = m /\ d \in {b, c} /\ \A i \in DOMAIN s : s[i].key # d
    <3> HIDE DEF s
    <3> QED
      BY <2>1, <2>2, <2>6, HandOnly
  <2> QED
    BY <2>4, <2>5, <2>6
<1>5. QueuesAlternate'
  BY <1>4 DEF QueuesAlternate
<1>6. missed \in Nat
  BY DEF TypeOK
<1> QED
  BY <1>1, <1>4, <1>5, <1>6

-----------------------------------------------------------------------------
(* What a step keeps of Hands.                                               *)

Holders == {m \in Mice : Seen(m, Binding)}

LEMMA MiceFinite ==
  ASSUME NEW S \in SUBSET Mice
  PROVE  IsFiniteSet(S) /\ Cardinality(S) \in Nat /\ (Cardinality(S) = 0 <=> S = {})
<1>1. IsFiniteSet(Mice)
  BY RelayAssumption, FS_Interval DEF RelayAssumption, Mice
<1>2. IsFiniteSet(S)
  BY <1>1, FS_Subset
<1> QED
  BY <1>2, FS_CardinalityType, FS_EmptySet

\* A step that changes neither what the loop has seen nor what it has made of it.
LEMMA SameHands ==
  ASSUME Hands, SeenSame, QueuesAlternate', pc # "stopped", pc' # "commands" \/ pc = "commands",
         UNCHANGED <<held, enabled, batch, virtual, missed, overtaken>>
  PROVE  Hands'
<1>1. BatchesAgree'
  BY DEF Hands, BatchesAgree, SeenSame
<1>2. HandsHold'
  BY DEF Hands, HandsHold, Pressed, Waits, SeenSame, virtual
<1>3. Holders' = Holders
  BY RelayAssumption DEF RelayAssumption, Holders, SeenSame
<1>4. FireNeedsHold'
  BY <1>3 DEF Hands, FireNeedsHold, Holders, virtual
<1> QED
  BY <1>1, <1>2, <1>4 DEF Hands

LEMMA StopsHands ==
  ASSUME TypeOK, Stops
  PROVE  Hands'
<1>1. Holders' \in SUBSET Mice
  BY DEF Holders, Mice
<1>2. held' <= Cardinality(Holders') + missed'
  <2>1. held' = 0 /\ missed' \in Nat /\ Cardinality(Holders') \in Nat
    BY <1>1, MiceFinite DEF Stops, world, neighbour, TypeOK
  <2> QED
    BY <2>1
<1> QED
  BY <1>2 DEF Stops, Hands, QueuesAlternate, BatchesAgree, HandsHold, FireNeedsHold, Holders

\* Nothing is pressed while the relay is off, and no batch waits.
LEMMA OffIsQuiet ==
  ASSUME IInv, BatchesAgree, ~enabled, pc # "stopped"
  PROVE  /\ \A b \in Buttons : ~Pressed(b)
         /\ \A m \in Mice : batch[m] = <<>>
  BY DEF IInv, OffReleasesEverything, LeftHasTwoHolders, BatchesAgree, Pressed

\* A taken report: the relay is off, and each holder it costs is a release missed.
LEMMA TakenHands ==
  ASSUME IInv, Hands, pc # "stopped", NEW m \in Mice, TakenReport(m)
  PROVE  Hands'
<1>1. /\ QueuesAlternate'
      /\ \A k \in Mice, d \in Buttons :
           Seen(k, d) /\ ~Seen(k, d)' => k = m /\ (d = Binding => missed' = missed + 1)
      /\ missed' = missed \/ missed' = missed + 1
      /\ UNCHANGED <<pc, cur, fetched, enabled, batch, held, virtual>>
  BY TakenPending DEF IInv, Hands
<1>2. ~enabled
  BY DEF TakenReport, IInv, OneGrab, GrabFollowsSwitch
<1>3. /\ \A b \in Buttons : ~Pressed(b)
      /\ \A k \in Mice : batch[k] = <<>>
      /\ ~syntheticLeft
  BY <1>2, OffIsQuiet DEF Hands, IInv, OffReleasesEverything
<1>4. BatchesAgree' /\ HandsHold'
  BY <1>1, <1>3 DEF BatchesAgree, HandsHold, Changes, Pressed, virtual
<1>5. ASSUME \A k \in Mice : Binding \notin overtaken'[k]
      PROVE  held' <= Cardinality(Holders') + missed'
  <2>1. \A k \in Mice : Binding \notin overtaken[k]
    BY <1>5 DEF TakenReport, IInv, TypeOK
  <2>2. /\ held \in Nat /\ missed \in Nat /\ Binding \in Buttons
        /\ held <= Cardinality(Holders) + missed
        /\ Holders \in SUBSET Mice /\ Holders' \in SUBSET Mice
    BY <2>1, RelayAssumption DEF RelayAssumption, Hands, FireNeedsHold, Holders, IInv, TypeOK, Mice
  <2>3. /\ IsFiniteSet(Holders) /\ IsFiniteSet(Holders')
        /\ Cardinality(Holders) \in Nat /\ Cardinality(Holders') \in Nat
    BY <2>2, MiceFinite
  <2>4. CASE Holders \subseteq Holders'
    <3>1. Cardinality(Holders) <= Cardinality(Holders')
      BY <2>3, <2>4, FS_Subset
    <3> QED
      BY <1>1, <2>2, <2>3, <3>1
  <2>5. CASE ~(Holders \subseteq Holders')
    <3>1. missed' = missed + 1 /\ Holders \ {m} \subseteq Holders' /\ m \in Holders
      BY <1>1, <2>2, <2>5 DEF Holders
    <3>2. /\ Cardinality(Holders \ {m}) = Cardinality(Holders) - 1
          /\ IsFiniteSet(Holders \ {m})
      BY <2>3, <3>1, FS_RemoveElement
    <3>3. Cardinality(Holders \ {m}) <= Cardinality(Holders')
      BY <2>3, <3>1, <3>2, FS_Subset
    <3> QED
      BY <1>1, <2>2, <2>3, <3>1, <3>2, <3>3
  <2> QED
    BY <2>4, <2>5
<1>6. FireNeedsHold'
  BY <1>1, <1>3, <1>5 DEF FireNeedsHold, Holders, virtual
<1> QED
  BY <1>1, <1>4, <1>6 DEF Hands

LEMMA ToggleHands ==
  ASSUME IInv, Hands, ToggleOff \/ ToggleOn
  PROVE  Hands'
<1>1. /\ pc = "commands" /\ pc' = pc
      /\ UNCHANGED <<phys, queue, cur, fetched>>
      /\ \A m \in Mice : Pending(m)' = Pending(m)
  BY PendingKept DEF ToggleOff, ToggleOn
<1>2. SeenSame
  BY <1>1, SeenOf DEF SeenSame
<1>3. QueuesAlternate'
  <2>1. CASE ToggleOn
    BY <1>1, <2>1 DEF Hands, QueuesAlternate, ToggleOn, neighbour
  <2>2. CASE ToggleOff
    <3> SUFFICES ASSUME NEW m \in Mice, NEW b \in Buttons, b \notin overtaken'[m]
                 PROVE  Alternates(Pending(m), b, phys[m])
      BY <1>1 DEF QueuesAlternate
    <3>1. CASE queue[m] = <<>>
      <4>1. Pending(m) = <<>>
        BY <1>1, <3>1 DEF Pending
      <4> QED
        BY <4>1 DEF Alternates
    <3>2. CASE queue[m] # <<>>
      <4>1. b \notin overtaken[m]
        BY <2>2, <3>2 DEF ToggleOff
      <4> QED
        BY <1>1, <4>1 DEF Hands, QueuesAlternate
    <3> QED
      BY <3>1, <3>2
  <2> QED
    BY <2>1, <2>2
<1>4. /\ \A m \in Mice : batch'[m] = <<>>
      /\ ~syntheticLeft' /\ \A b \in Buttons : ~Pressed(b)'
  <2>1. CASE ToggleOff
    BY <2>1 DEF ToggleOff, ReleasePressedButtons, Pressed
  <2>2. CASE ToggleOn
    <3>1. ~enabled /\ UNCHANGED virtual /\ ~syntheticLeft
      BY <2>2 DEF ToggleOn, IInv, OffReleasesEverything
    <3>2. (\A b \in Buttons : ~Pressed(b)) /\ \A m \in Mice : batch[m] = <<>>
      BY <1>1, <3>1, OffIsQuiet DEF Hands
    <3>3. \A m \in Mice : batch'[m] = <<>>
      BY <2>2, <3>2 DEF ToggleOn
    <3> QED
      BY <3>1, <3>2, <3>3 DEF virtual, Pressed
  <2> QED
    BY <2>1, <2>2
<1>5. Holders' = Holders /\ Holders \in SUBSET Mice
  BY <1>2, RelayAssumption DEF RelayAssumption, Holders, SeenSame
<1>6. ASSUME \A m \in Mice : Binding \notin overtaken'[m]
      PROVE  held' <= Cardinality(Holders') + missed'
  <2>1. CASE ToggleOff
    <3>1. held' = 0 /\ missed' = 0
      BY <2>1 DEF ToggleOff
    <3> QED
      BY <1>5, <3>1, MiceFinite
  <2>2. CASE ToggleOn
    BY <1>5, <1>6, <2>2 DEF ToggleOn, neighbour, Hands, FireNeedsHold, Holders
  <2> QED
    BY <2>1, <2>2
<1>7. BatchesAgree' /\ HandsHold'
  BY <1>4 DEF BatchesAgree, HandsHold, Changes
<1> QED
  BY <1>3, <1>4, <1>6, <1>7 DEF Hands, FireNeedsHold, Holders

LEMMA FireHands ==
  ASSUME IInv, Hands, Fire
  PROVE  Hands'
<1>1. /\ pc = "fire" /\ pc' = "commands" /\ SetSyntheticLeft(ShouldFire)
      /\ UNCHANGED <<phys, queue, cur, fetched, enabled, batch, held, missed, overtaken>>
  BY DEF Fire, world, neighbour
<1>2. SeenSame /\ QueuesAlternate'
  BY <1>1, PendingKept, PendingSame DEF Hands
<1>3. \A b \in Buttons : Pressed(b)' <=> Pressed(b)
  BY <1>1 DEF SetSyntheticLeft, SyncLeft, Pressed, virtual
<1>4. BatchesAgree'
  BY <1>1, <1>2 DEF Hands, BatchesAgree, SeenSame
<1>5. HandsHold'
  BY <1>1, <1>2, <1>3 DEF Hands, HandsHold, Waits, SeenSame
<1>6. Holders' = Holders /\ Holders \in SUBSET Mice
  BY <1>2, RelayAssumption DEF RelayAssumption, Holders, SeenSame
<1>7. ASSUME \A m \in Mice : Binding \notin overtaken[m]
      PROVE  held \in Nat /\ missed \in Nat /\ held <= Cardinality(Holders) + missed
  BY <1>7 DEF Hands, FireNeedsHold, Holders, IInv, TypeOK
<1>8. ASSUME syntheticLeft', \A m \in Mice : Binding \notin overtaken[m], missed = 0
      PROVE  Holders' # {}
  <2>1. VirtualTypes /\ TwoHolders /\ ShouldFire \in BOOLEAN
    BY <1>1 DEF IInv, TypeOK, VirtualTypes, TwoHolders, LeftHasTwoHolders, ShouldFire
  <2>2. syntheticLeft' = ShouldFire
    BY <1>1, <2>1, SetSyntheticKeeps
  <2>3. ShouldFire
    BY <1>8, <2>2
  <2>4. held > 0 /\ held <= Cardinality(Holders) + 0 /\ held \in Nat
    BY <1>7, <1>8, <2>3 DEF ShouldFire
  <2> QED
    BY <1>6, <2>4, MiceFinite
<1>9. syntheticLeft' => enabled'
  <2>1. VirtualTypes /\ TwoHolders /\ ShouldFire \in BOOLEAN
    BY <1>1 DEF IInv, TypeOK, VirtualTypes, TwoHolders, LeftHasTwoHolders, ShouldFire
  <2> QED
    BY <1>1, <2>1, SetSyntheticKeeps DEF ShouldFire
<1>10. FireNeedsHold'
  BY <1>1, <1>6, <1>7, <1>8, <1>9 DEF FireNeedsHold, Holders
<1> QED
  BY <1>2, <1>4, <1>5, <1>10 DEF Hands

\* A button event at the end of a batch.
LEMMA BatchAppend ==
  ASSUME NEW s \in Seq(Keys), NEW e \in Keys, NEW b \in Buttons
  PROVE  /\ e.key = b => /\ Changes(Append(s, e), b)
                         /\ PressedLast(Append(s, e), b) <=> e.value = 1
         /\ e.key # b => /\ Changes(Append(s, e), b) <=> Changes(s, b)
                         /\ PressedLast(Append(s, e), b) <=> PressedLast(s, b)
<1> DEFINE t == Append(s, e)
<1>1. /\ Len(s) \in Nat /\ DOMAIN s = 1 .. Len(s) /\ DOMAIN t = 1 .. Len(s) + 1
      /\ t[Len(s) + 1] = e /\ \A i \in 1 .. Len(s) : t[i] = s[i]
  OBVIOUS
<1>2. e = Key(e.key, e.value) /\ e.value \in {0, 1} /\ \A v : Key(b, v).key = b /\ Key(b, v).value = v
  BY DEF Keys, Key
<1> HIDE DEF t
<1>3. ASSUME e.key = b PROVE Changes(t, b) /\ (PressedLast(t, b) <=> e.value = 1)
  <2>1. Changes(t, b)
    BY <1>1, <1>3 DEF Changes
  <2>2. ASSUME e.value = 1 PROVE PressedLast(t, b)
    <3>1. t[Len(s) + 1] = Key(b, 1) /\ Len(s) + 1 \in DOMAIN t
      BY <1>1, <1>2, <1>3, <2>2
    <3>2. \A j \in DOMAIN t : ~(j > Len(s) + 1)
      BY <1>1
    <3> QED
      BY <3>1, <3>2 DEF PressedLast
  <2>3. ASSUME PressedLast(t, b) PROVE e.value = 1
    <3>1. PICK i \in DOMAIN t : t[i] = Key(b, 1) /\ \A j \in DOMAIN t : j > i => t[j].key # b
      BY <2>3 DEF PressedLast
    <3>2. i = Len(s) + 1
      BY <1>1, <1>3, <3>1
    <3> QED
      BY <1>1, <1>2, <3>1, <3>2
  <2> QED
    BY <2>1, <2>2, <2>3
<1>4. ASSUME e.key # b PROVE Changes(t, b) <=> Changes(s, b)
  BY <1>1, <1>4 DEF Changes
<1>5. ASSUME e.key # b, PressedLast(s, b) PROVE PressedLast(t, b)
  <2>1. PICK i \in DOMAIN s : s[i] = Key(b, 1) /\ \A j \in DOMAIN s : j > i => s[j].key # b
    BY <1>5 DEF PressedLast
  <2>2. i \in DOMAIN t /\ t[i] = Key(b, 1) /\ \A j \in DOMAIN t : j > i => t[j].key # b
    BY <1>1, <1>5, <2>1
  <2> QED
    BY <2>2 DEF PressedLast
<1>6. ASSUME e.key # b, PressedLast(t, b) PROVE PressedLast(s, b)
  <2>1. PICK i \in DOMAIN t : t[i] = Key(b, 1) /\ \A j \in DOMAIN t : j > i => t[j].key # b
    BY <1>6 DEF PressedLast
  <2>2. i \in DOMAIN s /\ s[i] = Key(b, 1) /\ \A j \in DOMAIN s : j > i => s[j].key # b
    BY <1>1, <1>2, <1>6, <2>1
  <2> QED
    BY <2>2 DEF PressedLast
<1> QED
  BY <1>3, <1>4, <1>5, <1>6 DEF t

\* SYN_REPORT: a batch goes out, or is thrown away.
LEMMA SynHands ==
  ASSUME IInv, Hands, Apply, Head(fetched) = Syn
  PROVE  BatchesAgree' /\ HandsHold' /\ SeenSame /\ held' = held
<1>1. /\ pc = "apply" /\ cur \in Mice /\ ProcessSyn /\ enabled' = enabled
      /\ batch \in [Mice -> Seq(Keys)] /\ overtaken' = overtaken
  BY DEF Apply, IInv, TypeOK, world, neighbour
<1>2. SeenSame
  BY RelayAssumption, ApplyPending DEF RelayAssumption, Hands, IInv, Syn, Key, SeenSame
<1>3. batch' = [batch EXCEPT ![cur] = <<>>] /\ held' = held
  BY <1>1 DEF ProcessSyn
<1>4. /\ batch'[cur] = <<>>
      /\ \A m \in Mice : m # cur => batch'[m] = batch[m]
  BY <1>1, <1>3
<1>5. BatchesAgree'
  BY <1>1, <1>2, <1>4 DEF Hands, BatchesAgree, SeenSame, Changes
<1>6. ASSUME NEW b \in Buttons, Pressed(b)' PROVE Waits(b)'
  <2>1. CASE enabled /\ batch[cur] # <<>>
    <3>1. EmitBatch(batch[cur])
      BY <1>1, <2>1 DEF ProcessSyn
    <3>2. Pressed(b)' <=> After(batch[cur], b, Pressed(b))
      BY <3>1 DEF EmitBatch, SyncLeft, Pressed, After
    <3>3. CASE Changes(batch[cur], b)
      <4>1. Seen(cur, b) \/ b \in overtaken[cur]
        BY <1>1, <1>6, <3>2, <3>3 DEF After, Hands, BatchesAgree
      <4>2. \E m \in Mice : Seen(m, b)' \/ b \in overtaken'[m]
        BY <1>1, <1>2, <4>1 DEF SeenSame
      <4> QED
        BY <4>2 DEF Waits
    <3>4. CASE ~Changes(batch[cur], b)
      <4>1. Waits(b)
        BY <1>1, <1>6, <3>2, <3>4 DEF After, Hands, HandsHold
      <4>2. PICK m \in Mice : \/ Seen(m, b) \/ b \in overtaken[m]
                             \/ \E i \in DOMAIN batch[m] : batch[m][i] = Key(b, 0)
        BY <4>1 DEF Waits
      <4>3. CASE Seen(m, b) \/ b \in overtaken[m]
        BY <1>1, <1>2, <4>3 DEF SeenSame, Waits
      <4>4. CASE \E i \in DOMAIN batch[m] : batch[m][i] = Key(b, 0)
        <5>1. m # cur
          BY <3>4, <4>4 DEF Changes, Key
        <5> QED
          BY <1>4, <4>4, <5>1 DEF Waits
      <4> QED
        BY <4>2, <4>3, <4>4
    <3> QED
      BY <3>3, <3>4
  <2>2. CASE ~enabled
    <3>1. UNCHANGED virtual
      BY <1>1, <2>2 DEF ProcessSyn
    <3> QED
      BY <1>1, <1>6, <2>2, <3>1, OffIsQuiet DEF Hands, Pressed, virtual
  <2>3. CASE batch[cur] = <<>>
    <3>1. UNCHANGED virtual /\ batch' = batch
      BY <1>1, <1>3, <2>3 DEF ProcessSyn
    <3>2. Waits(b)
      BY <1>1, <1>6, <3>1 DEF Hands, HandsHold, Pressed, virtual
    <3> QED
      BY <1>1, <1>2, <3>1, <3>2 DEF Waits, SeenSame
  <2> QED
    BY <2>1, <2>2, <2>3
<1> QED
  BY <1>2, <1>3, <1>5, <1>6 DEF HandsHold

\* A button: into the batch while the relay is on, and counted.
LEMMA KeyHands ==
  ASSUME IInv, Hands, Apply, Head(fetched) # Syn
  PROVE  /\ BatchesAgree' /\ HandsHold'
         /\ (\A m \in Mice : Binding \notin overtaken[m]) => held' <= Cardinality(Holders') + missed
<1> DEFINE e == Head(fetched)
<1>1. /\ pc = "apply" /\ cur \in Mice /\ ProcessKey(e) /\ enabled' = enabled
      /\ batch \in [Mice -> Seq(Keys)] /\ held \in Nat /\ missed \in Nat
      /\ UNCHANGED virtual /\ overtaken' = overtaken
  BY DEF Apply, ProcessKey, IInv, TypeOK, world, neighbour
<1>2. e \in Keys /\ e.key \in Buttons /\ e.value \in {0, 1} /\ e = Key(e.key, e.value)
  <2>1. e \in Event
    BY DEF Apply, IInv, TypeOK
  <2>2. e \in Keys
    BY <2>1 DEF Event
  <2> QED
    BY <2>2 DEF Keys, Key
<1>3. \A m \in Mice, b \in Buttons :
        /\ m = cur /\ e.key = b /\ b \notin overtaken[m] =>
             /\ Seen(m, b) <=> e.value = 0
             /\ Seen(m, b)' <=> e.value = 1
        /\ ~(m = cur /\ e.key = b) => (Seen(m, b)' <=> Seen(m, b))
  <2>1. TypeOK /\ QueuesAlternate
    BY DEF IInv, Hands
  <2> QED
    BY <2>1, ApplyPending
<1>4. /\ held' = Observed(e)
      /\ batch' = IF enabled THEN [batch EXCEPT ![cur] = Append(@, e)] ELSE batch
  BY <1>1 DEF ProcessKey
<1> HIDE DEF e
<1>5. ASSUME \A m \in Mice : Binding \notin overtaken[m]
      PROVE  held' <= Cardinality(Holders') + missed
  <2>1. Binding \in Buttons /\ Holders \in SUBSET Mice /\ held <= Cardinality(Holders) + missed
    BY <1>5, RelayAssumption DEF RelayAssumption, Holders, Hands, FireNeedsHold
  <2>2. IsFiniteSet(Holders) /\ Cardinality(Holders) \in Nat
    BY <2>1, MiceFinite
  <2>3. CASE e.key # Binding
    <3>1. Holders' = Holders
      BY <1>3, <2>1, <2>3 DEF Holders
    <3> QED
      BY <1>4, <2>1, <2>3, <3>1 DEF Observed
  <2>4. CASE e.key = Binding /\ e.value = 1
    <3>1. cur \notin Holders /\ Holders' = Holders \cup {cur}
      BY <1>1, <1>3, <1>5, <2>1, <2>4 DEF Holders
    <3>2. Cardinality(Holders') = Cardinality(Holders) + 1
      BY <2>2, <3>1, FS_AddElement
    <3> QED
      BY <1>1, <1>4, <2>1, <2>2, <2>4, <3>2 DEF Observed
  <2>5. CASE e.key = Binding /\ e.value = 0
    <3>1. cur \in Holders /\ Holders' = Holders \ {cur}
      BY <1>1, <1>3, <1>5, <2>1, <2>5 DEF Holders
    <3>2. Cardinality(Holders') = Cardinality(Holders) - 1
      BY <2>2, <3>1, FS_RemoveElement
    <3>3. Cardinality(Holders) # 0
      BY <2>1, <3>1, MiceFinite
    <3> QED
      BY <1>1, <1>4, <2>1, <2>2, <2>5, <3>2, <3>3 DEF Observed
  <2> QED
    BY <1>2, <2>3, <2>4, <2>5
<1>6. CASE ~enabled
  <2>1. /\ \A b \in Buttons : ~Pressed(b)
        /\ \A m \in Mice : batch[m] = <<>>
    BY <1>1, <1>6, OffIsQuiet DEF Hands
  <2>2. BatchesAgree'
    BY <1>4, <1>6, <2>1 DEF BatchesAgree, Changes
  <2>3. HandsHold'
    BY <1>1, <2>1 DEF HandsHold, Pressed, virtual
  <2> QED
    BY <1>5, <2>2, <2>3
<1>7. CASE enabled
  <2>1. batch[cur] \in Seq(Keys) /\ batch'[cur] = Append(batch[cur], e)
        /\ \A m \in Mice : m # cur => batch'[m] = batch[m]
    BY <1>1, <1>4, <1>7
  <2> DEFINE q == batch[cur]
  <2>2. ASSUME NEW b \in Buttons
        PROVE  /\ e.key = b => /\ Changes(Append(q, e), b)
                               /\ PressedLast(Append(q, e), b) <=> e.value = 1
               /\ e.key # b => /\ Changes(Append(q, e), b) <=> Changes(q, b)
                               /\ PressedLast(Append(q, e), b) <=> PressedLast(q, b)
    <3>1. q \in Seq(Keys)
      BY <2>1
    <3> HIDE DEF q
    <3> QED
      BY <1>2, <3>1, BatchAppend
  <2>3. ASSUME NEW m \in Mice, NEW b \in Buttons, b \notin overtaken[m], Changes(batch'[m], b)
        PROVE  PressedLast(batch'[m], b) <=> Seen(m, b)'
    <3>1. Changes(batch[m], b) => (PressedLast(batch[m], b) <=> Seen(m, b))
      BY <1>1, <2>3 DEF Hands, BatchesAgree
    <3>2. CASE m # cur
      BY <1>3, <2>1, <2>3, <3>1, <3>2
    <3>3. CASE m = cur /\ e.key = b
      <4>1. PressedLast(batch'[m], b) <=> e.value = 1
        BY <2>1, <2>2, <3>3
      <4> QED
        BY <1>3, <2>3, <3>3, <4>1
    <3>4. CASE m = cur /\ e.key # b
      <4>1. /\ Changes(batch'[m], b) <=> Changes(batch[m], b)
            /\ PressedLast(batch'[m], b) <=> PressedLast(batch[m], b)
        BY <2>1, <2>2, <3>4
      <4> QED
        BY <1>3, <2>3, <3>1, <3>4, <4>1
    <3> QED
      BY <3>2, <3>3, <3>4
  <2>4. BatchesAgree'
    BY <1>1, <1>7, <2>3 DEF BatchesAgree
  <2>5. ASSUME NEW b \in Buttons, Pressed(b)' PROVE Waits(b)'
    <3>1. Waits(b)
      BY <1>1, <2>5 DEF Hands, HandsHold, Pressed, virtual
    <3>2. PICK m \in Mice : \/ Seen(m, b) \/ b \in overtaken[m]
                           \/ \E i \in DOMAIN batch[m] : batch[m][i] = Key(b, 0)
      BY <3>1 DEF Waits
    <3>3. CASE \E i \in DOMAIN batch[m] : batch[m][i] = Key(b, 0)
      <4>1. \E i \in DOMAIN batch'[m] : batch'[m][i] = Key(b, 0)
        BY <2>1, <3>3
      <4> QED
        BY <4>1 DEF Waits
    <3>4. CASE Seen(m, b) /\ ~(m = cur /\ e.key = b)
      BY <1>3, <3>4 DEF Waits
    <3>5. CASE Seen(m, b) /\ b \notin overtaken[m] /\ m = cur /\ e.key = b
      \* Its release has just gone into the batch.
      <4>1. e = Key(b, 0)
        BY <1>2, <1>3, <3>5
      <4>2. \E i \in DOMAIN batch'[m] : batch'[m][i] = Key(b, 0)
        BY <1>2, <2>1, <3>5, <4>1
      <4> QED
        BY <4>2 DEF Waits
    <3>6. CASE b \in overtaken[m]
      BY <1>1, <3>6 DEF Waits
    <3> QED
      BY <3>2, <3>3, <3>4, <3>5, <3>6
  <2>6. HandsHold'
    BY <2>5 DEF HandsHold
  <2> QED
    BY <1>5, <2>4, <2>6
<1> QED
  BY <1>1, <1>6, <1>7 DEF IInv, TypeOK

LEMMA ApplyHands ==
  ASSUME IInv, Hands, Apply
  PROVE  Hands'
<1>1. QueuesAlternate'
  BY ApplyPending DEF Hands, IInv
<1>2. pc' # "commands" /\ UNCHANGED <<missed, overtaken>>
  BY DEF Apply, NextMouse, world, neighbour
<1>3. /\ BatchesAgree' /\ HandsHold'
      /\ (\A m \in Mice : Binding \notin overtaken[m]) => held' <= Cardinality(Holders') + missed
  <2>1. CASE Head(fetched) = Syn
    <3>1. Holders' = Holders
      BY <2>1, SynHands, RelayAssumption DEF RelayAssumption, Holders, SeenSame
    <3> QED
      BY <2>1, <3>1, SynHands DEF Hands, FireNeedsHold, Holders
  <2>2. CASE Head(fetched) # Syn
    BY <2>2, KeyHands
  <2> QED
    BY <2>1, <2>2
<1> QED
  BY <1>1, <1>2, <1>3 DEF Hands, FireNeedsHold, Holders

LEMMA InitHands == Init => Hands
<1> SUFFICES ASSUME Init PROVE Hands
  OBVIOUS
<1>1. \A m \in Mice : Pending(m) = <<>> /\ batch[m] = <<>>
  BY DEF Init, Pending
<1>2. QueuesAlternate /\ BatchesAgree
  BY <1>1 DEF QueuesAlternate, Alternates, BatchesAgree, Changes
<1>3. HandsHold
  BY DEF Init, HandsHold, Pressed
<1>4. held <= Cardinality(Holders) + missed
  <2>1. held = 0 /\ missed = 0 /\ Cardinality(Holders) \in Nat
    BY MiceFinite DEF Init, Holders
  <2> QED
    BY <2>1
<1> QED
  BY <1>2, <1>3, <1>4 DEF Init, Hands, FireNeedsHold, Holders

LEMMA NextHands == IInv /\ Hands /\ [Next]_vars => Hands'
<1> SUFFICES ASSUME IInv, Hands, [Next]_vars PROVE Hands'
  OBVIOUS
<1>1. TypeOK /\ QueuesAlternate
  BY DEF IInv, Hands
<1>2. CASE World
  <2>1. pc # "stopped"
    BY <1>2 DEF World
  <2>2. CASE \E m \in Mice : TakenReport(m)
    BY <1>2, <2>1, <2>2, TakenHands
  <2>3. CASE ~ \E m \in Mice : TakenReport(m)
    <3>1. /\ pc' = pc /\ UNCHANGED <<cur, fetched, enabled, batch, held, virtual, missed, overtaken>>
      BY <1>2, <2>3 DEF World, Report, Moves, Take, GiveBack, Unplug, KeyboardMonitor, TriggerClient, neighbour
    <3>2. SeenSame /\ QueuesAlternate'
      <4>1. CASE \E m \in Mice : Report(m)
        BY <1>1, <2>1, <4>1, ReportPending
      <4>2. CASE ~ \E m \in Mice : Report(m)
        <5>1. UNCHANGED <<phys, queue>>
          BY <1>2, <2>3, <4>2 DEF World, Take, GiveBack, Unplug, KeyboardMonitor, TriggerClient
        <5> QED
          BY <1>1, <2>1, <3>1, <5>1, PendingKept, PendingSame
      <4> QED
        BY <4>1, <4>2
    <3> QED
      BY <2>1, <3>1, <3>2, SameHands
  <2> QED
    BY <2>2, <2>3
<1>3. CASE Fetch
  <2>1. SeenSame /\ QueuesAlternate'
    BY <1>1, <1>3, FetchPending, PendingSame DEF Fetch, neighbour
  <2> QED
    BY <1>3, <2>1, SameHands DEF Fetch, neighbour
<1>4. CASE FetchNothing \/ CommandsDone
  <2>1. /\ pc \notin {"apply", "stopped"} /\ pc' \notin {"apply", "commands"}
        /\ UNCHANGED <<phys, queue, held, enabled, batch, virtual, missed, overtaken>>
    BY <1>4 DEF FetchNothing, CommandsDone, NextMouse, world, neighbour
  <2>2. SeenSame /\ QueuesAlternate'
    BY <1>1, <2>1, PendingKept, PendingSame
  <2> QED
    BY <2>1, <2>2, SameHands
<1>5. CASE FetchFails \/ EmitFails
  BY <1>1, <1>5, StopsHands DEF FetchFails, EmitFails
<1>6. CASE UNCHANGED vars
  <2>1. UNCHANGED <<phys, queue, pc, cur, fetched, held, enabled, batch, virtual, missed, overtaken>>
    BY <1>6 DEF vars, virtual
  <2>2. CASE pc # "stopped"
    BY <1>1, <2>1, <2>2, PendingKept, PendingSame, SameHands
  <2>3. CASE pc = "stopped"
    <3>1. Holders' = Holders
      BY <2>1, PendingKept DEF Holders, Seen
    <3> QED
      BY <2>1, <2>3, <3>1
         DEF Hands, QueuesAlternate, BatchesAgree, HandsHold, FireNeedsHold, Holders
  <2> QED
    BY <2>2, <2>3
<1> QED
  BY <1>2, <1>3, <1>4, <1>5, <1>6, ToggleHands, ApplyHands, FireHands DEF Next, Loop

\* For any mice, queues and presses of F9: the count of held trigger buttons exceeds
\* the mice that hold one by the releases another program took since F9 off at most, and
\* with none taken the synthetic button needs one of them.
THEOREM FireIsHeld == Spec => []FireNeedsHold
<1>1. IInv /\ Hands => FireNeedsHold
  BY DEF Hands
<1> QED
  BY <1>1, InitIInv, InitHands, NextKeepsIInv, NextHands, PTL DEF Spec

\* For any mice, queues and presses of F9: a button that is down on the virtual mouse
\* is held by a hand, by the trigger, or its release is on the way, unless another
\* program took it.
THEOREM NoneIsStuck == Spec => []NothingStuck
<1>1. IInv /\ Hands => NothingStuck
  <2> SUFFICES ASSUME IInv, Hands, pc # "stopped", NEW b \in vdown
               PROVE  \/ b = Left /\ syntheticLeft
                      \/ \E m \in Mice : \/ Seen(m, b) \/ b \in overtaken[m]
                                        \/ \E i \in DOMAIN batch[m] : batch[m][i] = Key(b, 0)
    BY DEF NothingStuck
  <2>1. b \in Buttons /\ (Pressed(b) \/ (b = Left /\ syntheticLeft))
    BY DEF IInv, TypeOK, LeftHasTwoHolders, Pressed
  <2> QED
    BY <2>1 DEF Hands, HandsHold, Waits
<1> QED
  BY <1>1, InitIInv, InitHands, NextKeepsIInv, NextHands, PTL DEF Spec
=============================================================================
