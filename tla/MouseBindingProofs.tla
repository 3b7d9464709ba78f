--------------------------- MODULE MouseBindingProofs ---------------------------
(***************************************************************************)
(* For any programs, mice, keys and deaths: no binding is lost as long as  *)
(* one mouse stays.  A learner that has captured a key has every mouse     *)
(* there is to stay, so no two of them are between reading the file and    *)
(* having written it.                                                      *)
(***************************************************************************)
EXTENDS MouseBinding, TLAPS

\* Where a program has opened the mice, has grabbed them, and is learning.
Learning == {"capture", "load", "truncate", "write", "finish"}
HasMice == Learning \cup {"relay"}
HasOpened == HasMice \cup {"grab", "regrab", "off"}

Values == Keys \cup {None}

Types ==
  /\ pc \in [Programs -> HasOpened \cup {"idle", "ended", "config", "discover"}]
  /\ kind \in [Programs -> Names \cup {"run"}]
  /\ holder \in [Mice -> Programs \cup {Nobody}]
  /\ opened \in [Programs -> SUBSET Mice]
  /\ key \in [Programs -> Values]
  /\ config \in [Programs -> [Names -> Values]]
  /\ file \in [Names -> Values] /\ saved \in [Names -> Values]

\* The mice that stay are plugged in; whoever has opened the mice has opened these,
\* and whoever has grabbed the mice has grabbed these.
Grabs ==
  /\ plugged \subseteq Mice /\ plugged \cap unplugged = {} /\ steady \subseteq plugged
  /\ \A p \in Programs :
       /\ pc[p] \in HasOpened => steady \subseteq opened[p]
       /\ pc[p] \in HasMice => \A m \in steady : holder[m] = p
       /\ pc[p] \in Learning => kind[p] \in Names

IInv == Types /\ Grabs /\ BindingsKept

-----------------------------------------------------------------------------

LEMMA TypesHold == Types /\ Grabs /\ [Next]_vars => Types'
<1> SUFFICES ASSUME Types, Grabs, [Next]_vars PROVE Types'
  OBVIOUS
<1> USE DEF Types, Values, NoBindings, None, Learning, HasMice, HasOpened, Grabs
<1>1. ASSUME NEW m \in Mice, Plug(m) \/ Unplug(m) PROVE Types'
  BY <1>1 DEF Plug, Unplug, devices
<1>2. ASSUME NEW p \in Programs, Start(p) PROVE Types'
  BY <1>2 DEF Start, devices
<1>3. ASSUME NEW p \in Programs, Ends(p) PROVE Types'
  BY <1>3 DEF Ends, LetGo, GoesOn
<1>4. ASSUME NEW p \in Programs, Dies(p) PROVE Types'
  BY <1>3, <1>4 DEF Dies
<1>5. ASSUME NEW p \in Programs, Fails(p) PROVE Types'
  BY <1>3, <1>5 DEF Fails
<1>6. ASSUME NEW p \in Programs, LoadConfig(p) \/ Discover(p) PROVE Types'
  <2>1. CASE LoadConfig(p)
    BY <1>5, <2>1 DEF LoadConfig, GoesOn, devices
  <2>2. CASE Discover(p) /\ plugged = {}
    BY <1>5, <2>2 DEF Discover
  <2>3. CASE Discover(p) /\ plugged # {}
    <3>1. /\ opened' = [opened EXCEPT ![p] = plugged] /\ pc' = [pc EXCEPT ![p] = "grab"]
          /\ UNCHANGED <<holder, file, kind, key, config, saved>>
      BY <2>3 DEF Discover, GoesOn, devices
    <3>2. opened' \in [Programs -> SUBSET Mice]
      BY <3>1
    <3>3. pc' \in [Programs -> HasOpened \cup {"idle", "ended", "config", "discover"}]
      BY <3>1
    <3> QED
      BY <3>1, <3>2, <3>3
  <2> QED
    BY <1>6, <2>1, <2>2, <2>3
<1>7. ASSUME NEW p \in Programs, Grab(p) \/ GrabbedAll(p) PROVE Types'
  BY <1>7 DEF Grab, GrabbedAll, GoesOn, devices
<1>8. ASSUME NEW p \in Programs, GrabFails(p) PROVE Types'
  BY <1>5, <1>8 DEF GrabFails, GoesOn, LetGo
<1>9. ASSUME NEW p \in Programs, Toggle(p) PROVE Types'
  BY <1>9 DEF Toggle, GoesOn, LetGo
<1>10. ASSUME NEW p \in Programs, Capture(p) PROVE Types'
  BY <1>10 DEF Capture, GoesOn, devices
<1>11. ASSUME NEW p \in Programs, Load(p) PROVE Types'
  <2>1. config' \in [Programs -> [Names -> Values]]
    BY <1>11 DEF Load
  <2> QED
    BY <1>11, <2>1 DEF Load, GoesOn, devices
<1>12. ASSUME NEW p \in Programs, Truncate(p) \/ Write(p) PROVE Types'
  <2>1. CASE Truncate(p)
    BY <2>1 DEF Truncate, GoesOn, devices
  <2>2. CASE Write(p)
    <3>1. config[p] \in [Names -> Values] /\ NoBindings \in [Names -> Values]
      OBVIOUS
    <3>2. file' \in [Names -> Values] /\ config' \in [Programs -> [Names -> Values]]
      BY <2>2, <3>1 DEF Write
    <3>3. kind[p] \in Names
      BY <2>2 DEF Write
    <3>4. saved' \in [Names -> Values]
      BY <2>2, <3>1, <3>3 DEF Write
    <3> QED
      BY <2>2, <3>2, <3>4 DEF Write, GoesOn, devices
  <2> QED
    BY <1>12, <2>1, <2>2
<1>13. ASSUME NEW p \in Programs, CaptureFails(p) \/ Finish(p) \/ RelayFails(p) PROVE Types'
  BY <1>5, <1>13 DEF CaptureFails, Finish, RelayFails
<1>14. ASSUME UNCHANGED vars PROVE Types'
  BY <1>14 DEF vars
<1> QED
  BY <1>1, <1>2, <1>4, <1>6, <1>7, <1>8, <1>9, <1>10, <1>11, <1>12, <1>13, <1>14 DEF Next, Step

LEMMA GrabsHold == Types /\ Grabs /\ [Next]_vars => Grabs'
<1> SUFFICES ASSUME Types, Grabs, [Next]_vars PROVE Grabs'
  OBVIOUS
<1> USE BindingAssumption DEF Types, Learning, HasMice, HasOpened, Grabs, Nobody
<1>1. ASSUME NEW m \in Mice, Plug(m) PROVE Grabs'
  BY <1>1 DEF Plug
<1>2. ASSUME NEW m \in Mice, Unplug(m) PROVE Grabs'
  BY <1>2 DEF Unplug
<1>3. ASSUME NEW p \in Programs, Start(p) PROVE Grabs'
  BY <1>3 DEF Start, devices
<1>4. ASSUME NEW p \in Programs, Ends(p) PROVE Grabs'
  BY <1>4 DEF Ends, LetGo, GoesOn
<1>5. ASSUME NEW p \in Programs, Dies(p) PROVE Grabs'
  BY <1>4, <1>5 DEF Dies
<1>6. ASSUME NEW p \in Programs, Fails(p) PROVE Grabs'
  BY <1>4, <1>6 DEF Fails
<1>7. ASSUME NEW p \in Programs, LoadConfig(p) PROVE Grabs'
  BY <1>6, <1>7 DEF LoadConfig, GoesOn, devices
<1>8. ASSUME NEW p \in Programs, Discover(p) PROVE Grabs'
  BY <1>6, <1>8 DEF Discover, GoesOn, devices
<1>9. ASSUME NEW p \in Programs, Grab(p) PROVE Grabs'
  \* Only a mouse that nobody has is grabbed.
  <2>1. PICK m \in opened[p] : holder[m] = Nobody /\ holder' = [holder EXCEPT ![m] = p]
    BY <1>9 DEF Grab
  <2>2. UNCHANGED <<plugged, unplugged, steady, pc, opened, kind>>
    BY <1>9 DEF Grab
  <2>3. ASSUME NEW q \in Programs, pc[q] \in HasMice, NEW k \in steady PROVE holder'[k] = q
    BY <2>1, <2>3
  <2> QED
    BY <2>2, <2>3
<1>10. ASSUME NEW p \in Programs, GrabbedAll(p) PROVE Grabs'
  BY <1>10 DEF GrabbedAll, Grabbing, GoesOn, devices
<1>11. ASSUME NEW p \in Programs, GrabFails(p) PROVE Grabs'
  BY <1>6, <1>11 DEF GrabFails, Grabbing, GoesOn, LetGo
<1>12. ASSUME NEW p \in Programs, Toggle(p) PROVE Grabs'
  BY <1>12 DEF Toggle, GoesOn, LetGo
<1>13. ASSUME NEW p \in Programs, Capture(p) \/ Load(p) \/ Truncate(p) \/ Write(p) PROVE Grabs'
  BY <1>13 DEF Capture, Load, Truncate, Write, GoesOn, devices
<1>14. ASSUME NEW p \in Programs, CaptureFails(p) \/ Finish(p) \/ RelayFails(p) PROVE Grabs'
  BY <1>6, <1>14 DEF CaptureFails, Finish, RelayFails
<1>15. ASSUME UNCHANGED vars PROVE Grabs'
  BY <1>15 DEF vars
<1> QED
  BY <1>1, <1>2, <1>3, <1>5, <1>7, <1>8, <1>9, <1>10, <1>11, <1>12, <1>13, <1>14, <1>15 DEF Next, Step

\* The grab is a lock: of two programs that have the mice, one has none of those that stay.
LEMMA OneHasTheMice ==
  ASSUME Types, Grabs, steady # {}, NEW p \in Programs, NEW q \in Programs,
         pc[p] \in HasMice, pc[q] \in HasMice
  PROVE p = q
BY DEF Grabs

\* A step that changes neither the file nor what is saved, and makes nobody begin or
\* end writing, keeps the bindings.
LEMMA Untouched ==
  ASSUME BindingsKept, UNCHANGED <<file, saved>>, steady' \subseteq steady, torn => torn',
         \A q \in Programs :
           /\ pc[q] = "write" <=> pc'[q] = "write"
           /\ pc'[q] \in {"truncate", "write"} =>
                pc[q] \in {"truncate", "write"} /\ kind'[q] = kind[q] /\ config'[q] = config[q]
  PROVE BindingsKept'
BY DEF BindingsKept

LEMMA BindingsHold == IInv /\ [Next]_vars => BindingsKept'
<1> SUFFICES ASSUME Types, Grabs, BindingsKept, [Next]_vars PROVE BindingsKept'
  BY DEF IInv
<1>1. pc \in [Programs -> HasOpened \cup {"idle", "ended", "config", "discover"}]
      /\ kind \in [Programs -> Names \cup {"run"}]
      /\ key \in [Programs -> Values] /\ config \in [Programs -> [Names -> Values]]
      /\ file \in [Names -> Values] /\ saved \in [Names -> Values]
  BY DEF Types
<1>2. ASSUME NEW m \in Mice, Plug(m) \/ Unplug(m) PROVE BindingsKept'
  BY <1>2, Untouched DEF Plug, Unplug
<1>3. ASSUME NEW p \in Programs, Start(p) PROVE BindingsKept'
  BY <1>1, <1>3, Untouched DEF Start, devices
<1>4. ASSUME NEW p \in Programs, Ends(p), pc[p] # "write", torn => torn' PROVE BindingsKept'
  BY <1>1, <1>4, Untouched DEF Ends, GoesOn
<1>5. ASSUME NEW p \in Programs, Dies(p) PROVE BindingsKept'
  <2>1. CASE pc[p] = "write"
    BY <1>5, <2>1 DEF Dies, BindingsKept
  <2>2. CASE pc[p] # "write"
    BY <1>4, <1>5, <2>2 DEF Dies
  <2> QED
    BY <2>1, <2>2
<1>6. ASSUME NEW p \in Programs, Fails(p), pc[p] # "write" PROVE BindingsKept'
  BY <1>4, <1>6 DEF Fails
<1>7. ASSUME NEW p \in Programs, LoadConfig(p) \/ Discover(p) PROVE BindingsKept'
  BY <1>1, <1>6, <1>7, Untouched DEF LoadConfig, Discover, GoesOn
<1>8. ASSUME NEW p \in Programs, Grab(p) \/ GrabbedAll(p) PROVE BindingsKept'
  BY <1>1, <1>8, Untouched DEF Grab, GrabbedAll, Grabbing, GoesOn
<1>9. ASSUME NEW p \in Programs, GrabFails(p) PROVE BindingsKept'
  BY <1>1, <1>6, <1>9, Untouched DEF GrabFails, Grabbing, GoesOn
<1>10. ASSUME NEW p \in Programs, Toggle(p) PROVE BindingsKept'
  BY <1>1, <1>10, Untouched DEF Toggle, GoesOn
<1>11. ASSUME NEW p \in Programs, Capture(p) PROVE BindingsKept'
  BY <1>1, <1>11, Untouched DEF Capture, GoesOn
<1>12. ASSUME NEW p \in Programs, CaptureFails(p) \/ Finish(p) \/ RelayFails(p)
       PROVE BindingsKept'
  BY <1>6, <1>12 DEF CaptureFails, Finish, RelayFails
<1>13. ASSUME NEW p \in Programs, Load(p), ~torn, steady # {} PROVE BindingsKept'
  \* Nobody else writes while it reads.
  <2>1. \A q \in Programs : q # p => pc[q] \notin {"truncate", "write"}
    BY <1>13, OneHasTheMice DEF Load, Learning, HasMice
  <2>2. \A n \in Names : file[n] = saved[n]
    BY <1>13, <2>1 DEF Load, BindingsKept
  <2>3. \A n \in Names : n # kind[p] => config'[p][n] = saved[n]
    BY <1>1, <1>13, <2>2 DEF Load
  <2>4. \A q \in Programs : q # p => pc'[q] = pc[q]
    BY <1>1, <1>13 DEF Load, GoesOn
  <2> QED
    BY <1>13, <2>1, <2>2, <2>3, <2>4 DEF Load, BindingsKept
<1>14. ASSUME NEW p \in Programs, Truncate(p), ~torn, steady # {} PROVE BindingsKept'
  <2>1. pc'[p] = "write" /\ \A q \in Programs : q # p => pc'[q] = pc[q]
    BY <1>1, <1>14 DEF Truncate, GoesOn
  <2> QED
    BY <1>14, <2>1 DEF Truncate, BindingsKept
<1>15. ASSUME NEW p \in Programs, Write(p), ~torn, steady # {} PROVE BindingsKept'
  <2>1. \A q \in Programs : q # p => pc[q] \notin {"truncate", "write"}
    BY <1>15, OneHasTheMice DEF Write, Learning, HasMice
  <2>2. kind[p] \in Names
    BY <1>15 DEF Write, Grabs, Learning
  <2>3. \A n \in Names : file'[n] = saved'[n]
    BY <1>1, <1>15, <2>2 DEF Write, BindingsKept
  <2>4. \A q \in Programs : pc'[q] \notin {"truncate", "write"}
    BY <1>1, <1>15, <2>1 DEF Write, GoesOn
  <2> QED
    BY <2>3, <2>4 DEF BindingsKept
<1>16. ASSUME NEW p \in Programs, Load(p) \/ Truncate(p) \/ Write(p), torn \/ steady = {}
       PROVE BindingsKept'
  BY <1>16 DEF Load, Truncate, Write, BindingsKept
<1>17. ASSUME UNCHANGED vars PROVE BindingsKept'
  BY <1>17 DEF vars, BindingsKept
<1> QED
  BY <1>2, <1>3, <1>5, <1>7, <1>8, <1>9, <1>10, <1>11, <1>12, <1>13, <1>14, <1>15, <1>16, <1>17
     DEF Next, Step

\* No binding that was saved is lost, for any number of programs and mice: it is in
\* the file unless a program is writing, and in what that program writes.
THEOREM NoBindingLost == Spec => []BindingsKept
<1>1. Init => IInv
  <2>1. Init => Types
    BY DEF Init, Types, Values, NoBindings, None, HasOpened
  <2>2. Init => Grabs
    BY DEF Init, Grabs, HasOpened, HasMice, Learning
  <2>3. Init => BindingsKept
    BY DEF Init, BindingsKept
  <2> QED
    BY <2>1, <2>2, <2>3 DEF IInv
<1>2. IInv /\ [Next]_vars => IInv'
  BY TypesHold, GrabsHold, BindingsHold DEF IInv
<1>3. IInv => BindingsKept
  BY DEF IInv
<1> QED
  BY <1>1, <1>2, <1>3, PTL DEF Spec
=============================================================================
