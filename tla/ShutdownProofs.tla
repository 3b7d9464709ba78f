---------------------------- MODULE ShutdownProofs -----------------------------
(***************************************************************************)
(* For any number of children: when the launcher ends because one of them  *)
(* did, none is left running or unreaped but those try_wait or wait failed *)
(* on.                                                                     *)
(* For any processes and any number of mappings: a session lives exactly   *)
(* as long as it can be reached; the kref is the number of references      *)
(* held, one by the open file and one by each mapping.  In the composition *)
(* both hold, and when nobody is left nothing of the session is either.    *)
(***************************************************************************)
EXTENDS Shutdown, Integers, FunctionTheorems, FiniteSetTheorems, TLAPS

-----------------------------------------------------------------------------
(* The launcher by itself.                                                 *)

\* The siblings dealt with are reaped or unknown; until then nobody is signalled.
Behind ==
  /\ pc \in {"spawn", "poll"} => signalled = {}
  /\ \A c \in Children : child[c] = "killed" => c \in signalled
  /\ pc \in {"siblings", "wait"} =>
       \A c \in 1 .. idx - 1 : child[c] = "reaped" \/ c \in unknown
  /\ pc \in {"success", "failure"} =>
       \A c \in 1 .. NumChildren : child[c] = "reaped" \/ c \in unknown

IInv == TypeOK /\ Behind

LEMMA Indices ==
  ASSUME TypeOK
  PROVE  NumChildren \in Nat \ {0} /\ idx \in 1 .. NumChildren /\ Children = 1 .. NumChildren
BY SupervisorAssumption DEF TypeOK, Children, SupervisorAssumption

LEMMA InitIInv == Init => IInv
<1> SUFFICES ASSUME Init PROVE IInv
  OBVIOUS
<1>1. TypeOK
  BY SupervisorAssumption DEF Init, TypeOK, Children, SupervisorAssumption
<1>2. Behind
  BY DEF Init, Behind
<1> QED BY <1>1, <1>2 DEF IInv

\* The step that leaves the sibling idx, reaped or unknown.
LEMMA NextSiblingKeeps ==
  ASSUME IInv, NextSibling, pc \in {"siblings", "wait"},
         child' \in [Children -> {"none", "running", "reaped"} \cup Exited],
         \A c \in Children : child'[c] = "killed" => c \in signalled',
         \A c \in Children : child[c] = "reaped" => child'[c] = "reaped",
         found' = found, signalled' = signalled, unknown \subseteq unknown', unknown' \subseteq Children,
         child'[idx] = "reaped" \/ idx \in unknown'
  PROVE  IInv'
<1>1. NumChildren \in Nat \ {0} /\ idx \in 1 .. NumChildren /\ Children = 1 .. NumChildren
  BY Indices DEF IInv
<1>2. \A c \in 1 .. idx : child'[c] = "reaped" \/ c \in unknown'
  BY <1>1 DEF IInv, Behind
<1>3. CASE idx < NumChildren
  <2>1. pc' = "siblings" /\ idx' = idx + 1
    BY <1>3 DEF NextSibling
  <2>2. TypeOK'
    BY <1>1, <1>3, <2>1 DEF IInv, TypeOK
  <2> QED BY <1>1, <1>2, <2>1, <2>2 DEF IInv, Behind
<1>4. CASE ~(idx < NumChildren)
  <2>1. pc' \in {"success", "failure"} /\ idx' = idx /\ idx = NumChildren
    BY <1>1, <1>4 DEF NextSibling
  <2>2. TypeOK'
    BY <1>1, <2>1 DEF IInv, TypeOK, Endings
  <2> QED BY <1>1, <1>2, <2>1, <2>2 DEF IInv, Behind
<1> QED BY <1>3, <1>4

LEMMA ReapKeepsTypes ==
  ASSUME IInv, Reap(idx)
  PROVE  /\ child' \in [Children -> {"none", "running", "reaped"} \cup Exited]
         /\ \A c \in Children : child'[c] = "killed" => c \in signalled
         /\ child'[idx] = "reaped"
         /\ \A c \in Children : c # idx => child'[c] = child[c]
<1>1. child \in [Children -> {"none", "running", "reaped"} \cup Exited] /\ idx \in Children
  BY DEF IInv, TypeOK
<1>2. child' = [child EXCEPT ![idx] = "reaped"]
  BY DEF Reap
<1>3. \A c \in Children : child[c] = "killed" => c \in signalled
  BY DEF IInv, Behind
<1> QED BY <1>1, <1>2, <1>3

LEMMA ChildEndsKeeps ==
  ASSUME IInv, NEW c \in Children, ChildExits(c) \/ ChildKilled(c)
  PROVE  IInv'
<1>1. PICK status \in Exited :
        /\ child[c] = "running" /\ child' = [child EXCEPT ![c] = status]
        /\ status = "killed" => c \in signalled
        /\ UNCHANGED <<found, unknown, signalled, pc, idx>>
  BY DEF ChildExits, ChildKilled, Exited
<1>2. child \in [Children -> {"none", "running", "reaped"} \cup Exited]
  BY DEF IInv, TypeOK
<1>3. \A d \in Children : child'[d] = "reaped" <=> child[d] = "reaped"
  BY <1>1, <1>2 DEF Exited
<1>4. TypeOK'
  BY <1>1, <1>2 DEF IInv, TypeOK, Exited
<1>5. \A d \in Children : child'[d] = "killed" => d \in signalled'
  BY <1>1, <1>2 DEF IInv, Behind
<1>6. NumChildren \in Nat /\ idx \in 1 .. NumChildren /\ Children = 1 .. NumChildren
  BY Indices DEF IInv
<1>7. Behind'
  BY <1>1, <1>3, <1>5, <1>6 DEF IInv, Behind
<1> QED BY <1>4, <1>7 DEF IInv

LEMMA LauncherKeeps == IInv /\ (Launcher \/ WaitFails) => IInv'
<1> SUFFICES ASSUME IInv, Launcher \/ WaitFails PROVE IInv'
  OBVIOUS
<1> USE DEF IInv
<1>0. NumChildren \in Nat \ {0} /\ idx \in 1 .. NumChildren /\ Children = 1 .. NumChildren
  BY Indices
<1>1. CASE Spawn
  <2>1. TypeOK'
    BY <1>0, <1>1 DEF Spawn, TypeOK
  <2>2. Behind'
    BY <1>1 DEF Spawn, Behind, TypeOK
  <2> QED BY <2>1, <2>2
<1>2. CASE SpawnFails
  BY <1>2 DEF SpawnFails, TypeOK, Behind, Endings
<1>3. CASE PollRunning
  <2>1. TypeOK'
    BY <1>0, <1>3 DEF PollRunning, TypeOK
  <2> QED BY <1>3, <2>1 DEF PollRunning, Behind
<1>4. CASE PollExited
  <2>1. /\ Reap(idx) /\ pc' = "siblings" /\ idx' = 1 /\ found' = child[idx]
        /\ unknown' = unknown /\ signalled' = signalled
    BY <1>4 DEF PollExited
  <2>2. found' \in {"clean", "failed"}
    BY <1>0, <1>4, <2>1 DEF PollExited, Exited, Behind
  <2>3. TypeOK'
    BY <1>0, <2>1, <2>2, ReapKeepsTypes DEF TypeOK
  <2> QED BY <2>1, <2>3, ReapKeepsTypes DEF Behind
<1>5. CASE PollFails
  BY <1>0, <1>5 DEF PollFails, Unknown, TypeOK, Behind, Endings
<1>6. CASE SiblingDone
  <2>1. pc = "siblings" /\ NextSibling /\ found' = found /\ signalled' = signalled
    BY <1>6 DEF SiblingDone
  <2>2. CASE child[idx] \in Exited /\ Reap(idx) /\ UNCHANGED unknown
    BY <1>0, <2>1, <2>2, NextSiblingKeeps, ReapKeepsTypes DEF TypeOK
  <2>3. CASE child[idx] = "reaped" /\ UNCHANGED <<child, unknown>>
    BY <2>1, <2>3, NextSiblingKeeps DEF TypeOK, Behind
  <2>4. CASE child[idx] # "reaped" /\ Unknown /\ UNCHANGED child
    BY <1>0, <2>1, <2>4, NextSiblingKeeps DEF Unknown, TypeOK, Behind
  <2> QED BY <1>6, <2>2, <2>3, <2>4 DEF SiblingDone
<1>7. CASE SiblingKilled \/ KillFails
  BY <1>0, <1>7 DEF SiblingKilled, KillFails, TypeOK, Behind
<1>8. CASE SiblingWaited
  <2>1. /\ pc = "wait" /\ Reap(idx) /\ NextSibling
        /\ found' = found /\ unknown' = unknown /\ signalled' = signalled
    BY <1>8 DEF SiblingWaited
  <2> QED BY <1>0, <2>1, NextSiblingKeeps, ReapKeepsTypes DEF TypeOK
<1>9. CASE WaitFails
  <2>1. /\ pc = "wait" /\ Unknown /\ NextSibling
        /\ found' = found /\ child' = child /\ signalled' = signalled
    BY <1>9 DEF WaitFails
  <2> QED BY <1>0, <2>1, NextSiblingKeeps DEF Unknown, TypeOK, Behind
<1> QED BY <1>1, <1>2, <1>3, <1>4, <1>5, <1>6, <1>7, <1>8, <1>9 DEF Launcher

LEMMA StepKeepsIInv == IInv /\ [Next]_vars => IInv'
<1>1. IInv /\ UNCHANGED vars => IInv'
  BY DEF IInv, vars, TypeOK, Behind
<1> QED BY <1>1, ChildEndsKeeps, LauncherKeeps DEF Next

LEMMA Inductive == Init /\ [][Next]_vars => []IInv
BY InitIInv, StepKeepsIInv, PTL

\* The launcher's books keep their types; it never looks beyond its children.
THEOREM TypeCorrect == Spec => []TypeOK
<1>1. IInv => TypeOK
  BY DEF IInv
<1> QED BY Inductive, <1>1, PTL DEF Spec

LEMMA NobodyLeft == IInv => NoneLeftBehind
BY DEF IInv, Behind, NoneLeftBehind, Children

\* However many children there are, however their exits fall between the launcher's
\* checks and kills, and whichever kill fails, none is left behind but those that
\* try_wait or wait failed on.
THEOREM AllAreReaped == Spec => []NoneLeftBehind
BY Inductive, NobodyLeft, PTL DEF Spec

-----------------------------------------------------------------------------
(* A session by itself.                                                    *)

\* The references of the mappings: one for each mapping of each process.
Held == {r \in Procs \X (Nat \ {0}) : r[2] <= maps[r[1]]}

FileRef == IF \E p \in Procs : fd[p] THEN 1 ELSE 0

\* While open() runs nobody else can reach the session; afterwards the count is
\* right and decides what is allocated.
Counted ==
  /\ IsFiniteSet(Held)
  /\ opening = "done" =>
       /\ refs = FileRef + Cardinality(Held)
       /\ allocated = IF refs = 0 THEN {} ELSE Session!Everything
  /\ opening # "done" => (\A p \in Procs : ~fd[p] /\ maps[p] = 0)
  /\ opening \in {"start", "failed"} => allocated = {} /\ refs = 0
  /\ opening = "ref" => allocated = {"session"} /\ refs = 1
  /\ opening = "mapping" => allocated = {"session", "mapping"} /\ refs = 1
  /\ opening = "scratch" => allocated = Session!Everything /\ refs = 1

SessionInv == Session!TypeOK /\ Counted

LEMMA NoneHeld ==
  ASSUME \A p \in Procs : maps[p] = 0
  PROVE  Held = {}
BY DEF Held

LEMMA SessionInit == Session!Init => SessionInv
<1> SUFFICES ASSUME Session!Init PROVE SessionInv
  OBVIOUS
<1>1. Held = {}
  BY NoneHeld DEF Session!Init
<1>2. IsFiniteSet({})
  BY FS_EmptySet
<1>3. Session!TypeOK
  <2>1. private \in BOOLEAN
    BY DEF Session!Init
  <2>2. /\ opening \in {"start", "ref", "mapping", "scratch", "done", "failed"}
        /\ allocated \subseteq Session!Everything /\ refs \in Nat
        /\ fd \in [Procs -> BOOLEAN] /\ maps \in [Procs -> Nat]
    BY DEF Session!Init, Session!Everything
  <2> QED BY <2>1, <2>2 DEF Session!TypeOK
<1>4. IsFiniteSet(Held)
  BY <1>1, <1>2
<1>5. \A p \in Procs : ~fd[p] /\ maps[p] = 0
  BY DEF Session!Init
<1>6. opening = "start" /\ allocated = {} /\ refs = 0
  BY DEF Session!Init
<1>7. Counted
  BY <1>4, <1>5, <1>6 DEF Counted
<1> QED BY <1>3, <1>7 DEF SessionInv

\* Whoever holds a reference is counted: no allocation is gone.
LEMMA ReachableIsCounted ==
  ASSUME SessionInv, NEW p \in Procs, fd[p] \/ maps[p] > 0
  PROVE  /\ opening = "done" /\ refs \in Nat \ {0} /\ allocated = Session!Everything
         /\ Cardinality(Held) \in Nat
         /\ maps[p] > 0 => <<p, maps[p]>> \in Held /\ Cardinality(Held) > 0
<1> USE DEF SessionInv
<1>1. maps[p] \in Nat
  BY DEF Session!TypeOK
<1>2. opening = "done"
  BY <1>1 DEF Counted
<1>3. Cardinality(Held) \in Nat
  BY FS_CardinalityType DEF Counted
<1>4. ASSUME maps[p] > 0 PROVE <<p, maps[p]>> \in Held /\ Cardinality(Held) > 0
  <2>1. <<p, maps[p]>> \in Held
    BY <1>1, <1>4 DEF Held
  <2>2. Cardinality(Held) # 0
    BY <2>1, FS_EmptySet DEF Counted
  <2> QED BY <1>3, <2>1, <2>2
<1>5. refs # 0
  BY <1>2, <1>3, <1>4 DEF Counted, FileRef
<1>6. refs \in Nat
  BY DEF Session!TypeOK
<1> QED BY <1>2, <1>3, <1>4, <1>5, <1>6 DEF Counted

LEMMA OpenKeeps == SessionInv /\ Session!Open => SessionInv'
<1> SUFFICES ASSUME SessionInv, Session!Open PROVE SessionInv'
  OBVIOUS
<1> USE DEF SessionInv
<1>1. Held' = Held
  BY DEF Held, Session!Open, Session!AllocateSession, Session!AllocateMapping, Session!AllocateScratch,
            Session!OpenFails, Session!InitFails, Session!OpenDone
<1>2. IsFiniteSet(Held')
  BY <1>1 DEF Counted
<1>3. CASE Session!AllocateSession \/ Session!AllocateMapping \/ Session!AllocateScratch \/ Session!OpenFails
  <2>1. Session!TypeOK'
    <3>1. (private \in BOOLEAN)'
      BY <1>3 DEF Session!TypeOK, Session!AllocateSession, Session!AllocateMapping, Session!AllocateScratch, Session!OpenFails
    <3>2. (opening \in {"start", "ref", "mapping", "scratch", "done", "failed"})'
      BY <1>3 DEF Session!AllocateSession, Session!AllocateMapping, Session!AllocateScratch, Session!OpenFails
    <3>3. (allocated \subseteq Session!Everything)'
      BY <1>3 DEF Session!TypeOK, Session!Everything, Session!AllocateSession, Session!AllocateMapping, Session!AllocateScratch, Session!OpenFails
    <3>5. (refs \in Nat)'
      BY <1>3 DEF Session!TypeOK, Session!AllocateSession, Session!AllocateMapping, Session!AllocateScratch, Session!OpenFails
    <3>4. (fd \in [Procs -> BOOLEAN] /\ maps \in [Procs -> Nat])'
      BY <1>3 DEF Session!TypeOK, Session!AllocateSession, Session!AllocateMapping, Session!AllocateScratch, Session!OpenFails
    <3> QED BY <3>1, <3>2, <3>3, <3>4, <3>5 DEF Session!TypeOK
  <2> QED
    BY <1>2, <1>3, <2>1 DEF Counted, Session!Everything, Session!AllocateSession, Session!AllocateMapping, Session!AllocateScratch,
                            Session!OpenFails
<1>4. ASSUME NEW p \in Procs, Session!OpenDone(p) PROVE SessionInv'
  <2>1. Held = {}
    BY <1>4, NoneHeld DEF Session!OpenDone, Counted
  <2>2. Cardinality(Held') = 0
    BY <1>1, <2>1, FS_EmptySet
  <2>3. Session!TypeOK'
    BY <1>4 DEF Session!TypeOK, Session!OpenDone
  <2>4. fd'[p] = TRUE
    BY <1>4 DEF Session!TypeOK, Session!OpenDone
  <2>5. FileRef' = 1
    BY <2>4 DEF FileRef
  <2>6. opening' = "done" /\ refs' = 1 /\ allocated' = Session!Everything
    BY <1>4 DEF Session!OpenDone, Counted
  <2> QED BY <1>2, <2>2, <2>3, <2>5, <2>6 DEF Counted
<1>5. CASE Session!InitFails
  <2>1. refs = 1 /\ opening = "scratch"
    BY <1>5 DEF Session!InitFails, Counted
  <2>2. /\ opening' = "failed" /\ refs' = 0 /\ allocated' = {}
        /\ UNCHANGED <<private, fd, maps>>
    BY <1>5, <2>1 DEF Session!InitFails, Session!Put
  <2>3. Session!TypeOK'
    BY <2>2 DEF Session!TypeOK
  <2> QED BY <1>2, <2>1, <2>2, <2>3 DEF Counted
<1> QED BY <1>3, <1>4, <1>5 DEF Session!Open

\* One mapping more is one reference more, one less one less.
LEMMA HeldOneMore ==
  ASSUME SessionInv, NEW p \in Procs, maps' = [maps EXCEPT ![p] = @ + 1]
  PROVE  IsFiniteSet(Held') /\ Cardinality(Held') = Cardinality(Held) + 1
<1>1. maps \in [Procs -> Nat]
  BY DEF SessionInv, Session!TypeOK
<1>2. Held' = Held \cup {<<p, maps[p] + 1>>}
  BY <1>1 DEF Held
<1>3. <<p, maps[p] + 1>> \notin Held
  BY <1>1 DEF Held
<1>4. IsFiniteSet(Held)
  BY DEF SessionInv, Counted
<1> QED BY <1>2, <1>3, <1>4, FS_AddElement

LEMMA HeldOneLess ==
  ASSUME SessionInv, NEW p \in Procs, maps[p] > 0, maps' = [maps EXCEPT ![p] = @ - 1]
  PROVE  IsFiniteSet(Held') /\ Cardinality(Held') = Cardinality(Held) - 1
<1>1. maps \in [Procs -> Nat]
  BY DEF SessionInv, Session!TypeOK
<1>2. Held' = Held \ {<<p, maps[p]>>}
  BY <1>1 DEF Held
<1>3. <<p, maps[p]>> \in Held
  BY <1>1 DEF Held
<1>4. IsFiniteSet(Held)
  BY DEF SessionInv, Counted
<1> QED BY <1>2, <1>3, <1>4, FS_RemoveElement

\* A fork holds as many references more as the parent has mappings.
LEMMA HeldFork ==
  ASSUME SessionInv, NEW p \in Procs, NEW q \in Procs, maps[q] = 0,
         maps' = [maps EXCEPT ![q] = maps[p]]
  PROVE  IsFiniteSet(Held') /\ Cardinality(Held') = Cardinality(Held) + maps[p]
<1> DEFINE n == maps[p]
           Copies == {q} \X (1 .. n)
           f == [k \in 1 .. n |-> <<q, k>>]
<1>1. maps \in [Procs -> Nat] /\ n \in Nat
  BY DEF SessionInv, Session!TypeOK
<1>2. f \in Bijection(1 .. n, Copies)
  <2>1. f \in [1 .. n -> Copies]
    OBVIOUS
  <2>2. \A j, k \in 1 .. n : f[j] = f[k] => j = k
    OBVIOUS
  <2>3. \A c \in Copies : \E k \in 1 .. n : f[k] = c
    <3>1. TAKE c \in Copies
    <3>2. c[2] \in 1 .. n /\ c = <<q, c[2]>>
      OBVIOUS
    <3>3. f[c[2]] = c
      BY <3>2
    <3> QED BY <3>2, <3>3
  <2> HIDE DEF f, Copies
  <2> QED BY <2>1, <2>2, <2>3, Fun_IsBij
<1>3. ExistsBijection(1 .. n, Copies)
  BY <1>2 DEF ExistsBijection
<1>4. IsFiniteSet(1 .. n) /\ Cardinality(1 .. n) = n
  BY <1>1, FS_Interval
<1>5. IsFiniteSet(Copies) /\ Cardinality(Copies) = n
  BY <1>3, <1>4, FS_Bijection
<1>6. Held' = Held \cup Copies
  BY <1>1 DEF Held
<1>7. Held \cap Copies = {}
  BY <1>1 DEF Held
<1>8. IsFiniteSet(Held)
  BY DEF SessionInv, Counted
<1>9. Cardinality(Held) \in Nat
  BY <1>8, FS_CardinalityType
<1>10. Cardinality(Held') = Cardinality(Held) + Cardinality(Copies) - 0
  BY <1>5, <1>6, <1>7, <1>8, FS_Union, FS_EmptySet
<1>11. IsFiniteSet(Held')
  BY <1>5, <1>6, <1>8, FS_Union
<1> QED BY <1>1, <1>5, <1>9, <1>10, <1>11

LEMMA MapKeeps == ASSUME NEW p \in Procs, SessionInv, Session!Mmap(p) \/ Session!Split(p) PROVE SessionInv'
<1>1. fd[p] \/ maps[p] > 0
  BY DEF Session!Mmap, Session!Split
<1>2. opening = "done" /\ refs \in Nat \ {0} /\ allocated = Session!Everything /\ Cardinality(Held) \in Nat
  BY <1>1, ReachableIsCounted
<1>3. maps \in [Procs -> Nat]
  BY DEF SessionInv, Session!TypeOK
<1>4. maps' = [maps EXCEPT ![p] = @ + 1]
  BY <1>3 DEF Session!Mmap, Session!Split
<1>5. IsFiniteSet(Held') /\ Cardinality(Held') = Cardinality(Held) + 1
  BY <1>4, HeldOneMore
<1>6. refs' = refs + 1 /\ UNCHANGED <<opening, allocated, private, fd>>
  BY DEF Session!Mmap, Session!Split, Session!Get
<1>7. Session!TypeOK'
  BY <1>2, <1>3, <1>4, <1>6 DEF SessionInv, Session!TypeOK
<1>8. FileRef' = FileRef /\ FileRef \in Nat
  BY <1>6 DEF FileRef
<1>9. refs = FileRef + Cardinality(Held)
  BY <1>2 DEF SessionInv, Counted
<1> QED BY <1>2, <1>5, <1>6, <1>7, <1>8, <1>9 DEF SessionInv, Counted

LEMMA MunmapKeeps == ASSUME NEW p \in Procs, SessionInv, Session!Munmap(p) PROVE SessionInv'
<1>1. maps[p] > 0 /\ maps' = [maps EXCEPT ![p] = @ - 1]
  BY DEF Session!Munmap
<1>2. /\ opening = "done" /\ refs \in Nat \ {0} /\ allocated = Session!Everything
      /\ Cardinality(Held) \in Nat /\ Cardinality(Held) > 0
  BY <1>1, ReachableIsCounted
<1>3. maps \in [Procs -> Nat]
  BY DEF SessionInv, Session!TypeOK
<1>4. IsFiniteSet(Held') /\ Cardinality(Held') = Cardinality(Held) - 1
  BY <1>1, HeldOneLess
<1>5. /\ refs' = refs - 1 /\ allocated' = (IF refs = 1 THEN {} ELSE allocated)
      /\ UNCHANGED <<opening, private, fd>>
  BY DEF Session!Munmap, Session!Put
<1>6. Session!TypeOK'
  BY <1>1, <1>2, <1>3, <1>5 DEF SessionInv, Session!TypeOK
<1>7. FileRef' = FileRef /\ FileRef \in Nat
  BY <1>5 DEF FileRef
<1>8. refs = FileRef + Cardinality(Held)
  BY <1>2 DEF SessionInv, Counted
<1> QED BY <1>2, <1>4, <1>5, <1>6, <1>7, <1>8 DEF SessionInv, Counted

LEMMA CloseKeeps == ASSUME NEW p \in Procs, SessionInv, Session!Close(p) PROVE SessionInv'
<1>1. fd[p] /\ fd' = [fd EXCEPT ![p] = FALSE] /\ UNCHANGED <<opening, maps>>
  BY DEF Session!Close
<1>2. /\ opening = "done" /\ refs \in Nat \ {0} /\ allocated = Session!Everything
      /\ Cardinality(Held) \in Nat
  BY <1>1, ReachableIsCounted
<1>3. fd \in [Procs -> BOOLEAN]
  BY DEF SessionInv, Session!TypeOK
<1>4. Held' = Held /\ IsFiniteSet(Held)
  BY <1>1 DEF Held, SessionInv, Counted
<1>5. FileRef = 1 /\ refs = 1 + Cardinality(Held)
  BY <1>1, <1>2 DEF FileRef, SessionInv, Counted
<1>6. CASE \E q \in Procs \ {p} : fd[q]
  <2>1. FileRef' = 1
    BY <1>1, <1>3, <1>6 DEF FileRef
  <2>2. UNCHANGED <<private, refs, allocated>>
    BY <1>6 DEF Session!Close
  <2>3. Session!TypeOK'
    BY <1>1, <1>3, <2>2 DEF SessionInv, Session!TypeOK
  <2> QED BY <1>1, <1>2, <1>4, <1>5, <2>1, <2>2, <2>3 DEF SessionInv, Counted
<1>7. CASE ~ \E q \in Procs \ {p} : fd[q]
  <2>1. FileRef' = 0
    BY <1>1, <1>3, <1>7 DEF FileRef
  <2>2. private' = FALSE /\ refs' = refs - 1 /\ allocated' = (IF refs = 1 THEN {} ELSE allocated)
    BY <1>7 DEF Session!Close, Session!Put
  <2>3. Session!TypeOK'
    <3>1. private' \in BOOLEAN
      BY <2>2
    <3>2. refs' \in Nat /\ allocated' \subseteq Session!Everything
      BY <1>2, <2>2
    <3>3. fd' \in [Procs -> BOOLEAN]
      BY <1>1, <1>3
    <3>4. /\ maps' \in [Procs -> Nat]
          /\ opening' \in {"start", "ref", "mapping", "scratch", "done", "failed"}
      BY <1>1 DEF SessionInv, Session!TypeOK
    <3> QED BY <3>1, <3>2, <3>3, <3>4 DEF Session!TypeOK
  <2> QED BY <1>1, <1>2, <1>4, <1>5, <2>1, <2>2, <2>3 DEF SessionInv, Counted
<1> QED BY <1>6, <1>7

LEMMA ForkKeeps == ASSUME NEW p \in Procs, NEW q \in Procs, SessionInv, Session!Fork(p, q) PROVE SessionInv'
<1>1. /\ fd[p] \/ maps[p] > 0
      /\ ~fd[q] /\ maps[q] = 0
      /\ fd' = [fd EXCEPT ![q] = fd[p]] /\ maps' = [maps EXCEPT ![q] = maps[p]]
      /\ refs' = refs + maps[p]
      /\ UNCHANGED <<opening, allocated, private>>
  BY DEF Session!Fork, Session!Get
<1>2. /\ opening = "done" /\ refs \in Nat \ {0} /\ allocated = Session!Everything
      /\ Cardinality(Held) \in Nat
  BY <1>1, ReachableIsCounted
<1>3. maps \in [Procs -> Nat] /\ maps[p] \in Nat
      /\ fd \in [Procs -> BOOLEAN]
  BY DEF SessionInv, Session!TypeOK
<1>4. IsFiniteSet(Held') /\ Cardinality(Held') = Cardinality(Held) + maps[p]
  BY <1>1, HeldFork
<1>5. (\E r \in Procs : fd'[r]) <=> (\E r \in Procs : fd[r])
  BY <1>1, <1>3
<1>6. FileRef' = FileRef /\ FileRef \in Nat
  BY <1>5 DEF FileRef
<1>7. refs = FileRef + Cardinality(Held)
  BY <1>2 DEF SessionInv, Counted
<1>8. Session!TypeOK'
  BY <1>1, <1>2, <1>3 DEF SessionInv, Session!TypeOK
<1>9. refs' \in Nat \ {0}
  BY <1>1, <1>2, <1>3
<1> QED BY <1>1, <1>2, <1>3, <1>4, <1>6, <1>7, <1>8, <1>9 DEF SessionInv, Counted

LEMMA StutterKeeps == SessionInv /\ UNCHANGED sessionVars => SessionInv'
<1> SUFFICES ASSUME SessionInv, UNCHANGED sessionVars PROVE SessionInv'
  OBVIOUS
<1>1. Held' = Held /\ FileRef' = FileRef
  BY DEF sessionVars, Held, FileRef
<1> QED BY <1>1 DEF sessionVars, SessionInv, Session!TypeOK, Counted

\* The count is the number of references held, whatever the processes do.
THEOREM CountIsRight == Session!Spec => []SessionInv
<1>1. SessionInv /\ [Session!Next]_sessionVars => SessionInv'
  BY OpenKeeps, MapKeeps, MunmapKeeps, CloseKeeps, ForkKeeps,
     StutterKeeps DEF Session!Next
<1> QED BY SessionInit, <1>1, PTL DEF Session!Spec, Session!vars, sessionVars

\* The state of the session keeps its types.
THEOREM SessionTypes == Session!Spec => []Session!TypeOK
<1>1. SessionInv => Session!TypeOK
  BY DEF SessionInv
<1> QED BY CountIsRight, <1>1, PTL

\* Whoever holds a descriptor or a mapping finds the whole session allocated.
THEOREM NoUseAfterFree == Session!Spec => []Session!LiveWhileReachable
<1>1. SessionInv => Session!LiveWhileReachable
  BY ReachableIsCounted DEF Session!LiveWhileReachable
<1> QED BY CountIsRight, <1>1, PTL

LEMMA FreedIfUnreachable ==
  ASSUME SessionInv, opening \in {"start", "done", "failed"}, \A p \in Procs : ~fd[p] /\ maps[p] = 0
  PROVE  allocated = {}
<1>1. CASE opening = "done"
  <2>1. Cardinality(Held) = 0
    BY NoneHeld, FS_EmptySet
  <2>2. FileRef = 0
    BY DEF FileRef
  <2> QED BY <1>1, <2>1, <2>2 DEF SessionInv, Counted
<1> QED BY <1>1 DEF SessionInv, Counted

\* When the last descriptor and the last mapping are gone, all memory is freed.
THEOREM NoLeak == Session!Spec => []Session!FreedWhenUnreachable
<1>1. SessionInv => Session!FreedWhenUnreachable
  BY FreedIfUnreachable DEF Session!FreedWhenUnreachable, SessionInv, Counted
<1> QED BY CountIsRight, <1>1, PTL

\* Together: a session lives exactly as long as it can be reached.
THEOREM LifetimeIsRight == Session!Spec => []LivesWhileReachable
BY NoUseAfterFree, NoLeak, PTL DEF LivesWhileReachable, Session!LivesWhileReachable

-----------------------------------------------------------------------------
(* The composition.                                                        *)

\* What is not running holds nothing.
Gone == \A c \in Children : child[c] # "running" => Released(c)

SInv == IInv /\ SessionInv /\ Gone

\* Each step is one of each part, or leaves it alone.
LEMMA BothStep == [ShutdownNext]_allVars => [Next]_vars /\ [Session!Next]_sessionVars
<1> SUFFICES ASSUME [ShutdownNext]_allVars PROVE [Next]_vars /\ [Session!Next]_sessionVars
  OBVIOUS
<1>1. CASE SessionStep
  <2>1. UNCHANGED vars
    BY <1>1 DEF SessionStep
  <2>2. Opener \in Procs /\ Forked \subseteq Procs
    BY ShutdownAssumption DEF Procs, Children, ShutdownAssumption
  <2>3. CASE Opening
    BY <2>1, <2>2, <2>3 DEF Opening, Session!Next, Session!Open
  <2>4. CASE \E p \in Procs : Uses(p) \/ GivesBack(p)
    <3>1. PICK p \in Procs : Uses(p) \/ GivesBack(p)
      BY <2>4
    <3>2. CASE GivesBack(p)
      BY <2>1, <3>2 DEF GivesBack, Session!Next
    <3>3. CASE Uses(p)
      BY <2>1, <2>2, <3>3 DEF Uses, Session!Next
    <3> QED BY <3>1, <3>2, <3>3
  <2> QED BY <1>1, <2>3, <2>4 DEF SessionStep
<1>2. CASE ChildEnds
  BY <1>2 DEF ChildEnds, ChildGone, Next
<1>3. CASE LauncherStep \/ LauncherFails
  BY <1>3 DEF LauncherStep, LauncherFails, Next
<1>4. CASE UNCHANGED allVars
  BY <1>4 DEF allVars
<1> QED BY <1>1, <1>2, <1>3, <1>4 DEF ShutdownNext

LEMMA PartsHold == ShutdownSpec => [](IInv /\ SessionInv)
<1>1. ShutdownSpec => Init /\ [][Next]_vars
  BY BothStep, PTL DEF ShutdownSpec, ShutdownInit
<1>2. ShutdownSpec => Session!Spec
  BY BothStep, PTL DEF ShutdownSpec, ShutdownInit, Session!Spec, Session!vars, sessionVars
<1> QED BY <1>1, <1>2, CountIsRight, Inductive, PTL

\* A child that is not running got nothing of the session and keeps nothing.
LEMMA GoneKept == IInv /\ SessionInv /\ Gone /\ [ShutdownNext]_allVars => Gone'
<1> SUFFICES ASSUME IInv, SessionInv, Gone, [ShutdownNext]_allVars,
                    NEW c \in Children, child'[c] # "running"
             PROVE  Released(c)'
  BY DEF Gone
<1>0. /\ child \in [Children -> {"none", "running", "reaped"} \cup Exited] /\ idx \in Children
      /\ fd \in [Procs -> BOOLEAN] /\ maps \in [Procs -> Nat]
      /\ Children \subseteq Procs /\ Forked \cap Children = {} /\ Opener \in Children
  BY ShutdownAssumption DEF IInv, TypeOK, SessionInv, Session!TypeOK, Procs, Children, ShutdownAssumption
<1>1. CASE SessionStep
  <2>1. child[c] # "running" /\ Released(c) /\ child' = child
    BY <1>1 DEF SessionStep, vars, Gone
  <2>2. CASE Opening
    <3>1. c # Opener
      BY <2>1, <2>2 DEF Opening
    <3>2. fd'[c] = fd[c] /\ maps' = maps
      BY <1>0, <2>2, <3>1 DEF Opening, Session!AllocateSession, Session!AllocateMapping,
           Session!AllocateScratch, Session!OpenFails, Session!InitFails, Session!OpenDone
    <3> QED BY <2>1, <3>1, <3>2 DEF Released
  <2>3. ASSUME NEW p \in Procs, Uses(p) \/ GivesBack(p) PROVE Released(c)'
    <3>1. opening' = opening
      BY <2>3 DEF Uses, GivesBack, Session!Mmap, Session!Split, Session!Fork,
                  Session!Munmap, Session!Close
    <3>2. CASE Uses(p)
      <4>1. p # c
        BY <2>1, <3>2 DEF Uses, Lives
      <4>2. CASE Session!Mmap(p) \/ Session!Split(p)
        BY <1>0, <2>1, <3>1, <4>1, <4>2 DEF Session!Mmap, Session!Split, Released
      <4>3. ASSUME NEW q \in Forked, Session!Fork(p, q) PROVE Released(c)'
        <5>1. q # c
          BY <1>0
        <5>2. fd'[c] = fd[c] /\ maps'[c] = maps[c]
          BY <1>0, <4>3, <5>1 DEF Session!Fork
        <5> QED BY <2>1, <3>1, <5>2 DEF Released
      <4> QED BY <3>2, <4>2, <4>3 DEF Uses
    <3>3. CASE GivesBack(p)
      <4>1. ~fd[c] /\ maps[c] = 0
        BY <2>1 DEF Released
      <4>2. p # c
        BY <1>0, <3>3, <4>1 DEF GivesBack, Session!Munmap, Session!Close
      <4>3. fd'[c] = fd[c] /\ maps'[c] = maps[c]
        BY <1>0, <3>3, <4>2 DEF GivesBack, Session!Munmap, Session!Close
      <4> QED BY <2>1, <3>1, <4>3 DEF Released
    <3> QED BY <2>3, <3>2, <3>3
  <2> QED BY <1>1, <2>2, <2>3 DEF SessionStep
<1>2. CASE ChildEnds
  <2>1. PICK d \in Children : (ChildExits(d) \/ ChildKilled(d)) /\ ChildGone(d)
    BY <1>2 DEF ChildEnds
  <2>2. c # d => child[c] # "running"
    BY <1>0, <2>1 DEF ChildExits, ChildKilled
  <2>3. Released(c)
    BY <2>1, <2>2 DEF ChildGone, Gone
  <2> QED BY <2>1, <2>3 DEF ChildGone, sessionVars, Released
<1>3. CASE LauncherStep \/ LauncherFails
  <2>1. child[c] # "running"
    <3>1. child' = child \/ child' = [child EXCEPT ![idx] = "running"]
          \/ (child[idx] \in Exited /\ Reap(idx))
      BY <1>3 DEF LauncherStep, LauncherFails, Launcher, Spawn, SpawnFails, PollRunning, PollExited,
                  PollFails, SiblingDone, SiblingKilled, KillFails, SiblingWaited, WaitFails
    <3> QED BY <1>0, <3>1 DEF Reap, Exited
  <2>2. Released(c)
    BY <2>1 DEF Gone
  <2> QED BY <1>3, <2>2 DEF LauncherStep, LauncherFails, sessionVars, Released
<1>4. CASE UNCHANGED allVars
  BY <1>4 DEF allVars, vars, sessionVars, Gone, Released
<1> QED BY <1>1, <1>2, <1>3, <1>4 DEF ShutdownNext

LEMMA GoneHolds == ShutdownSpec => []SInv
<1>1. ShutdownInit => Gone
  BY ShutdownAssumption DEF ShutdownInit, Session!Init, Gone, Released, Procs
<1> QED BY PartsHold, GoneKept, <1>1, PTL DEF ShutdownSpec, SInv

\* For any children, forked processes and mappings: the session lives exactly as
\* long as it can be reached, however its processes are killed.
THEOREM SessionLivesRight == ShutdownSpec => []LivesWhileReachable
BY BothStep, LifetimeIsRight, PTL DEF ShutdownSpec, ShutdownInit, Session!Spec, Session!vars, sessionVars

\* For any children, forked processes and mappings: when the launcher has ended
\* because a child did, nobody is left behind and nothing of the session either.
THEOREM NothingIsLeft == ShutdownSpec => []NothingLeft
<1>1. ASSUME SInv, pc \in {"success", "failure"}, unknown = {},
             \A p \in Forked : ~fd[p] /\ maps[p] = 0
      PROVE  allocated = {}
  <2>4. \A c \in Children : child[c] = "reaped"
    BY <1>1, NobodyLeft DEF NoneLeftBehind, SInv
  <2>5. \A c \in Children : Released(c)
    BY <1>1, <2>4 DEF SInv, Gone
  <2>6. Opener \in Children
    BY ShutdownAssumption DEF ShutdownAssumption, Children
  <2> QED BY <1>1, <2>5, <2>6, FreedIfUnreachable DEF SInv, Released, Procs
<1>2. SInv => NothingLeft
  BY <1>1, NobodyLeft DEF NothingLeft, SInv
<1> QED BY GoneHolds, <1>2, PTL
=============================================================================
