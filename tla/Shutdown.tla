------------------------------- MODULE Shutdown -------------------------------
(***************************************************************************)
(* The launcher and a memreader session of one of its children, together.  *)
(* A child that ends, or that the launcher kills, is taken down by the     *)
(* kernel first: a call in progress returns, its mappings and descriptors  *)
(* go, and only then can it be waited for.  What processes forked by the   *)
(* children hold is theirs: the launcher knows nothing of them.            *)
(*                                                                         *)
(* That the kernel unmaps and closes before a process can be reaped is     *)
(* modelled from how the module and the launcher rely on it.               *)
(***************************************************************************)
EXTENDS Supervisor

CONSTANTS
  Opener,       \* the child that opens the device
  Forked,       \* the processes that children may fork
  MaxMappings   \* bound: mappings of the ring in one process

ASSUME ShutdownAssumption ==
  /\ Opener \in 1 .. NumChildren
  /\ Forked \cap (1 .. NumChildren) = {}

VARIABLES opening, allocated, refs, private, fd, maps   \* of SessionRef

sessionVars == <<opening, allocated, refs, private, fd, maps>>
allVars == <<vars, sessionVars>>

Procs == Children \cup Forked

Session == INSTANCE SessionRef

-----------------------------------------------------------------------------

\* A process as the session sees it: of a child the launcher has sent SIGKILL no
\* program code runs any more.
Lives(p) == p \in Children => child[p] = "running" /\ p \notin signalled

\* Nothing of the session is left with p, and it is not in memreader_open.
Released(p) == /\ ~fd[p] /\ maps[p] = 0
               /\ p = Opener => opening \in {"start", "done", "failed"}

\* open() by its child; once begun it runs to its end.
Opening ==
  /\ child[Opener] = "running"
  /\ opening = "start" => Lives(Opener)
  /\ \/ Session!AllocateSession \/ Session!AllocateMapping \/ Session!AllocateScratch
     \/ Session!OpenFails \/ Session!InitFails \/ Session!OpenDone(Opener)

\* What a living process does with the session.
Uses(p) == /\ Lives(p)
           /\ Session!Mmap(p) \/ Session!Split(p) \/ \E q \in Forked : Session!Fork(p, q)

\* What it gives back, or the kernel for it.
GivesBack(p) == Session!Munmap(p) \/ Session!Close(p)

SessionStep == /\ Opening \/ \E p \in Procs : Uses(p) \/ GivesBack(p)
               /\ UNCHANGED vars

\* A child has exited when nothing is left with it.
ChildGone(c) == Released(c) /\ UNCHANGED sessionVars

\* The kernel takes down a child that was killed, and ends it.
Teardown == \E p \in signalled :
  \/ /\ (p = Opener /\ opening # "start" /\ Opening) \/ GivesBack(p)
     /\ UNCHANGED vars
  \/ ChildKilled(p) /\ ChildGone(p)

ChildEnds == \E c \in Children : (ChildExits(c) \/ ChildKilled(c)) /\ ChildGone(c)

LauncherStep == Launcher /\ UNCHANGED sessionVars
LauncherFails == WaitFails /\ UNCHANGED sessionVars

-----------------------------------------------------------------------------

ShutdownInit == Init /\ Session!Init

ShutdownNext == SessionStep \/ ChildEnds \/ LauncherStep \/ LauncherFails

\* The launcher's fairness is Supervisor's; the kernel ends what it has killed.
ShutdownSpec == /\ ShutdownInit /\ [][ShutdownNext]_allVars
                /\ WF_allVars(LauncherStep) /\ WF_allVars(Teardown)

-----------------------------------------------------------------------------
(* Properties.                                                             *)

\* The session lives exactly as long as somebody can reach it, also while its
\* processes are being killed, in mid-open or with several mappings.
LivesWhileReachable == Session!LivesWhileReachable

\* When the launcher ends because a child did, it has left nobody behind but the
\* children try_wait or wait failed on; and if they failed on none, the session's
\* memory is gone too, unless a process that a child forked still holds it: also
\* when a kill failed.
NothingLeft ==
  /\ NoneLeftBehind
  /\ /\ pc \in {"success", "failure"} /\ unknown = {}
     /\ \A p \in Forked : ~fd[p] /\ maps[p] = 0
     => allocated = {}
=============================================================================
