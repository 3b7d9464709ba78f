------------------------------ MODULE Supervisor ------------------------------
(***************************************************************************)
(* The launcher `fun`: it spawns its children one after the other, polls   *)
(* them in turn and, when it finds that one has exited, kills and reaps    *)
(* the others and exits with the status of the one it found.  Children     *)
(* exit on their own at any time, also between the launcher's checks, and  *)
(* try_wait, kill and wait may fail: of the siblings the errors are        *)
(* ignored.                                                                *)
(***************************************************************************)
EXTENDS Naturals

CONSTANT NumChildren   \* the children, in the order main spawns them

ASSUME SupervisorAssumption == NumChildren \in Nat \ {0}

VARIABLES
  child,      \* what each child is: "none", "running", "clean", "failed", "killed", "reaped"
  found,      \* how the child the launcher found had exited, or "nothing"
  unknown,    \* the children try_wait or wait has failed on
  signalled,  \* the children that SIGKILL was sent to
  pc,         \* main: "spawn", "poll", "siblings", "wait", or how it ended
  idx         \* the loop index of the phase the launcher is in

vars == <<child, found, unknown, signalled, pc, idx>>

Children == 1 .. NumChildren
Exited == {"clean", "failed", "killed"}
Endings == {"success", "failure", "spawn error", "wait error"}

\* A child exits by itself, with a status.
ChildExits(c) == \E status \in {"clean", "failed"} :
  /\ child[c] = "running"
  /\ child' = [child EXCEPT ![c] = status]
  /\ UNCHANGED <<found, unknown, signalled, pc, idx>>

\* The kernel ends a child that SIGKILL was sent to.
ChildKilled(c) ==
  /\ child[c] = "running" /\ c \in signalled
  /\ child' = [child EXCEPT ![c] = "killed"]
  /\ UNCHANGED <<found, unknown, signalled, pc, idx>>

\* main spawns the next child; after the last one it supervises.
Spawn == /\ pc = "spawn"
         /\ child' = [child EXCEPT ![idx] = "running"]
         /\ IF idx = NumChildren THEN pc' = "poll" /\ idx' = 1
                                 ELSE pc' = "spawn" /\ idx' = idx + 1
         /\ UNCHANGED <<found, unknown, signalled>>

\* spawn fails: main returns the error, the children before it run on.
SpawnFails == /\ pc = "spawn"
              /\ pc' = "spawn error"
              /\ UNCHANGED <<child, found, unknown, signalled, idx>>

\* try_wait or wait fails.
Unknown == unknown' = unknown \cup {idx}

\* try_wait or wait on a child that has exited reaps it.
Reap(c) == child' = [child EXCEPT ![c] = "reaped"]

\* Seeded fault: the poll leaves out the last child.
PollRunning_SkipsLast ==
  /\ pc = "poll" /\ child[idx] = "running"
  /\ idx' = IF idx + 1 >= NumChildren THEN 1 ELSE idx + 1
  /\ UNCHANGED <<child, found, unknown, signalled, pc>>

\* The polled child still runs: on to the next, and around after 250 ms.
PollRunning == /\ pc = "poll" /\ child[idx] = "running"
               /\ idx' = IF idx = NumChildren THEN 1 ELSE idx + 1
               /\ UNCHANGED <<child, found, unknown, signalled, pc>>

\* The polled child has exited: its siblings are terminated.
PollExited == /\ pc = "poll" /\ child[idx] \in Exited
              /\ Reap(idx)
              /\ found' = child[idx]
              /\ pc' = "siblings" /\ idx' = 1
              /\ UNCHANGED <<unknown, signalled>>

\* supervise_children returns the error of try_wait; the children run on.
PollFails == /\ pc = "poll"
             /\ Unknown
             /\ pc' = "wait error"
             /\ UNCHANGED <<child, found, signalled, idx>>

\* exit_for_child, after the last sibling.
NextSibling == IF idx < NumChildren THEN pc' = "siblings" /\ idx' = idx + 1
               ELSE pc' = (IF found = "clean" THEN "success" ELSE "failure") /\ idx' = idx

\* The child found, or a sibling that has exited meanwhile (try_wait reaps it),
\* or one that cannot be inspected: nothing is done about it.
SiblingDone == /\ pc = "siblings"
               /\ \/ /\ child[idx] \in Exited
                     /\ Reap(idx)
                     /\ UNCHANGED unknown
                  \/ /\ child[idx] = "reaped"
                     /\ UNCHANGED <<child, unknown>>
                  \/ /\ child[idx] # "reaped"
                     /\ Unknown
                     /\ UNCHANGED child
               /\ NextSibling
               /\ UNCHANGED <<found, signalled>>

\* Seeded fault: the signal is sent but the child is not waited for.
SiblingKilled_NoWait ==
  /\ pc = "siblings" /\ child[idx] = "running"
  /\ signalled' = signalled \cup {idx}
  /\ NextSibling
  /\ UNCHANGED <<child, found, unknown>>

\* try_wait says the sibling runs: it is killed, unless it exits first.
SiblingKilled == /\ pc = "siblings" /\ child[idx] = "running"
                 /\ signalled' = signalled \cup {idx}
                 /\ pc' = "wait"
                 /\ UNCHANGED <<child, found, unknown, idx>>

\* kill fails: the launcher waits for the sibling all the same.
KillFails == /\ pc = "siblings" /\ child[idx] = "running"
             /\ pc' = "wait"
             /\ UNCHANGED <<child, found, unknown, signalled, idx>>

\* wait() returns when the sibling has exited, of itself or killed.
SiblingWaited == /\ pc = "wait" /\ child[idx] \in Exited
                 /\ Reap(idx)
                 /\ NextSibling
                 /\ UNCHANGED <<found, unknown, signalled>>

\* wait() fails: the sibling is left as it is.
WaitFails == /\ pc = "wait"
             /\ Unknown
             /\ NextSibling
             /\ UNCHANGED <<child, found, signalled>>

-----------------------------------------------------------------------------

Init == /\ child = [c \in Children |-> "none"]
        /\ found = "nothing" /\ unknown = {} /\ signalled = {}
        /\ pc = "spawn" /\ idx = 1

\* What the launcher does unless wait() blocks or fails.
Launcher == \/ Spawn \/ SpawnFails \/ PollRunning \/ PollExited \/ PollFails
            \/ SiblingDone \/ SiblingKilled \/ KillFails \/ SiblingWaited

Next == \/ \E c \in Children : ChildExits(c) \/ ChildKilled(c)
        \/ Launcher \/ WaitFails

\* The launcher sleeps 250 ms between rounds, and SIGKILL does its work.  wait()
\* need not fail, and children need never exit.
Spec == /\ Init /\ [][Next]_vars /\ WF_vars(Launcher)
        /\ WF_vars(\E c \in Children : ChildKilled(c))

-----------------------------------------------------------------------------
(* Properties.                                                             *)

\* The launcher's books keep their types.
TypeOK == /\ child \in [Children -> {"none", "running", "reaped"} \cup Exited]
          /\ found \in {"nothing", "clean", "failed"}
          /\ unknown \subseteq Children /\ signalled \subseteq Children
          /\ pc \in {"spawn", "poll", "siblings", "wait"} \cup Endings
          /\ idx \in Children

\* When the launcher ends because a child did, all of them are gone and reaped,
\* however their exits fell between its checks and whichever kill failed; only a
\* child that try_wait could not inspect or wait not await is left as it is.
NoneLeftBehind ==
  pc \in {"success", "failure"} =>
    \A c \in Children : child[c] = "reaped" \/ c \in unknown

\* wait() blocks: the kill has failed, and the sibling runs on.
Blocked == pc = "wait" /\ idx \notin signalled /\ child[idx] = "running"

\* If a child ends while the launcher supervises, the launcher ends as well, unless
\* it waits for ever for a sibling that it could not kill.
ExitIsNoticed ==
  \/ <>[]Blocked
  \/ (pc = "poll" /\ \E c \in Children : child[c] \in Exited) ~> (pc \in Endings)
=============================================================================
