------------------------------ MODULE SessionRef ------------------------------
(***************************************************************************)
(* The lifetime of one memreader session (memreader_glue.c): memory shared *)
(* by an open file and by the mappings of its ring, in the process that    *)
(* opened the device and in processes it forks, counted by a kref.  The    *)
(* last of them to go frees the ring, the scratch buffer and the session.  *)
(*                                                                         *)
(* That the kernel calls release() when the last descriptor is closed, and *)
(* vm_ops->open() and close() for each mapping forked, split or removed,   *)
(* is modelled from how the module relies on it.                           *)
(***************************************************************************)
EXTENDS Naturals

CONSTANTS
  Procs,       \* the process that opens the device and those it may fork
  MaxMappings  \* bound: mappings of the ring in one process

VARIABLES
  opening,     \* memreader_open: "start", "ref", "mapping", "scratch", "done", "failed"
  allocated,   \* the allocations of the session that exist
  refs,        \* the kref
  private,     \* whether file->private_data is set
  fd,          \* which processes have a descriptor of the file
  maps         \* how many mappings of the ring each process has

vars == <<opening, allocated, refs, private, fd, maps>>

Everything == {"session", "mapping", "scratch"}

-----------------------------------------------------------------------------
(* memreader_open, for the process p.                                      *)

Get(n) == refs' = refs + n

\* kref_put n times: memreader_session_release_kref frees all at zero.
Put(n) == /\ refs' = refs - n
          /\ allocated' = IF refs = n THEN {} ELSE allocated

\* The kref starts at 1: the reference of the file.
AllocateSession == /\ opening = "start"
                   /\ opening' = "ref"
                   /\ allocated' = {"session"}
                   /\ refs' = 1
                   /\ UNCHANGED <<private, fd, maps>>

AllocateMapping == /\ opening = "ref"
                   /\ opening' = "mapping"
                   /\ allocated' = allocated \cup {"mapping"}
                   /\ UNCHANGED <<refs, private, fd, maps>>

AllocateScratch == /\ opening = "mapping"
                   /\ opening' = "scratch"
                   /\ allocated' = allocated \cup {"scratch"}
                   /\ UNCHANGED <<refs, private, fd, maps>>

\* Seeded fault: a failed allocation of the scratch buffer leaks the ring.
OpenFails_LeaksMapping ==
  /\ opening \in {"start", "ref", "mapping"}
  /\ opening' = "failed"
  /\ allocated' = allocated \ {"session"}
  /\ refs' = 0
  /\ UNCHANGED <<private, fd, maps>>

\* An allocation fails: -ENOMEM, after freeing by hand what exists so far.
OpenFails == /\ opening \in {"start", "ref", "mapping"}
             /\ opening' = "failed"
             /\ allocated' = {}
             /\ refs' = 0
             /\ UNCHANGED <<private, fd, maps>>

\* thub_rust_session_init succeeds, and open() returns a descriptor to p.
OpenDone(p) == /\ opening = "scratch"
               /\ opening' = "done"
               /\ private' = TRUE
               /\ fd' = [fd EXCEPT ![p] = TRUE]
               /\ UNCHANGED <<allocated, refs, maps>>

\* thub_rust_session_init refuses: -EINVAL, and the reference of the file is put.
InitFails == /\ opening = "scratch"
             /\ opening' = "failed"
             /\ Put(1)
             /\ UNCHANGED <<private, fd, maps>>

-----------------------------------------------------------------------------
(* The references in use.                                                  *)

\* memreader_mmap of the ring; refused requests change nothing.
Mmap(p) == /\ fd[p] /\ private /\ maps[p] < MaxMappings
           /\ maps' = [maps EXCEPT ![p] = @ + 1]
           /\ Get(1)
           /\ UNCHANGED <<opening, allocated, private, fd>>

\* munmap of a part splits a mapping in two; vm_ops->open for the second.
Split(p) == /\ maps[p] > 0 /\ maps[p] < MaxMappings
            /\ maps' = [maps EXCEPT ![p] = @ + 1]
            /\ Get(1)
            /\ UNCHANGED <<opening, allocated, private, fd>>

\* munmap, or the end of the process: memreader_vma_close.
Munmap(p) == /\ maps[p] > 0
             /\ maps' = [maps EXCEPT ![p] = @ - 1]
             /\ Put(1)
             /\ UNCHANGED <<opening, private, fd>>

\* p forks q, which gets a copy of the descriptor and of each mapping.
Fork(p, q) == /\ fd[p] \/ maps[p] > 0
              /\ ~fd[q] /\ maps[q] = 0
              /\ fd' = [fd EXCEPT ![q] = fd[p]]
              /\ maps' = [maps EXCEPT ![q] = maps[p]]
              /\ Get(maps[p])
              /\ UNCHANGED <<opening, allocated, private>>

\* close, or the end of the process; memreader_release after the last one.
Close(p) == /\ fd[p]
            /\ fd' = [fd EXCEPT ![p] = FALSE]
            /\ IF \E q \in Procs \ {p} : fd[q]
               THEN UNCHANGED <<private, refs, allocated>>
               ELSE private' = FALSE /\ Put(1)
            /\ UNCHANGED <<opening, maps>>

-----------------------------------------------------------------------------

Init == /\ opening = "start" /\ allocated = {} /\ refs = 0 /\ private = FALSE
        /\ fd = [p \in Procs |-> FALSE] /\ maps = [p \in Procs |-> 0]

Open == \/ AllocateSession \/ AllocateMapping \/ AllocateScratch \/ OpenFails \/ InitFails
        \/ \E p \in Procs : OpenDone(p)

Next == \/ Open
        \/ \E p \in Procs : \/ Mmap(p) \/ Split(p) \/ Munmap(p) \/ Close(p)
                            \/ \E q \in Procs : Fork(p, q)

Spec == Init /\ [][Next]_vars

-----------------------------------------------------------------------------
(* Properties.                                                             *)

\* The state of the file, of the processes and of the count.
TypeOK == /\ opening \in {"start", "ref", "mapping", "scratch", "done", "failed"}
          /\ allocated \subseteq Everything
          /\ refs \in Nat /\ private \in BOOLEAN
          /\ fd \in [Procs -> BOOLEAN] /\ maps \in [Procs -> Nat]

\* Whoever can still reach the session, through a descriptor or by reading the
\* mapped ring after the file was closed, finds all of its memory.
LiveWhileReachable ==
  (\E p \in Procs : fd[p] \/ maps[p] > 0) => allocated = Everything

\* Nothing leaks: when nobody can reach the session any more, in whatever order
\* the descriptors and the mappings of all processes went, or when open()
\* failed half-way, none of its memory is left.
FreedWhenUnreachable ==
  /\ opening = "done" /\ (\A p \in Procs : ~fd[p] /\ maps[p] = 0) => allocated = {}
  /\ opening = "failed" => allocated = {}

\* Both: the session lives exactly as long as it can be reached.
LivesWhileReachable == LiveWhileReachable /\ FreedWhenUnreachable
=============================================================================
