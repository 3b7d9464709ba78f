---------------------------- MODULE RecordChannel ----------------------------
(***************************************************************************)
(* What one memreader session promises its client: a FIFO channel of       *)
(* records.  The client has at most one request outstanding; a request     *)
(* either queues exactly one record or is refused, a refusal needs a       *)
(* record left unread, records come out once and in order, and a record is *)
(* only ever left behind by a client that gave up waiting for it.          *)
(* MemRing implements it with a ring of bytes shared with the kernel.      *)
(***************************************************************************)
EXTENDS Naturals, Sequences

CONSTANT Record     \* what a record can hold

VARIABLES queue,        \* the records published and not yet delivered
          waiting,      \* whether a request is outstanding
          delivered,    \* the records handed to the client so far, newest only
          refused,      \* how many requests were refused
          abandoned     \* how many times the client gave up waiting

channelVars == <<queue, waiting, delivered, refused, abandoned>>

\* Nothing has been delivered yet.
Nothing == <<>>

Init == /\ queue = <<>>
        /\ waiting = FALSE
        /\ delivered = Nothing
        /\ refused = 0
        /\ abandoned = 0

\* A request is accepted: its record goes to the back of the queue.
Accept(r) == /\ ~waiting
             /\ queue' = Append(queue, r)
             /\ waiting' = TRUE
             /\ UNCHANGED <<delivered, refused, abandoned>>

\* A request is refused, which an empty channel never does.
Refuse == /\ ~waiting
          /\ queue # <<>>
          /\ refused' = refused + 1
          /\ UNCHANGED <<queue, waiting, delivered, abandoned>>

\* The oldest record answers the outstanding request.
Deliver == /\ waiting
           /\ queue # <<>>
           /\ delivered' = <<Head(queue)>>
           /\ queue' = Tail(queue)
           /\ waiting' = FALSE
           /\ UNCHANGED <<refused, abandoned>>

\* The client stops waiting; the record it asked for stays in the queue.
GiveUp == /\ waiting
          /\ waiting' = FALSE
          /\ abandoned' = abandoned + 1
          /\ UNCHANGED <<queue, delivered, refused>>

Next == \/ \E r \in Record : Accept(r)
        \/ Refuse
        \/ Deliver
        \/ GiveUp

\* The safety half, the part with a machine-checked refinement proof.
SafeSpec == Init /\ [][Next]_channelVars

\* An outstanding request is answered or given up.
Spec == SafeSpec /\ WF_channelVars(Deliver \/ GiveUp)
=============================================================================
