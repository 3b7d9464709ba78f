------------------------------- MODULE MemRing -------------------------------
(***************************************************************************)
(* The record ring of one /dev/memreader session and the client that reads *)
(* it.  The kernel half (memreader_core.rs, memreader_kernel_api.c) writes *)
(* one record per SUBMIT_READ ioctl into a ring mapped read-only into the  *)
(* client; the client half (client/src/lib.rs) polls, walks the ring from  *)
(* the shared tail to the next data record and moves the tail with an      *)
(* ADVANCE_TAIL ioctl.                                                     *)
(*                                                                         *)
(* Positions and lengths count words of 8 bytes: every record length is    *)
(* rounded up to 8 and every header, range result and ring size is a       *)
(* multiple of 8.  A read asks for one range.  The ring is a function from *)
(* positions to words, so that a record overwritten before it was read, or *)
(* a walk that lands inside a record, shows in the state.                  *)
(***************************************************************************)
EXTENDS Naturals, Sequences

CONSTANTS
  Capacity,      \* words of record space: the mapping less its layout header
  HeaderLen,     \* words of a record header (56 bytes: 7)
  RangeLen,      \* words of one range result (24 bytes: 3)
  MaxPayload,    \* words of the largest payload a read may return
  MaxReads,      \* bound: how many reads the client submits
  MaxAbandoned   \* bound: how many times poll() may fail

ASSUME RingAssumption ==
  /\ Capacity \in Nat /\ HeaderLen \in Nat /\ RangeLen \in Nat
  /\ MaxPayload \in Nat /\ MaxReads \in Nat /\ MaxAbandoned \in Nat
  /\ HeaderLen > 0
  /\ RangeLen > 0

(***************************************************************************)
(* The sizing rule the module parameter ring_bytes has to respect: without *)
(* it a ring can refuse a record for ever although nothing is unread.      *)
(***************************************************************************)
ASSUME SizingAssumption ==
  2 * (HeaderLen + RangeLen + MaxPayload) <= Capacity

VARIABLES
  head, tail,    \* session->producer_head, session->consumer_tail
  nextSeq,       \* session->next_seq
  dropped,       \* session->dropped_records
  layout,        \* the copies of head and tail the client sees in the mapping
  mem,           \* the ring: what each word holds
  pc,            \* where the client is in submit_read
  cursor,        \* the local tail of decode_next_record_raw
  request,       \* the cookie and the length of the current read
  record,        \* the decoded record and the tail that releases it
  nextCookie,    \* MemReaderTargetSession.next_cookie
  result,        \* what the last read_bytes returned
  unread,        \* history: the records published and not yet released
  place,         \* history: where each of them was written
  delivered,     \* history: the last record released
  abandoned      \* history: how many reads gave up in poll()

session == <<head, tail, nextSeq, dropped, layout, mem>>
client == <<pc, cursor, request, record, nextCookie, result>>
history == <<unread, place, delivered, abandoned>>
vars == <<head, tail, nextSeq, dropped, layout, mem,
          pc, cursor, request, record, nextCookie, result,
          unread, place, delivered, abandoned>>

-----------------------------------------------------------------------------
(* Records and the words they are made of.                                 *)

Positions == 0 .. Capacity - 1
Status == {"ok", "partial", "failed"}

Record == [seq : 0 .. MaxReads, cookie : 0 .. MaxReads,
           status : Status, payload : 0 .. MaxPayload]

\* record_total_len for a record of one range.
TotalLen(r) == HeaderLen + RangeLen + r.payload

Zero == [part |-> "zero"]
Padding(n) == [part |-> "padding", len |-> n]
Header(r) == [part |-> "header", len |-> TotalLen(r), rec |-> r]
Body(r) == [part |-> "body", rec |-> r]

\* What the kernel can answer to a read of `want` words: all of them, a part
\* (counted in whole words), or a status without payload (no such task, pid
\* reused, no address space, bad slot, bad range).
Answer(want) == [status : {"ok"}, payload : {want}]
                \cup [status : {"partial"}, payload : 0 .. want]
                \cup [status : {"failed"}, payload : {0}]

Word == {Zero} \cup [part : {"padding"}, len : 1 .. Capacity]
               \cup [part : {"header"}, len : Nat, rec : Record]
               \cup [part : {"body"}, rec : Record]

\* The client's local before anything is decoded into it.
NoRecord == [rec |-> [seq |-> 0, cookie |-> 0, status |-> "failed", payload |-> 0],
             next |-> 0]

-----------------------------------------------------------------------------
(* The kernel's side of the ring.                                          *)

\* The record does not fit before the end of the ring: it goes to the start.
Wraps(len) == head + len > Capacity
WrapOverhead(len) == IF Wraps(len) THEN Capacity - head ELSE 0

\* Seeded fault: an empty ring counted as a full one.
Free_EmptyIsFull == IF head > tail THEN Capacity - (head - tail) ELSE tail - head

Free == IF head >= tail THEN Capacity - (head - tail) ELSE tail - head

\* Seeded faults: the skipped words not paid for; no word kept free.
Fits_NoOverhead(len) == len + 1 <= Free
Fits_NoSlack(len) == len + WrapOverhead(len) <= Free

\* One word stays free, so that head = tail only in an empty ring.
Fits(len) == len + WrapOverhead(len) + 1 <= Free

\* Seeded fault: the skipped end of the ring keeps its old words.
Skipped_Nothing(len) == mem

\* The ring once the words before the end are skipped: a padding record if its
\* header fits there, zeroes otherwise (the client then wraps by itself).
Skipped(len) ==
  IF ~Wraps(len) THEN mem
  ELSE IF Capacity - head >= HeaderLen
       THEN [p \in Positions |->
               IF p = head THEN Padding(Capacity - head)
               ELSE IF p > head /\ p < head + HeaderLen THEN Zero ELSE mem[p]]
       ELSE [p \in Positions |-> IF p >= head THEN Zero ELSE mem[p]]

Written(m, at, r) ==
  [p \in Positions |-> IF p = at THEN Header(r)
                       ELSE IF p > at /\ p < at + TotalLen(r) THEN Body(r)
                       ELSE m[p]]

\* push_record, and with it push_padding and sync_ring_layout.
PushRecord(r) ==
  LET at == IF Wraps(TotalLen(r)) THEN 0 ELSE head
  IN /\ Fits(TotalLen(r))
     /\ mem' = Written(Skipped(TotalLen(r)), at, r)
     /\ head' = (at + TotalLen(r)) % Capacity
     /\ nextSeq' = nextSeq + 1
     /\ layout' = [head |-> head', tail |-> tail]
     /\ unread' = Append(unread, r)
     /\ place' = Append(place, at)
     /\ UNCHANGED <<tail, dropped>>

\* push_record on a ring without room: the record is dropped and counted.
DropRecord(r) ==
  /\ ~Fits(TotalLen(r))
  /\ dropped' = dropped + 1
  /\ UNCHANGED <<head, tail, nextSeq, layout, mem, unread, place>>

\* Seeded fault: the occupied part measured without the wrap.
Releases_Linear(to) == /\ to < Capacity
                       /\ to >= tail => to - tail <= head - tail
                       /\ to >= tail

\* thub_kernel_advance_tail accepts a new tail inside the unread part.
Releases(to) ==
  LET occupied == IF head >= tail THEN head - tail ELSE Capacity - (tail - head)
      advance == IF to >= tail THEN to - tail ELSE Capacity - (tail - to)
  IN to < Capacity /\ (to = tail \/ advance <= occupied)

-----------------------------------------------------------------------------
(* The client's side: one submit_read at a time.                           *)

\* The record thub_rust_publish_record builds for the answer to this read.
ReplyTo(answer) == [seq |-> nextSeq, cookie |-> nextCookie,
                    status |-> answer.status, payload |-> answer.payload]

NewRequest(want) ==
  /\ pc = "idle"
  /\ nextCookie <= MaxReads
  /\ request' = [cookie |-> nextCookie, want |-> want]
  /\ nextCookie' = nextCookie + 1
  /\ UNCHANGED <<cursor, record, delivered, abandoned>>

\* The SUBMIT_READ ioctl succeeds; the client goes on to poll.
SubmitRead == \E want \in 1 .. MaxPayload : \E answer \in Answer(want) :
  /\ NewRequest(want)
  /\ PushRecord(ReplyTo(answer))
  /\ pc' = "poll"
  /\ result' = "none"

\* The SUBMIT_READ ioctl fails with RingFull; submit_read returns the error.
SubmitRefused == \E want \in 1 .. MaxPayload : \E answer \in Answer(want) :
  /\ NewRequest(want)
  /\ DropRecord(ReplyTo(answer))
  /\ pc' = "idle"
  /\ result' = "error"

ReturnError == /\ pc' = "idle"
               /\ result' = "error"
               /\ cursor' = 0
               /\ record' = NoRecord
               /\ UNCHANGED <<session, request, nextCookie, unread, place, delivered>>

\* poll() fails or times out: the read returns an error, its record stays.
PollFails == /\ pc = "poll"
             /\ abandoned < MaxAbandoned
             /\ abandoned' = abandoned + 1
             /\ ReturnError

\* memreader_poll reports POLLIN; decode_next_record_raw checks the positions it
\* finds in the mapping before it walks.
PollReady ==
  /\ pc = "poll"
  /\ head # tail
  /\ \/ /\ layout.tail < Capacity /\ layout.head < Capacity
        /\ layout.tail # layout.head
        /\ pc' = "decode"
        /\ cursor' = layout.tail
        /\ UNCHANGED <<session, request, record, nextCookie, result, history>>
     \/ /\ ~(layout.tail < Capacity /\ layout.head < Capacity /\ layout.tail # layout.head)
        /\ ReturnError
        /\ UNCHANGED abandoned

Contiguous == Capacity - cursor

NextCursor(len) == (cursor + len) % Capacity

\* The checks on the record header the walk has reached.
Decodable(word) == /\ word.part \in {"padding", "header"}
                   /\ word.len <= Contiguous
                   /\ NextCursor(word.len) # cursor
                   /\ word.part = "padding" => word.len >= HeaderLen
                   /\ word.part = "header" => TotalLen(word.rec) <= word.len

\* Seeded fault: the walk stays where no record header fits.
WalkWraps_Stays == /\ Contiguous < HeaderLen
                   /\ layout.head # 0
                   /\ cursor' = cursor
                   /\ UNCHANGED <<pc, record, result>>

\* No record header fits before the end of the ring: go on at its start.
WalkWraps == /\ Contiguous < HeaderLen
             /\ layout.head # 0
             /\ cursor' = 0
             /\ UNCHANGED <<pc, record, result>>

WalkSkipsPadding == /\ Contiguous >= HeaderLen
                    /\ Decodable(mem[cursor])
                    /\ mem[cursor].part = "padding"
                    /\ cursor' = NextCursor(mem[cursor].len)
                    /\ UNCHANGED <<pc, record, result>>

WalkReturns == /\ Contiguous >= HeaderLen
               /\ Decodable(mem[cursor])
               /\ mem[cursor].part = "header"
               /\ record' = [rec |-> mem[cursor].rec, next |-> NextCursor(mem[cursor].len)]
               /\ pc' = "advance"
               /\ cursor' = 0
               /\ UNCHANGED result

\* "ring is empty" after a wrap, or one of the "corrupt ring" errors.
WalkFails == /\ IF Contiguous < HeaderLen THEN layout.head = 0
                                          ELSE ~Decodable(mem[cursor])
             /\ pc' = "idle"
             /\ result' = "error"
             /\ cursor' = 0
             /\ UNCHANGED record

\* One iteration of the loop of decode_next_record_raw.
Decode == /\ pc = "decode"
          /\ WalkWraps \/ WalkSkipsPadding \/ WalkReturns \/ WalkFails
          /\ UNCHANGED <<session, request, nextCookie, history>>

\* Seeded fault: any payload is handed out, whatever its status and length.
ReadBytes_Unchecked(r) == "bytes"

\* read_bytes turns the record into bytes or an error.
ReadBytes(r) == IF r.status = "ok" /\ r.payload = request.want THEN "bytes" ELSE "error"

\* The ADVANCE_TAIL ioctl, and the return from read_bytes.
AdvanceTail ==
  /\ pc = "advance"
  /\ \/ /\ Releases(record.next)
        /\ tail' = record.next
        /\ layout' = [layout EXCEPT !.tail = record.next]
        /\ unread' = Tail(unread)
        /\ place' = Tail(place)
        /\ delivered' = <<record.rec>>
        /\ pc' = "idle"
        /\ result' = ReadBytes(record.rec)
        /\ record' = NoRecord
        /\ UNCHANGED <<head, nextSeq, dropped, mem, cursor, request, nextCookie, abandoned>>
     \/ /\ ~Releases(record.next)
        /\ ReturnError
        /\ UNCHANGED abandoned

-----------------------------------------------------------------------------

\* thub_rust_session_init zeroes the session; open_target starts at cookie 1.
Init == /\ head = 0 /\ tail = 0 /\ nextSeq = 0 /\ dropped = 0
        /\ layout = [head |-> 0, tail |-> 0]
        /\ mem = [p \in Positions |-> Zero]
        /\ pc = "idle" /\ cursor = 0
        /\ request = [cookie |-> 0, want |-> 0]
        /\ record = NoRecord
        /\ nextCookie = 1
        /\ result = "none"
        /\ unread = <<>> /\ place = <<>> /\ delivered = <<>> /\ abandoned = 0

Next == SubmitRead \/ SubmitRefused \/ PollReady \/ PollFails \/ Decode \/ AdvanceTail

\* The client thread runs a read it has submitted to its end: poll() returns
\* after 2 s at the latest, and the rest never blocks.
Fairness == WF_vars(PollReady \/ PollFails \/ Decode \/ AdvanceTail)

Spec == Init /\ [][Next]_vars /\ Fairness

-----------------------------------------------------------------------------
(* Properties.                                                             *)

\* How far position p lies after position t, in the direction records are read.
Distance(t, p) == IF p >= t THEN p - t ELSE Capacity - t + p

\* Where the walk goes on after the k-th unread record.
EndOf(k) == (place[k] + TotalLen(unread[k])) % Capacity

\* The ring positions, the words, the client's locals and the histories have
\* the types the layout of the session and the protocol give them.
TypeOK ==
  /\ head \in Positions /\ tail \in Positions
  /\ nextSeq \in Nat /\ dropped \in Nat /\ abandoned \in Nat /\ nextCookie \in Nat
  /\ layout \in [head : Positions, tail : Positions]
  /\ mem \in [Positions -> Word]
  /\ pc \in {"idle", "poll", "decode", "advance"}
  /\ cursor \in Positions
  /\ request \in [cookie : Nat, want : 0 .. MaxPayload]
  /\ record \in [rec : Record, next : Positions]
  /\ result \in {"none", "bytes", "error"}
  /\ unread \in Seq(Record) /\ place \in Seq(Positions)
  /\ delivered \in Seq(Record)

\* Every word of every record not yet released still holds that record: the
\* kernel never writes over what the client has still to read.
UnreadIntact ==
  \A k \in DOMAIN unread :
    /\ place[k] + TotalLen(unread[k]) <= Capacity
    /\ mem[place[k]] = Header(unread[k])
    /\ \A p \in Positions :
         p > place[k] /\ p < place[k] + TotalLen(unread[k]) => mem[p] = Body(unread[k])

\* poll() and decode tell "nothing to read" from head = tail: the kernel never
\* fills the ring so far that a full ring looks empty, and a wrap never leaves
\* skipped words that look like a record.
EmptyIffNothingUnread == (head = tail) <=> (unread = <<>>)

\* The walk from the tail (through an implicit wrap or a padding record) always
\* stands on the oldest unread record, on padding before it, or short of the
\* end: none of the "corrupt ring" or "ring is empty" errors can occur.
WalkFindsOldest ==
  pc = "decode" =>
    /\ unread # <<>>
    /\ \/ cursor = place[1]
       \/ /\ place[1] = 0
          /\ \/ Contiguous < HeaderLen
             \/ mem[cursor] = Padding(Contiguous)

\* The tail the client asks for releases exactly the record it decoded, and the
\* kernel's range check never refuses it.
ReleaseIsExact ==
  pc = "advance" => /\ unread # <<>>
                    /\ record.rec = unread[1]
                    /\ record.next = EndOf(1)
                    /\ Releases(record.next)

\* Nothing compares the cookie of a reply with the request.  Bytes returned by
\* read_bytes still answer the very request that asked for them as long as
\* poll() has never failed in this session, and otherwise an earlier one: they
\* lag by exactly the number of reads given up, for the rest of the session.
BytesLagByAbandoned ==
  result = "bytes" =>
    /\ delivered[1].seq + abandoned + 1 = nextSeq
    /\ delivered[1].payload = request.want
    /\ abandoned = 0 => delivered[1].cookie = request.cookie

\* A record is only dropped while an older one is unread: an empty ring of the
\* size SizingAssumption asks for takes any record at any position, so a
\* session can never refuse every read for ever.
EmptyRingAccepts == [][dropped' # dropped => unread # <<>>]_vars

\* The ring implements the channel: accepted reads queue one record, records
\* come out once, oldest first, and every read ends.
Channel == INSTANCE RecordChannel WITH queue <- unread, waiting <- pc # "idle",
                                       refused <- dropped
ChannelSpec == Channel!Spec
=============================================================================
