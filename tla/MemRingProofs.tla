---------------------------- MODULE MemRingProofs ----------------------------
(***************************************************************************)
(* Proofs about MemRing for every ring size, record size and number of     *)
(* reads: its type invariant, the safety invariants its run checks, and    *)
(* the refinement of the safety half of RecordChannel.                     *)
(***************************************************************************)
EXTENDS MemRing, TLAPS

(* The inductive invariant.                                                *)

Used == Distance(tail, head)

\* The walk gets from p to the record at q: it is there, or it wraps.
Leads(m, p, q) == \/ p = q
                  \/ /\ q = 0
                     /\ \/ Capacity - p < HeaderLen
                        \/ m[p] = Padding(Capacity - p)

Counted == /\ nextSeq + 1 <= nextCookie
           /\ nextCookie <= MaxReads + 1
           /\ layout = [head |-> head, tail |-> tail]
           /\ Len(place) = Len(unread)

\* The unread records lie between tail and head, one after the other.
Ordered ==
  \A k \in DOMAIN unread :
    /\ Distance(tail, place[k]) + TotalLen(unread[k]) <= Used
    /\ \A j \in 1 .. k - 1 :
         Distance(tail, place[j]) + TotalLen(unread[j]) <= Distance(tail, place[k])

\* Each is where the walk gets to from the one before it.
Chained ==
  /\ unread # <<>> => Leads(mem, tail, place[1])
  /\ \A k \in 1 .. Len(unread) - 1 : Leads(mem, EndOf(k), place[k + 1])

HeadAtEnd == head = IF unread = <<>> THEN tail ELSE EndOf(Len(unread))

ClientAt ==
  /\ pc # "idle" => unread # <<>>
  /\ pc = "decode" => Leads(mem, cursor, place[1])
  /\ pc = "advance" => record.rec = unread[1] /\ record.next = EndOf(1)

\* Sequence numbers are consecutive, and the last record is the current read's.
Numbered ==
  /\ Len(unread) = abandoned + IF pc = "idle" THEN 0 ELSE 1
  /\ \A k \in DOMAIN unread : unread[k].seq + Len(unread) + 1 = nextSeq + k
  /\ pc # "idle" => unread[Len(unread)].cookie = request.cookie

IInv == /\ TypeOK
        /\ Counted
        /\ UnreadIntact
        /\ Ordered
        /\ Chained
        /\ HeadAtEnd
        /\ ClientAt
        /\ Numbered
        /\ BytesLagByAbandoned

-----------------------------------------------------------------------------
(* Arithmetic of positions.                                                *)

LEMMA Sizes ==
  /\ Capacity \in Nat /\ HeaderLen \in Nat /\ RangeLen \in Nat
  /\ MaxPayload \in Nat /\ MaxReads \in Nat /\ MaxAbandoned \in Nat
  /\ HeaderLen > 0 /\ RangeLen > 0 /\ Capacity > 0
  /\ 2 * (HeaderLen + RangeLen + MaxPayload) <= Capacity
BY RingAssumption, SizingAssumption

LEMMA WrapAtCapacity ==
  ASSUME NEW x \in Nat, x <= Capacity
  PROVE  x % Capacity = IF x = Capacity THEN 0 ELSE x
<1>1. CASE x = Capacity
  BY <1>1, Sizes
<1>2. CASE x < Capacity
  BY <1>2, Sizes
<1>3. QED
  BY <1>1, <1>2, Sizes

\* A record is longer than its header and takes at most half of the ring.
LEMMA RecordLength ==
  ASSUME NEW r \in Record
  PROVE  /\ TotalLen(r) \in Nat
         /\ HeaderLen < TotalLen(r)
         /\ 2 * TotalLen(r) <= Capacity
         /\ r.payload \in 0 .. MaxPayload
         /\ r.seq \in Nat
BY Sizes DEF Record, TotalLen

\* An empty ring has room for any record, wherever its head stands.
LEMMA EmptyRingFits ==
  ASSUME TypeOK, head = tail, NEW r \in Record
  PROVE  Fits(TotalLen(r))
<1>1. /\ head \in 0 .. Capacity - 1
      /\ TotalLen(r) \in Nat /\ TotalLen(r) > 0 /\ 2 * TotalLen(r) <= Capacity
  BY Sizes, RecordLength DEF TypeOK, Positions
<1>2. QED
  BY <1>1, Sizes DEF Fits, Free, WrapOverhead, Wraps

\* Where PushRecord puts a record of length len.
Start(len) == IF Wraps(len) THEN 0 ELSE head

\* A record that fits goes to free words, does not straddle the end, and moves
\* the head on without reaching the tail.
LEMMA Room ==
  ASSUME TypeOK, NEW r \in Record, Fits(TotalLen(r))
  PROVE  LET len == TotalLen(r)
             at == Start(len)
         IN /\ at \in Positions
            /\ at + len <= Capacity
            /\ (at + len) % Capacity \in Positions
            /\ Distance(tail, (at + len) % Capacity) = Distance(tail, at) + len
            /\ Distance(tail, at) >= Distance(tail, head)
            /\ \A p \in Positions : p >= at /\ p < at + len => Distance(tail, p) >= Distance(tail, head)
            /\ Wraps(len) => \A p \in Positions : p >= head => Distance(tail, p) >= Distance(tail, head)
            /\ Wraps(len) => at + len <= head
            /\ (at + len) % Capacity # tail
<1> DEFINE len == TotalLen(r)
           at == Start(len)
<1>1. /\ head \in 0 .. Capacity - 1 /\ tail \in 0 .. Capacity - 1
      /\ len \in Nat /\ len > 0 /\ 2 * len <= Capacity
  BY Sizes, RecordLength DEF TypeOK, Positions
<1>2. at \in Nat /\ at + len \in Nat /\ at + len <= Capacity
  BY <1>1, Sizes DEF Start, Wraps
<1>3. (at + len) % Capacity = IF at + len = Capacity THEN 0 ELSE at + len
  BY <1>2, WrapAtCapacity
<1>4. len + WrapOverhead(len) + 1 <= Free
  BY DEF Fits
<1>5. /\ at \in 0 .. Capacity - 1
      /\ Distance(tail, (at + len) % Capacity) = Distance(tail, at) + len
      /\ Distance(tail, at) >= Distance(tail, head)
      /\ Wraps(len) => at + len <= head
      /\ (at + len) % Capacity # tail
      /\ (at + len) % Capacity \in 0 .. Capacity - 1
  <2> HIDE DEF len
  <2>1. CASE Wraps(len)
    BY <1>1, <1>2, <1>3, <1>4, <2>1, Sizes
       DEF Start, Wraps, WrapOverhead, Free, Distance
  <2>2. CASE ~Wraps(len)
    BY <1>1, <1>2, <1>3, <1>4, <2>2, Sizes
       DEF Start, Wraps, WrapOverhead, Free, Distance
  <2>3. QED
    BY <2>1, <2>2
<1>6. ASSUME NEW p \in Positions, p >= at, p < at + len
      PROVE  Distance(tail, p) >= Distance(tail, head)
  <2>1. p \in 0 .. Capacity - 1
    BY DEF Positions
  <2> HIDE DEF len
  <2>2. QED
    BY <1>1, <1>2, <1>4, <1>6, <2>1, Sizes
       DEF Start, Wraps, WrapOverhead, Free, Distance
<1>7. ASSUME Wraps(len), NEW p \in Positions, p >= head
      PROVE  Distance(tail, p) >= Distance(tail, head)
  <2>1. p \in 0 .. Capacity - 1
    BY DEF Positions
  <2> HIDE DEF len
  <2>2. QED
    BY <1>1, <1>4, <1>7, <2>1, Sizes DEF Wraps, WrapOverhead, Free, Distance
<1>8. QED
  BY <1>2, <1>5, <1>6, <1>7 DEF Positions

-----------------------------------------------------------------------------
(* The words of the unread records, and the words a push writes.           *)

\* What the invariant says about the k-th unread record, in plain numbers.
LEMMA UnreadFacts ==
  ASSUME IInv, NEW k \in DOMAIN unread
  PROVE  /\ k \in 1 .. Len(unread) /\ k \in DOMAIN place
         /\ unread[k] \in Record /\ place[k] \in Positions
         /\ place[k] + TotalLen(unread[k]) <= Capacity
         /\ Distance(tail, place[k]) + TotalLen(unread[k]) <= Distance(tail, head)
         /\ EndOf(k) \in Positions
         /\ Distance(tail, EndOf(k)) = Distance(tail, place[k]) + TotalLen(unread[k])
         /\ EndOf(k) = IF place[k] + TotalLen(unread[k]) = Capacity
                       THEN 0 ELSE place[k] + TotalLen(unread[k])
<1>1. /\ k \in 1 .. Len(unread) /\ k \in DOMAIN place
      /\ unread[k] \in Record /\ place[k] \in Positions
  BY DEF IInv, TypeOK, Counted
<1>2. /\ place[k] + TotalLen(unread[k]) <= Capacity
      /\ Distance(tail, place[k]) + TotalLen(unread[k]) <= Distance(tail, head)
  BY DEF IInv, UnreadIntact, Ordered, Used
<1>3. /\ TotalLen(unread[k]) \in Nat /\ TotalLen(unread[k]) > 0
      /\ place[k] \in 0 .. Capacity - 1
      /\ head \in 0 .. Capacity - 1 /\ tail \in 0 .. Capacity - 1
  BY <1>1, RecordLength, Sizes DEF IInv, TypeOK, Positions
<1>4. EndOf(k) = IF place[k] + TotalLen(unread[k]) = Capacity
                 THEN 0 ELSE place[k] + TotalLen(unread[k])
  BY <1>2, <1>3, WrapAtCapacity, Sizes DEF EndOf
<1>5. EndOf(k) \in Positions
  BY <1>2, <1>3, <1>4, Sizes DEF Positions
<1>6. Distance(tail, EndOf(k)) = Distance(tail, place[k]) + TotalLen(unread[k])
  BY <1>2, <1>3, <1>4, Sizes DEF Distance
<1>7. QED
  BY <1>1, <1>2, <1>4, <1>5, <1>6

\* The words of an unread record are in use.
LEMMA UnreadInUse ==
  ASSUME IInv, NEW k \in DOMAIN unread, NEW p \in Positions,
         p >= place[k], p < place[k] + TotalLen(unread[k])
  PROVE  Distance(tail, p) < Distance(tail, head)
<1>1. /\ TotalLen(unread[k]) \in Nat
      /\ place[k] \in 0 .. Capacity - 1 /\ p \in 0 .. Capacity - 1
      /\ head \in 0 .. Capacity - 1 /\ tail \in 0 .. Capacity - 1
      /\ place[k] + TotalLen(unread[k]) <= Capacity
      /\ Distance(tail, place[k]) + TotalLen(unread[k]) <= Distance(tail, head)
  BY UnreadFacts, RecordLength DEF IInv, TypeOK, Positions
<1>2. QED
  BY <1>1, Sizes DEF Distance

\* A push leaves the words in use alone, and writes the record and the padding.
LEMMA PushWrites ==
  ASSUME TypeOK, NEW r \in Record, PushRecord(r)
  PROVE  LET len == TotalLen(r)
             at == Start(len)
         IN /\ \A p \in Positions : Distance(tail, p) < Distance(tail, head) => mem'[p] = mem[p]
            /\ mem'[at] = Header(r)
            /\ \A p \in Positions : p > at /\ p < at + len => mem'[p] = Body(r)
            /\ Wraps(len) /\ Capacity - head >= HeaderLen
                 => mem'[head] = Padding(Capacity - head)
            /\ mem' \in [Positions -> Word]
<1> DEFINE len == TotalLen(r)
           at == Start(len)
<1>1. mem' = Written(Skipped(len), at, r) /\ Fits(len)
  BY DEF PushRecord, Start
<1>2. /\ len \in Nat /\ len > HeaderLen /\ at \in 0 .. Capacity - 1
      /\ head \in 0 .. Capacity - 1 /\ tail \in 0 .. Capacity - 1
  BY <1>1, Room, RecordLength, Sizes DEF TypeOK, Positions
<1>3. mem \in [Positions -> Word]
  BY DEF TypeOK
<1>4. Header(r) \in Word /\ Body(r) \in Word /\ Zero \in Word
  BY RecordLength DEF Header, Body, Zero, Word
<1>5. Padding(Capacity - head) \in Word
  BY <1>2, Sizes DEF Padding, Word
<1>6. Skipped(len) \in [Positions -> Word]
  BY <1>3, <1>4, <1>5 DEF Skipped
<1>7. mem' \in [Positions -> Word]
  BY <1>1, <1>4, <1>6 DEF Written
<1>8. \A p \in Positions : mem'[p] = IF p = at THEN Header(r)
                                     ELSE IF p > at /\ p < at + len THEN Body(r)
                                     ELSE Skipped(len)[p]
  BY <1>1 DEF Written
<1>9. ASSUME NEW p \in Positions, Distance(tail, p) < Distance(tail, head)
      PROVE  mem'[p] = mem[p]
  <2>1. p # at /\ ~(p > at /\ p < at + len)
    <3>1. Distance(tail, p) \in Nat /\ Distance(tail, head) \in Nat
      BY <1>2, Sizes DEF Distance, Positions
    <3>2. p >= at /\ p < at + len => Distance(tail, p) >= Distance(tail, head)
      BY <1>1, Room
    <3>3. QED
      BY <1>2, <1>9, <3>1, <3>2, Sizes DEF Positions
  <2>2. mem'[p] = Skipped(len)[p]
    BY <1>8, <2>1
  <2>3. Wraps(len) => p < head
    <3>1. Distance(tail, p) \in Nat /\ Distance(tail, head) \in Nat /\ p \in Nat
      BY <1>2, Sizes DEF Distance, Positions
    <3>2. Wraps(len) /\ p >= head => Distance(tail, p) >= Distance(tail, head)
      BY <1>1, Room
    <3>3. QED
      BY <1>2, <1>9, <3>1, <3>2
  <2>4. Skipped(len)[p] = mem[p]
    BY <1>2, <2>3 DEF Skipped, Positions
  <2>5. QED
    BY <2>2, <2>4
<1>10. ASSUME Wraps(len), Capacity - head >= HeaderLen
       PROVE  mem'[head] = Padding(Capacity - head)
  <2>1. at = 0 /\ at + len <= head
    BY <1>1, <1>10, Room DEF Start
  <2>2. head # at /\ ~(head > at /\ head < at + len) /\ head \in Positions
    BY <1>2, <2>1, Sizes DEF Positions
  <2>3. mem'[head] = Skipped(len)[head]
    BY <1>8, <2>2
  <2>4. QED
    BY <1>10, <2>2, <2>3 DEF Skipped
<1>11. QED
  BY <1>2, <1>7, <1>8, <1>9, <1>10 DEF Positions

-----------------------------------------------------------------------------
(* The steps.                                                              *)

LEMMA InitInv == Init => IInv
<1> SUFFICES ASSUME Init
             PROVE  IInv
  OBVIOUS
<1>1. TypeOK
  BY Sizes DEF Init, TypeOK, Positions, Word, Zero, NoRecord, Record, Status
<1>2. Counted
  BY Sizes DEF Init, Counted
<1>3. UnreadIntact /\ Ordered /\ Chained /\ HeadAtEnd /\ ClientAt /\ Numbered
  BY DEF Init, UnreadIntact, Ordered, Chained, HeadAtEnd, ClientAt, Numbered
<1>4. BytesLagByAbandoned
  BY DEF Init, BytesLagByAbandoned
<1>5. QED
  BY <1>1, <1>2, <1>3, <1>4 DEF IInv

\* What a submission adds to the histories.
LEMMA PushHistory ==
  ASSUME IInv, NEW r \in Record, PushRecord(r)
  PROVE  /\ Len(unread') = Len(unread) + 1 /\ Len(place') = Len(unread) + 1
         /\ unread' \in Seq(Record) /\ place' \in Seq(Positions)
         /\ DOMAIN unread = 1 .. Len(unread) /\ Len(unread) \in Nat
         /\ DOMAIN unread' = 1 .. Len(unread) + 1
         /\ \A k \in DOMAIN unread : unread'[k] = unread[k] /\ place'[k] = place[k]
         /\ unread'[Len(unread) + 1] = r
         /\ place'[Len(unread) + 1] = Start(TotalLen(r))
<1>1. Start(TotalLen(r)) \in Positions
  BY Room DEF PushRecord, IInv
<1>2. unread' = Append(unread, r) /\ place' = Append(place, Start(TotalLen(r)))
  BY DEF PushRecord, Start
<1>3. unread \in Seq(Record) /\ place \in Seq(Positions) /\ Len(place) = Len(unread)
  BY DEF IInv, TypeOK, Counted
<1>4. QED
  BY <1>1, <1>2, <1>3

\* A push keeps the layout of the ring.
LEMMA PushKeepsRing ==
  ASSUME IInv, NEW r \in Record, PushRecord(r)
  PROVE  UnreadIntact' /\ Ordered' /\ Chained' /\ HeadAtEnd'
<1> DEFINE n == Len(unread)
           len == TotalLen(r)
           at == Start(len)
<1>1. TypeOK /\ Fits(len)
  BY DEF IInv, PushRecord
<1>2. /\ at \in Positions /\ at + len <= Capacity
      /\ head' = (at + len) % Capacity /\ head' \in Positions /\ tail' = tail
      /\ Distance(tail, head') = Distance(tail, at) + len
      /\ Distance(tail, at) >= Distance(tail, head)
      /\ head' # tail
  BY <1>1, Room DEF PushRecord, Start
<1>3. /\ len \in Nat /\ HeaderLen < len
      /\ head \in 0 .. Capacity - 1 /\ tail \in 0 .. Capacity - 1
      /\ at \in 0 .. Capacity - 1 /\ head' \in 0 .. Capacity - 1
      /\ \A p \in Positions : Distance(tail, p) \in Nat
  BY <1>1, <1>2, RecordLength, Sizes DEF TypeOK, Positions, Distance
<1>4. /\ \A p \in Positions : Distance(tail', p) = Distance(tail, p)
      /\ Distance(tail', head') = Distance(tail, at) + len
  BY <1>2
<1>5. /\ n \in Nat /\ DOMAIN unread = 1 .. n /\ DOMAIN unread' = 1 .. n + 1
      /\ Len(unread') = n + 1
      /\ unread'[n + 1] = r /\ place'[n + 1] = at
  BY PushHistory
<1>6. ASSUME NEW k \in DOMAIN unread
      PROVE  /\ unread'[k] = unread[k] /\ place'[k] = place[k]
             /\ k \in 1 .. n /\ EndOf(k)' = EndOf(k)
  BY <1>6, PushHistory DEF EndOf
<1>7. UnreadIntact'
  <2> SUFFICES ASSUME NEW k \in DOMAIN unread'
               PROVE  /\ place'[k] + TotalLen(unread'[k]) <= Capacity
                      /\ mem'[place'[k]] = Header(unread'[k])
                      /\ \A p \in Positions :
                           p > place'[k] /\ p < place'[k] + TotalLen(unread'[k])
                             => mem'[p] = Body(unread'[k])
    BY DEF UnreadIntact
  <2>1. CASE k = n + 1
    BY <1>1, <1>2, <1>5, <2>1, PushWrites
  <2>2. CASE k \in DOMAIN unread
    <3>1. /\ place[k] \in Positions /\ TotalLen(unread[k]) \in Nat
          /\ TotalLen(unread[k]) > 0
      BY <2>2, UnreadFacts, RecordLength, Sizes
    <3>2. ASSUME NEW p \in Positions, p >= place[k], p < place[k] + TotalLen(unread[k])
          PROVE  mem'[p] = mem[p]
      BY <1>1, <2>2, <3>2, UnreadInUse, PushWrites
    <3>3. /\ place[k] + TotalLen(unread[k]) <= Capacity
          /\ mem[place[k]] = Header(unread[k])
          /\ \A p \in Positions : p > place[k] /\ p < place[k] + TotalLen(unread[k])
                                    => mem[p] = Body(unread[k])
      BY <2>2 DEF IInv, UnreadIntact
    <3>4. mem'[place[k]] = mem[place[k]]
      BY <3>1, <3>2, Sizes DEF Positions
    <3>5. \A p \in Positions : p > place[k] => p >= place[k]
      BY <3>1, Sizes DEF Positions
    <3>6. QED
      BY <1>6, <2>2, <3>2, <3>3, <3>4, <3>5
  <2>3. QED
    BY <1>5, <2>1, <2>2
<1>8. Ordered'
  <2> SUFFICES ASSUME NEW k \in DOMAIN unread'
               PROVE  /\ Distance(tail', place'[k]) + TotalLen(unread'[k]) <= Distance(tail', head')
                      /\ \A j \in 1 .. k - 1 :
                           Distance(tail', place'[j]) + TotalLen(unread'[j])
                             <= Distance(tail', place'[k])
    BY DEF Ordered, Used, TotalLen, Distance
  <2>1. ASSUME NEW j \in DOMAIN unread
        PROVE  /\ Distance(tail', place'[j]) = Distance(tail, place[j])
               /\ Distance(tail, place[j]) + TotalLen(unread[j]) <= Distance(tail, head)
               /\ Distance(tail, place[j]) \in Nat /\ TotalLen(unread[j]) \in Nat
    BY <1>3, <1>4, <1>6, <2>1, UnreadFacts, RecordLength
  <2>2. Distance(tail, head) \in Nat /\ Distance(tail, at) \in Nat /\ Distance(tail', at) = Distance(tail, at)
    BY <1>1, <1>2, <1>3, <1>4 DEF TypeOK
  <2>3. CASE k = n + 1
    <3>1. \A j \in 1 .. k - 1 : j \in DOMAIN unread
      BY <1>5, <2>3
    <3>2. \A j \in 1 .. k - 1 :
            Distance(tail', place'[j]) + TotalLen(unread'[j]) <= Distance(tail, head)
      BY <1>6, <2>1, <3>1
    <3>3. \A j \in 1 .. k - 1 :
            Distance(tail', place'[j]) + TotalLen(unread'[j]) \in Nat
      BY <1>6, <2>1, <3>1
    <3>4. QED
      BY <1>2, <1>3, <1>4, <1>5, <2>2, <2>3, <3>2, <3>3
  <2>4. CASE k \in DOMAIN unread
    <3>1. /\ k \in 1 .. n
          /\ \A j \in 1 .. k - 1 : j \in DOMAIN unread
      BY <1>5, <2>4
    <3>2. \A j \in 1 .. k - 1 :
            Distance(tail, place[j]) + TotalLen(unread[j]) <= Distance(tail, place[k])
      BY <2>4 DEF IInv, Ordered
    <3>3. Distance(tail, place[k]) + TotalLen(unread[k]) <= Distance(tail', head')
      BY <1>2, <1>3, <1>4, <2>1, <2>2, <2>4
    <3>4. QED
      BY <1>6, <2>1, <2>4, <3>1, <3>2, <3>3
  <2>5. QED
    BY <1>5, <2>3, <2>4
<1>9. HeadAtEnd'
  BY <1>2, <1>5 DEF HeadAtEnd, EndOf
<1>10. Chained'
  \* The walk still gets from a position in use, or from the old head, to the
  \* record after it.
  <2>1. ASSUME NEW p \in Positions, NEW q \in Positions, Leads(mem, p, q),
               Distance(tail, p) < Distance(tail, head)
        PROVE  Leads(mem', p, q)
    BY <1>1, <2>1, PushWrites DEF Leads
  <2>2. Leads(mem', head, at)
    <3>1. CASE ~Wraps(len)
      BY <3>1 DEF Start, Leads
    <3>2. CASE Wraps(len)
      <4>1. Capacity - head >= HeaderLen => mem'[head] = Padding(Capacity - head)
        BY <1>1, <3>2, PushWrites
      <4>2. QED
        BY <1>3, <3>2, <4>1, Sizes DEF Start, Leads
    <3>3. QED
      BY <3>1, <3>2
  <2>3. \A k \in DOMAIN unread :
          /\ place[k] \in Positions /\ EndOf(k) \in Positions
          /\ Distance(tail, EndOf(k)) = Distance(tail, place[k]) + TotalLen(unread[k])
          /\ Distance(tail, place[k]) + TotalLen(unread[k]) <= Distance(tail, head)
          /\ Distance(tail, place[k]) \in Nat
          /\ TotalLen(unread[k]) \in Nat /\ TotalLen(unread[k]) > 0
    BY <1>3, UnreadFacts, RecordLength, Sizes
  <2>4. Distance(tail, head) \in Nat /\ tail \in Positions /\ Distance(tail, tail) = 0
    BY <1>1, <1>3 DEF TypeOK, Distance
  <2>5. Leads(mem', tail', place'[1])
    <3>1. CASE unread = <<>>
      BY <1>2, <1>5, <2>2, <3>1 DEF IInv, HeadAtEnd
    <3>2. CASE unread # <<>>
      <4>1. 1 \in DOMAIN unread
        BY <1>5, <3>2, PushHistory
      <4>2. Distance(tail, tail) < Distance(tail, head)
        BY <2>3, <2>4, <4>1
      <4>3. Leads(mem, tail, place[1])
        BY <3>2 DEF IInv, Chained
      <4>4. QED
        BY <1>2, <1>6, <2>1, <2>3, <2>4, <4>1, <4>2, <4>3
    <3>3. QED
      BY <3>1, <3>2
  <2>6. ASSUME NEW k \in 1 .. Len(unread') - 1
        PROVE  Leads(mem', EndOf(k)', place'[k + 1])
    <3>1. k \in DOMAIN unread /\ k \in 1 .. n /\ EndOf(k)' = EndOf(k)
      BY <1>5, <1>6, <2>6
    <3>2. CASE k = n
      BY <1>5, <2>2, <3>1, <3>2 DEF IInv, HeadAtEnd
    <3>3. CASE k # n
      <4>1. k + 1 \in DOMAIN unread /\ k \in 1 .. n - 1 /\ k \in 1 .. (k + 1) - 1
        BY <1>5, <3>1, <3>3
      <4>2. Leads(mem, EndOf(k), place[k + 1])
        BY <4>1 DEF IInv, Chained
      <4>3. Distance(tail, place[k]) + TotalLen(unread[k]) <= Distance(tail, place[k + 1])
        BY <4>1 DEF IInv, Ordered
      <4>4. Distance(tail, EndOf(k)) < Distance(tail, head)
        BY <2>3, <2>4, <3>1, <4>1, <4>3
      <4>5. QED
        BY <1>6, <2>1, <2>3, <3>1, <4>1, <4>2, <4>4
    <3>4. QED
      BY <3>2, <3>3
  <2>7. QED
    BY <2>5, <2>6 DEF Chained
<1>11. QED
  BY <1>7, <1>8, <1>9, <1>10

\* What an answer to a new read holds.
LEMMA ReplyType ==
  ASSUME IInv, NEW want \in 1 .. MaxPayload, NEW answer \in Answer(want),
         NewRequest(want)
  PROVE  /\ ReplyTo(answer) \in Record
         /\ ReplyTo(answer).seq = nextSeq /\ ReplyTo(answer).cookie = nextCookie
         /\ nextCookie' \in Nat /\ nextCookie' <= MaxReads + 1
         /\ nextSeq + 1 <= nextCookie /\ nextSeq \in Nat /\ nextCookie \in Nat
         /\ request' \in [cookie : Nat, want : 0 .. MaxPayload]
<1>1. nextSeq \in Nat /\ nextCookie \in Nat /\ nextSeq + 1 <= nextCookie
  BY DEF IInv, TypeOK, Counted
<1>2. /\ answer.status \in Status /\ answer.payload \in 0 .. want
      /\ answer.payload \in 0 .. MaxPayload
  BY Sizes DEF Answer, Status
<1>3. nextCookie <= MaxReads /\ nextCookie' = nextCookie + 1
  BY DEF NewRequest
<1>4. request' \in [cookie : Nat, want : 0 .. MaxPayload]
  BY <1>1, Sizes DEF NewRequest
<1>5. QED
  BY <1>1, <1>2, <1>3, <1>4, Sizes DEF ReplyTo, Record

LEMMA SubmitReadKeepsInv ==
  ASSUME IInv, SubmitRead
  PROVE  IInv'
<1>0. PICK want \in 1 .. MaxPayload : \E answer \in Answer(want) :
        /\ NewRequest(want) /\ PushRecord(ReplyTo(answer))
        /\ pc' = "poll" /\ result' = "none"
  BY DEF SubmitRead
<1>1. PICK answer \in Answer(want) :
        /\ NewRequest(want) /\ PushRecord(ReplyTo(answer))
        /\ pc' = "poll" /\ result' = "none"
  BY <1>0
<1> DEFINE r == ReplyTo(answer)
<1>2. /\ r \in Record /\ r.seq = nextSeq /\ r.cookie = nextCookie
      /\ nextCookie' \in Nat /\ nextCookie' <= MaxReads + 1
      /\ nextSeq + 1 <= nextCookie /\ nextSeq \in Nat /\ nextCookie \in Nat
      /\ request' \in [cookie : Nat, want : 0 .. MaxPayload]
  BY <1>1, ReplyType
<1> HIDE DEF r
<1>3. PushRecord(r)
  BY <1>1 DEF r
<1>4. UnreadIntact' /\ Ordered' /\ Chained' /\ HeadAtEnd'
  BY <1>2, <1>3, PushKeepsRing
<1>5. /\ Len(unread') = Len(unread) + 1 /\ Len(place') = Len(unread) + 1
      /\ unread' \in Seq(Record) /\ place' \in Seq(Positions)
      /\ DOMAIN unread = 1 .. Len(unread) /\ Len(unread) \in Nat
      /\ DOMAIN unread' = 1 .. Len(unread) + 1
      /\ \A k \in DOMAIN unread : unread'[k] = unread[k]
      /\ unread'[Len(unread) + 1] = r
  BY <1>2, <1>3, PushHistory
<1>6. /\ head' \in Positions /\ tail' = tail /\ nextSeq' = nextSeq + 1
      /\ dropped' = dropped /\ layout' = [head |-> head', tail |-> tail]
      /\ mem' \in [Positions -> Word]
  BY <1>2, <1>3, Room, PushWrites DEF PushRecord, Start, IInv
<1>7. TypeOK'
  BY <1>1, <1>2, <1>5, <1>6 DEF IInv, TypeOK, NewRequest
<1>8. Counted'
  BY <1>1, <1>2, <1>5, <1>6 DEF Counted, NewRequest
<1>9. ClientAt'
  BY <1>1, <1>5 DEF ClientAt
<1>10. pc = "idle" /\ abandoned' = abandoned /\ nextCookie = request'.cookie
  BY <1>1 DEF NewRequest
<1>11. Numbered'
  <2>1. Len(unread) = abandoned /\ abandoned \in Nat
    BY <1>10 DEF IInv, Numbered, TypeOK
  <2>2. \A k \in DOMAIN unread : unread[k].seq + Len(unread) + 1 = nextSeq + k
    BY DEF IInv, Numbered
  <2>3. \A k \in DOMAIN unread : unread[k].seq \in Nat
    BY RecordLength DEF IInv, TypeOK
  <2>4. ASSUME NEW k \in DOMAIN unread'
        PROVE  unread'[k].seq + Len(unread') + 1 = nextSeq' + k
    <3>1. /\ Len(unread) \in Nat /\ Len(unread') = Len(unread) + 1
          /\ nextSeq \in Nat /\ nextSeq' = nextSeq + 1
      BY <1>2, <1>5, <1>6
    <3>2. CASE k = Len(unread) + 1
      <4>1. unread'[k].seq = nextSeq
        BY <1>2, <1>5, <3>2
      <4>2. QED
        BY <3>1, <3>2, <4>1
    <3>3. CASE k \in DOMAIN unread
      <4>1. unread'[k].seq = unread[k].seq /\ k \in Nat
        BY <1>5, <3>3
      <4>2. unread[k].seq + Len(unread) + 1 = nextSeq + k /\ unread[k].seq \in Nat
        BY <2>2, <2>3, <3>3
      <4>3. PICK s \in Nat : s = unread[k].seq
        BY <4>2
      <4>4. s + (Len(unread) + 1) + 1 = (nextSeq + 1) + k
        <5>1. s + Len(unread) + 1 = nextSeq + k
          BY <4>2, <4>3
        <5>2. Len(unread) \in Nat /\ nextSeq \in Nat /\ k \in Nat
          BY <3>1, <4>1
        <5>3. QED
          BY <5>1, <5>2
      <4>5. QED
        BY <3>1, <4>1, <4>3, <4>4
    <3>4. QED
      BY <1>5, <3>2, <3>3
  <2>5. QED
    BY <1>1, <1>2, <1>5, <1>10, <2>1, <2>4 DEF Numbered
<1>12. BytesLagByAbandoned'
  BY <1>1 DEF BytesLagByAbandoned
<1>13. QED
  BY <1>4, <1>7, <1>8, <1>9, <1>11, <1>12 DEF IInv

\* Steps that leave the ring and its unread records alone keep their layout.
LEMMA RingUnchanged ==
  ASSUME IInv, UNCHANGED <<head, tail, mem, unread, place>>
  PROVE  UnreadIntact' /\ Ordered' /\ Chained' /\ HeadAtEnd'
BY DEF IInv, UnreadIntact, Ordered, Used, Distance, Chained, Leads, HeadAtEnd, EndOf,
       TotalLen, Header, Body, Padding, Positions

LEMMA SubmitRefusedKeepsInv ==
  ASSUME IInv, SubmitRefused
  PROVE  IInv'
<1>0. PICK want \in 1 .. MaxPayload : \E answer \in Answer(want) :
        /\ NewRequest(want) /\ DropRecord(ReplyTo(answer))
        /\ pc' = "idle" /\ result' = "error"
  BY DEF SubmitRefused
<1>1. PICK answer \in Answer(want) :
        /\ NewRequest(want) /\ DropRecord(ReplyTo(answer))
        /\ pc' = "idle" /\ result' = "error"
  BY <1>0
<1>2. /\ nextCookie' \in Nat /\ nextCookie' <= MaxReads + 1
      /\ nextSeq + 1 <= nextCookie /\ nextSeq \in Nat /\ nextCookie \in Nat
      /\ request' \in [cookie : Nat, want : 0 .. MaxPayload]
  BY <1>1, ReplyType
<1>3. UnreadIntact' /\ Ordered' /\ Chained' /\ HeadAtEnd'
  BY <1>1, RingUnchanged DEF DropRecord
<1>4. TypeOK'
  BY <1>1, <1>2 DEF IInv, TypeOK, NewRequest, DropRecord
<1>5. Counted'
  BY <1>1, <1>2 DEF IInv, Counted, NewRequest, DropRecord
<1>6. ClientAt' /\ Numbered' /\ BytesLagByAbandoned'
  BY <1>1 DEF IInv, ClientAt, Numbered, BytesLagByAbandoned, NewRequest, DropRecord
<1>7. QED
  BY <1>3, <1>4, <1>5, <1>6 DEF IInv

\* The oldest unread record, and what the walk may stand on.
LEMMA OldestFacts ==
  ASSUME IInv, unread # <<>>
  PROVE  /\ 1 \in DOMAIN unread /\ unread[1] \in Record /\ place[1] \in Positions
         /\ place[1] + TotalLen(unread[1]) <= Capacity
         /\ mem[place[1]] = Header(unread[1])
         /\ HeaderLen < TotalLen(unread[1]) /\ 2 * TotalLen(unread[1]) <= Capacity
         /\ TotalLen(unread[1]) \in Nat
         /\ EndOf(1) \in Positions
         /\ head # tail
<1>1. 1 \in DOMAIN unread
  BY DEF IInv, TypeOK
<1>2. mem[place[1]] = Header(unread[1])
  BY <1>1 DEF IInv, UnreadIntact
<1>3. /\ HeaderLen < TotalLen(unread[1]) /\ 2 * TotalLen(unread[1]) <= Capacity
      /\ TotalLen(unread[1]) \in Nat
  BY <1>1, UnreadFacts, RecordLength
<1>4. Distance(tail, place[1]) + TotalLen(unread[1]) <= Distance(tail, head)
  BY <1>1, UnreadFacts
<1>5. head # tail
  <2>1. place[1] \in 0 .. Capacity - 1 /\ tail \in 0 .. Capacity - 1
    BY <1>1, UnreadFacts DEF IInv, TypeOK, Positions
  <2>2. QED
    BY <1>3, <1>4, <2>1, Sizes DEF Distance
<1>6. QED
  BY <1>1, <1>2, <1>3, <1>5, UnreadFacts

LEMMA PollFailsKeepsInv ==
  ASSUME IInv, PollFails
  PROVE  IInv'
<1>1. UnreadIntact' /\ Ordered' /\ Chained' /\ HeadAtEnd'
  BY RingUnchanged DEF PollFails, ReturnError, session
<1>2. TypeOK' /\ Counted'
  BY Sizes DEF IInv, TypeOK, Counted, PollFails, ReturnError, session, NoRecord,
               Positions, Record, Status
<1>3. ClientAt' /\ BytesLagByAbandoned'
  BY DEF ClientAt, BytesLagByAbandoned, PollFails, ReturnError
<1>4. Numbered'
  BY DEF IInv, TypeOK, Numbered, PollFails, ReturnError, session
<1>5. QED
  BY <1>1, <1>2, <1>3, <1>4 DEF IInv

\* The client's entry check never fails: there is a record to read.
LEMMA PollReadyKeepsInv ==
  ASSUME IInv, PollReady
  PROVE  /\ IInv'
         /\ pc' = "decode" /\ cursor' = tail
         /\ UNCHANGED <<session, request, record, nextCookie, result, history>>
<1>1. /\ layout.tail < Capacity /\ layout.head < Capacity /\ layout.tail # layout.head
      /\ layout.tail = tail
  <2>1. head \in 0 .. Capacity - 1 /\ tail \in 0 .. Capacity - 1 /\ head # tail
    BY DEF IInv, TypeOK, Positions, PollReady
  <2>2. layout.head = head /\ layout.tail = tail
    BY DEF IInv, Counted
  <2>3. QED
    BY <2>1, <2>2, Sizes
<1>2. /\ pc = "poll" /\ pc' = "decode" /\ cursor' = tail
      /\ UNCHANGED <<session, request, record, nextCookie, result, history>>
  BY <1>1 DEF PollReady
<1>3. UnreadIntact' /\ Ordered' /\ Chained' /\ HeadAtEnd'
  BY <1>2, RingUnchanged DEF session, history
<1>4. TypeOK' /\ Counted' /\ Numbered' /\ BytesLagByAbandoned'
  BY <1>2 DEF IInv, TypeOK, Counted, Numbered, BytesLagByAbandoned, session, history
<1>5. ClientAt'
  BY <1>2 DEF IInv, ClientAt, Chained, Leads, Padding, session, history
<1>6. QED
  BY <1>2, <1>3, <1>4, <1>5 DEF IInv

\* The walk never meets a word it cannot decode: each iteration wraps, skips
\* padding or returns the oldest unread record.
LEMMA WalkSucceeds ==
  ASSUME IInv, pc = "decode"
  PROVE  /\ ~ WalkFails
         /\ WalkWraps => place[1] = 0
         /\ WalkSkipsPadding => place[1] = 0 /\ cursor' = 0
         /\ WalkReturns => /\ record'.rec = unread[1] /\ record'.next = EndOf(1)
                           /\ record' \in [rec : Record, next : Positions]
<1>1. unread # <<>> /\ Leads(mem, cursor, place[1])
  BY DEF IInv, ClientAt
<1>2. /\ unread[1] \in Record /\ place[1] \in 0 .. Capacity - 1
      /\ place[1] + TotalLen(unread[1]) <= Capacity
      /\ mem[place[1]] = Header(unread[1])
      /\ HeaderLen < TotalLen(unread[1]) /\ 2 * TotalLen(unread[1]) <= Capacity
      /\ TotalLen(unread[1]) \in Nat
      /\ EndOf(1) \in Positions
      /\ head # tail /\ layout.head = head
      /\ cursor \in 0 .. Capacity - 1
  BY <1>1, OldestFacts DEF IInv, Counted, TypeOK, Positions
<1>3. CASE cursor = place[1]
  <2>1. /\ mem[cursor].part = "header" /\ mem[cursor].len = TotalLen(unread[1])
        /\ mem[cursor].rec = unread[1]
    BY <1>2, <1>3 DEF Header
  <2>2. Contiguous >= HeaderLen /\ TotalLen(unread[1]) <= Contiguous
    BY <1>2, <1>3, Sizes DEF Contiguous
  <2>3. NextCursor(mem[cursor].len) = EndOf(1)
    BY <1>3, <2>1 DEF NextCursor, EndOf
  <2>4. EndOf(1) # cursor
    BY <1>1, <1>2, <1>3, OldestFacts, UnreadFacts, Sizes
  <2>5. Decodable(mem[cursor])
    BY <1>2, <2>1, <2>2, <2>3, <2>4 DEF Decodable
  <2>6. Contiguous \in Nat
    BY <1>2, Sizes DEF Contiguous
  <2>7. ~ WalkFails /\ ~ WalkWraps /\ ~ WalkSkipsPadding
    BY <2>1, <2>2, <2>5, <2>6, Sizes DEF WalkFails, WalkWraps, WalkSkipsPadding
  <2>8. WalkReturns => record' = [rec |-> unread[1], next |-> EndOf(1)]
    BY <2>1, <2>3 DEF WalkReturns
  <2>9. QED
    BY <1>2, <2>7, <2>8
<1>4. CASE cursor # place[1]
  <2>1. /\ place[1] = 0 /\ cursor > 0
        /\ Contiguous < HeaderLen \/ mem[cursor] = Padding(Contiguous)
        /\ Contiguous \in Nat /\ Contiguous > 0 /\ Contiguous < Capacity
    BY <1>1, <1>2, <1>4, Sizes DEF Leads, Contiguous
  <2>2. layout.head # 0
    <3>1. Distance(tail, place[1]) + TotalLen(unread[1]) <= Distance(tail, head)
      BY <1>1, OldestFacts, UnreadFacts
    <3>2. head \in 0 .. Capacity - 1 /\ tail \in 0 .. Capacity - 1
      BY DEF IInv, TypeOK, Positions
    <3>3. QED
      BY <1>2, <2>1, <3>1, <3>2, Sizes DEF Distance
  <2>3. CASE Contiguous < HeaderLen
    BY <2>1, <2>2, <2>3, Sizes
       DEF WalkFails, WalkWraps, WalkSkipsPadding, WalkReturns
  <2>4. CASE ~(Contiguous < HeaderLen)
    <3>1. mem[cursor].part = "padding" /\ mem[cursor].len = Contiguous
      BY <2>1, <2>4 DEF Padding
    <3>2. NextCursor(Contiguous) = 0
      BY <1>2, WrapAtCapacity, Sizes DEF NextCursor, Contiguous
    <3>3. Decodable(mem[cursor])
      BY <2>1, <2>4, <3>1, <3>2, Sizes DEF Decodable
    <3>4. ~ WalkFails /\ ~ WalkWraps /\ ~ WalkReturns
      BY <2>4, <3>1, <3>3 DEF WalkFails, WalkWraps, WalkReturns
    <3>5. QED
      BY <2>1, <3>1, <3>2, <3>4 DEF WalkSkipsPadding
  <2>5. QED
    BY <2>3, <2>4
<1>5. QED
  BY <1>3, <1>4

LEMMA DecodeKeepsInv ==
  ASSUME IInv, Decode
  PROVE  IInv'
<1>1. /\ pc = "decode"
      /\ UNCHANGED <<session, request, nextCookie, history>>
      /\ WalkWraps \/ WalkSkipsPadding \/ WalkReturns \/ WalkFails
  BY DEF Decode
<1>2. UnreadIntact' /\ Ordered' /\ Chained' /\ HeadAtEnd'
  BY <1>1, RingUnchanged DEF session, history
<1>3. CASE WalkWraps \/ WalkSkipsPadding
  <2>1. /\ cursor' = 0 /\ place[1] = 0
        /\ UNCHANGED <<pc, record, result>>
    BY <1>1, <1>3, WalkSucceeds DEF WalkWraps, WalkSkipsPadding
  <2>2. TypeOK' /\ Counted' /\ Numbered' /\ BytesLagByAbandoned'
    BY <1>1, <2>1, Sizes DEF IInv, TypeOK, Counted, Numbered, BytesLagByAbandoned,
                             session, history, Positions
  <2>3. ClientAt'
    BY <1>1, <2>1 DEF IInv, ClientAt, Leads, history
  <2>4. QED
    BY <1>2, <2>2, <2>3 DEF IInv
<1>4. CASE WalkReturns
  <2>1. /\ pc' = "advance" /\ cursor' = 0 /\ result' = result
        /\ record'.rec = unread[1] /\ record'.next = EndOf(1)
        /\ record' \in [rec : Record, next : Positions]
    BY <1>1, <1>4, WalkSucceeds DEF WalkReturns
  <2>2. TypeOK' /\ Counted' /\ Numbered' /\ BytesLagByAbandoned'
    BY <1>1, <2>1, Sizes DEF IInv, TypeOK, Counted, Numbered, BytesLagByAbandoned,
                             session, history, Positions
  <2>3. ClientAt'
    BY <1>1, <2>1 DEF IInv, ClientAt, EndOf, TotalLen, history
  <2>4. QED
    BY <1>2, <2>2, <2>3 DEF IInv
<1>5. QED
  BY <1>1, <1>3, <1>4, WalkSucceeds

\* The kernel accepts the tail the client asks for.
LEMMA AdvanceAccepted ==
  ASSUME IInv, pc = "advance"
  PROVE  /\ unread # <<>> /\ record.rec = unread[1]
         /\ record.next = EndOf(1) /\ Releases(record.next)
<1>1. unread # <<>> /\ record.rec = unread[1] /\ record.next = EndOf(1)
  BY DEF IInv, ClientAt
<1>2. /\ Distance(tail, EndOf(1)) <= Distance(tail, head)
      /\ EndOf(1) \in 0 .. Capacity - 1
  BY <1>1, OldestFacts, UnreadFacts DEF Positions
<1>3. head \in 0 .. Capacity - 1 /\ tail \in 0 .. Capacity - 1
  BY DEF IInv, TypeOK, Positions
<1>4. Releases(EndOf(1))
  BY <1>2, <1>3, Sizes DEF Releases, Distance
<1>5. QED
  BY <1>1, <1>4

\* What releasing the oldest record leaves in the histories.
LEMMA ReleaseHistory ==
  ASSUME IInv, unread # <<>>, unread' = Tail(unread), place' = Tail(place)
  PROVE  /\ Len(unread') = Len(unread) - 1 /\ Len(place') = Len(unread) - 1
         /\ unread' \in Seq(Record) /\ place' \in Seq(Positions)
         /\ Len(unread) \in Nat /\ Len(unread) > 0
         /\ DOMAIN unread = 1 .. Len(unread)
         /\ DOMAIN unread' = 1 .. Len(unread) - 1
         /\ \A k \in DOMAIN unread' : /\ unread'[k] = unread[k + 1]
                                      /\ place'[k] = place[k + 1]
                                      /\ k + 1 \in DOMAIN unread
<1>1. unread \in Seq(Record) /\ place \in Seq(Positions) /\ Len(place) = Len(unread)
  BY DEF IInv, TypeOK, Counted
<1>2. place # <<>>
  BY <1>1
<1>3. QED
  BY <1>1, <1>2

\* Measured from the new tail, what follows the released record keeps its order.
LEMMA ReleaseKeepsRing ==
  ASSUME IInv, unread # <<>>, unread' = Tail(unread), place' = Tail(place),
         tail' = EndOf(1), UNCHANGED <<head, mem>>
  PROVE  UnreadIntact' /\ Ordered' /\ Chained' /\ HeadAtEnd'
<1> DEFINE n == Len(unread)
           gone == Distance(tail, EndOf(1))
<1>1. /\ n \in Nat /\ n > 0 /\ DOMAIN unread = 1 .. n /\ DOMAIN unread' = 1 .. n - 1
      /\ Len(unread') = n - 1
      /\ \A k \in DOMAIN unread' : /\ unread'[k] = unread[k + 1]
                                   /\ place'[k] = place[k + 1]
                                   /\ k + 1 \in DOMAIN unread
  BY ReleaseHistory
<1>2. /\ head \in 0 .. Capacity - 1 /\ tail \in 0 .. Capacity - 1
      /\ EndOf(1) \in 0 .. Capacity - 1
      /\ gone \in Nat /\ gone = Distance(tail, place[1]) + TotalLen(unread[1])
      /\ gone <= Distance(tail, head)
  <2>1. /\ head \in 0 .. Capacity - 1 /\ tail \in 0 .. Capacity - 1
        /\ EndOf(1) \in 0 .. Capacity - 1
    BY OldestFacts DEF IInv, TypeOK, Positions
  <2>2. gone \in Nat
    BY <2>1, Sizes DEF Distance
  <2>3. /\ gone = Distance(tail, place[1]) + TotalLen(unread[1])
        /\ gone <= Distance(tail, head)
    BY OldestFacts, UnreadFacts
  <2>4. QED
    BY <2>1, <2>2, <2>3
<1>3. ASSUME NEW p \in Positions, Distance(tail, p) >= gone
      PROVE  Distance(tail', p) = Distance(tail, p) - gone
  BY <1>2, <1>3, Sizes DEF Positions, Distance
<1>4. UnreadIntact'
  <2>1. ASSUME NEW k \in DOMAIN unread
        PROVE  /\ place[k] + TotalLen(unread[k]) <= Capacity
               /\ mem[place[k]] = Header(unread[k])
               /\ \A p \in Positions :
                    p > place[k] /\ p < place[k] + TotalLen(unread[k])
                      => mem[p] = Body(unread[k])
    BY <2>1 DEF IInv, UnreadIntact
  <2>2. ASSUME NEW k \in DOMAIN unread'
        PROVE  /\ place'[k] + TotalLen(unread'[k]) <= Capacity
               /\ mem'[place'[k]] = Header(unread'[k])
               /\ \A p \in Positions :
                    p > place'[k] /\ p < place'[k] + TotalLen(unread'[k])
                      => mem'[p] = Body(unread'[k])
    BY <1>1, <2>1, <2>2
  <2>3. QED
    BY <2>2 DEF UnreadIntact
<1>5. ASSUME NEW k \in DOMAIN unread'
      PROVE  /\ k \in 1 .. n - 1 /\ k + 1 \in DOMAIN unread
             /\ place[k + 1] \in Positions
             /\ Distance(tail, place[k + 1]) \in Nat
             /\ TotalLen(unread[k + 1]) \in Nat
             /\ gone <= Distance(tail, place[k + 1])
             /\ Distance(tail, place[k + 1]) + TotalLen(unread[k + 1]) <= Distance(tail, head)
             /\ Distance(tail', place'[k]) = Distance(tail, place[k + 1]) - gone
             /\ EndOf(k)' = EndOf(k + 1)
             /\ TotalLen(unread'[k]) = TotalLen(unread[k + 1])
  <2>1. k \in 1 .. n - 1 /\ k + 1 \in DOMAIN unread /\ 1 \in 1 .. (k + 1) - 1
    BY <1>1, <1>5
  <2>2. /\ place[k + 1] \in Positions
        /\ Distance(tail, place[k + 1]) \in Nat
        /\ TotalLen(unread[k + 1]) \in Nat
        /\ Distance(tail, place[k + 1]) + TotalLen(unread[k + 1]) <= Distance(tail, head)
    <3>1. place[k + 1] \in Positions /\ unread[k + 1] \in Record
      BY <2>1, UnreadFacts
    <3>2. Distance(tail, place[k + 1]) + TotalLen(unread[k + 1]) <= Distance(tail, head)
      BY <2>1, UnreadFacts
    <3>3. TotalLen(unread[k + 1]) \in Nat
      BY <3>1, RecordLength
    <3>4. Distance(tail, place[k + 1]) \in Nat
      BY <1>2, <3>1, Sizes DEF Distance, Positions
    <3>5. QED
      BY <3>1, <3>2, <3>3, <3>4
  <2>3. gone <= Distance(tail, place[k + 1])
    BY <1>2, <2>1 DEF IInv, Ordered
  <2>4. Distance(tail', place'[k]) = Distance(tail, place[k + 1]) - gone
    BY <1>1, <1>2, <1>3, <1>5, <2>2, <2>3
  <2>5. EndOf(k)' = EndOf(k + 1)
    BY <1>1, <1>5 DEF EndOf, TotalLen
  <2>6. QED
    BY <1>1, <1>5, <2>1, <2>2, <2>3, <2>4, <2>5
<1>6. Distance(tail', head') = Distance(tail, head) - gone
  BY <1>2, <1>3 DEF Positions
<1>7. Ordered'
  <2> SUFFICES ASSUME NEW k \in DOMAIN unread'
               PROVE  /\ Distance(tail', place'[k]) + TotalLen(unread'[k])
                           <= Distance(tail', head')
                      /\ \A j \in 1 .. k - 1 :
                           Distance(tail', place'[j]) + TotalLen(unread'[j])
                             <= Distance(tail', place'[k])
    BY DEF Ordered, Used, TotalLen, Distance
  <2>1. Distance(tail, head) \in Nat
    BY <1>2, Sizes DEF Distance
  <2>2. Distance(tail', place'[k]) + TotalLen(unread'[k]) <= Distance(tail', head')
    <3>1. \A d, l, g, u \in Nat : d + l <= u /\ g <= u => (d - g) + l <= u - g
      OBVIOUS
    <3>2. (Distance(tail, place[k + 1]) - gone) + TotalLen(unread[k + 1])
            <= Distance(tail, head) - gone
      BY <1>2, <1>5, <2>1, <3>1
    <3>3. QED
      BY <1>5, <1>6, <3>2
  <2>3. ASSUME NEW j \in 1 .. k - 1
        PROVE  Distance(tail', place'[j]) + TotalLen(unread'[j])
                 <= Distance(tail', place'[k])
    <3>1. j \in DOMAIN unread' /\ j + 1 \in 1 .. (k + 1) - 1
      BY <1>1, <1>5
    <3>2. Distance(tail, place[j + 1]) + TotalLen(unread[j + 1])
            <= Distance(tail, place[k + 1])
      BY <1>5, <3>1 DEF IInv, Ordered
    <3>3. \A d, l, g, u \in Nat : d + l <= u => (d - g) + l <= u - g
      OBVIOUS
    <3>4. (Distance(tail, place[j + 1]) - gone) + TotalLen(unread[j + 1])
            <= Distance(tail, place[k + 1]) - gone
      BY <1>2, <1>5, <3>1, <3>2, <3>3
    <3>5. QED
      BY <1>5, <3>1, <3>4
  <2>4. QED
    BY <2>2, <2>3
<1>8. HeadAtEnd'
  <2>1. CASE n = 1
    BY <1>1, <2>1, ReleaseHistory DEF IInv, HeadAtEnd
  <2>2. CASE n # 1
    <3>1. n - 1 \in DOMAIN unread' /\ (n - 1) + 1 = n
      BY <1>1, <2>2
    <3>2. EndOf(Len(unread))' = EndOf(n)
      BY <1>1, <1>5, <3>1
    <3>3. unread # <<>> /\ unread' # <<>>
      BY <1>1, <2>2
    <3>4. QED
      BY <1>1, <3>2, <3>3 DEF IInv, HeadAtEnd
  <2>3. QED
    BY <2>1, <2>2
<1>9. Chained'
  <2>1. unread' # <<>> => Leads(mem', tail', place'[1])
    <3>1. SUFFICES ASSUME unread' # <<>>
                   PROVE  Leads(mem', tail', place'[1])
      OBVIOUS
    <3>2. 1 \in DOMAIN unread' /\ 1 \in 1 .. n - 1
      BY <1>1, <3>1, ReleaseHistory
    <3>3. QED
      BY <1>1, <3>2 DEF IInv, Chained
  <2>2. ASSUME NEW k \in 1 .. Len(unread') - 1
        PROVE  Leads(mem', EndOf(k)', place'[k + 1])
    <3>1. k \in DOMAIN unread' /\ k + 1 \in DOMAIN unread' /\ k + 1 \in 1 .. n - 1
      BY <1>1
    <3>2. QED
      BY <1>1, <1>5, <3>1 DEF IInv, Chained
  <2>3. QED
    BY <2>1, <2>2 DEF Chained, Leads, Padding
<1>10. QED
  BY <1>4, <1>7, <1>8, <1>9

LEMMA AdvanceTailKeepsInv ==
  ASSUME IInv, AdvanceTail
  PROVE  IInv'
<1>1. /\ pc = "advance"
      /\ unread # <<>> /\ record.rec = unread[1]
      /\ record.next = EndOf(1) /\ Releases(record.next)
  BY AdvanceAccepted DEF AdvanceTail
<1>2. /\ tail' = EndOf(1)
      /\ layout' = [layout EXCEPT !.tail = EndOf(1)]
      /\ unread' = Tail(unread) /\ place' = Tail(place)
      /\ delivered' = <<unread[1]>>
      /\ pc' = "idle" /\ result' = ReadBytes(unread[1]) /\ record' = NoRecord
      /\ UNCHANGED <<head, nextSeq, dropped, mem, cursor, request, nextCookie, abandoned>>
  BY <1>1 DEF AdvanceTail
<1>3. UnreadIntact' /\ Ordered' /\ Chained' /\ HeadAtEnd'
  BY <1>1, <1>2, ReleaseKeepsRing
<1>4. /\ Len(unread') = Len(unread) - 1 /\ Len(place') = Len(unread) - 1
      /\ unread' \in Seq(Record) /\ place' \in Seq(Positions)
      /\ Len(unread) \in Nat /\ Len(unread) > 0
      /\ DOMAIN unread = 1 .. Len(unread)
      /\ DOMAIN unread' = 1 .. Len(unread) - 1
      /\ \A k \in DOMAIN unread' : unread'[k] = unread[k + 1] /\ k + 1 \in DOMAIN unread
  BY <1>1, <1>2, ReleaseHistory
<1>5. unread[1] \in Record /\ EndOf(1) \in Positions
  BY <1>1, OldestFacts
<1>6. TypeOK'
  <2>1. NoRecord \in [rec : Record, next : Positions]
    BY Sizes DEF NoRecord, Record, Status, Positions
  <2>2. layout' \in [head : Positions, tail : Positions]
    BY <1>2, <1>5 DEF IInv, TypeOK
  <2>3. delivered' \in Seq(Record)
    BY <1>2, <1>5
  <2>4. QED
    BY <1>2, <1>4, <1>5, <2>1, <2>2, <2>3 DEF IInv, TypeOK, ReadBytes
<1>7. Counted'
  BY <1>2, <1>4 DEF IInv, Counted
<1>8. ClientAt'
  BY <1>2 DEF ClientAt
<1>9. /\ Len(unread) = abandoned + 1 /\ abandoned \in Nat /\ nextSeq \in Nat
      /\ \A k \in DOMAIN unread : /\ unread[k].seq + Len(unread) + 1 = nextSeq + k
                                  /\ unread[k].seq \in Nat
      /\ unread[Len(unread)].cookie = request.cookie
  BY <1>1, RecordLength DEF IInv, Numbered, TypeOK
<1>10. Numbered'
  <2>1. ASSUME NEW k \in DOMAIN unread'
        PROVE  unread'[k].seq + Len(unread') + 1 = nextSeq' + k
    <3>1. /\ unread'[k].seq = unread[k + 1].seq /\ k \in Nat
          /\ unread[k + 1].seq + Len(unread) + 1 = nextSeq + (k + 1)
          /\ unread[k + 1].seq \in Nat
      BY <1>4, <1>9, <2>1
    <3>2. SUFFICES ASSUME NEW s \in Nat, NEW l \in Nat, s = unread[k + 1].seq, l = Len(unread)
                   PROVE  s + (l - 1) + 1 = nextSeq + k
      BY <1>2, <1>4, <3>1
    <3>3. s + l + 1 = nextSeq + (k + 1)
      BY <3>1, <3>2
    <3>4. k \in Nat /\ nextSeq \in Nat /\ s \in Nat /\ l \in Nat
      BY <1>9, <3>1, <3>2
    <3>5. QED
      BY <3>3, <3>4
  <2>2. Len(unread') = abandoned'
    BY <1>2, <1>4, <1>9
  <2>3. QED
    BY <1>2, <1>9, <2>1, <2>2 DEF Numbered
<1>11. BytesLagByAbandoned'
  <2>1. 1 \in DOMAIN unread
    BY <1>4
  <2>2. unread[1].seq + abandoned + 1 = nextSeq
    <3>1. unread[1].seq + Len(unread) + 1 = nextSeq + 1 /\ unread[1].seq \in Nat
      BY <1>9, <2>1
    <3>2. SUFFICES ASSUME NEW s \in Nat, s = unread[1].seq
                   PROVE  s + abandoned + 1 = nextSeq
      BY <3>1
    <3>3. s + (abandoned + 1) + 1 = nextSeq + 1
      BY <1>9, <3>1, <3>2
    <3>4. abandoned \in Nat /\ nextSeq \in Nat /\ s \in Nat
      BY <1>9, <3>2
    <3>5. QED
      BY <3>3, <3>4
  <2>3. delivered'[1] = unread[1]
    BY <1>2
  <2>4. result' = "bytes" => unread[1].payload = request.want
    BY <1>2 DEF ReadBytes
  <2>5. abandoned = 0 => unread[1].cookie = request.cookie
    BY <1>9
  <2>6. QED
    BY <1>2, <2>2, <2>3, <2>4, <2>5 DEF BytesLagByAbandoned
<1>12. QED
  BY <1>3, <1>6, <1>7, <1>8, <1>10, <1>11 DEF IInv

LEMMA NextInv == IInv /\ [Next]_vars => IInv'
<1> SUFFICES ASSUME IInv, [Next]_vars
             PROVE  IInv'
  OBVIOUS
<1>1. CASE SubmitRead
  BY <1>1, SubmitReadKeepsInv
<1>2. CASE SubmitRefused
  BY <1>2, SubmitRefusedKeepsInv
<1>3. CASE PollReady
  BY <1>3, PollReadyKeepsInv
<1>4. CASE PollFails
  BY <1>4, PollFailsKeepsInv
<1>5. CASE Decode
  BY <1>5, DecodeKeepsInv
<1>6. CASE AdvanceTail
  BY <1>6, AdvanceTailKeepsInv
<1>7. CASE UNCHANGED vars
  <2>1. UnreadIntact' /\ Ordered' /\ Chained' /\ HeadAtEnd'
    BY <1>7, RingUnchanged DEF vars
  <2>2. TypeOK' /\ Counted' /\ Numbered' /\ BytesLagByAbandoned'
    BY <1>7 DEF IInv, TypeOK, Counted, Numbered, BytesLagByAbandoned, vars
  <2>3. ClientAt'
    BY <1>7 DEF IInv, ClientAt, Leads, Padding, EndOf, TotalLen, vars
  <2>4. QED
    BY <2>1, <2>2, <2>3 DEF IInv
<1>8. QED
  BY <1>1, <1>2, <1>3, <1>4, <1>5, <1>6, <1>7 DEF Next

\* A refused read leaves an older record unread.
LEMMA RefusedBehindARecord ==
  ASSUME IInv, SubmitRefused
  PROVE  unread # <<>> /\ dropped' = dropped + 1
<1>1. PICK want \in 1 .. MaxPayload : \E answer \in Answer(want) :
        NewRequest(want) /\ DropRecord(ReplyTo(answer))
  BY DEF SubmitRefused
<1>2. PICK answer \in Answer(want) : NewRequest(want) /\ DropRecord(ReplyTo(answer))
  BY <1>1
<1>3. ReplyTo(answer) \in Record /\ ~Fits(TotalLen(ReplyTo(answer)))
  BY <1>2, ReplyType DEF DropRecord
<1>4. head # tail
  BY <1>3, EmptyRingFits DEF IInv
<1>5. QED
  BY <1>2, <1>4 DEF IInv, HeadAtEnd, DropRecord

LEMMA Invariant == Spec => []IInv
BY InitInv, NextInv, PTL DEF Spec

-----------------------------------------------------------------------------
(* The theorems.                                                           *)

\* The positions, words, locals and histories keep their types.
THEOREM TypeCorrect == Spec => []TypeOK
<1>1. IInv => TypeOK
  BY DEF IInv
<1>2. QED
  BY <1>1, Invariant, PTL

\* The kernel never writes over a record the client has still to read.
THEOREM NeverOverwritten == Spec => []UnreadIntact
<1>1. IInv => UnreadIntact
  BY DEF IInv
<1>2. QED
  BY <1>1, Invariant, PTL

\* head = tail means that nothing is unread, and only that.
THEOREM EmptyMeansRead == Spec => []EmptyIffNothingUnread
<1>1. IInv => EmptyIffNothingUnread
  <2> SUFFICES ASSUME IInv
               PROVE  EmptyIffNothingUnread
    OBVIOUS
  <2>1. unread # <<>> => head # tail
    BY OldestFacts
  <2>2. unread = <<>> => head = tail
    BY DEF IInv, HeadAtEnd
  <2>3. QED
    BY <2>1, <2>2 DEF EmptyIffNothingUnread
<1>2. QED
  BY <1>1, Invariant, PTL

\* The client's walk ends at the oldest unread record, without an error.
THEOREM WalkCorrect == Spec => []WalkFindsOldest
<1>1. IInv => WalkFindsOldest
  BY DEF IInv, ClientAt, Leads, WalkFindsOldest, Contiguous
<1>2. QED
  BY <1>1, Invariant, PTL

\* The tail the client asks for releases one record and is always accepted.
THEOREM ReleaseCorrect == Spec => []ReleaseIsExact
<1>1. IInv => ReleaseIsExact
  BY AdvanceAccepted DEF ReleaseIsExact
<1>2. QED
  BY <1>1, Invariant, PTL

\* Bytes answer the read that asked for them, unless poll() failed before.
THEOREM BytesMatchRequest == Spec => []BytesLagByAbandoned
<1>1. IInv => BytesLagByAbandoned
  BY DEF IInv
<1>2. QED
  BY <1>1, Invariant, PTL

\* A ring of the size SizingAssumption asks for never refuses while empty.
THEOREM EmptyAccepts == Spec => EmptyRingAccepts
<1>1. IInv /\ [Next]_vars => [dropped' # dropped => unread # <<>>]_vars
  <2> SUFFICES ASSUME IInv, Next, dropped' # dropped
               PROVE  unread # <<>>
    BY DEF vars
  <2>1. SubmitRefused
    BY DEF Next, SubmitRead, PushRecord, PollReady, PollFails, ReturnError, Decode,
           AdvanceTail, session
  <2>2. QED
    BY <2>1, RefusedBehindARecord
<1>2. QED
  BY <1>1, Invariant, PTL DEF EmptyRingAccepts, Spec

\* The ring implements the channel: the safety half of ChannelSpec.
THEOREM ImplementsChannel == Spec => Channel!SafeSpec
<1>1. Init => Channel!Init
  BY DEF Init, Channel!Init, Channel!Nothing
<1>2. IInv /\ [Next]_vars => [Channel!Next]_(Channel!channelVars)
  <2> SUFFICES ASSUME IInv, [Next]_vars
               PROVE  Channel!Next \/ UNCHANGED Channel!channelVars
    OBVIOUS
  <2> USE DEF Channel!channelVars
  <2>1. CASE SubmitRead
    <3>1. PICK want \in 1 .. MaxPayload : \E answer \in Answer(want) :
            /\ NewRequest(want) /\ PushRecord(ReplyTo(answer)) /\ pc' = "poll"
      BY <2>1 DEF SubmitRead
    <3>2. PICK answer \in Answer(want) :
            /\ NewRequest(want) /\ PushRecord(ReplyTo(answer)) /\ pc' = "poll"
      BY <3>1
    <3>3. ReplyTo(answer) \in Record
      BY <3>2, ReplyType
    <3>4. Channel!Accept(ReplyTo(answer))
      BY <3>2 DEF Channel!Accept, NewRequest, PushRecord
    <3>5. QED
      BY <3>3, <3>4 DEF Channel!Next
  <2>2. CASE SubmitRefused
    <3>1. unread # <<>> /\ dropped' = dropped + 1
      BY <2>2, RefusedBehindARecord
    <3>2. QED
      BY <2>2, <3>1 DEF Channel!Next, Channel!Refuse, SubmitRefused, NewRequest, DropRecord
  <2>3. CASE PollReady
    BY <2>3, PollReadyKeepsInv DEF PollReady, session, history
  <2>4. CASE PollFails
    BY <2>4 DEF Channel!Next, Channel!GiveUp, PollFails, ReturnError, session
  <2>5. CASE Decode
    BY <2>5, WalkSucceeds
       DEF Decode, WalkWraps, WalkSkipsPadding, WalkReturns, session, history
  <2>6. CASE AdvanceTail
    BY <2>6, AdvanceAccepted DEF Channel!Next, Channel!Deliver, AdvanceTail
  <2>7. CASE UNCHANGED vars
    BY <2>7 DEF vars
  <2>8. QED
    BY <2>1, <2>2, <2>3, <2>4, <2>5, <2>6, <2>7 DEF Next
<1>3. QED
  BY <1>1, <1>2, Invariant, PTL DEF Spec, Channel!SafeSpec
=============================================================================
