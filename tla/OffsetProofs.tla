------------------------------ MODULE OffsetProofs ------------------------------
(***************************************************************************)
(* For every memory, pattern, chunk length and layout of the module: what  *)
(* PatternScan finds is the first match.  For every number of lists, and   *)
(* however the game adds to them: SchemaWalk finds what was registered.    *)
(* For every list of mappings, however the game writes to them: QwordScan  *)
(* finds where the word is.                                                *)
(***************************************************************************)
EXTENDS PatternScan, SchemaWalk, QwordScan, TLAPS

-----------------------------------------------------------------------------
(* The scan.                                                               *)

InSegment(s) == Matches(s.base, s.end)

\* The segments behind the scan hold no match; the one being scanned has none
\* before the offset and lies before those to come.
Passed ==
  stage \in {"segment", "chunk", "none"} =>
    /\ \A s \in segments \ todo : (stage = "chunk" => s # segment) => InSegment(s) = {}
    /\ stage = "none" => todo = {}
    /\ stage = "chunk" =>
         /\ segment \in segments \ todo /\ Start < segment.end
         /\ \A t \in todo : segment.end <= t.base
         /\ \A a \in InSegment(segment) : Start <= a

ScanInv == TypeOK /\ segments \in Layouts /\ Passed /\ FirstMatchFound

LEMMA Lengths ==
  ASSUME TypeOK
  PROVE  PatternLen \in 1 .. MaxPattern
<1>1. PICK n \in 1 .. MaxPattern : pattern \in [1 .. n -> Tokens]
  BY DEF TypeOK
<1>2. n \in Nat
  BY ScanAssumption DEF ScanAssumption
<1> QED BY <1>1, <1>2 DEF PatternLen

LEMMA ScanInitInv == ScanInit => ScanInv
<1> SUFFICES ASSUME ScanInit PROVE ScanInv
  OBVIOUS
<1>1. TypeOK
  BY ScanAssumption DEF ScanInit, TypeOK, ScanAssumption
<1> QED BY <1>1 DEF ScanInit, ScanInv, Passed, FirstMatchFound

LEMMA NextSegmentKeepsScanInv == ScanInv /\ NextSegment => ScanInv'
<1> SUFFICES ASSUME ScanInv, NextSegment PROVE ScanInv'
  OBVIOUS
<1> USE DEF ScanInv
<1>1. \A s \in segments : InSegment(s)' = InSegment(s)
  BY DEF NextSegment, InSegment, Matches, MatchesAt, PatternLen
<1>2. AllMatches' = UNION {InSegment(s) : s \in segments}
  BY <1>1 DEF NextSegment, AllMatches, InSegment
<1>3. \A s \in segments \ todo : InSegment(s) = {}
  BY DEF Passed, NextSegment
<1>4. CASE todo = {} /\ stage' = "none" /\ UNCHANGED <<segment, todo, offset>>
  <2>1. TypeOK'
    BY <1>4 DEF NextSegment, TypeOK
  <2>2. Passed'
    BY <1>1, <1>3, <1>4 DEF Passed, NextSegment
  <2>3. FirstMatchFound'
    BY <1>2, <1>3, <1>4 DEF FirstMatchFound
  <2> QED BY <2>1, <2>2, <2>3 DEF NextSegment
<1>5. ASSUME NEW s \in todo, \A t \in todo : s.base <= t.base,
             segment' = s, todo' = todo \ {s}, offset' = 0, stage' = "chunk"
      PROVE  ScanInv'
  <2>1. s \in segments /\ s \in Segment /\ segments' = segments
    BY DEF TypeOK, NextSegment
  <2>2. TypeOK'
    BY <1>5, <2>1 DEF NextSegment, TypeOK
  <2>3. s.base \in Nat /\ s.end \in Nat /\ s.base < s.end
    BY <2>1, ScanAssumption DEF Segment, Addresses, ScanAssumption
  <2>4. ASSUME NEW t \in todo' PROVE s.end <= t.base
    <3>1. t \in segments /\ t \in Segment /\ t # s /\ s.base <= t.base
      BY <1>5 DEF TypeOK
    <3>2. t.base \in Nat /\ t.end \in Nat /\ t.base < t.end
      BY <3>1, ScanAssumption DEF Segment, Addresses, ScanAssumption
    <3>3. s.end <= t.base \/ t.end <= s.base
      BY <2>1, <3>1, ScanAssumption DEF ScanAssumption
    <3> QED BY <2>3, <3>1, <3>2, <3>3
  <2>5. \A a \in InSegment(s) : s.base <= a
    BY DEF InSegment, Matches
  <2>6. Start' = s.base
    BY <1>5, <2>3 DEF Start
  <2>7. \A t \in segments \ todo' : t # s => InSegment(t)' = {}
    BY <1>1, <1>3, <1>5
  <2>8. InSegment(segment)' = InSegment(s)
    BY <1>1, <1>5, <2>1 DEF InSegment
  <2>9. Passed'
    BY <1>5, <2>1, <2>3, <2>4, <2>5, <2>6, <2>7, <2>8 DEF Passed
  <2> QED BY <1>5, <2>1, <2>2, <2>9 DEF FirstMatchFound
<1> QED BY <1>4, <1>5 DEF NextSegment

\* What a chunk shows of the segment: the matches in it are matches of the segment,
\* all others begin after the last place where the pattern fits into the chunk.
LEMMA ChunkOfSegment ==
  ASSUME ScanInv, stage = "chunk"
  PROVE  /\ Start \in Nat /\ ChunkLen \in Nat /\ Remaining \in Nat
         /\ ChunkLen <= Remaining /\ PatternLen \in 1 .. MaxPattern
         /\ Remaining > ChunkLen => ChunkLen = ChunkBytes
         /\ segment.base \in Nat /\ segment.end \in Nat
         /\ Remaining = segment.end - Start
         /\ Matches(Start, Start + ChunkLen) \subseteq InSegment(segment)
         /\ \A a \in InSegment(segment) : \/ a \in Matches(Start, Start + ChunkLen)
                                          \/ a + PatternLen > Start + ChunkLen
<1> USE DEF ScanInv
<1>1. segment \in segments /\ segment \in Segment /\ Start < segment.end
  BY DEF Passed, TypeOK
<1>2. segment.base \in Nat /\ segment.end \in Nat
  BY <1>1, ScanAssumption DEF Segment, Addresses, ScanAssumption
<1>3. Start \in Nat /\ Start >= segment.base
  BY <1>2 DEF Start, TypeOK
<1>4. Remaining \in Nat /\ Remaining = segment.end - Start
  BY <1>1, <1>2, <1>3 DEF Remaining
<1>5. ChunkLen \in Nat /\ ChunkLen <= Remaining /\ (Remaining > ChunkLen => ChunkLen = ChunkBytes)
  BY <1>4, ScanAssumption DEF ChunkLen, ScanAssumption
<1>6. PatternLen \in 1 .. MaxPattern /\ PatternLen \in Nat
  BY Lengths, ScanAssumption DEF ScanAssumption
<1>7. ASSUME NEW a \in Matches(Start, Start + ChunkLen) PROVE a \in InSegment(segment)
  <2>1. a \in Addresses /\ a \in Nat /\ Start <= a /\ a + PatternLen <= Start + ChunkLen /\ MatchesAt(a)
    BY <1>7, ScanAssumption DEF Matches, Addresses, ScanAssumption
  <2>2. segment.base <= a /\ a + PatternLen <= segment.end
    BY <1>2, <1>3, <1>4, <1>5, <1>6, <2>1
  <2> QED BY <2>1, <2>2 DEF InSegment, Matches
<1>8. ASSUME NEW a \in InSegment(segment), ~(a + PatternLen > Start + ChunkLen)
      PROVE  a \in Matches(Start, Start + ChunkLen)
  <2>1. Start <= a
    BY <1>8 DEF Passed
  <2>2. a \in Addresses /\ a \in Nat /\ MatchesAt(a)
    BY <1>8, ScanAssumption DEF InSegment, Matches, Addresses, ScanAssumption
  <2>3. a + PatternLen <= Start + ChunkLen
    BY <1>3, <1>5, <1>6, <1>8, <2>2
  <2> QED BY <2>1, <2>2, <2>3 DEF Matches
<1> QED BY <1>2, <1>3, <1>4, <1>5, <1>6, <1>7, <1>8

LEMMA ChunkFoundKeepsScanInv == ScanInv /\ ChunkFound => ScanInv'
<1> SUFFICES ASSUME ScanInv, ChunkFound PROVE ScanInv'
  OBVIOUS
<1> USE DEF ScanInv
<1>1. stage = "chunk" /\ stage' = "found"
  BY DEF ChunkFound
<1>2. PICK a \in Addresses : Least(a, Matches(Start, Start + ChunkLen)) /\ result' = a
  BY DEF ChunkFound
<1>3. a \in Nat
  BY <1>2, ScanAssumption DEF Addresses, ScanAssumption
<1>4. TypeOK'
  BY <1>1, <1>2, <1>3 DEF ChunkFound, TypeOK
<1>5. AllMatches' = UNION {InSegment(s) : s \in segments}
  BY DEF ChunkFound, AllMatches, InSegment, Matches, MatchesAt, PatternLen
<1>6. segment \in segments /\ a \in InSegment(segment)
  BY <1>1, <1>2, ChunkOfSegment DEF Passed, Least
<1>7. ASSUME NEW s \in segments, NEW b \in InSegment(s) PROVE a <= b
  <2>1. b \in Nat
    BY ScanAssumption DEF InSegment, Matches, Addresses, ScanAssumption
  <2>2. CASE s = segment
    <3>1. CASE b \in Matches(Start, Start + ChunkLen)
      BY <1>2, <3>1 DEF Least
    <3>2. CASE b + PatternLen > Start + ChunkLen
      <4>1. a + PatternLen <= Start + ChunkLen
        BY <1>2 DEF Least, Matches
      <4>2. PatternLen \in Nat /\ Start \in Nat /\ ChunkLen \in Nat
        BY <1>1, ChunkOfSegment, ScanAssumption DEF ScanAssumption
      <4> QED BY <1>3, <2>1, <3>2, <4>1, <4>2
    <3> QED BY <1>1, <2>2, <3>1, <3>2, ChunkOfSegment
  <2>3. CASE s \in todo
    <3>1. segment.end <= s.base
      BY <1>1, <2>3 DEF Passed
    <3>2. s.base <= b
      BY DEF InSegment, Matches
    <3>3. a + PatternLen <= segment.end
      BY <1>6 DEF InSegment, Matches
    <3>4. s.base \in Nat /\ segment.end \in Nat /\ PatternLen \in Nat
      BY <1>1, <1>7, ChunkOfSegment, ScanAssumption DEF ScanAssumption, TypeOK, Segment, Addresses
    <3> QED BY <1>3, <2>1, <3>1, <3>2, <3>3, <3>4
  <2>4. CASE s \notin todo /\ s # segment
    BY <1>1, <1>7, <2>4 DEF Passed
  <2> QED BY <2>2, <2>3, <2>4
<1>8. FirstMatchFound'
  BY <1>1, <1>2, <1>5, <1>6, <1>7 DEF FirstMatchFound, Least
<1> QED BY <1>1, <1>4, <1>8 DEF Passed, ChunkFound

LEMMA ChunkPassedKeepsScanInv == ScanInv /\ ChunkPassed => ScanInv'
<1> SUFFICES ASSUME ScanInv, ChunkPassed PROVE ScanInv'
  OBVIOUS
<1> USE DEF ScanInv
<1>1. stage = "chunk" /\ Matches(Start, Start + ChunkLen) = {}
  BY DEF ChunkPassed
<1>2. segments' = segments /\ todo' = todo /\ segment' = segment
      /\ \A s \in segments : InSegment(s)' = InSegment(s)
  BY DEF ChunkPassed, InSegment, Matches, MatchesAt, PatternLen
<1>3. /\ PatternLen \in 1 .. MaxPattern /\ PatternLen \in Nat
      /\ Start \in Nat /\ ChunkLen \in Nat /\ Remaining \in Nat
      /\ segment.base \in Nat /\ segment.end \in Nat
  BY <1>1, ChunkOfSegment, ScanAssumption DEF ScanAssumption
<1>4. \A b \in InSegment(segment) : b \in Nat /\ b + PatternLen > Start + ChunkLen
  BY <1>1, ChunkOfSegment, ScanAssumption DEF InSegment, Matches, Addresses, ScanAssumption
<1>5. segment \in segments
  BY <1>1 DEF Passed
<1>6. CASE Remaining <= ChunkLen
  <2>1. stage' = "segment" /\ offset' = offset
    BY <1>6 DEF ChunkPassed, Advance
  <2>2. \A b \in InSegment(segment) : b + PatternLen <= segment.end
    BY DEF InSegment, Matches
  <2>3. Start + ChunkLen >= segment.end
    BY <1>1, <1>3, <1>6, ChunkOfSegment
  <2>4. InSegment(segment) = {}
    BY <1>3, <1>4, <2>2, <2>3
  <2>5. TypeOK'
    BY <2>1 DEF ChunkPassed, TypeOK
  <2>6. Passed'
    BY <1>1, <1>2, <2>1, <2>4 DEF Passed
  <2> QED BY <1>2, <2>1, <2>5, <2>6 DEF FirstMatchFound
<1>7. CASE Remaining > ChunkLen
  <2>1. stage' = stage /\ offset' = offset + ChunkLen - (PatternLen - 1)
    BY <1>3, <1>7 DEF ChunkPassed, Advance
  <2>2. ChunkLen >= PatternLen
    BY <1>1, <1>3, <1>7, ChunkOfSegment, ScanAssumption DEF ScanAssumption
  <2>3. offset \in Nat /\ offset' \in Nat
    BY <1>3, <2>1, <2>2 DEF TypeOK
  <2>4. TypeOK'
    BY <2>1, <2>3 DEF ChunkPassed, TypeOK
  <2>5. Start' = Start + ChunkLen - (PatternLen - 1)
    BY <1>2, <1>3, <2>1, <2>3 DEF Start
  <2>6. Start' \in Nat /\ Start' < segment.end
    BY <1>1, <1>3, <1>7, <2>2, <2>5, ChunkOfSegment
  <2>7. \A b \in InSegment(segment) : Start' <= b
    BY <1>3, <1>4, <2>5
  <2>8. InSegment(segment)' = InSegment(segment)
    BY <1>2, <1>5 DEF InSegment
  <2>9. Passed'
    BY <1>1, <1>2, <2>1, <2>6, <2>7, <2>8 DEF Passed
  <2> QED BY <1>1, <1>2, <2>1, <2>4, <2>9 DEF FirstMatchFound
<1> QED BY <1>3, <1>6, <1>7

LEMMA OthersKeepScanInv == ScanInv /\ (ReadFails \/ UNCHANGED scanVars) => ScanInv'
<1> SUFFICES ASSUME ScanInv, ReadFails \/ UNCHANGED scanVars PROVE ScanInv'
  OBVIOUS
<1>1. CASE ReadFails
  BY <1>1 DEF ScanInv, ReadFails, TypeOK, Passed, FirstMatchFound
<1>2. CASE UNCHANGED scanVars
  BY <1>2 DEF scanVars, ScanInv, TypeOK, Passed, FirstMatchFound, AllMatches, InSegment, Matches,
              MatchesAt, PatternLen, Start, Least
<1> QED BY <1>1, <1>2

LEMMA ScanInductive == ScanSpec => []ScanInv
<1>1. ScanInv /\ [ScanNext]_scanVars => ScanInv'
  BY NextSegmentKeepsScanInv, ChunkFoundKeepsScanInv, ChunkPassedKeepsScanInv, OthersKeepScanInv
     DEF ScanNext, Scan
<1> QED BY ScanInitInv, <1>1, PTL DEF ScanSpec

\* However the module lies in memory and wherever the chunks end: what the scan
\* finds is the module's first match, and it gives up only when there is none.
THEOREM ScanCorrect == ScanSpec => []FirstMatchFound
<1>1. ScanInv => FirstMatchFound
  BY DEF ScanInv
<1> QED BY ScanInductive, <1>1, PTL

-----------------------------------------------------------------------------
(* The walk.                                                               *)

\* What the walk has still before it in the client's scope.
Behind == UNION {ToSet(lists[l]) : l \in list + 1 .. NumBuckets + 1}

Ahead == CASE pc = "head"  -> ToSet(lists[list]) \cup Behind
           [] pc = "class" -> From(list, element) \cup Behind
           [] pc = "next"  -> (From(list, element) \ {element}) \cup Behind
           [] OTHER        -> {}

\* Found with all its fields, or a failed read stands for it.
Accounted(c) == c \in missed \/ (c \in DOMAIN classes /\ classes[c] = FieldsOf(c))

Distinct(s) == \A j, k \in DOMAIN s : s[j] = s[k] => j = k

\* The lists hold no class twice.
ListsOK == /\ lists \in [Lists -> Seq(Classes)]
           /\ \A l \in Lists : Distinct(lists[l])

\* In a list the walk is at an element that is on it.
PlaceOK == /\ list \in Lists
           /\ pc \in {"class", "next"} => element \in ToSet(lists[list])

\* Of the classes that were registered when the walk of the scope began, those not
\* accounted for are ahead.
WalkInv == /\ ListsOK
           /\ PlaceOK
           /\ \A c \in known : Accounted(c) \/ c \in Ahead

LEMMA ListGrows ==
  ASSUME NEW s \in Seq(Classes), Distinct(s), NEW c \in Classes, c \notin ToSet(s),
         NEW new \in {<<c>> \o s, Append(s, c)}
  PROVE  /\ new \in Seq(Classes) /\ Distinct(new)
         /\ \E d \in {0, 1} : \A k \in DOMAIN s : k + d \in DOMAIN new /\ new[k + d] = s[k]
<1>1. \A k \in 1 .. Len(s) : s[k] # c
  BY DEF ToSet
<1>2. CASE new = Append(s, c)
  <2>1. new \in Seq(Classes) /\ Len(new) = Len(s) + 1 /\ new[Len(s) + 1] = c
        /\ \A k \in 1 .. Len(s) : new[k] = s[k]
    BY <1>2
  <2>2. Distinct(new)
    BY <1>1, <2>1 DEF Distinct
  <2>3. \A k \in DOMAIN s : k + 0 \in DOMAIN new /\ new[k + 0] = s[k]
    BY <2>1
  <2> QED BY <2>1, <2>2, <2>3
<1>3. CASE new = <<c>> \o s
  <2>1. new \in Seq(Classes) /\ Len(new) = Len(s) + 1 /\ new[1] = c
        /\ \A k \in 1 .. Len(s) : new[k + 1] = s[k]
    BY <1>3
  <2>2. \A k \in 2 .. Len(s) + 1 : k - 1 \in 1 .. Len(s) /\ new[k] = s[k - 1]
    <3>1. TAKE k \in 2 .. Len(s) + 1
    <3>2. k - 1 \in 1 .. Len(s) /\ (k - 1) + 1 = k
      OBVIOUS
    <3> QED BY <2>1, <3>2
  <2>3. Distinct(new)
    <3>1. SUFFICES ASSUME NEW j \in 1 .. Len(s) + 1, NEW k \in 1 .. Len(s) + 1, new[j] = new[k]
                   PROVE  j = k
      BY <2>1 DEF Distinct
    <3>2. CASE j = 1 /\ k # 1
      BY <1>1, <2>1, <2>2, <3>1, <3>2
    <3>3. CASE j # 1 /\ k = 1
      BY <1>1, <2>1, <2>2, <3>1, <3>3
    <3>4. CASE j # 1 /\ k # 1
      <4>1. j - 1 = k - 1
        BY <2>2, <3>1, <3>4 DEF Distinct
      <4> QED BY <4>1
    <3> QED BY <3>2, <3>3, <3>4
  <2>4. \A k \in DOMAIN s : k + 1 \in DOMAIN new /\ new[k + 1] = s[k]
    BY <2>1
  <2> QED BY <2>1, <2>3, <2>4
<1> QED BY <1>2, <1>3

LEMMA InitWalkInv == Init => WalkInv
<1> SUFFICES ASSUME Init PROVE WalkInv
  OBVIOUS
<1>1. ListsOK
  BY DEF Init, ListsOK, Distinct
<1> QED BY <1>1, WalkAssumption DEF Init, WalkInv, PlaceOK, Lists, WalkAssumption

\* The end of a list leaves what is on those behind it.
LEMMA NextListAhead ==
  ASSUME WalkInv, NextList, lists' = lists
  PROVE  Behind \subseteq Ahead' /\ pc' \in {"head", "scope"} /\ list' \in Lists
<1>1. NumBuckets \in Nat /\ list \in 1 .. NumBuckets + 1
  BY WalkAssumption DEF Lists, WalkAssumption, WalkInv, PlaceOK
<1>2. CASE list < NumBuckets + 1
  <2>1. pc' = "head" /\ list' = list + 1 /\ list' \in Lists
    BY <1>1, <1>2 DEF NextList, Lists
  <2>2. Behind = ToSet(lists[list + 1]) \cup UNION {ToSet(lists[l]) : l \in list + 2 .. NumBuckets + 1}
    <3>1. list + 1 .. NumBuckets + 1 = {list + 1} \cup (list + 2 .. NumBuckets + 1)
      BY <1>1, <1>2
    <3> QED BY <3>1 DEF Behind
  <2>3. Behind' = UNION {ToSet(lists[l]) : l \in list + 2 .. NumBuckets + 1}
    <3>1. (list + 1) + 1 = list + 2
      BY <1>1
    <3> QED BY <2>1, <3>1 DEF Behind
  <2>4. Ahead' = ToSet(lists[list + 1]) \cup Behind'
    BY <2>1 DEF Ahead
  <2> QED BY <2>1, <2>2, <2>3, <2>4
<1>3. CASE ~(list < NumBuckets + 1)
  <2>1. pc' = "scope" /\ list' \in Lists
    BY <1>1, <1>3 DEF NextList, NextScope, Lists
  <2>2. list + 1 .. NumBuckets + 1 = {}
    BY <1>1, <1>3
  <2> QED BY <2>1, <2>2 DEF Behind
<1> QED BY <1>2, <1>3

LEMMA RegisterClassKeepsWalkInv == WalkInv /\ RegisterClass => WalkInv'
<1> SUFFICES ASSUME WalkInv, RegisterClass PROVE WalkInv'
  OBVIOUS
<1>1. PICK c \in Classes \ Registered, l \in Lists :
        \E new \in {<<c>> \o lists[l], Append(lists[l], c)} : lists' = [lists EXCEPT ![l] = new]
  BY DEF RegisterClass
<1>2. PICK new \in {<<c>> \o lists[l], Append(lists[l], c)} : lists' = [lists EXCEPT ![l] = new]
  BY <1>1
<1>3. lists \in [Lists -> Seq(Classes)] /\ Distinct(lists[l]) /\ c \notin ToSet(lists[l])
  BY <1>1 DEF WalkInv, ListsOK, Registered
<1>4. /\ new \in Seq(Classes) /\ Distinct(new)
      /\ \E d \in {0, 1} : \A k \in DOMAIN lists[l] :
            k + d \in DOMAIN new /\ new[k + d] = lists[l][k]
  BY <1>2, <1>3, ListGrows
<1>5. ListsOK'
  BY <1>2, <1>3, <1>4 DEF WalkInv, ListsOK
<1>6. PICK d \in {0, 1} : \A k \in DOMAIN lists[l] : k + d \in DOMAIN new /\ new[k + d] = lists[l][k]
  BY <1>4
<1>7. UNCHANGED <<pc, pawnIn, count, idx, list, element, library, classes, known, missed>>
  BY DEF RegisterClass, walk
<1>8. ASSUME NEW m \in Lists
      PROVE  ToSet(lists[m]) \subseteq ToSet(lists'[m])
  <2>1. CASE m = l
    BY <1>2, <1>3, <1>6, <2>1 DEF ToSet
  <2>2. CASE m # l
    BY <1>2, <1>3, <2>2
  <2> QED BY <2>1, <2>2
<1>9. Behind \subseteq Behind'
  <2>1. \A m \in list + 1 .. NumBuckets + 1 : m \in Lists
    BY WalkAssumption DEF Lists, WalkAssumption, WalkInv, PlaceOK
  <2> QED BY <1>7, <1>8, <2>1 DEF Behind
<1>10. list \in Lists /\ ToSet(lists[list]) \subseteq ToSet(lists'[list])
  BY <1>8 DEF WalkInv, PlaceOK
<1>11. From(list, element) \subseteq From(list, element)'
  <2>1. CASE list = l
    <3>1. SUFFICES ASSUME NEW k \in DOMAIN lists[l], NEW j \in 1 .. k, lists[l][j] = element
                   PROVE  lists[l][k] \in From(list, element)'
      BY <2>1 DEF From
    <3>2. lists'[l] = new
      BY <1>2, <1>3
    <3>3. k \in Nat /\ j \in DOMAIN lists[l]
      BY <1>3
    <3>4. k + d \in DOMAIN new /\ new[k + d] = lists[l][k] /\ new[j + d] = element
          /\ j + d \in 1 .. k + d
      BY <1>6, <3>1, <3>3
    <3> QED BY <1>7, <2>1, <3>2, <3>4 DEF From
  <2>2. CASE list # l
    <3>1. lists'[list] = lists[list]
      BY <1>2, <1>3, <1>10, <2>2
    <3> QED BY <1>7, <3>1 DEF From
  <2> QED BY <2>1, <2>2
<1>12. Ahead \subseteq Ahead'
  BY <1>7, <1>9, <1>10, <1>11 DEF Ahead
<1>13. \A e : Accounted(e) => Accounted(e)'
  BY <1>7 DEF Accounted, FieldsOf
<1>14. PlaceOK'
  BY <1>7, <1>10 DEF WalkInv, PlaceOK
<1> QED BY <1>5, <1>7, <1>12, <1>13, <1>14 DEF WalkInv

\* Between lists nothing is ahead in the client's scope but the next list.
LEMMA ScopesKeepWalkInv ==
  WalkInv /\ (RegisterScope \/ Begin \/ ReadScope \/ ScopesDone \/ AttemptFails \/ LookUp
                \/ UNCHANGED vars) => WalkInv'
<1> SUFFICES ASSUME WalkInv,
                    RegisterScope \/ Begin \/ ReadScope \/ ScopesDone \/ AttemptFails \/ LookUp
                      \/ UNCHANGED vars
             PROVE  WalkInv'
  OBVIOUS
<1>1. 1 \in Lists /\ Lists = 1 .. NumBuckets + 1 /\ NumBuckets \in Nat
  BY WalkAssumption DEF Lists, WalkAssumption
<1>2. CASE RegisterScope
  BY <1>2 DEF RegisterScope, walk, WalkInv, ListsOK, PlaceOK, Ahead, Behind, Accounted, From, FieldsOf
<1>3. CASE Begin
  BY <1>3 DEF Begin, game, WalkInv, ListsOK, PlaceOK, Ahead, Behind, Accounted, From, FieldsOf
<1>4. CASE ReadScope
  <2>1. lists' = lists /\ pawnIn' = pawnIn /\ UNCHANGED <<element, classes, missed>>
    BY <1>4 DEF ReadScope, game
  <2>2. ListsOK'
    BY <2>1 DEF WalkInv, ListsOK
  <2>3. CASE pc' = "scope" /\ UNCHANGED <<list, known>>
    BY <1>4, <2>1, <2>2, <2>3 DEF ReadScope, WalkInv, PlaceOK, Ahead, Accounted, FieldsOf
  <2>4. CASE pc' = "head" /\ list' = 1 /\ known' = Registered
    <3>1. ASSUME NEW c \in Registered PROVE c \in Ahead'
      <4>1. PICK l \in Lists : c \in ToSet(lists[l])
        BY <3>1 DEF Registered
      <4>2. l = 1 \/ l \in 1 + 1 .. NumBuckets + 1
        BY <1>1
      <4> QED BY <2>1, <2>4, <4>1, <4>2 DEF Ahead, Behind
    <3> QED BY <1>1, <2>2, <2>4, <3>1 DEF WalkInv, PlaceOK
  <2> QED BY <1>4, <2>3, <2>4 DEF ReadScope, NextScope
<1>5. CASE ScopesDone
  BY <1>5 DEF ScopesDone, game, walk, WalkInv, ListsOK, PlaceOK, Ahead, Behind, Accounted, From, FieldsOf
<1>6. CASE AttemptFails
  BY <1>6 DEF AttemptFails, game, walk, WalkInv, ListsOK, PlaceOK, Ahead, Behind, Accounted, From, FieldsOf
<1>7. CASE LookUp
  BY <1>1, <1>7 DEF LookUp, Return, game, WalkInv, ListsOK, PlaceOK
<1>8. CASE UNCHANGED vars
  BY <1>8 DEF vars, WalkInv, ListsOK, PlaceOK, Ahead, Behind, Accounted, From, FieldsOf
<1> QED BY <1>2, <1>3, <1>4, <1>5, <1>6, <1>7, <1>8

LEMMA ReadHeadKeepsWalkInv == WalkInv /\ ReadHead => WalkInv'
<1> SUFFICES ASSUME WalkInv, ReadHead PROVE WalkInv'
  OBVIOUS
<1>1. pc = "head" /\ UNCHANGED <<lists, pawnIn, classes, known>>
  BY DEF ReadHead, game
<1>2. ListsOK'
  BY <1>1 DEF WalkInv, ListsOK
<1>3. Ahead = ToSet(lists[list]) \cup Behind
  BY <1>1 DEF Ahead
<1>4. CASE lists[list] # <<>> /\ element' = Head(lists[list]) /\ pc' = "class"
           /\ UNCHANGED <<idx, list, faults, missed>>
  <2>1. list \in Lists /\ lists[list] \in Seq(Classes)
    BY DEF WalkInv, ListsOK, PlaceOK
  <2>2. 1 \in DOMAIN lists[list] /\ element' = lists[list][1]
    BY <1>4, <2>1
  <2>3. element' \in ToSet(lists[list])
    BY <2>2 DEF ToSet
  <2>4. ToSet(lists[list]) \subseteq From(list, element)'
    <3>1. SUFFICES ASSUME NEW k \in DOMAIN lists[list] PROVE lists[list][k] \in From(list, element)'
      BY DEF ToSet
    <3>2. 1 \in 1 .. k
      BY <2>1
    <3> QED BY <1>1, <1>4, <2>2, <3>2 DEF From
  <2>5. Ahead \subseteq Ahead'
    BY <1>1, <1>3, <1>4, <2>4 DEF Ahead, Behind
  <2> QED BY <1>1, <1>2, <1>4, <2>1, <2>3, <2>5 DEF WalkInv, PlaceOK, Accounted, FieldsOf
<1>5. CASE NextList /\ missed \cup ToSet(lists[list]) \subseteq missed'
  <2>1. Behind \subseteq Ahead' /\ pc' \in {"head", "scope"} /\ list' \in Lists
    BY <1>1, <1>5, NextListAhead
  <2> QED BY <1>1, <1>2, <1>3, <1>5, <2>1 DEF WalkInv, PlaceOK, Accounted, FieldsOf
<1>6. CASE NextList /\ lists[list] = <<>> /\ missed' = missed
  <2>1. Behind \subseteq Ahead' /\ pc' \in {"head", "scope"} /\ list' \in Lists
    BY <1>1, <1>6, NextListAhead
  <2>2. ToSet(lists[list]) = {}
    BY <1>6 DEF ToSet
  <2> QED BY <1>1, <1>2, <1>3, <1>6, <2>1, <2>2 DEF WalkInv, PlaceOK, Accounted, FieldsOf
<1> QED BY <1>4, <1>5, <1>6 DEF ReadHead

LEMMA ReadClassKeepsWalkInv == WalkInv /\ ReadClass => WalkInv'
<1> SUFFICES ASSUME WalkInv, ReadClass PROVE WalkInv'
  OBVIOUS
<1>1. /\ pc = "class" /\ pc' = "next"
      /\ UNCHANGED <<lists, pawnIn, list, element, known>>
  BY DEF ReadClass, game
<1>2. ListsOK' /\ PlaceOK'
  BY <1>1 DEF WalkInv, ListsOK, PlaceOK
<1>3. Ahead \ {element} \subseteq Ahead'
  BY <1>1 DEF Ahead, From, Behind
<1>4. \A fs, c :
        /\ c \in DOMAIN WithClass(fs) <=> (c = element \/ c \in DOMAIN classes)
        /\ c # element /\ c \in DOMAIN classes => WithClass(fs)[c] = classes[c]
        /\ WithClass(fs)[element] = fs
  BY DEF WithClass
<1>5. Accounted(element)'
  BY <1>1, <1>4 DEF ReadClass, Accounted, FieldsOf
<1>6. ASSUME NEW c, c # element, Accounted(c) PROVE Accounted(c)'
  <2>1. FieldsOf(c)' = FieldsOf(c) /\ missed \subseteq missed'
    BY <1>1 DEF ReadClass, FieldsOf
  <2>2. classes' = classes \/ \E fs : classes' = WithClass(fs)
    BY DEF ReadClass
  <2>3. c \in DOMAIN classes => c \in DOMAIN classes' /\ classes'[c] = classes[c]
    BY <1>4, <1>6, <2>2
  <2> QED BY <1>6, <2>1, <2>3 DEF Accounted
<1> QED BY <1>1, <1>2, <1>3, <1>5, <1>6 DEF WalkInv

LEMMA LinkFailsKeepsWalkInv == WalkInv /\ LinkFails => WalkInv'
<1> SUFFICES ASSUME WalkInv, LinkFails PROVE WalkInv'
  OBVIOUS
<1>1. /\ pc \in {"class", "next"} /\ NextList
      /\ UNCHANGED <<lists, pawnIn, classes, known>>
      /\ missed' = missed \cup (From(list, element) \ (IF pc = "next" THEN {element} ELSE {}))
  BY DEF LinkFails, game
<1>2. Behind \subseteq Ahead' /\ pc' \in {"head", "scope"} /\ list' \in Lists
  BY <1>1, NextListAhead
<1>3. ListsOK' /\ PlaceOK'
  BY <1>1, <1>2 DEF WalkInv, ListsOK, PlaceOK
<1>4. Ahead \subseteq missed' \cup Behind
  BY <1>1 DEF Ahead
<1> QED BY <1>1, <1>2, <1>3, <1>4 DEF WalkInv, Accounted, FieldsOf

LEMMA ReadNextKeepsWalkInv == WalkInv /\ ReadNext => WalkInv'
<1> SUFFICES ASSUME WalkInv, ReadNext PROVE WalkInv'
  OBVIOUS
<1> DEFINE s == lists[list]
           k == CHOOSE k \in DOMAIN s : s[k] = element
<1>1. pc = "next" /\ UNCHANGED <<lists, pawnIn, classes, known, missed>>
  BY DEF ReadNext, game
<1>2. list \in Lists /\ s \in Seq(Classes) /\ Distinct(s) /\ element \in ToSet(s)
  BY <1>1 DEF WalkInv, ListsOK, PlaceOK
<1>3. k \in DOMAIN s /\ s[k] = element /\ k \in 1 .. Len(s) /\ Len(s) \in Nat
  BY <1>2 DEF ToSet
<1> HIDE DEF k
<1>4. \A c \in From(list, element) \ {element} : \E m \in k + 1 .. Len(s) : c = s[m]
  <2>1. SUFFICES ASSUME NEW m \in DOMAIN s, NEW j \in 1 .. m, s[j] = element, s[m] # element
                 PROVE  m \in k + 1 .. Len(s)
    BY DEF From
  <2>2. m \in 1 .. Len(s) /\ j \in DOMAIN s
    BY <1>2
  <2>3. j = k
    BY <1>2, <1>3, <2>1, <2>2 DEF Distinct
  <2>4. m # k /\ k <= m
    BY <1>3, <2>1, <2>2, <2>3
  <2> QED BY <1>3, <2>2, <2>4
<1>5. Ahead = (From(list, element) \ {element}) \cup Behind
  BY <1>1 DEF Ahead
<1>6. ListsOK'
  BY <1>1 DEF WalkInv, ListsOK
<1>7. CASE k < Len(s) /\ element' = s[k + 1] /\ pc' = "class" /\ UNCHANGED <<idx, list>>
  <2>1. k + 1 \in DOMAIN s
    BY <1>2, <1>3, <1>7
  <2>2. element' \in ToSet(s)
    BY <1>7, <2>1 DEF ToSet
  <2>3. From(list, element) \ {element} \subseteq From(list, element)'
    <3>1. SUFFICES ASSUME NEW m \in k + 1 .. Len(s) PROVE s[m] \in From(list, element)'
      BY <1>4
    <3>2. m \in DOMAIN s /\ k + 1 \in 1 .. m
      BY <1>2, <1>3
    <3> QED BY <1>1, <1>7, <3>2 DEF From
  <2>4. Ahead \subseteq Ahead'
    BY <1>1, <1>5, <1>7, <2>3 DEF Ahead, Behind
  <2> QED BY <1>1, <1>2, <1>6, <1>7, <2>2, <2>4 DEF WalkInv, PlaceOK, Accounted, FieldsOf
<1>8. CASE k = Len(s) /\ NextList
  <2>1. Behind \subseteq Ahead' /\ pc' \in {"head", "scope"} /\ list' \in Lists
    BY <1>1, <1>8, NextListAhead
  <2>2. From(list, element) \ {element} = {}
    BY <1>3, <1>4, <1>8
  <2> QED BY <1>1, <1>5, <1>6, <2>1, <2>2 DEF WalkInv, PlaceOK, Accounted, FieldsOf
<1> QED BY <1>7, <1>8 DEF ReadNext, k

LEMMA WalkInductive == Spec => []WalkInv
<1>1. WalkInv /\ [Next]_vars => WalkInv'
  BY RegisterClassKeepsWalkInv, ScopesKeepWalkInv, ReadHeadKeepsWalkInv, ReadClassKeepsWalkInv,
     LinkFailsKeepsWalkInv, ReadNextKeepsWalkInv DEF Next, Walk
<1> QED BY InitWalkInv, <1>1, PTL DEF Spec

\* However many lists there are and wherever the game puts a class while they are
\* walked: what was registered when the walk of the scope began is found whole, or a
\* read failed for which it stands.
THEOREM WalkComplete == Spec => []RegisteredIsFound
<1>1. WalkInv => RegisteredIsFound
  BY DEF WalkInv, Ahead, Accounted, RegisteredIsFound
<1> QED BY WalkInductive, <1>1, PTL

-----------------------------------------------------------------------------
(* The search for a qword.                                                 *)

QwordTypeOK ==
  /\ image \in [ImageAddresses -> Contents]
  /\ wasThere \in [ImageAddresses -> SUBSET Contents]
  /\ \A a \in ImageAddresses : image[a] \in wasThere[a]
  /\ needle \in [1 .. NeedleSize -> Contents]
  /\ mappings \in MappingLists /\ limit \in Limits
  /\ nth \in 0 .. Len(mappings)
  /\ doing \in {"mapping", "chunk", "window", "returned"}
  /\ cursor \in Nat /\ index \in Nat
  /\ carry \in Seq(Contents) /\ window \in Seq(Contents)
  /\ hits \in Seq(Nat) /\ Len(hits) <= limit
  /\ unread \subseteq Nat

First == cursor - Len(carry)

\* s is what was read from one address on, all of it readable.
ReadAt(s, a) == \A k \in 1 .. Len(s) : /\ s[k] \in wasThere[a + k - 1]
                                       /\ a + k - 1 \notin unread

\* As much is carried over as can be needed, or as there is to read.
CarryOK ==
  LET m == mappings[nth]
  IN  /\ nth >= 1 /\ ~Skipped(m)
      /\ cursor <= m.end
      /\ m.base <= First /\ Len(carry) <= NeedleSize - 1
      /\ ReadAt(carry, First)
      /\ Len(carry) = NeedleSize - 1 \/ First = m.base \/ First - 1 \in unread

WindowOK == /\ cursor < mappings[nth].end
            /\ Len(window) = ChunkEnd - First
            /\ ReadAt(window, First)
            /\ index = 0 \/ index + NeedleSize <= Len(window) + 1

AtWork == doing \in {"chunk", "window"}

PlaceInv == /\ AtWork => CarryOK
            /\ doing = "window" => WindowOK

\* A place in the kth mapping that is still to be compared.
Yet(k, a) == /\ doing # "returned"
             /\ \/ k > nth
                \/ /\ k = nth
                   /\ \/ doing = "chunk" /\ a + NeedleSize > cursor
                      \/ doing = "window" /\ a >= First + index

FitsIn(k, a) == k \in DOMAIN mappings /\ Fits(mappings[k], a)

\* No chunk is tried twice.
UnreadInv == \A u \in unread, k \in DOMAIN mappings :
               ~Skipped(mappings[k]) /\ mappings[k].base <= u /\ u < mappings[k].end =>
                 k <= nth /\ (k = nth /\ AtWork => u < cursor)

HitsInv == /\ \A i \in DOMAIN hits : /\ MayBeAt(hits[i])
                                     /\ \E j \in DOMAIN mappings : FitsIn(j, hits[i])
           /\ \A i \in DOMAIN hits, j \in DOMAIN mappings : FitsIn(j, hits[i]) => ~Yet(j, hits[i])
           /\ \A i, l \in DOMAIN hits, j, k \in DOMAIN mappings :
                i < l /\ FitsIn(j, hits[i]) /\ FitsIn(k, hits[l]) => Earlier(j, hits[i], k, hits[l])

\* As many as asked for were found before a place.
EnoughBefore(k, a) == /\ Len(hits) = limit
                      /\ \A i \in DOMAIN hits, j \in DOMAIN mappings :
                           FitsIn(j, hits[i]) => Earlier(j, hits[i], k, a)

Covered == \A k \in DOMAIN mappings, a \in ImageAddresses :
             FitsIn(k, a) /\ StaysAt(a) =>
               \/ \E i \in DOMAIN hits : hits[i] = a
               \/ Yet(k, a)
               \/ EnoughBefore(k, a)

QwordInv == QwordTypeOK /\ PlaceInv /\ UnreadInv /\ HitsInv /\ Covered

LEMMA MapFacts ==
  ASSUME QwordTypeOK
  PROVE  /\ NeedleSize \in Nat /\ NeedleSize >= 1 /\ ChunkSize \in Nat /\ ChunkSize >= 1
         /\ ImageSize \in Nat /\ limit \in Nat
         /\ nth \in Nat /\ cursor \in Nat /\ index \in Nat
         /\ Len(mappings) \in Nat /\ DOMAIN mappings = 1 .. Len(mappings)
         /\ \A k \in DOMAIN mappings : mappings[k].base \in Nat /\ mappings[k].end \in Nat
         /\ \A k \in DOMAIN mappings : ~Skipped(mappings[k]) =>
              mappings[k].base < mappings[k].end /\ mappings[k].end <= ImageSize
         /\ \A j, k \in DOMAIN mappings :
              \/ j = k \/ Skipped(mappings[j]) \/ Skipped(mappings[k])
              \/ mappings[j].end <= mappings[k].base \/ mappings[k].end <= mappings[j].base
<1>1. /\ NeedleSize \in Nat /\ NeedleSize >= 1 /\ ChunkSize \in Nat /\ ChunkSize >= 1
      /\ ImageSize \in Nat /\ limit \in Nat
  BY QwordAssumption DEF QwordAssumption, QwordTypeOK
<1>2. nth \in Nat /\ cursor \in Nat /\ index \in Nat
  BY DEF QwordTypeOK
<1>3. mappings \in Seq(Mapping)
  BY QwordAssumption DEF QwordAssumption, QwordTypeOK
<1>4. Len(mappings) \in Nat /\ DOMAIN mappings = 1 .. Len(mappings)
  BY <1>3
<1>5. \A k \in DOMAIN mappings : mappings[k].base \in Nat /\ mappings[k].end \in Nat
  <2>1. \A k \in DOMAIN mappings : mappings[k] \in Mapping
    BY <1>3, <1>4
  <2> QED BY <2>1 DEF Mapping
<1>6. \A k \in DOMAIN mappings : ~Skipped(mappings[k]) =>
        mappings[k].base < mappings[k].end /\ mappings[k].end <= ImageSize
  BY <1>5, QwordAssumption DEF QwordAssumption, QwordTypeOK, Skipped
<1>7. \A j, k \in DOMAIN mappings :
        \/ j = k \/ Skipped(mappings[j]) \/ Skipped(mappings[k])
        \/ mappings[j].end <= mappings[k].base \/ mappings[k].end <= mappings[j].base
  BY QwordAssumption DEF QwordAssumption, QwordTypeOK
<1> QED BY <1>1, <1>2, <1>4, <1>5, <1>6, <1>7

\* A place lies in one mapping, and all its bytes are addresses.
LEMMA PlaceFacts ==
  ASSUME QwordTypeOK, NEW k, NEW a \in Nat, FitsIn(k, a)
  PROVE  /\ k \in DOMAIN mappings /\ ~Skipped(mappings[k])
         /\ mappings[k].base <= a /\ a + NeedleSize <= mappings[k].end
         /\ a \in ImageAddresses
         /\ \A n \in 1 .. NeedleSize : a + n - 1 \in ImageAddresses /\ a + n - 1 \notin unread
         /\ \A j : FitsIn(j, a) => j = k
<1>1. /\ k \in DOMAIN mappings /\ ~Skipped(mappings[k])
      /\ mappings[k].base <= a /\ a + NeedleSize <= mappings[k].end
      /\ \A n \in 1 .. NeedleSize : a + n - 1 \notin unread
  BY DEF FitsIn, Fits
<1>2. /\ mappings[k].end \in Nat /\ mappings[k].base \in Nat /\ mappings[k].end <= ImageSize
      /\ NeedleSize \in Nat /\ NeedleSize >= 1 /\ ImageSize \in Nat
  BY <1>1, MapFacts
<1>3. \A n \in 1 .. NeedleSize : a + n - 1 \in ImageAddresses
  BY <1>1, <1>2 DEF ImageAddresses
<1>4. a \in ImageAddresses
  BY <1>1, <1>2 DEF ImageAddresses
<1>5. ASSUME NEW j, FitsIn(j, a) PROVE j = k
  <2>1. /\ j \in DOMAIN mappings /\ ~Skipped(mappings[j])
        /\ mappings[j].base <= a /\ a + NeedleSize <= mappings[j].end
    BY <1>5 DEF FitsIn, Fits
  <2>2. mappings[j].end \in Nat /\ mappings[j].base \in Nat
    BY <2>1, MapFacts
  <2>3. ~(mappings[j].end <= mappings[k].base) /\ ~(mappings[k].end <= mappings[j].base)
    BY <1>1, <1>2, <2>1, <2>2
  <2> QED BY <1>1, <2>1, <2>3, MapFacts
<1> QED BY <1>1, <1>3, <1>4, <1>5

LEMMA WorkFacts ==
  ASSUME QwordInv, AtWork
  PROVE  /\ nth \in DOMAIN mappings /\ ~Skipped(mappings[nth])
         /\ First \in Nat /\ Len(carry) \in Nat /\ First + Len(carry) = cursor
         /\ mappings[nth].base <= First /\ cursor <= mappings[nth].end
         /\ cursor < mappings[nth].end =>
              ChunkEnd \in Nat /\ cursor < ChunkEnd /\ ChunkEnd <= mappings[nth].end
<1>1. QwordTypeOK /\ CarryOK
  BY DEF QwordInv, PlaceInv
<1>2. nth \in DOMAIN mappings /\ ~Skipped(mappings[nth])
  BY <1>1, MapFacts DEF CarryOK, QwordTypeOK
<1>3. /\ mappings[nth].base \in Nat /\ mappings[nth].end \in Nat
      /\ ChunkSize \in Nat /\ ChunkSize >= 1
  BY <1>1, <1>2, MapFacts
<1>4. Len(carry) \in Nat /\ cursor \in Nat
  BY <1>1 DEF QwordTypeOK
<1>5. mappings[nth].base <= First /\ cursor <= mappings[nth].end
  BY <1>1 DEF CarryOK
<1>6. First \in Nat /\ First + Len(carry) = cursor
  BY <1>3, <1>4, <1>5 DEF First
<1>7. cursor < mappings[nth].end =>
        ChunkEnd \in Nat /\ cursor < ChunkEnd /\ ChunkEnd <= mappings[nth].end
  BY <1>3, <1>4 DEF ChunkEnd
<1> QED BY <1>2, <1>4, <1>5, <1>6, <1>7

\* What has been compared comes before what has not.
LEMMA BehindIsEarlier ==
  ASSUME QwordInv, doing # "returned", NEW j, NEW h \in Nat, FitsIn(j, h), ~Yet(j, h),
         NEW k, NEW a \in Nat, FitsIn(k, a), Yet(k, a)
  PROVE  Earlier(j, h, k, a)
<1>1. QwordTypeOK /\ j \in Nat /\ k \in Nat /\ nth \in Nat
  <2>1. QwordTypeOK
    BY DEF QwordInv
  <2> QED BY <2>1, MapFacts DEF FitsIn
<1>2. j <= nth /\ k >= nth
  BY <1>1 DEF Yet
<1>3. CASE j = nth /\ k = nth
  <2>1. cursor \in Nat /\ index \in Nat /\ NeedleSize \in Nat
    BY <1>1, MapFacts DEF QwordTypeOK
  <2>2. CASE doing = "chunk"
    BY <1>3, <2>1, <2>2 DEF Yet, Earlier
  <2>3. CASE doing = "window"
    <3>1. First \in Nat
      BY <2>3, WorkFacts DEF AtWork
    <3> QED BY <1>3, <2>1, <2>3, <3>1 DEF Yet, Earlier
  <2> QED BY <1>1, <1>3, <2>2, <2>3 DEF Yet
<1> QED BY <1>1, <1>2, <1>3 DEF Earlier

LEMMA EnoughWhenFull ==
  ASSUME QwordInv, doing # "returned", Len(hits) = limit,
         NEW k, NEW a \in Nat, FitsIn(k, a), Yet(k, a)
  PROVE  EnoughBefore(k, a)
<1>1. SUFFICES ASSUME NEW i \in DOMAIN hits, NEW j \in DOMAIN mappings, FitsIn(j, hits[i])
               PROVE  Earlier(j, hits[i], k, a)
  BY DEF EnoughBefore
<1>2. hits[i] \in Nat /\ ~Yet(j, hits[i])
  BY <1>1 DEF QwordInv, HitsInv, QwordTypeOK
<1> QED BY <1>1, <1>2, BehindIsEarlier

\* No place that reaches beyond the cursor begins before what is carried over.
LEMMA CarryReaches ==
  ASSUME QwordInv, AtWork, NEW a \in Nat, FitsIn(nth, a), a + NeedleSize > cursor
  PROVE  a >= First
<1>1. QwordTypeOK /\ CarryOK
  BY DEF QwordInv, PlaceInv
<1>2. /\ First \in Nat /\ Len(carry) \in Nat /\ First + Len(carry) = cursor
      /\ NeedleSize \in Nat /\ mappings[nth].base \in Nat
  BY <1>1, WorkFacts, MapFacts
<1>3. mappings[nth].base <= a /\ \A n \in 1 .. NeedleSize : a + n - 1 \notin unread
  BY <1>1, PlaceFacts
<1>4. SUFFICES ASSUME a < First PROVE FALSE
  BY <1>2
<1>5. First # mappings[nth].base /\ Len(carry) # NeedleSize - 1
  BY <1>2, <1>3, <1>4
<1>6. First - 1 \in unread
  BY <1>1, <1>5 DEF CarryOK
<1>7. First - a \in 1 .. NeedleSize /\ a + (First - a) - 1 = First - 1
  <2>1. First <= cursor
    BY <1>2
  <2>2. First - a >= 1 /\ First - a <= NeedleSize /\ First - a \in Int
    BY <1>1, <1>2, <1>4, <2>1 DEF QwordTypeOK
  <2> QED BY <1>2, <2>2
<1> QED BY <1>3, <1>6, <1>7

\* A step that finds nothing keeps what is known of the hits when it passes over
\* places only if enough was found before them.
LEMMA NothingFound ==
  ASSUME QwordInv, QwordTypeOK', UNCHANGED <<needle, mappings, limit, hits>>,
         \A k, a : FitsIn(k, a)' => FitsIn(k, a),
         \A i \in DOMAIN hits : \A j : FitsIn(j, hits[i]) => FitsIn(j, hits[i])',
         \A i \in DOMAIN hits : MayBeAt(hits[i]) => MayBeAt(hits[i])',
         \A k, a \in Nat : FitsIn(k, a)' /\ StaysAt(a)' => StaysAt(a),
         \A k, a \in Nat : FitsIn(k, a) /\ Yet(k, a)' => Yet(k, a),
         \A k, a \in Nat : FitsIn(k, a)' /\ Yet(k, a) => Yet(k, a)' \/ EnoughBefore(k, a)
  PROVE  HitsInv' /\ Covered'
<1>1. QwordTypeOK /\ HitsInv /\ Covered
  BY DEF QwordInv
<1>2. \A i \in DOMAIN hits : hits[i] \in Nat
  BY <1>1 DEF QwordTypeOK
<1>3. HitsInv'
  <2>1. \A i \in DOMAIN hits : MayBeAt(hits[i])' /\ \E j \in DOMAIN mappings : FitsIn(j, hits[i])'
    BY <1>1 DEF HitsInv
  <2>2. \A i \in DOMAIN hits, j \in DOMAIN mappings : FitsIn(j, hits[i])' => ~Yet(j, hits[i])'
    <3>1. SUFFICES ASSUME NEW i \in DOMAIN hits, NEW j \in DOMAIN mappings, FitsIn(j, hits[i])'
                   PROVE  ~Yet(j, hits[i])'
      OBVIOUS
    <3>2. FitsIn(j, hits[i]) /\ ~Yet(j, hits[i])
      BY <1>1, <3>1 DEF HitsInv
    <3>3. j \in Nat
      BY <1>1, MapFacts
    <3> QED BY <1>2, <3>2, <3>3
  <2>3. \A i, l \in DOMAIN hits, j, k \in DOMAIN mappings :
          i < l /\ FitsIn(j, hits[i])' /\ FitsIn(k, hits[l])' => Earlier(j, hits[i], k, hits[l])
    BY <1>1 DEF HitsInv
  <2> QED BY <2>1, <2>2, <2>3 DEF HitsInv, Earlier
<1>4. Covered'
  <2>1. SUFFICES ASSUME NEW k \in DOMAIN mappings, NEW a \in ImageAddresses,
                        FitsIn(k, a)', StaysAt(a)',
                        ~(\E i \in DOMAIN hits : hits[i] = a), ~Yet(k, a)'
                 PROVE  EnoughBefore(k, a)'
    BY DEF Covered, ImageAddresses
  <2>2. k \in Nat /\ a \in Nat
    BY <1>1, MapFacts DEF ImageAddresses
  <2>3. FitsIn(k, a) /\ StaysAt(a)
    BY <2>1, <2>2
  <2>4. Yet(k, a) \/ EnoughBefore(k, a)
    BY <1>1, <2>1, <2>3 DEF Covered
  <2>5. EnoughBefore(k, a)
    BY <2>1, <2>2, <2>4
  <2> QED BY <2>5 DEF EnoughBefore, Earlier
<1> QED BY <1>3, <1>4

LEMMA QwordInitInv == QwordInit => QwordInv
<1> SUFFICES ASSUME QwordInit PROVE QwordInv
  OBVIOUS
<1>1. mappings \in Seq(Mapping) /\ limit \in Nat
  BY QwordAssumption DEF QwordAssumption, QwordInit
<1>2. QwordTypeOK
  <2>1. 0 \in 0 .. Len(mappings) /\ <<>> \in Seq(Contents) /\ <<>> \in Seq(Nat) /\ Len(<<>>) = 0
    BY <1>1
  <2> QED BY <1>1, <2>1 DEF QwordInit, QwordTypeOK
<1>3. PlaceInv /\ UnreadInv /\ HitsInv
  BY DEF QwordInit, PlaceInv, AtWork, UnreadInv, HitsInv
<1>4. Covered
  BY <1>2, MapFacts DEF QwordInit, Covered, Yet
<1> QED BY <1>2, <1>3, <1>4 DEF QwordInv

\* The memory only gains values a byte has had.
LEMMA GameWritesKeepsQwordInv == QwordInv /\ GameWrites => QwordInv'
<1> SUFFICES ASSUME QwordInv, GameWrites PROVE QwordInv'
  OBVIOUS
<1>1. /\ doing # "returned"
      /\ UNCHANGED <<needle, mappings, limit, nth, doing, cursor, carry, window, index, hits, unread>>
  BY DEF GameWrites, arguments
<1>2. QwordTypeOK
  BY DEF QwordInv
<1>3. PICK b \in ImageAddresses, v \in Contents :
        /\ image' = [image EXCEPT ![b] = v]
        /\ wasThere' = [wasThere EXCEPT ![b] = @ \cup {v}]
  BY DEF GameWrites
<1>4. \A a \in ImageAddresses : /\ image'[a] = IF a = b THEN v ELSE image[a]
                                /\ wasThere'[a] = IF a = b THEN wasThere[a] \cup {v} ELSE wasThere[a]
  BY <1>2, <1>3 DEF QwordTypeOK
<1>5. /\ image' \in [ImageAddresses -> Contents] /\ wasThere' \in [ImageAddresses -> SUBSET Contents]
      /\ \A a \in ImageAddresses : image'[a] \in wasThere'[a]
  <2>1. image' \in [ImageAddresses -> Contents] /\ wasThere' \in [ImageAddresses -> SUBSET Contents]
    BY <1>2, <1>3 DEF QwordTypeOK
  <2>2. \A a \in ImageAddresses : image'[a] \in wasThere'[a]
    BY <1>2, <1>4 DEF QwordTypeOK
  <2> QED BY <2>1, <2>2
<1>6. QwordTypeOK'
  BY <1>1, <1>2, <1>5 DEF QwordTypeOK, ImageAddresses
<1>7. \A a \in ImageAddresses : wasThere[a] \subseteq wasThere'[a] /\ image[a] \in wasThere[a]
  BY <1>2, <1>4 DEF QwordTypeOK
<1>8. ASSUME AtWork PROVE CarryOK'
  <2>1. CarryOK
    BY <1>8 DEF QwordInv, PlaceInv
  <2>2. /\ mappings[nth].base \in Nat /\ First \in Nat /\ Len(carry) \in Nat /\ ImageSize \in Nat
        /\ First + Len(carry) <= ImageSize
    <3>1. /\ nth \in DOMAIN mappings /\ ~Skipped(mappings[nth]) /\ cursor <= mappings[nth].end
          /\ First \in Nat /\ Len(carry) \in Nat /\ First + Len(carry) = cursor
      BY <1>8, WorkFacts
    <3>2. /\ mappings[nth].base \in Nat /\ mappings[nth].end \in Nat /\ ImageSize \in Nat
          /\ mappings[nth].end <= ImageSize
      BY <1>2, <3>1, MapFacts
    <3> QED BY <3>1, <3>2
  <2>3. \A k \in 1 .. Len(carry) : First + k - 1 \in ImageAddresses
    BY <2>2 DEF ImageAddresses
  <2>4. ReadAt(carry, First)'
    BY <1>1, <1>7, <2>1, <2>3 DEF CarryOK, ReadAt, First
  <2> QED BY <1>1, <2>1, <2>4 DEF CarryOK, First, Skipped
<1>9. ASSUME doing = "window" PROVE WindowOK'
  <2>1. WindowOK
    BY <1>9 DEF QwordInv, PlaceInv
  <2>2. ChunkEnd \in Nat /\ First \in Nat /\ ChunkEnd <= ImageSize /\ ImageSize \in Nat
    <3>1. cursor < mappings[nth].end
      BY <2>1 DEF WindowOK
    <3>2. /\ nth \in DOMAIN mappings /\ ~Skipped(mappings[nth]) /\ First \in Nat
          /\ ChunkEnd \in Nat /\ ChunkEnd <= mappings[nth].end
      BY <1>9, <3>1, WorkFacts DEF AtWork
    <3>3. /\ mappings[nth].end \in Nat /\ mappings[nth].end <= ImageSize /\ ImageSize \in Nat
      BY <1>2, <3>2, MapFacts
    <3> QED BY <3>2, <3>3
  <2>3. \A k \in 1 .. Len(window) : First + k - 1 \in ImageAddresses
    BY <2>1, <2>2 DEF ImageAddresses, WindowOK
  <2>4. ReadAt(window, First)'
    BY <1>1, <1>7, <2>1, <2>3 DEF WindowOK, ReadAt, First
  <2> QED BY <1>1, <2>1, <2>4 DEF WindowOK, First, ChunkEnd
<1>10. PlaceInv'
  BY <1>1, <1>8, <1>9 DEF PlaceInv, AtWork
<1>11. UnreadInv'
  BY <1>1 DEF QwordInv, UnreadInv, AtWork, Skipped
<1>12. \A k, a : /\ FitsIn(k, a)' <=> FitsIn(k, a)
                 /\ Yet(k, a)' <=> Yet(k, a)
  BY <1>1 DEF FitsIn, Fits, Skipped, Yet, First
<1>13. \A i \in DOMAIN hits : MayBeAt(hits[i]) => MayBeAt(hits[i])'
  <2>1. SUFFICES ASSUME NEW i \in DOMAIN hits, MayBeAt(hits[i]) PROVE MayBeAt(hits[i])'
    OBVIOUS
  <2>2. hits[i] \in Nat /\ \E j : FitsIn(j, hits[i])
    BY <1>2 DEF QwordInv, HitsInv, QwordTypeOK
  <2>3. \A k \in 1 .. NeedleSize : hits[i] + k - 1 \in ImageAddresses
    BY <1>2, <2>2, PlaceFacts
  <2> QED BY <1>1, <1>7, <2>1, <2>3 DEF MayBeAt
<1>14. \A k, a \in Nat : FitsIn(k, a)' /\ StaysAt(a)' => StaysAt(a)
  <2>1. SUFFICES ASSUME NEW k \in Nat, NEW a \in Nat, FitsIn(k, a), StaysAt(a)' PROVE StaysAt(a)
    BY <1>12
  <2>2. \A n \in 1 .. NeedleSize : a + n - 1 \in ImageAddresses
    BY <1>2, <2>1, PlaceFacts
  <2>3. \A n \in 1 .. NeedleSize : wasThere'[a + n - 1] = {needle[n]}
    BY <1>1, <2>1 DEF StaysAt
  <2>4. ASSUME NEW n \in 1 .. NeedleSize PROVE wasThere[a + n - 1] = {needle[n]}
    BY <1>7, <2>2, <2>3
  <2> QED BY <2>4 DEF StaysAt
<1>15. HitsInv' /\ Covered'
  BY <1>1, <1>6, <1>12, <1>13, <1>14, NothingFound
<1> QED BY <1>6, <1>10, <1>11, <1>15 DEF QwordInv

LEMMA Joined ==
  ASSUME NEW S, NEW s \in Seq(S), NEW t \in Seq(S)
  PROVE  /\ s \o t \in Seq(S) /\ Len(s \o t) = Len(s) + Len(t)
         /\ \A k \in 1 .. Len(s) : (s \o t)[k] = s[k]
         /\ \A k \in Len(s) + 1 .. Len(s) + Len(t) : (s \o t)[k] = t[k - Len(s)]
OBVIOUS

\* Without a write and a failed read, all that is known of places stays.
LEMMA PlacesStay ==
  ASSUME UNCHANGED <<gameMemory, arguments, unread>>
  PROVE  /\ \A k, a : FitsIn(k, a)' <=> FitsIn(k, a)
         /\ \A a : MayBeAt(a)' <=> MayBeAt(a)
         /\ \A a : StaysAt(a)' <=> StaysAt(a)
BY DEF gameMemory, arguments, FitsIn, Fits, Skipped, MayBeAt, StaysAt

LEMMA PassMappingKeepsQwordInv == QwordInv /\ PassMapping => QwordInv'
<1> SUFFICES ASSUME QwordInv, PassMapping PROVE QwordInv'
  OBVIOUS
<1>1. /\ doing = "mapping" /\ doing' = doing /\ nth < Len(mappings) /\ Skipped(mappings[nth + 1])
      /\ nth' = nth + 1
      /\ UNCHANGED <<gameMemory, arguments, cursor, carry, window, index, hits, unread>>
  BY DEF PassMapping
<1>2. QwordTypeOK /\ nth \in Nat /\ Len(mappings) \in Nat /\ DOMAIN mappings = 1 .. Len(mappings)
  BY MapFacts DEF QwordInv, QwordTypeOK
<1>3. QwordTypeOK'
  BY <1>1, <1>2 DEF QwordTypeOK, gameMemory, arguments, ImageAddresses
<1>4. PlaceInv'
  BY <1>1 DEF PlaceInv, AtWork
<1>5. UnreadInv'
  BY <1>1, <1>2 DEF QwordInv, UnreadInv, AtWork, Skipped, arguments
<1>6. HitsInv' /\ Covered'
  <2>1. \A k, a \in Nat : FitsIn(k, a) /\ Yet(k, a)' => Yet(k, a)
    BY <1>1, <1>2 DEF Yet
  <2>2. \A k, a \in Nat : FitsIn(k, a)' /\ Yet(k, a) => Yet(k, a)'
    <3>1. SUFFICES ASSUME NEW k \in Nat, NEW a \in Nat, FitsIn(k, a), Yet(k, a) PROVE Yet(k, a)'
      BY <1>1, PlacesStay
    <3>2. k > nth /\ k # nth + 1
      BY <1>1, <3>1 DEF Yet, FitsIn, Fits
    <3> QED BY <1>1, <1>2, <3>2 DEF Yet
  <2> QED BY <1>1, <1>3, <2>1, <2>2, PlacesStay, NothingFound DEF arguments
<1> QED BY <1>3, <1>4, <1>5, <1>6 DEF QwordInv

LEMMA EnterMappingKeepsQwordInv == QwordInv /\ EnterMapping => QwordInv'
<1> SUFFICES ASSUME QwordInv, EnterMapping PROVE QwordInv'
  OBVIOUS
<1>1. /\ doing = "mapping" /\ doing' = "chunk" /\ nth < Len(mappings) /\ ~Skipped(mappings[nth + 1])
      /\ nth' = nth + 1 /\ cursor' = mappings[nth + 1].base /\ carry' = <<>>
      /\ UNCHANGED <<gameMemory, arguments, window, index, hits, unread>>
  BY DEF EnterMapping
<1>2. QwordTypeOK /\ nth \in Nat /\ Len(mappings) \in Nat /\ DOMAIN mappings = 1 .. Len(mappings)
  BY MapFacts DEF QwordInv, QwordTypeOK
<1> DEFINE m == mappings[nth + 1]
<1>3. nth + 1 \in DOMAIN mappings /\ m.base \in Nat /\ m.end \in Nat /\ m.base < m.end
      /\ NeedleSize \in Nat /\ NeedleSize >= 1
  BY <1>1, <1>2, MapFacts
<1>4. carry' \in Seq(Contents) /\ Len(carry') = 0
  BY <1>1
<1>5. QwordTypeOK'
  <2>1. nth' \in 0 .. Len(mappings) /\ cursor' \in Nat
    BY <1>1, <1>2, <1>3
  <2>2. carry' \in Seq(Contents) /\ doing' = "chunk"
        /\ UNCHANGED <<image, wasThere, needle, mappings, limit, window, index, hits, unread>>
    BY <1>1, <1>4 DEF gameMemory, arguments
  <2> HIDE DEF m
  <2> QED BY <1>2, <2>1, <2>2 DEF QwordTypeOK, ImageAddresses
<1>6. First' = m.base
  BY <1>1, <1>3, <1>4 DEF First
<1>7. ReadAt(carry, First)'
  BY <1>4 DEF ReadAt
<1>8. CarryOK'
  BY <1>1, <1>2, <1>3, <1>4, <1>6, <1>7 DEF CarryOK, Skipped, arguments
<1>9. PlaceInv'
  BY <1>1, <1>8 DEF PlaceInv
<1>10. UnreadInv'
  <2>1. SUFFICES ASSUME NEW u \in unread, NEW k \in DOMAIN mappings,
                        ~Skipped(mappings[k]), mappings[k].base <= u, u < mappings[k].end
                 PROVE  k <= nth + 1 /\ k # nth + 1
    BY <1>1 DEF UnreadInv, Skipped, arguments
  <2>2. k <= nth
    BY <2>1 DEF QwordInv, UnreadInv
  <2> QED BY <1>2, <2>2
<1>11. HitsInv' /\ Covered'
  <2>1. \A k, a \in Nat : FitsIn(k, a) /\ Yet(k, a)' => Yet(k, a)
    BY <1>1, <1>2 DEF Yet
  <2>2. \A k, a \in Nat : FitsIn(k, a)' /\ Yet(k, a) => Yet(k, a)'
    <3>1. SUFFICES ASSUME NEW k \in Nat, NEW a \in Nat, FitsIn(k, a), Yet(k, a) PROVE Yet(k, a)'
      BY <1>1, PlacesStay
    <3>2. k > nth /\ (k = nth + 1 => m.base <= a)
      BY <1>1, <3>1 DEF Yet, FitsIn, Fits
    <3> QED BY <1>1, <1>2, <1>3, <3>2 DEF Yet
  <2> QED BY <1>1, <1>5, <2>1, <2>2, PlacesStay, NothingFound DEF arguments
<1> QED BY <1>5, <1>9, <1>10, <1>11 DEF QwordInv

LEMMA NoMappingLeftKeepsQwordInv == QwordInv /\ NoMappingLeft => QwordInv'
<1> SUFFICES ASSUME QwordInv, NoMappingLeft PROVE QwordInv'
  OBVIOUS
<1>1. /\ doing = "mapping" /\ doing' = "returned" /\ nth = Len(mappings)
      /\ UNCHANGED <<gameMemory, arguments, nth, cursor, carry, window, index, hits, unread>>
  BY DEF NoMappingLeft
<1>2. QwordTypeOK /\ nth \in Nat /\ DOMAIN mappings = 1 .. Len(mappings)
  BY MapFacts DEF QwordInv, QwordTypeOK
<1>3. QwordTypeOK'
  BY <1>1, <1>2 DEF QwordTypeOK, gameMemory, arguments, ImageAddresses
<1>4. PlaceInv'
  BY <1>1 DEF PlaceInv, AtWork
<1>5. UnreadInv'
  BY <1>1, <1>2 DEF QwordInv, UnreadInv, AtWork, Skipped, arguments
<1>6. HitsInv' /\ Covered'
  <2>1. \A k, a \in Nat : FitsIn(k, a) /\ Yet(k, a)' => Yet(k, a)
    BY <1>1 DEF Yet
  <2>2. \A k, a \in Nat : FitsIn(k, a)' /\ Yet(k, a) => Yet(k, a)'
    <3>1. SUFFICES ASSUME NEW k \in Nat, NEW a \in Nat, FitsIn(k, a) PROVE ~Yet(k, a)
      BY <1>1, PlacesStay
    <3>2. ~(k > nth)
      BY <1>1, <1>2, <3>1 DEF FitsIn
    <3> QED BY <1>1, <3>2 DEF Yet
  <2> QED BY <1>1, <1>3, <2>1, <2>2, PlacesStay, NothingFound DEF arguments
<1> QED BY <1>3, <1>4, <1>5, <1>6 DEF QwordInv

LEMMA ReadChunkKeepsQwordInv == QwordInv /\ ReadChunk => QwordInv'
<1> SUFFICES ASSUME QwordInv, ReadChunk PROVE QwordInv'
  OBVIOUS
<1> DEFINE m == mappings[nth]
           chunk == [k \in 1 .. ChunkEnd - cursor |-> image[cursor + k - 1]]
<1>1. /\ doing = "chunk" /\ doing' = "window" /\ cursor < m.end
      /\ window' = carry \o chunk /\ index' = 0
      /\ UNCHANGED <<gameMemory, arguments, nth, cursor, carry, hits, unread>>
  BY DEF ReadChunk, InRegion
<1>2. QwordTypeOK /\ CarryOK /\ AtWork
  BY <1>1 DEF QwordInv, PlaceInv, AtWork
<1>3. /\ nth \in DOMAIN mappings /\ ~Skipped(m) /\ First \in Nat /\ Len(carry) \in Nat
      /\ First + Len(carry) = cursor /\ m.base <= First /\ cursor \in Nat
      /\ ChunkEnd \in Nat /\ cursor < ChunkEnd /\ ChunkEnd <= m.end
      /\ m.base \in Nat /\ m.end \in Nat /\ m.end <= ImageSize /\ ImageSize \in Nat
      /\ NeedleSize \in Nat /\ NeedleSize >= 1 /\ nth \in Nat
  <2>1. /\ nth \in DOMAIN mappings /\ ~Skipped(m) /\ First \in Nat /\ Len(carry) \in Nat
        /\ First + Len(carry) = cursor /\ m.base <= First
        /\ ChunkEnd \in Nat /\ cursor < ChunkEnd /\ ChunkEnd <= m.end
    BY <1>1, <1>2, WorkFacts
  <2> QED BY <1>2, <2>1, MapFacts
<1>4. \A k \in 1 .. ChunkEnd - cursor : cursor + k - 1 \in ImageAddresses
  BY <1>3 DEF ImageAddresses
<1>5. chunk \in Seq(Contents) /\ Len(chunk) = ChunkEnd - cursor
  <2>1. chunk \in [1 .. ChunkEnd - cursor -> Contents]
    BY <1>2, <1>4 DEF QwordTypeOK
  <2>2. ChunkEnd - cursor \in Nat
    BY <1>3
  <2> QED BY <2>1, <2>2
<1> HIDE DEF chunk
<1>6. /\ window' \in Seq(Contents) /\ Len(window') = ChunkEnd - First
      /\ \A k \in 1 .. Len(carry) : window'[k] = carry[k]
      /\ \A k \in Len(carry) + 1 .. Len(window') : window'[k] = image[First + k - 1]
  <2>1. carry \in Seq(Contents) /\ window' = carry \o chunk
    BY <1>1, <1>2 DEF QwordTypeOK, chunk
  <2>2. /\ window' \in Seq(Contents) /\ Len(window') = Len(carry) + Len(chunk)
        /\ \A k \in 1 .. Len(carry) : window'[k] = carry[k]
        /\ \A k \in Len(carry) + 1 .. Len(carry) + Len(chunk) : window'[k] = chunk[k - Len(carry)]
    BY <1>5, <2>1, Joined
  <2>3. Len(window') = ChunkEnd - First
    <3>1. Len(window') = Len(carry) + (ChunkEnd - cursor)
      BY <1>5, <2>2
    <3>2. /\ Len(carry) \in Nat /\ ChunkEnd \in Nat /\ cursor \in Nat /\ First \in Nat
          /\ First + Len(carry) = cursor
      BY <1>3
    <3> QED BY <3>1, <3>2
  <2>4. ASSUME NEW k \in Len(carry) + 1 .. Len(window') PROVE window'[k] = image[First + k - 1]
    <3>1. k - Len(carry) \in 1 .. ChunkEnd - cursor /\ cursor + (k - Len(carry)) - 1 = First + k - 1
      BY <1>3, <2>3
    <3>2. chunk[k - Len(carry)] = image[cursor + (k - Len(carry)) - 1]
      BY <3>1 DEF chunk
    <3>3. window'[k] = chunk[k - Len(carry)]
      BY <1>3, <1>5, <2>2
    <3> QED BY <3>1, <3>2, <3>3
  <2> QED BY <2>2, <2>3, <2>4
<1>7. QwordTypeOK'
  BY <1>1, <1>2, <1>6 DEF QwordTypeOK, gameMemory, arguments, ImageAddresses
<1>8. First' = First /\ ChunkEnd' = ChunkEnd
  BY <1>1 DEF First, ChunkEnd, arguments
<1>9. CarryOK'
  BY <1>1, <1>2, <1>8 DEF CarryOK, ReadAt, Skipped, arguments, gameMemory
<1>10. \A k \in 1 .. Len(window') : window'[k] \in wasThere[First + k - 1] /\ First + k - 1 \notin unread
  <2>1. TAKE k \in 1 .. Len(window')
  <2>2. CASE k \in 1 .. Len(carry)
    BY <1>2, <1>6, <2>2 DEF CarryOK, ReadAt
  <2>3. CASE k \in Len(carry) + 1 .. Len(window')
    <3>1. k \in Nat /\ cursor <= First + k - 1 /\ First + k - 1 < ChunkEnd
      BY <1>3, <1>6, <2>3
    <3>2. First + k - 1 \in ImageAddresses
      BY <1>3, <3>1 DEF ImageAddresses
    <3>3. m.base <= First + k - 1 /\ First + k - 1 < m.end
      BY <1>3, <3>1
    <3>4. First + k - 1 \notin unread
      BY <1>2, <1>3, <3>1, <3>3 DEF QwordInv, UnreadInv
    <3> QED BY <1>2, <1>6, <2>3, <3>2, <3>4 DEF QwordTypeOK
  <2> QED BY <1>3, <1>6, <2>2, <2>3
<1>11. WindowOK'
  BY <1>1, <1>3, <1>6, <1>8, <1>10 DEF WindowOK, ReadAt, gameMemory, arguments
<1>12. PlaceInv'
  BY <1>1, <1>9, <1>11 DEF PlaceInv
<1>13. UnreadInv'
  BY <1>1, <1>2 DEF QwordInv, UnreadInv, AtWork, Skipped, arguments
<1>14. HitsInv' /\ Covered'
  <2>1. \A k, a \in Nat : FitsIn(k, a) /\ Yet(k, a)' => Yet(k, a)
    <3>1. SUFFICES ASSUME NEW k \in Nat, NEW a \in Nat, Yet(k, a)' PROVE Yet(k, a)
      OBVIOUS
    <3>2. k > nth \/ (k = nth /\ a >= First)
      BY <1>1, <1>3, <1>8, <3>1 DEF Yet
    <3>3. Len(carry) <= NeedleSize - 1
      BY <1>2 DEF CarryOK
    <3> QED BY <1>1, <1>3, <3>2, <3>3 DEF Yet
  <2>2. \A k, a \in Nat : FitsIn(k, a)' /\ Yet(k, a) => Yet(k, a)'
    <3>1. SUFFICES ASSUME NEW k \in Nat, NEW a \in Nat, FitsIn(k, a), Yet(k, a) PROVE Yet(k, a)'
      BY <1>1, PlacesStay
    <3>2. k > nth \/ (k = nth /\ a + NeedleSize > cursor)
      BY <1>1, <3>1 DEF Yet
    <3>3. CASE k = nth /\ a + NeedleSize > cursor
      <4>1. a >= First
        BY <1>2, <3>1, <3>3, CarryReaches
      <4> QED BY <1>1, <1>3, <1>8, <3>3, <4>1 DEF Yet
    <3> QED BY <1>1, <3>2, <3>3 DEF Yet
  <2> QED BY <1>1, <1>7, <2>1, <2>2, PlacesStay, NothingFound DEF arguments
<1> QED BY <1>7, <1>12, <1>13, <1>14 DEF QwordInv

\* What cannot be read is behind the cursor from then on, and no place that was passed
\* has a byte of it.
LEMMA ChunkUnreadKeepsQwordInv == QwordInv /\ ChunkUnread => QwordInv'
<1> SUFFICES ASSUME QwordInv, ChunkUnread PROVE QwordInv'
  OBVIOUS
<1> DEFINE m == mappings[nth]
<1>1. /\ doing = "chunk" /\ doing' = doing /\ cursor < m.end
      /\ cursor' = ChunkEnd /\ carry' = <<>> /\ unread' = unread \cup cursor .. ChunkEnd - 1
      /\ UNCHANGED <<gameMemory, arguments, nth, window, index, hits>>
  BY DEF ChunkUnread, InRegion
<1>2. QwordTypeOK /\ HitsInv /\ UnreadInv /\ AtWork
  BY <1>1 DEF QwordInv, AtWork
<1>3. /\ nth \in DOMAIN mappings /\ ~Skipped(m) /\ First \in Nat
      /\ m.base <= First /\ First <= cursor /\ cursor \in Nat
      /\ ChunkEnd \in Nat /\ cursor < ChunkEnd /\ ChunkEnd <= m.end
      /\ m.base \in Nat /\ m.end \in Nat
      /\ NeedleSize \in Nat /\ NeedleSize >= 1 /\ nth \in Nat
  <2>1. /\ nth \in DOMAIN mappings /\ ~Skipped(m) /\ First \in Nat /\ Len(carry) \in Nat
        /\ First + Len(carry) = cursor /\ m.base <= First
        /\ ChunkEnd \in Nat /\ cursor < ChunkEnd /\ ChunkEnd <= m.end
    BY <1>1, <1>2, WorkFacts
  <2>2. First <= cursor
    BY <2>1
  <2> QED BY <1>2, <2>1, <2>2, MapFacts
<1>4. carry' \in Seq(Contents) /\ Len(carry') = 0
  BY <1>1
<1>5. QwordTypeOK'
  <2>1. cursor .. ChunkEnd - 1 \subseteq Nat
    BY <1>3
  <2> QED BY <1>1, <1>2, <1>3, <1>4, <2>1 DEF QwordTypeOK, gameMemory, arguments, ImageAddresses
<1>6. First' = ChunkEnd
  BY <1>1, <1>3, <1>4 DEF First
<1>7. CarryOK'
  <2>1. ChunkEnd - 1 \in cursor .. ChunkEnd - 1
    BY <1>3
  <2>2. First' - 1 \in unread'
    BY <1>1, <1>6, <2>1
  <2>3. ReadAt(carry, First)'
    BY <1>4 DEF ReadAt
  <2>4. nth' >= 1 /\ ~Skipped(mappings'[nth']) /\ cursor' <= mappings'[nth'].end
        /\ mappings'[nth'].base <= First' /\ Len(carry') <= NeedleSize - 1
    <3>1. nth >= 1
      BY <1>2, <1>3, MapFacts
    <3>2. m.base <= ChunkEnd
      BY <1>3
    <3> QED BY <1>1, <1>3, <1>4, <1>6, <3>1, <3>2 DEF arguments, Skipped
  <2> QED BY <2>2, <2>3, <2>4 DEF CarryOK, Skipped
<1>8. PlaceInv'
  BY <1>1, <1>7 DEF PlaceInv
<1>9. \A u \in cursor .. ChunkEnd - 1 : u \in Nat /\ cursor <= u /\ u < ChunkEnd
  BY <1>3
\* It lies in the mapping at hand and in no other.
<1>10. ASSUME NEW u \in cursor .. ChunkEnd - 1, NEW k \in DOMAIN mappings, ~Skipped(mappings[k]),
              mappings[k].base <= u, u < mappings[k].end
       PROVE  k = nth
  <2>1. mappings[k].base \in Nat /\ mappings[k].end \in Nat
    BY <1>2, MapFacts
  <2>2. ~(mappings[k].end <= m.base) /\ ~(m.end <= mappings[k].base)
    BY <1>3, <1>9, <1>10, <2>1
  <2> QED BY <1>2, <1>3, <1>10, <2>2, MapFacts
<1>11. UnreadInv'
  <2>1. SUFFICES ASSUME NEW u \in unread', NEW k \in DOMAIN mappings, ~Skipped(mappings[k]),
                        mappings[k].base <= u, u < mappings[k].end
                 PROVE  k <= nth /\ (k = nth => u < ChunkEnd)
    BY <1>1 DEF UnreadInv, Skipped, arguments
  <2>2. CASE u \in unread
    <3>1. mappings[k].base \in Nat /\ mappings[k].end \in Nat
      BY <1>2, MapFacts
    <3>2. k <= nth /\ (k = nth => u < cursor)
      BY <1>2, <2>1, <2>2 DEF UnreadInv
    <3>3. CASE k = nth
      <4>1. u \in Nat
        BY <1>2, <2>2 DEF QwordTypeOK
      <4> QED BY <1>3, <3>2, <3>3, <4>1
    <3> QED BY <3>2, <3>3
  <2>3. CASE u \in cursor .. ChunkEnd - 1
    BY <1>3, <1>9, <1>10, <2>1, <2>3
  <2> QED BY <1>1, <2>2, <2>3
<1>12. HitsInv' /\ Covered'
  <2>1. \A k, a : FitsIn(k, a)' => FitsIn(k, a)
    BY <1>1 DEF FitsIn, Fits, Skipped, arguments
  <2>2. \A a : (MayBeAt(a)' <=> MayBeAt(a)) /\ (StaysAt(a)' <=> StaysAt(a))
    BY <1>1 DEF MayBeAt, StaysAt, gameMemory, arguments
  <2>3. ASSUME NEW i \in DOMAIN hits, NEW j, FitsIn(j, hits[i]) PROVE FitsIn(j, hits[i])'
    <3>1. hits[i] \in Nat
      BY <1>2 DEF QwordTypeOK
    <3>2. /\ j \in DOMAIN mappings /\ ~Skipped(mappings[j]) /\ j \in Nat
          /\ mappings[j].base <= hits[i] /\ hits[i] + NeedleSize <= mappings[j].end
          /\ mappings[j].base \in Nat /\ mappings[j].end \in Nat
          /\ \A n \in 1 .. NeedleSize : hits[i] + n - 1 \notin unread
      BY <1>2, <2>3, <3>1, PlaceFacts, MapFacts
    <3>3. ASSUME NEW n \in 1 .. NeedleSize, hits[i] + n - 1 \in cursor .. ChunkEnd - 1
          PROVE  FALSE
      <4>1. hits[i] + n - 1 < mappings[j].end /\ mappings[j].base <= hits[i] + n - 1
        BY <1>3, <3>1, <3>2
      <4>2. j = nth
        BY <1>10, <3>2, <3>3, <4>1
      <4>3. ~Yet(j, hits[i])
        BY <1>2, <2>3, <3>2 DEF HitsInv
      <4>4. ~(hits[i] + NeedleSize > cursor)
        BY <1>1, <4>2, <4>3 DEF Yet
      <4>5. hits[i] + n - 1 < cursor
        BY <1>3, <3>1, <4>4
      <4> QED BY <1>3, <1>9, <3>1, <3>3, <4>5
    <3>4. \A n \in 1 .. NeedleSize : hits[i] + n - 1 \notin unread'
      BY <1>1, <3>2, <3>3
    <3> QED BY <1>1, <3>2, <3>4 DEF FitsIn, Fits, Skipped, arguments
  <2>4. \A k, a \in Nat : FitsIn(k, a) /\ Yet(k, a)' => Yet(k, a)
    <3>1. SUFFICES ASSUME NEW k \in Nat, NEW a \in Nat, Yet(k, a)' PROVE Yet(k, a)
      OBVIOUS
    <3>2. k > nth \/ (k = nth /\ a + NeedleSize > ChunkEnd)
      BY <1>1, <3>1 DEF Yet
    <3> QED BY <1>1, <1>3, <3>2 DEF Yet
  <2>5. \A k, a \in Nat : FitsIn(k, a)' /\ Yet(k, a) => Yet(k, a)'
    <3>1. SUFFICES ASSUME NEW k \in Nat, NEW a \in Nat, FitsIn(k, a)', Yet(k, a) PROVE Yet(k, a)'
      OBVIOUS
    <3>2. k > nth \/ (k = nth /\ a + NeedleSize > cursor)
      BY <1>1, <3>1 DEF Yet
    <3>3. ASSUME ~(a + NeedleSize > ChunkEnd), a + NeedleSize > cursor PROVE FALSE
      <4>1. a + NeedleSize - 1 \in cursor .. ChunkEnd - 1 /\ NeedleSize \in 1 .. NeedleSize
        BY <1>3, <3>3
      <4>2. a + NeedleSize - 1 \notin unread'
        BY <3>1, <4>1 DEF FitsIn, Fits
      <4> QED BY <1>1, <4>1, <4>2
    <3> QED BY <1>1, <1>3, <3>2, <3>3 DEF Yet
  <2> QED BY <1>1, <1>5, <2>1, <2>2, <2>3, <2>4, <2>5, NothingFound DEF arguments
<1> QED BY <1>5, <1>8, <1>11, <1>12 DEF QwordInv

LEMMA RegionDoneKeepsQwordInv == QwordInv /\ RegionDone => QwordInv'
<1> SUFFICES ASSUME QwordInv, RegionDone PROVE QwordInv'
  OBVIOUS
<1>1. /\ doing = "chunk" /\ ~InRegion
      /\ doing' = IF Len(hits) < limit THEN "mapping" ELSE "returned"
      /\ cursor' = 0 /\ carry' = <<>>
      /\ UNCHANGED <<gameMemory, arguments, nth, window, index, hits, unread>>
  BY DEF RegionDone
<1>2. QwordTypeOK /\ AtWork /\ CarryOK
  BY <1>1 DEF QwordInv, AtWork, PlaceInv
<1>3. /\ nth \in DOMAIN mappings /\ nth \in Nat /\ cursor \in Nat /\ cursor <= mappings[nth].end
      /\ mappings[nth].end \in Nat /\ Len(hits) \in Nat /\ limit \in Nat /\ Len(hits) <= limit
      /\ NeedleSize \in Nat
  BY <1>2, MapFacts, WorkFacts DEF QwordTypeOK
<1>4. carry' \in Seq(Contents) /\ 0 \in Nat
  BY <1>1
<1>5. QwordTypeOK'
  BY <1>1, <1>2, <1>4 DEF QwordTypeOK, gameMemory, arguments, ImageAddresses
<1>6. PlaceInv'
  BY <1>1 DEF PlaceInv, AtWork
<1>7. UnreadInv'
  BY <1>1, <1>2 DEF QwordInv, UnreadInv, AtWork, Skipped, arguments
<1>8. HitsInv' /\ Covered'
  <2>1. \A k, a \in Nat : FitsIn(k, a) /\ Yet(k, a)' => Yet(k, a)
    <3>1. SUFFICES ASSUME NEW k \in Nat, NEW a \in Nat, Yet(k, a)' PROVE Yet(k, a)
      OBVIOUS
    <3>2. k > nth
      BY <1>1, <3>1 DEF Yet
    <3> QED BY <1>1, <3>2 DEF Yet
  <2>2. ASSUME NEW k \in Nat, NEW a \in Nat, FitsIn(k, a)', Yet(k, a)
        PROVE  Yet(k, a)' \/ EnoughBefore(k, a)
    <3>1. FitsIn(k, a)
      BY <1>1, <2>2, PlacesStay
    <3>2. CASE Len(hits) < limit
      <4>1. cursor = mappings[nth].end
        BY <1>1, <1>3, <3>2 DEF InRegion
      <4>2. k = nth => a + NeedleSize <= mappings[nth].end
        BY <1>2, <3>1, PlaceFacts
      <4>3. k > nth
        BY <1>1, <1>3, <2>2, <4>1, <4>2 DEF Yet
      <4> QED BY <1>1, <3>2, <4>3 DEF Yet
    <3>3. CASE Len(hits) = limit
      BY <1>1, <2>2, <3>1, <3>3, EnoughWhenFull
    <3> QED BY <1>3, <3>2, <3>3
  <2> QED BY <1>1, <1>5, <2>1, <2>2, PlacesStay, NothingFound DEF arguments
<1> QED BY <1>5, <1>6, <1>7, <1>8 DEF QwordInv

\* A place compared: it is before all that is still to be compared and behind all that
\* was found.
LEMMA CompareKeepsQwordInv == QwordInv /\ Compare => QwordInv'
<1> SUFFICES ASSUME QwordInv, Compare PROVE QwordInv'
  OBVIOUS
<1> DEFINE m == mappings[nth]
           here == First + index
           found == \A k \in 1 .. NeedleSize : window[index + k] = needle[k]
<1>1. /\ doing = "window" /\ doing' = doing /\ index' = index + 1
      /\ index + NeedleSize <= Len(window) /\ Len(hits) < limit
      /\ hits' = IF found THEN Append(hits, here) ELSE hits
      /\ UNCHANGED <<gameMemory, arguments, nth, cursor, carry, window, unread>>
  BY DEF Compare, InWindow, First
<1>2. QwordTypeOK /\ HitsInv /\ UnreadInv /\ Covered /\ AtWork /\ CarryOK /\ WindowOK
  BY <1>1 DEF QwordInv, PlaceInv, AtWork
<1>3. /\ nth \in DOMAIN mappings /\ ~Skipped(m) /\ First \in Nat /\ m.base <= First
      /\ cursor < m.end /\ ChunkEnd \in Nat /\ ChunkEnd <= m.end
      /\ Len(window) = ChunkEnd - First /\ index \in Nat /\ here \in Nat
      /\ m.base \in Nat /\ m.end \in Nat /\ m.end <= ImageSize /\ ImageSize \in Nat
      /\ NeedleSize \in Nat /\ NeedleSize >= 1 /\ nth \in Nat /\ limit \in Nat
  <2>1. cursor < m.end /\ Len(window) = ChunkEnd - First /\ index \in Nat /\ nth \in Nat
    BY <1>2, MapFacts DEF QwordTypeOK, WindowOK
  <2>2. /\ nth \in DOMAIN mappings /\ ~Skipped(m) /\ First \in Nat /\ m.base <= First
        /\ ChunkEnd \in Nat /\ ChunkEnd <= m.end
    BY <1>2, <2>1, WorkFacts
  <2>3. here \in Nat
    BY <2>1, <2>2
  <2> QED BY <1>2, <2>1, <2>2, <2>3, MapFacts
<1>4. m.base <= here /\ here + NeedleSize <= ChunkEnd /\ here + NeedleSize <= m.end
      /\ here \in ImageAddresses /\ index' \in Nat
  <2>1. index + NeedleSize <= ChunkEnd - First /\ index' = index + 1
    BY <1>1, <1>3
  <2>2. m.base <= here /\ here + NeedleSize <= ChunkEnd /\ index' \in Nat
    <3>1. m.base <= First /\ First \in Nat /\ index \in Nat /\ m.base \in Nat /\ ChunkEnd \in Nat
          /\ NeedleSize \in Nat
      BY <1>3
    <3> QED BY <2>1, <3>1
  <2>3. here + NeedleSize <= m.end /\ here + NeedleSize <= ImageSize
    BY <1>3, <2>2
  <2> QED BY <1>3, <2>2, <2>3 DEF ImageAddresses
\* What was read of this place.
<1>5. \A k \in 1 .. NeedleSize : /\ window[index + k] \in wasThere[here + k - 1]
                                 /\ here + k - 1 \notin unread
  <2>1. TAKE k \in 1 .. NeedleSize
  <2>2. index + k \in 1 .. Len(window) /\ First + (index + k) - 1 = here + k - 1
    BY <1>1, <1>3
  <2> QED BY <1>2, <2>2 DEF WindowOK, ReadAt
<1>6. FitsIn(nth, here)
  <2>1. \A k \in 1 .. NeedleSize : here + k - 1 \notin unread
    BY <1>5
  <2> HIDE DEF here
  <2> QED BY <1>3, <1>4, <2>1 DEF FitsIn, Fits
<1>7. Yet(nth, here) /\ \A k, a \in Nat : Yet(k, a)' <=> Yet(k, a) /\ ~(k = nth /\ a = here)
  <2>1. Yet(nth, here)
    BY <1>1, <1>3 DEF Yet
  <2>2. First' = First /\ NeedleSize \in Nat
    BY <1>1, <1>3 DEF First
  <2>3. \A k, a \in Nat : a >= First + (index + 1) <=> a >= First + index /\ a # First + index
    BY <1>3
  <2>4. \A k, a \in Nat : Yet(k, a)' <=> k > nth \/ (k = nth /\ a >= First + (index + 1))
    BY <1>1, <2>2 DEF Yet
  <2>5. \A k, a \in Nat : Yet(k, a) <=> k > nth \/ (k = nth /\ a >= First + index)
    BY <1>1 DEF Yet
  <2>6. \A k \in Nat : k > nth => k # nth
    BY <1>3
  <2> QED BY <2>1, <2>3, <2>4, <2>5, <2>6
<1>8. \A k, a : (FitsIn(k, a)' <=> FitsIn(k, a)) /\ (MayBeAt(a)' <=> MayBeAt(a))
                /\ (StaysAt(a)' <=> StaysAt(a))
  BY <1>1, PlacesStay
<1>9. PlaceInv' /\ UnreadInv'
  <2>1. CarryOK' /\ WindowOK'
    <3>1. index' + NeedleSize <= Len(window) + 1
      <4>1. Len(window) \in Int /\ index \in Nat /\ NeedleSize \in Nat
        BY <1>3
      <4> QED BY <1>1, <4>1
    <3> QED BY <1>1, <1>2, <3>1
            DEF CarryOK, WindowOK, ReadAt, First, ChunkEnd, Skipped, gameMemory, arguments
  <2>2. UnreadInv'
    BY <1>1, <1>2 DEF UnreadInv, AtWork, Skipped, arguments
  <2> QED BY <2>1, <2>2 DEF PlaceInv
<1>10. CASE ~found
  <2>1. hits' = hits
    BY <1>1, <1>10
  <2>2. QwordTypeOK'
    BY <1>1, <1>2, <1>4, <2>1 DEF QwordTypeOK, gameMemory, arguments, ImageAddresses
  <2>3. ~StaysAt(here)
    BY <1>5, <1>10 DEF StaysAt
  <2>4. HitsInv'
    <3>1. \A i \in DOMAIN hits, j \in DOMAIN mappings : FitsIn(j, hits[i])' => ~Yet(j, hits[i])'
      <4>1. \A i \in DOMAIN hits : hits[i] \in Nat
        BY <1>2 DEF QwordTypeOK
      <4>2. \A j \in DOMAIN mappings : j \in Nat
        BY <1>2, MapFacts
      <4>3. \A i \in DOMAIN hits, j \in DOMAIN mappings, h \in Nat :
              h = hits[i] /\ FitsIn(j, h) => ~Yet(j, h)'
        BY <1>2, <1>7, <4>2 DEF HitsInv
      <4> QED BY <1>8, <2>1, <4>1, <4>3
    <3> QED BY <1>1, <1>2, <1>8, <2>1, <3>1 DEF HitsInv, arguments, Earlier
  <2>5. Covered'
    <3>1. SUFFICES ASSUME NEW k \in DOMAIN mappings, NEW a \in ImageAddresses,
                          FitsIn(k, a), StaysAt(a), ~(\E i \in DOMAIN hits : hits[i] = a)
                   PROVE  Yet(k, a)' \/ EnoughBefore(k, a)'
      BY <1>1, <1>8, <2>1 DEF Covered, ImageAddresses, arguments
    <3>2. ~EnoughBefore(k, a)
      BY <1>1 DEF EnoughBefore
    <3>3. Yet(k, a) /\ a # here /\ k \in Nat /\ a \in Nat
      BY <1>2, <2>3, <3>1, <3>2, MapFacts DEF Covered, ImageAddresses
    <3> QED BY <1>7, <3>3
  <2> QED BY <1>9, <2>2, <2>4, <2>5 DEF QwordInv
<1>11. CASE found
  <2>1. /\ hits \in Seq(Nat) /\ hits' = Append(hits, here) /\ hits' \in Seq(Nat)
        /\ Len(hits') = Len(hits) + 1 /\ hits'[Len(hits) + 1] = here
        /\ \A i \in 1 .. Len(hits) : hits'[i] = hits[i]
        /\ DOMAIN hits = 1 .. Len(hits) /\ DOMAIN hits' = 1 .. Len(hits) + 1
        /\ Len(hits) \in Nat
    <3>1. hits \in Seq(Nat) /\ hits' = Append(hits, here) /\ here \in Nat
      BY <1>1, <1>2, <1>3, <1>11 DEF QwordTypeOK
    <3> HIDE DEF here
    <3> QED BY <3>1
  <2>2. QwordTypeOK'
    <3>1. Len(hits') <= limit
      BY <1>1, <1>3, <2>1
    <3> QED BY <1>1, <1>2, <1>4, <2>1, <3>1 DEF QwordTypeOK, gameMemory, arguments, ImageAddresses
  <2>3. MayBeAt(here)
    BY <1>5, <1>11 DEF MayBeAt
  <2>4. \A j : FitsIn(j, here) => j = nth
    BY <1>2, <1>3, <1>6, PlaceFacts
  <2>5. \A i \in DOMAIN hits' : i \in DOMAIN hits \/ i = Len(hits) + 1
    BY <2>1
  <2>6. \A i \in DOMAIN hits : hits[i] \in Nat /\ hits'[i] = hits[i]
    BY <2>1
  <2>7. \A j \in DOMAIN mappings : j \in Nat
    BY <1>2, MapFacts
  <2>8. HitsInv'
    <3>1. \A i \in DOMAIN hits' : /\ MayBeAt(hits'[i])
                                  /\ \E j \in DOMAIN mappings : FitsIn(j, hits'[i])
      BY <1>2, <1>3, <1>6, <2>1, <2>3, <2>5, <2>6 DEF HitsInv
    <3>2. \A i \in DOMAIN hits', j \in DOMAIN mappings, h \in Nat :
            h = hits'[i] /\ FitsIn(j, h) => ~Yet(j, h)'
      <4>1. SUFFICES ASSUME NEW i \in DOMAIN hits', NEW j \in DOMAIN mappings, NEW h \in Nat,
                            h = hits'[i], FitsIn(j, h)
                     PROVE  ~Yet(j, h) \/ (j = nth /\ h = here)
        BY <1>7, <2>7
      <4>2. CASE i \in DOMAIN hits
        BY <1>2, <2>6, <4>1, <4>2 DEF HitsInv
      <4>3. CASE i = Len(hits) + 1
        BY <2>1, <2>4, <4>1, <4>3
      <4> QED BY <2>5, <4>2, <4>3
    <3>3. ASSUME NEW i \in DOMAIN hits', NEW l \in DOMAIN hits', NEW j \in DOMAIN mappings,
                 NEW k \in DOMAIN mappings, i < l, FitsIn(j, hits'[i]), FitsIn(k, hits'[l])
          PROVE  Earlier(j, hits'[i], k, hits'[l])
      <4>1. i \in DOMAIN hits
        BY <2>1, <3>3
      <4>2. CASE l \in DOMAIN hits
        BY <1>2, <2>6, <3>3, <4>1, <4>2 DEF HitsInv
      <4>3. CASE l = Len(hits) + 1
        <5>1. k = nth /\ hits'[l] = here
          BY <2>1, <2>4, <3>3, <4>3
        <5>2. FitsIn(j, hits[i]) /\ ~Yet(j, hits[i]) /\ hits[i] \in Nat
          BY <1>2, <2>6, <3>3, <4>1 DEF HitsInv
        <5>3. Earlier(j, hits[i], nth, here)
          BY <1>1, <1>3, <1>6, <1>7, <5>2, BehindIsEarlier
        <5> QED BY <2>6, <4>1, <5>1, <5>3
      <4> QED BY <2>5, <4>2, <4>3
    <3>4. mappings' = mappings
      BY <1>1 DEF arguments
    <3>5. \A i \in DOMAIN hits' : hits'[i] \in Nat
      BY <1>3, <2>1, <2>5, <2>6
    <3>6. \A i \in DOMAIN hits', j \in DOMAIN mappings' :
            FitsIn(j, hits[i])' => ~Yet(j, hits[i])'
      BY <1>8, <3>2, <3>4, <3>5
    <3> QED BY <1>8, <3>1, <3>3, <3>4, <3>6 DEF HitsInv, Earlier
  <2>9. Covered'
    <3>1. SUFFICES ASSUME NEW k \in DOMAIN mappings, NEW a \in ImageAddresses,
                          FitsIn(k, a), StaysAt(a), ~(\E i \in DOMAIN hits' : hits'[i] = a)
                   PROVE  Yet(k, a)' \/ EnoughBefore(k, a)'
      BY <1>1, <1>8 DEF Covered, ImageAddresses, arguments
    <3>2. ~EnoughBefore(k, a)
      BY <1>1 DEF EnoughBefore
    <3>3. ~(\E i \in DOMAIN hits : hits[i] = a)
      BY <2>1, <2>6, <3>1
    <3>4. Yet(k, a) /\ k \in Nat /\ a \in Nat
      BY <1>2, <3>1, <3>2, <3>3, MapFacts DEF Covered, ImageAddresses
    <3>5. a # here
      BY <2>1, <3>1
    <3> QED BY <1>7, <3>4, <3>5
  <2> QED BY <1>9, <2>2, <2>8, <2>9 DEF QwordInv
<1> QED BY <1>10, <1>11

LEMMA LastOf ==
  ASSUME NEW S, NEW s \in Seq(S), NEW n \in 0 .. Len(s)
  PROVE  /\ SubSeq(s, Len(s) - n + 1, Len(s)) \in Seq(S)
         /\ Len(SubSeq(s, Len(s) - n + 1, Len(s))) = n
         /\ \A k \in 1 .. n : SubSeq(s, Len(s) - n + 1, Len(s))[k] = s[Len(s) - n + k]
<1>1. Len(s) \in Nat /\ n \in Nat /\ n <= Len(s)
  OBVIOUS
<1>2. Len(s) - n + 1 \in Nat /\ \A k \in 1 .. n : Len(s) - n + k \in 1 .. Len(s)
  BY <1>1
<1>3. \A k \in Len(s) - n + 1 .. Len(s) : k \in 1 .. Len(s)
  BY <1>1
<1>4. Len(SubSeq(s, Len(s) - n + 1, Len(s))) = n
  BY <1>1, <1>2
<1> QED BY <1>1, <1>2, <1>3, <1>4

LEMMA ChunkDoneKeepsQwordInv == QwordInv /\ ChunkDone => QwordInv'
<1> SUFFICES ASSUME QwordInv, ChunkDone PROVE QwordInv'
  OBVIOUS
<1> DEFINE m == mappings[nth]
<1>1. /\ doing = "window" /\ ~InWindow /\ doing' = "chunk"
      /\ carry' = SubSeq(window, Len(window) - Kept + 1, Len(window)) /\ cursor' = ChunkEnd
      /\ window' = <<>> /\ index' = 0
      /\ UNCHANGED <<gameMemory, arguments, nth, hits, unread>>
  BY DEF ChunkDone
<1>2. QwordTypeOK /\ AtWork /\ CarryOK /\ WindowOK
  BY <1>1 DEF QwordInv, PlaceInv, AtWork
<1>3. /\ cursor < m.end /\ Len(window) = ChunkEnd - First
      /\ index = 0 \/ index + NeedleSize <= Len(window) + 1
      /\ index \in Nat /\ nth \in Nat /\ window \in Seq(Contents)
  BY <1>2, MapFacts DEF QwordTypeOK, WindowOK
<1>4. /\ nth \in DOMAIN mappings /\ ~Skipped(m) /\ First \in Nat /\ m.base <= First
      /\ Len(carry) \in Nat /\ First + Len(carry) = cursor /\ cursor < ChunkEnd
      /\ ChunkEnd \in Nat /\ ChunkEnd <= m.end /\ m.base \in Nat /\ m.end \in Nat
      /\ NeedleSize \in Nat /\ NeedleSize >= 1 /\ limit \in Nat
  BY <1>2, <1>3, WorkFacts, MapFacts
<1>5. /\ Len(window) \in Nat /\ Len(carry) < Len(window)
      /\ Kept \in 0 .. Len(window) /\ Kept <= NeedleSize - 1
      /\ Kept = NeedleSize - 1 \/ (Kept = Len(window) /\ Len(window) < NeedleSize - 1)
  <2>1. Len(window) \in Nat /\ Len(carry) < Len(window)
    BY <1>3, <1>4
  <2> QED BY <1>4, <2>1 DEF Kept
<1>6. /\ carry' \in Seq(Contents) /\ Len(carry') = Kept
      /\ \A k \in 1 .. Kept : carry'[k] = window[Len(window) - Kept + k]
  BY <1>1, <1>3, <1>5, LastOf
<1>7. QwordTypeOK'
  <2>1. window' \in Seq(Contents) /\ index' \in Nat
    BY <1>1
  <2> QED BY <1>1, <1>2, <1>4, <1>6, <2>1 DEF QwordTypeOK, gameMemory, arguments, ImageAddresses
<1>8. First' = First + (Len(window) - Kept)
  <2>1. First' = ChunkEnd - Kept
    BY <1>1, <1>6 DEF First
  <2> QED BY <1>3, <1>4, <1>5, <2>1
<1>9. CarryOK'
  <2>1. ReadAt(carry, First)'
    <3>1. SUFFICES ASSUME NEW k \in 1 .. Kept
                   PROVE  /\ window[Len(window) - Kept + k] \in wasThere[First' + k - 1]
                          /\ First' + k - 1 \notin unread
      BY <1>1, <1>6 DEF ReadAt, gameMemory
    <3>2. /\ Len(window) - Kept + k \in 1 .. Len(window)
          /\ First' + k - 1 = First + (Len(window) - Kept + k) - 1
      BY <1>4, <1>5, <1>8
    <3> QED BY <1>2, <3>2 DEF WindowOK, ReadAt
  <2>2. m.base <= First' /\ nth >= 1
    BY <1>2, <1>4, <1>5, <1>8 DEF CarryOK
  <2>3. Kept = NeedleSize - 1 \/ First' = m.base \/ First' - 1 \in unread
    <3>1. CASE Kept = Len(window) /\ Len(window) < NeedleSize - 1
      <4>1. First' = First /\ Len(carry) # NeedleSize - 1
        BY <1>4, <1>5, <1>8, <3>1
      <4> QED BY <1>2, <4>1 DEF CarryOK
    <3> QED BY <1>5, <3>1
  <2> QED BY <1>1, <1>4, <1>5, <1>6, <2>1, <2>2, <2>3 DEF CarryOK, Skipped, arguments
<1>10. PlaceInv'
  BY <1>1, <1>9 DEF PlaceInv
<1>11. UnreadInv'
  <2>1. SUFFICES ASSUME NEW u \in unread, NEW k \in DOMAIN mappings,
                        ~Skipped(mappings[k]), mappings[k].base <= u, u < mappings[k].end
                 PROVE  k <= nth /\ (k = nth => u < ChunkEnd)
    BY <1>1 DEF UnreadInv, Skipped, arguments
  <2>2. k <= nth /\ (k = nth => u < cursor) /\ u \in Nat /\ cursor \in Nat
    BY <1>2, <2>1 DEF QwordInv, UnreadInv, QwordTypeOK
  <2> QED BY <1>4, <2>2
<1>12. HitsInv' /\ Covered'
  <2>1. ASSUME NEW k \in Nat, NEW a \in Nat, FitsIn(k, a), Yet(k, a)' PROVE Yet(k, a)
    <3>1. k > nth \/ (k = nth /\ a + NeedleSize > ChunkEnd)
      BY <1>1, <2>1 DEF Yet
    <3>2. CASE k = nth /\ a + NeedleSize > ChunkEnd
      <4>1. a >= First + index
        <5>1. CASE index = 0
          <6>1. a + NeedleSize > cursor /\ cursor \in Nat
            BY <1>2, <1>4, <3>2 DEF QwordTypeOK
          <6>2. a >= First
            BY <1>2, <2>1, <3>2, <6>1, CarryReaches
          <6> QED BY <1>4, <5>1, <6>2
        <5>2. CASE index + NeedleSize <= Len(window) + 1
          BY <1>3, <1>4, <3>2, <5>2
        <5> QED BY <1>3, <5>1, <5>2
      <4> QED BY <1>1, <3>2, <4>1 DEF Yet
    <3> QED BY <1>1, <3>1, <3>2 DEF Yet
  <2>2. ASSUME NEW k \in Nat, NEW a \in Nat, FitsIn(k, a)', Yet(k, a)
        PROVE  Yet(k, a)' \/ EnoughBefore(k, a)
    <3>1. FitsIn(k, a)
      BY <1>1, <2>2, PlacesStay
    <3>2. CASE Len(hits) = limit
      BY <1>1, <2>2, <3>1, <3>2, EnoughWhenFull
    <3>3. CASE Len(hits) < limit
      <4>1. index + NeedleSize > Len(window)
        BY <1>1, <1>3, <1>4, <3>3 DEF InWindow
      <4>2. k > nth \/ (k = nth /\ a >= First + index)
        BY <1>1, <2>2 DEF Yet
      <4>3. CASE k = nth /\ a >= First + index
        <5>1. a + NeedleSize > ChunkEnd
          BY <1>3, <1>4, <4>1, <4>3
        <5> QED BY <1>1, <4>3, <5>1 DEF Yet
      <4> QED BY <1>1, <4>2, <4>3 DEF Yet
    <3>4. Len(hits) \in Nat /\ Len(hits) <= limit
      BY <1>2 DEF QwordTypeOK
    <3> QED BY <1>4, <3>2, <3>3, <3>4
  <2> QED BY <1>1, <1>7, <2>1, <2>2, PlacesStay, NothingFound DEF arguments
<1> QED BY <1>7, <1>10, <1>11, <1>12 DEF QwordInv

LEMMA QwordInductive == QwordSpec => []QwordInv
<1>1. ASSUME QwordInv, UNCHANGED qwordVars PROVE QwordInv'
  <2>1. /\ UNCHANGED <<gameMemory, arguments, unread>>
        /\ UNCHANGED <<nth, doing, cursor, carry, window, index, hits>>
    BY <1>1 DEF qwordVars
  <2>2. QwordTypeOK'
    BY <1>1, <2>1 DEF QwordInv, QwordTypeOK, ImageAddresses, gameMemory, arguments
  <2>3. PlaceInv'
    BY <1>1, <2>1 DEF QwordInv, PlaceInv, AtWork, CarryOK, WindowOK, ReadAt, First, ChunkEnd, Skipped,
                      gameMemory, arguments
  <2>4. UnreadInv'
    BY <1>1, <2>1 DEF QwordInv, UnreadInv, AtWork, Skipped, arguments
  <2>5. \A k, a : Yet(k, a)' <=> Yet(k, a)
    BY <2>1 DEF Yet, First
  <2> QED BY <1>1, <2>1, <2>2, <2>3, <2>4, <2>5, PlacesStay, NothingFound DEF QwordInv, arguments
<1>2. QwordInv /\ [QwordNext]_qwordVars => QwordInv'
  BY <1>1, GameWritesKeepsQwordInv, PassMappingKeepsQwordInv, EnterMappingKeepsQwordInv,
     NoMappingLeftKeepsQwordInv, ReadChunkKeepsQwordInv, ChunkUnreadKeepsQwordInv,
     CompareKeepsQwordInv, ChunkDoneKeepsQwordInv, RegionDoneKeepsQwordInv
     DEF QwordNext, Search
<1> QED BY QwordInitInv, <1>2, PTL DEF QwordSpec

\* However long mappings, chunks and needle are, whatever the game writes in the meantime
\* and whichever chunks cannot be read: what the search returns is where the needle may
\* have been, in order, and misses none that stayed unless it had enough.
THEOREM SearchCorrect == QwordSpec => []QwordsFound
<1>1. ASSUME QwordInv PROVE QwordsFound
  <2>1. QwordTypeOK /\ HitsInv /\ Covered
    BY <1>1 DEF QwordInv
  <2>2. Len(hits) <= limit
    BY <2>1 DEF QwordTypeOK
  <2>3. ASSUME NEW i \in DOMAIN hits
        PROVE  \E j \in DOMAIN mappings :
                 /\ Fits(mappings[j], hits[i]) /\ MayBeAt(hits[i])
                 /\ \A l \in DOMAIN hits : i < l =>
                      \E k \in DOMAIN mappings : /\ Fits(mappings[k], hits[l])
                                                 /\ Earlier(j, hits[i], k, hits[l])
    <3>1. PICK j \in DOMAIN mappings : FitsIn(j, hits[i])
      BY <2>1 DEF HitsInv
    <3>2. ASSUME NEW l \in DOMAIN hits, i < l
          PROVE  \E k \in DOMAIN mappings : /\ Fits(mappings[k], hits[l])
                                            /\ Earlier(j, hits[i], k, hits[l])
      <4>1. PICK k \in DOMAIN mappings : FitsIn(k, hits[l])
        BY <2>1 DEF HitsInv
      <4> QED BY <2>1, <3>1, <3>2, <4>1 DEF HitsInv, FitsIn
    <3> QED BY <2>1, <3>1, <3>2 DEF HitsInv, FitsIn
  <2>4. ASSUME doing = "returned", NEW k \in DOMAIN mappings, NEW a \in ImageAddresses,
               Fits(mappings[k], a), StaysAt(a)
        PROVE  \/ \E i \in DOMAIN hits : hits[i] = a
               \/ /\ Len(hits) = limit
                  /\ \A i \in DOMAIN hits : \E j \in DOMAIN mappings :
                       Fits(mappings[j], hits[i]) /\ Earlier(j, hits[i], k, a)
    <3>1. ~Yet(k, a) /\ FitsIn(k, a)
      BY <2>4 DEF Yet, FitsIn
    <3>2. CASE EnoughBefore(k, a)
      <4>1. ASSUME NEW i \in DOMAIN hits
            PROVE  \E j \in DOMAIN mappings :
                     Fits(mappings[j], hits[i]) /\ Earlier(j, hits[i], k, a)
        <5>1. PICK j \in DOMAIN mappings : FitsIn(j, hits[i])
          BY <2>1 DEF HitsInv
        <5> QED BY <3>2, <5>1 DEF EnoughBefore, FitsIn
      <4> QED BY <3>2, <4>1 DEF EnoughBefore
    <3> QED BY <2>1, <2>4, <3>1, <3>2 DEF Covered
  <2> QED BY <2>2, <2>3, <2>4 DEF QwordsFound
<1> QED BY QwordInductive, <1>1, PTL
===============================================================================
