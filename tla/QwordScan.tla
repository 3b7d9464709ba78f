------------------------------- MODULE QwordScan -------------------------------
(***************************************************************************)
(* find_qword_in_mappings and find_qword_in_range: where a qword, at any   *)
(* alignment, is in the memory of the game, which goes on writing to it.   *)
(* Mapping after mapping is read in chunks; the last bytes of a chunk are  *)
(* carried over to the next, and a chunk that cannot be read is passed.    *)
(* The view object and what leads to it are found this way.  mappings are  *)
(* those the caller's filter lets through.                                 *)
(***************************************************************************)
EXTENDS Integers, Sequences

CONSTANTS
  ChunkSize,       \* CHUNK_SIZE
  NeedleSize,      \* bytes of a qword
  MaxRegionSize,   \* MAX_REGION_SIZE
  Contents,        \* what a byte can be
  ImageSize,       \* the addresses of what is searched are 0 .. ImageSize - 1
  MappingLists,    \* the mappings there can be, in any order
  Limits,          \* how many hits are asked for
  MaxWrites,       \* bound: writes of the game during the search
  MaxUnread        \* bound: chunks that cannot be read

Mapping == [base : Nat, end : Nat]

Skipped(m) == m.end <= m.base \/ m.end - m.base > MaxRegionSize

\* Mappings of a process do not overlap.
QwordAssumption ==
  /\ ChunkSize \in Nat \ {0} /\ NeedleSize \in Nat \ {0} /\ MaxRegionSize \in Nat
  /\ ImageSize \in Nat /\ MaxWrites \in Nat /\ MaxUnread \in Nat /\ Limits \subseteq Nat
  /\ \A ms \in MappingLists :
       /\ ms \in Seq(Mapping)
       /\ \A k \in DOMAIN ms : Skipped(ms[k]) \/ ms[k].end <= ImageSize
       /\ \A j, k \in DOMAIN ms :
            \/ j = k \/ Skipped(ms[j]) \/ Skipped(ms[k])
            \/ ms[j].end <= ms[k].base \/ ms[k].end <= ms[j].base

ASSUME QwordAssumption

VARIABLES
  image,     \* the memory that is searched
  wasThere,  \* history: what each byte of it has been since the search began
  writes,    \* how often the game has written to it
  needle, mappings, limit,   \* the arguments
  nth,       \* the mapping at hand
  doing,     \* "mapping", "chunk", "window" or "returned"
  cursor,    \* where the chunk at hand begins
  carry,     \* the bytes carried over
  window,    \* these and the bytes of the chunk
  index,     \* the place in the window compared next
  hits,      \* the addresses found
  unread,    \* history: the addresses in chunks that could not be read
  failures   \* how many they were

arguments == <<needle, mappings, limit>>
gameMemory == <<image, wasThere, writes>>
qwordVars == <<gameMemory, arguments, nth, doing, cursor, carry, window, index, hits, unread,
               failures>>

ImageAddresses == 0 .. ImageSize - 1

-----------------------------------------------------------------------------

GameWrites ==
  /\ doing # "returned" /\ writes < MaxWrites
  /\ \E a \in ImageAddresses, v \in Contents :
       /\ image' = [image EXCEPT ![a] = v]
       /\ wasThere' = [wasThere EXCEPT ![a] = @ \cup {v}]
  /\ writes' = writes + 1
  /\ UNCHANGED <<arguments, nth, doing, cursor, carry, window, index, hits, unread, failures>>

\* The loop over the mappings: one that is empty or too large is left out.
PassMapping ==
  /\ doing = "mapping" /\ nth < Len(mappings)
  /\ Skipped(mappings[nth + 1])
  /\ nth' = nth + 1
  /\ UNCHANGED <<gameMemory, arguments, doing, cursor, carry, window, index, hits, unread, failures>>

EnterMapping ==
  /\ doing = "mapping" /\ nth < Len(mappings)
  /\ ~Skipped(mappings[nth + 1])
  /\ nth' = nth + 1
  /\ doing' = "chunk"
  /\ cursor' = mappings[nth + 1].base /\ carry' = <<>>
  /\ UNCHANGED <<gameMemory, arguments, window, index, hits, unread, failures>>

NoMappingLeft ==
  /\ doing = "mapping" /\ nth = Len(mappings)
  /\ doing' = "returned"
  /\ UNCHANGED <<gameMemory, arguments, nth, cursor, carry, window, index, hits, unread, failures>>

\* The loop over the chunks of a mapping.
InRegion == cursor < mappings[nth].end /\ Len(hits) < limit

ChunkEnd == IF cursor + ChunkSize <= mappings[nth].end THEN cursor + ChunkSize
                                                       ELSE mappings[nth].end

ReadChunk ==
  /\ doing = "chunk" /\ InRegion
  /\ window' = carry \o [k \in 1 .. ChunkEnd - cursor |-> image[cursor + k - 1]]
  /\ index' = 0
  /\ doing' = "window"
  /\ UNCHANGED <<gameMemory, arguments, nth, cursor, carry, hits, unread, failures>>

\* Seeded fault: what comes before a chunk that cannot be read is still carried over.
ChunkUnread_KeepsCarry ==
  /\ doing = "chunk" /\ InRegion /\ failures < MaxUnread
  /\ cursor' = ChunkEnd
  /\ unread' = unread \cup cursor .. ChunkEnd - 1 /\ failures' = failures + 1
  /\ UNCHANGED <<gameMemory, arguments, nth, doing, carry, window, index, hits>>

\* A chunk that cannot be read carries nothing over.
ChunkUnread ==
  /\ doing = "chunk" /\ InRegion /\ failures < MaxUnread
  /\ cursor' = ChunkEnd
  /\ carry' = <<>>
  /\ unread' = unread \cup cursor .. ChunkEnd - 1 /\ failures' = failures + 1
  /\ UNCHANGED <<gameMemory, arguments, nth, doing, window, index, hits>>

\* The loop over the places in the window.
InWindow == index + NeedleSize <= Len(window) /\ Len(hits) < limit

Compare ==
  /\ doing = "window" /\ InWindow
  /\ hits' = IF \A k \in 1 .. NeedleSize : window[index + k] = needle[k]
             THEN Append(hits, cursor - Len(carry) + index)
             ELSE hits
  /\ index' = index + 1
  /\ UNCHANGED <<gameMemory, arguments, nth, doing, cursor, carry, window, unread, failures>>

Kept == IF Len(window) < NeedleSize - 1 THEN Len(window) ELSE NeedleSize - 1

ChunkDone ==
  /\ doing = "window" /\ ~InWindow
  /\ carry' = SubSeq(window, Len(window) - Kept + 1, Len(window))
  /\ cursor' = ChunkEnd
  /\ doing' = "chunk"
  /\ window' = <<>> /\ index' = 0
  /\ UNCHANGED <<gameMemory, arguments, nth, hits, unread, failures>>

RegionDone ==
  /\ doing = "chunk" /\ ~InRegion
  /\ doing' = IF Len(hits) < limit THEN "mapping" ELSE "returned"
  /\ cursor' = 0 /\ carry' = <<>>
  /\ UNCHANGED <<gameMemory, arguments, nth, window, index, hits, unread, failures>>

-----------------------------------------------------------------------------

QwordInit ==
  /\ image \in [ImageAddresses -> Contents]
  /\ needle \in [1 .. NeedleSize -> Contents]
  /\ mappings \in MappingLists /\ limit \in Limits
  /\ wasThere = [a \in ImageAddresses |-> {image[a]}] /\ writes = 0
  /\ nth = 0 /\ doing = "mapping" /\ cursor = 0 /\ carry = <<>>
  /\ window = <<>> /\ index = 0 /\ hits = <<>> /\ unread = {} /\ failures = 0

Search == \/ PassMapping \/ EnterMapping \/ NoMappingLeft
          \/ ReadChunk \/ ChunkUnread \/ Compare \/ ChunkDone \/ RegionDone

QwordNext == GameWrites \/ Search

QwordSpec == QwordInit /\ [][QwordNext]_qwordVars

-----------------------------------------------------------------------------
(* Properties.                                                             *)

\* A place for the needle in the mapping m, all of whose bytes can be read.
Fits(m, a) == /\ ~Skipped(m)
              /\ m.base <= a /\ a + NeedleSize <= m.end
              /\ \A k \in 1 .. NeedleSize : a + k - 1 \notin unread

\* The needle may have been there, and it was there all the time.
MayBeAt(a) == \A k \in 1 .. NeedleSize : needle[k] \in wasThere[a + k - 1]
StaysAt(a) == \A k \in 1 .. NeedleSize : wasThere[a + k - 1] = {needle[k]}

\* The order in which places are reached.
Earlier(j, a, k, b) == j < k \/ (j = k /\ a < b)

\* Of a memory that the game may write to while it is searched: each hit is a place at
\* which every byte of the needle has been during the search, and which lies in what
\* could be read; they are in the order of the mappings and no more than asked for; and
\* a needle that stays is among them, or as many as asked for were found before it.
\* None is lost, misplaced or made up at the border of two chunks.
QwordsFound ==
  /\ Len(hits) <= limit
  /\ \A i \in DOMAIN hits : \E j \in DOMAIN mappings :
       /\ Fits(mappings[j], hits[i]) /\ MayBeAt(hits[i])
       /\ \A l \in DOMAIN hits : i < l =>
            \E k \in DOMAIN mappings : /\ Fits(mappings[k], hits[l])
                                       /\ Earlier(j, hits[i], k, hits[l])
  /\ doing = "returned" =>
       \A k \in DOMAIN mappings, a \in ImageAddresses :
         Fits(mappings[k], a) /\ StaysAt(a) =>
           \/ \E i \in DOMAIN hits : hits[i] = a
           \/ /\ Len(hits) = limit
              /\ \A i \in DOMAIN hits : \E j \in DOMAIN mappings :
                   Fits(mappings[j], hits[i]) /\ Earlier(j, hits[i], k, a)
=============================================================================
