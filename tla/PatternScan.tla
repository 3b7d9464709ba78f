------------------------------ MODULE PatternScan ------------------------------
(***************************************************************************)
(* scan_module_memory_pattern: the first place in a module of the game     *)
(* where a pattern of bytes and wildcards matches.  The readable mappings  *)
(* of the module are read in chunks that overlap by the pattern's length   *)
(* less one.  What is searched for is code, so the memory stays as it is   *)
(* while it is scanned; "..." tokens are in none of the patterns used.     *)
(***************************************************************************)
EXTENDS Integers, Sequences

CONSTANTS
  Bytes,        \* what a byte of memory can be
  AnyByte,      \* the token "?"
  MemorySize,   \* addresses are 0 .. MemorySize - 1
  ChunkBytes,   \* MODULE_SCAN_CHUNK_BYTES
  MaxPattern,   \* tokens of the longest pattern
  Layouts       \* sets of segments the module can be mapped in

Tokens == Bytes \cup {AnyByte}
Addresses == 0 .. MemorySize - 1
Segment == {s \in [base : Addresses, end : 0 .. MemorySize] : s.base < s.end}

\* Mappings of a process do not overlap; a chunk is longer than what it shares with
\* the next, or the scan would stand still.
ScanAssumption ==
  /\ MemorySize \in Nat /\ ChunkBytes \in Nat /\ MaxPattern \in Nat \ {0}
  /\ MaxPattern <= ChunkBytes
  /\ AnyByte \notin Bytes
  /\ \A S \in Layouts : /\ S \subseteq Segment
                        /\ \A s, t \in S : s = t \/ s.end <= t.base \/ t.end <= s.base

ASSUME ScanAssumption

VARIABLES
  memory,    \* the game's memory
  pattern,   \* the tokens
  segments,  \* the mappings with the module's name that are readable
  todo,      \* those not scanned yet
  segment,   \* the one being scanned
  offset,    \* how far into it
  stage,     \* "segment", "chunk", "found", "none" or "failed"
  result     \* the address found

scanVars == <<memory, pattern, segments, todo, segment, offset, stage, result>>

PatternLen == Len(pattern)

\* find_matches at one start.
MatchesAt(a) == \A k \in 1 .. PatternLen : pattern[k] \in {AnyByte, memory[a + k - 1]}

\* Where the pattern matches in the bytes from one address up to another.
Matches(from, to) == {a \in Addresses : from <= a /\ a + PatternLen <= to /\ MatchesAt(a)}

Least(a, S) == a \in S /\ \A b \in S : a <= b

-----------------------------------------------------------------------------

\* The next segment by its base, or nothing is found.
NextSegment ==
  /\ stage = "segment"
  /\ \/ \E s \in todo : /\ \A t \in todo : s.base <= t.base
                        /\ segment' = s
                        /\ todo' = todo \ {s}
                        /\ offset' = 0
                        /\ stage' = "chunk"
     \/ /\ todo = {}
        /\ stage' = "none"
        /\ UNCHANGED <<segment, todo, offset>>
  /\ UNCHANGED <<memory, pattern, segments, result>>

Start == segment.base + offset
Remaining == segment.end - Start
ChunkLen == IF Remaining <= ChunkBytes THEN Remaining ELSE ChunkBytes

ChunkFound == /\ stage = "chunk" /\ Start < segment.end
              /\ \E a \in Addresses : /\ Least(a, Matches(Start, Start + ChunkLen))
                                      /\ result' = a
              /\ stage' = "found"
              /\ UNCHANGED <<memory, pattern, segments, todo, segment, offset>>

\* Seeded fault: the chunks do not overlap.
Advance_NoOverlap == IF Remaining <= ChunkLen
                     THEN stage' = "segment" /\ UNCHANGED offset
                     ELSE offset' = offset + ChunkLen /\ UNCHANGED stage

\* Seeded fault: the last chunk does not end the segment.
Advance_NoBreak == offset' = offset + ChunkLen - (PatternLen - 1) /\ UNCHANGED stage

Advance == IF Remaining <= ChunkLen
           THEN stage' = "segment" /\ UNCHANGED offset
           ELSE offset' = offset + ChunkLen - (PatternLen - 1) /\ UNCHANGED stage

ChunkPassed == /\ stage = "chunk" /\ Start < segment.end
               /\ Matches(Start, Start + ChunkLen) = {}
               /\ Advance
               /\ UNCHANGED <<memory, pattern, segments, todo, segment, result>>

ReadFails == /\ stage = "chunk"
             /\ stage' = "failed"
             /\ UNCHANGED <<memory, pattern, segments, todo, segment, offset, result>>

-----------------------------------------------------------------------------

NoSegment == [base |-> 0, end |-> 0]

ScanInit == /\ memory \in [Addresses -> Bytes]
            /\ \E n \in 1 .. MaxPattern : pattern \in [1 .. n -> Tokens]
            /\ segments \in Layouts
            /\ todo = segments
            /\ segment = NoSegment /\ offset = 0 /\ stage = "segment" /\ result = 0

Scan == NextSegment \/ ChunkFound \/ ChunkPassed

ScanNext == Scan \/ ReadFails

ScanSpec == ScanInit /\ [][ScanNext]_scanVars /\ WF_scanVars(Scan)

-----------------------------------------------------------------------------
(* Properties.                                                             *)

\* The locals of the scan keep their types.
TypeOK == /\ memory \in [Addresses -> Bytes]
          /\ \E n \in 1 .. MaxPattern : pattern \in [1 .. n -> Tokens]
          /\ segments \subseteq Segment /\ todo \subseteq segments
          /\ segment \in Segment \cup {NoSegment}
          /\ offset \in Nat /\ result \in Nat
          /\ stage \in {"segment", "chunk", "found", "none", "failed"}

\* The whole module, segment by segment in one piece.
AllMatches == UNION {Matches(s.base, s.end) : s \in segments}

\* What the scan in chunks finds is the first match in the module, and it finds
\* none only if there is none: no match is lost at the border of two chunks.
FirstMatchFound == /\ stage = "found" => Least(result, AllMatches)
                   /\ stage = "none" => AllMatches = {}

\* Whatever the lengths of segments, chunks and pattern, the scan ends.
ScanEnds == <>(stage \in {"found", "none", "failed"})
=============================================================================
