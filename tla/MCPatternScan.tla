----------------------------- MODULE MCPatternScan -----------------------------
(***************************************************************************)
(* PatternScan on a small memory and every module of one or two segments;  *)
(* or QwordScan for qwords of two bytes, on a few mappings.                *)
(***************************************************************************)
EXTENDS PatternScan, QwordScan

MCLayouts == {S \in {{s, t} : s, t \in Segment} :
                \A s, t \in S : s = t \/ s.end <= t.base \/ t.end <= s.base}

\* One to three chunks at any border, before or behind another mapping; one that is too
\* large and one that is empty.
Map(base, end) == [base |-> base, end |-> end]
MCMappingLists == {<<Map(0, 5)>>, <<Map(0, 3), Map(3, 5)>>, <<Map(2, 5), Map(0, 2)>>,
                   <<Map(5, 15), Map(3, 3), Map(1, 5)>>}

\* One search or the other.
Searches == \/ /\ doing = "returned" /\ mappings = <<>> /\ limit = 1 /\ nth = 0
               /\ image = [a \in ImageAddresses |-> 0]
               /\ wasThere = [a \in ImageAddresses |-> {0}] /\ writes = 0
               /\ needle = [k \in 1 .. NeedleSize |-> 0]
               /\ cursor = 0 /\ carry = <<>> /\ window = <<>> /\ index = 0
               /\ hits = <<>> /\ unread = {} /\ failures = 0
               /\ ScanInit
            \/ /\ stage = "none" /\ segments = {} /\ todo = {}
               /\ memory = [a \in Addresses |-> 0] /\ pattern = <<0>>
               /\ segment = NoSegment /\ offset = 0 /\ result = 0
               /\ QwordInit

SearchSpec == /\ Searches
              /\ [][(ScanNext /\ UNCHANGED qwordVars) \/ (QwordNext /\ UNCHANGED scanVars)
                   ]_<<scanVars, qwordVars>>
              /\ WF_scanVars(Scan)
=============================================================================
