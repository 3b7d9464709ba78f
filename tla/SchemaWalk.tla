------------------------------- MODULE SchemaWalk ------------------------------
(***************************************************************************)
(* find_deadlocked_style_offsets: SchemaSystem::read walks the scopes and, *)
(* in each, the lists of classes (the buckets of a hash table, then the    *)
(* list of blobs), reading one pointer at a time from a game that may      *)
(* still be registering classes; then the fields are looked up by name.  A *)
(* failed attempt is made again by the reader that called.                 *)
(*                                                                         *)
(* Of the classes three stand for all: one that must be there, and two     *)
(* where the second is asked when the first does not have the field.  The  *)
(* game only adds to its lists, and they end: the walk itself would follow *)
(* a cyclic list for ever.  Only the classes of libclient.so are looked    *)
(* up; the walk of another scope is one step.                              *)
(***************************************************************************)
EXTENDS Integers, SequencesExt

CONSTANTS
  NumBuckets,   \* buckets of the hash table (1024)
  Entity,       \* C_BaseEntity, and with it every class that has to be there
  Base,         \* CBasePlayerController
  Derived,      \* CCSPlayerController
  Client,       \* the scope libclient.so
  Other,        \* another scope
  MaxFaults     \* bound: reads that fail

ASSUME WalkAssumption == NumBuckets \in Nat /\ MaxFaults \in Nat

VARIABLES
  scopes,    \* the game: the vector of type scopes
  lists,     \* the game: the classes on each list of the client's scope
  pawnIn,    \* the game: which controller classes have m_hPawn
  pc,        \* "idle", "scope", "head", "class", "next", "lookup" or "found"
  count,     \* type_scopes_len as read
  idx,       \* the scope being read
  list,      \* the list being walked
  element,   \* current_element or current_blob: the class it is for
  library,   \* whether scopes has the client's entry
  classes,   \* of it: the fields of each class found
  offsets,   \* the class each offset was taken from
  faults,    \* reads that failed
  known,     \* history: classes registered when the walk of the scope began
  missed     \* history: classes a failed read stands for

game == <<scopes, lists, pawnIn>>
walk == <<count, idx, list, element, library, classes>>
vars == <<scopes, lists, pawnIn, pc, count, idx, list, element, library, classes, offsets,
          faults, known, missed>>

Classes == {Entity, Base, Derived}
Lists == 1 .. NumBuckets + 1   \* the last one is the list of blobs
Fields == {"m_iHealth", "m_hPawn", "m_sSanitizedPlayerName"}
Nothing == "nothing"

FieldsOf(c) == CASE c = Entity -> {"m_iHealth"}
                 [] c = Base -> {"m_hPawn" : x \in pawnIn \cap {Base}}
                 [] c = Derived -> {"m_sSanitizedPlayerName"}
                                     \cup {"m_hPawn" : x \in pawnIn \cap {Derived}}

Registered == UNION {ToSet(lists[l]) : l \in Lists}

-----------------------------------------------------------------------------
(* The game registers its scopes and classes.                              *)

RegisterScope == /\ \E s \in {Client, Other} \ ToSet(scopes) : scopes' = Append(scopes, s)
                 /\ UNCHANGED <<lists, pawnIn, pc, walk, offsets, faults, known, missed>>

RegisterClass ==
  /\ Client \in ToSet(scopes)
  /\ \E c \in Classes \ Registered, l \in Lists :
       \E new \in {<<c>> \o lists[l], Append(lists[l], c)} :
         lists' = [lists EXCEPT ![l] = new]
  /\ UNCHANGED <<scopes, pawnIn, pc, walk, offsets, faults, known, missed>>

-----------------------------------------------------------------------------
(* The walk.                                                               *)

Fault == faults < MaxFaults /\ faults' = faults + 1

\* What hangs on the list from class c on.
From(l, c) == LET s == lists[l] IN {s[k] : k \in {k \in DOMAIN s : \E j \in 1 .. k : s[j] = c}}

Begin == /\ pc = "idle"
         /\ pc' = "scope"
         /\ count' = Len(scopes) /\ idx' = 1
         /\ UNCHANGED <<game, list, element, library, classes, offsets, faults, known, missed>>

NextScope == pc' = "scope" /\ idx' = idx + 1

\* A pointer or a name that cannot be read makes the scope pass for nameless.
ReadScope ==
  /\ pc = "scope" /\ idx <= count
  /\ \/ /\ Fault /\ NextScope
        /\ UNCHANGED <<list, library, known>>
     \/ /\ scopes[idx] = Other /\ NextScope
        /\ UNCHANGED <<list, library, faults, known>>
     \/ /\ scopes[idx] = Client
        /\ pc' = "head" /\ list' = 1 /\ library' = TRUE
        /\ known' = Registered
        /\ UNCHANGED <<idx, faults>>
  /\ UNCHANGED <<game, count, element, classes, offsets, missed>>

ScopesDone == /\ pc = "scope" /\ idx > count
              /\ pc' = "lookup"
              /\ UNCHANGED <<game, walk, offsets, faults, known, missed>>

NextList == IF list < NumBuckets + 1 THEN pc' = "head" /\ list' = list + 1 /\ UNCHANGED idx
                                     ELSE NextScope /\ UNCHANGED list

\* The head of a list; one that cannot be read passes for empty.
ReadHead ==
  /\ pc = "head"
  /\ \/ /\ lists[list] # <<>>
        /\ element' = Head(lists[list]) /\ pc' = "class"
        /\ UNCHANGED <<idx, list, faults, missed>>
     \/ /\ lists[list] = <<>> /\ NextList
        /\ UNCHANGED <<element, faults, missed>>
     \/ /\ Fault /\ NextList
        /\ missed' = missed \cup ToSet(lists[list])
        /\ UNCHANGED element
  /\ UNCHANGED <<game, count, library, classes, offsets, known>>

WithClass(fs) == [c \in DOMAIN classes \cup {element} |->
                    IF c = element THEN fs ELSE classes[c]]

\* Seeded fault: a class that cannot be read ends the list.
ReadClass_Ends ==
  /\ pc = "class"
  /\ \/ /\ classes' = WithClass(FieldsOf(element))
        /\ pc' = "next"
        /\ UNCHANGED <<idx, list, faults, missed>>
     \/ /\ Fault /\ NextList
        /\ missed' = missed \cup {element}
        /\ UNCHANGED classes
  /\ UNCHANGED <<game, count, element, library, offsets, known>>

\* Class::read: without a name the class is left out, without a count or an
\* entry of a field the field.
ReadClass ==
  /\ pc = "class" /\ pc' = "next"
  /\ \/ /\ classes' = WithClass(FieldsOf(element))
        /\ UNCHANGED <<faults, missed>>
     \/ /\ Fault
        /\ missed' = missed \cup {element}
        /\ \/ UNCHANGED classes
           \/ \E fs \in SUBSET FieldsOf(element) : classes' = WithClass(fs)
  /\ UNCHANGED <<game, count, idx, list, element, library, offsets, known>>

\* The element's data pointer or its link cannot be read: the list ends here.
LinkFails ==
  /\ pc \in {"class", "next"}
  /\ Fault /\ NextList
  /\ missed' = missed \cup (From(list, element) \ (IF pc = "next" THEN {element} ELSE {}))
  /\ UNCHANGED <<game, count, element, library, classes, offsets, known>>

ReadNext ==
  /\ pc = "next"
  /\ LET s == lists[list]
         k == CHOOSE k \in DOMAIN s : s[k] = element
     IN \/ /\ k < Len(s)
           /\ element' = s[k + 1] /\ pc' = "class"
           /\ UNCHANGED <<idx, list>>
        \/ /\ k = Len(s) /\ NextList
           /\ UNCHANGED element
  /\ UNCHANGED <<game, count, library, classes, offsets, faults, known, missed>>

\* A read before the walk fails, or a pattern is not found: the attempt is an error.
AttemptFails == /\ pc = "idle" /\ Fault
                /\ UNCHANGED <<game, pc, walk, offsets, known, missed>>

-----------------------------------------------------------------------------
(* The offsets.                                                            *)

\* get_class(..).and_then(get(..)), over the classes to ask in turn.
Lookup(asked, field) ==
  LET having == SelectSeq(asked, LAMBDA c : c \in DOMAIN classes /\ field \in classes[c])
  IN IF having = <<>> THEN Nothing ELSE Head(having)

\* Seeded fault: the second class is not asked.
Found_NoFallback == [health |-> Lookup(<<Entity>>, "m_iHealth"),
                     pawn |-> Lookup(<<Base>>, "m_hPawn"),
                     name |-> Lookup(<<Derived>>, "m_sSanitizedPlayerName")]

Found == [health |-> Lookup(<<Entity>>, "m_iHealth"),
          pawn |-> Lookup(<<Base, Derived>>, "m_hPawn"),
          name |-> Lookup(<<Derived>>, "m_sSanitizedPlayerName")]

\* The locals end with the attempt.
Return == /\ count' = 0 /\ idx' = 1 /\ list' = 1 /\ element' = Entity
          /\ library' = FALSE /\ classes' = <<>> /\ known' = {} /\ missed' = {}

\* Of the fields read only the sanitized name and m_aimPunchAngle may be missing; the
\* name stands for both.
LookUp == /\ pc = "lookup"
          /\ IF library /\ Found.health # Nothing /\ Found.pawn # Nothing
             THEN pc' = "found" /\ offsets' = Found
             ELSE pc' = "idle" /\ UNCHANGED offsets
          /\ Return
          /\ UNCHANGED <<game, faults>>

-----------------------------------------------------------------------------

Init == /\ scopes = <<>> /\ lists = [l \in Lists |-> <<>>]
        /\ pawnIn \in SUBSET {Base, Derived} \ {{}}
        /\ pc = "idle" /\ count = 0 /\ idx = 1 /\ list = 1 /\ element = Entity
        /\ library = FALSE /\ classes = <<>> /\ offsets = <<>>
        /\ faults = 0 /\ known = {} /\ missed = {}

Walk == \/ Begin \/ ReadScope \/ ScopesDone \/ ReadHead \/ ReadClass \/ LinkFails
        \/ ReadNext \/ AttemptFails \/ LookUp

Next == RegisterScope \/ RegisterClass \/ Walk

\* The reader tries again until it has the offsets; whether the game ever registers
\* everything is up to the game.
Spec == Init /\ [][Next]_vars /\ WF_vars(Walk)

-----------------------------------------------------------------------------
(* Properties.                                                             *)

\* However the game adds to its lists under the walk: a class registered when the
\* walk of the scope began is found with all its fields, unless a read failed for
\* which it stands; one failed read costs no more than what hangs on it.
RegisteredIsFound ==
  pc = "lookup" =>
    \A c \in known \ missed : c \in DOMAIN classes /\ classes[c] = FieldsOf(c)

\* Once the game has registered its scopes and classes the offsets are found, by a
\* walk that ends though the lists grew under the ones before, and although any of
\* them may have failed.
OffsetsFound ==
  Registered = Classes ~> pc = "found" /\ offsets.pawn \in pawnIn

=============================================================================
