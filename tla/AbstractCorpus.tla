--------------------------- MODULE AbstractCorpus ---------------------------
(***************************************************************************)
(* What internal/passworddb promises to an operator and to a reader,       *)
(* without slots, locks or files: a set of stored generations, one of      *)
(* which may be selected, and readers that each pin the generation that    *)
(* was selected when they opened.  A generation disappears only when it is *)
(* neither selected nor pinned.                                            *)
(***************************************************************************)

CONSTANTS Gens, Readers, NoGen

VARIABLES
    stored,     \* generations whose payload can be loaded
    selected,   \* the generation a new reader gets, or NoGen
    pinned      \* [Readers -> Gens \cup {NoGen}]

avars == <<stored, selected, pinned>>

AInit ==
    /\ stored = {}
    /\ selected = NoGen
    /\ pinned = [r \in Readers |-> NoGen]

\* An import completes the payload of a new generation.
Store(g) ==
    /\ stored' = stored \cup {g}
    /\ UNCHANGED <<selected, pinned>>

\* An activation selects a generation that is stored.
Publish(g) ==
    /\ g \in stored
    /\ selected' = g
    /\ UNCHANGED <<stored, pinned>>

\* A prune, or the cleanup of a failed import, takes a generation away.
Reclaim(g) ==
    /\ g # selected
    /\ \A r \in Readers : pinned[r] # g
    /\ stored' = stored \ {g}
    /\ UNCHANGED <<selected, pinned>>

\* A reader gets the selected generation and no other.
Pin(r) ==
    /\ pinned[r] = NoGen
    /\ selected # NoGen
    /\ pinned' = [pinned EXCEPT ![r] = selected]
    /\ UNCHANGED <<stored, selected>>

\* A reader closes its snapshot or dies.
Unpin(r) ==
    /\ pinned' = [pinned EXCEPT ![r] = NoGen]
    /\ UNCHANGED <<stored, selected>>

ANext ==
    \/ \E g \in Gens : Store(g) \/ Publish(g) \/ Reclaim(g)
    \/ \E r \in Readers : Pin(r) \/ Unpin(r)

ASpec == AInit /\ [][ANext]_avars
=============================================================================
