------------------------------ MODULE CellDeps ------------------------------
(***************************************************************************)
(* Which cells a cell consumes: the one recipe the run queue, the scaffold *)
(* and the cache key share.  crates/ironpad-common/src/cell_deps.rs.       *)
(*                                                                         *)
(* A text is what the scanner reports of it: the slots it names (cellN),   *)
(* and whether it names `last` or the raw input buffer, which may read     *)
(* anything above.  Slot N is the cell at position N + 1.                  *)
(***************************************************************************)
EXTENDS SequencesExt

SlotRefs == [slots : SUBSET Nat, all : BOOLEAN]

\* The positions a text at position i reads directly: runnable cells above it.
Direct(refs, runnable, i) ==
    {j \in 1 .. i - 1 : j \in runnable /\ (refs.all \/ j - 1 \in refs.slots)}

\* transitive_dep_indices, for every position at once.  A dependency is always
\* above its consumer, so the worklist is a recursion down the list.
DepIndices(texts, runnable) ==
    LET dep[i \in DOMAIN texts] ==
            LET d == Direct(texts[i], runnable, i)
            IN  d \cup UNION {dep[j] : j \in d}
    IN  dep

\* normalize_previous_types: the type tags of the slots above, as far as the
\* text reads them; trailing blanks are cut off.
NormalizedTypes(refs, types, blank) ==
    LET kept == [i \in DOMAIN types |-> IF i - 1 \in refs.slots THEN types[i] ELSE blank]
        used == {i \in DOMAIN kept : kept[i] # blank}
    IN  IF refs.all THEN types
        ELSE SubSeq(kept, 1, IF used = {} THEN 0 ELSE Max(used))
=============================================================================
