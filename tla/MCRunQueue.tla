----------------------------- MODULE MCRunQueue -----------------------------
\* Two cells; the lower one reads the first slot, the last result, or nothing.
EXTENDS RunQueue

CONSTANTS a, b

Plain == [slots |-> {}, all |-> FALSE]
Reads == [slots |-> {0}, all |-> FALSE]

MCText  == {Plain, Reads}
MCOrder == <<a, b>>
MCTexts == <<Plain, Reads>>

\* Tasks are numbers, and the first free one is taken: any other run is one of
\* these with its tasks renamed.
FirstFree ==
    \A k, l \in Task : k < l /\ task[k] = NoTask /\ task[l] = NoTask => task'[l] = NoTask

OrderedFairSpec == Init /\ [][Next /\ FirstFree]_vars /\ Fairness

-----------------------------------------------------------------------------
(***************************************************************************)
(* CellDeps on its own, over every notebook of up to three cells.          *)
(***************************************************************************)

Refs == {[slots |-> s, all |-> f] : s \in SUBSET (0 .. 1), f \in BOOLEAN}

\* j is reached from i along direct reads.
Reached(texts, runnable, i, j) ==
    \E n \in 2 .. 3 : \E path \in [1 .. n -> 1 .. 3] :
        /\ path[1] = i /\ path[n] = j
        /\ \A k \in 1 .. n - 1 : path[k + 1] \in Direct(texts[path[k]], runnable, path[k])

\* A cell's dependencies are what it reaches by direct reads, however far up.
ASSUME DependenciesAreReached ==
    \A texts \in [1 .. 3 -> Refs], runnable \in SUBSET (1 .. 3), i \in 1 .. 3 :
        DepIndices(texts, runnable)[i] = {j \in 1 .. 3 : Reached(texts, runnable, i, j)}

TypeLists == UNION {[1 .. n -> {"-", "x", "y"}] : n \in 0 .. 3}
Slot(types, i) == IF i \in DOMAIN types THEN types[i] ELSE "-"

\* What goes into the cache key of a cell is the same for two notebooks exactly
\* when the slots its text reads have the same types in both: a cell added or
\* changed above it, which it does not read, costs no rebuild.
ASSUME OnlyReadSlotsMatter ==
    \A refs \in {r \in Refs : ~r.all}, s, t \in TypeLists :
        NormalizedTypes(refs, s, "-") = NormalizedTypes(refs, t, "-")
            <=> \A i \in refs.slots : Slot(s, i + 1) = Slot(t, i + 1)
=============================================================================
