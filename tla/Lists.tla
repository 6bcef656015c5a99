------------------------------- MODULE Lists -------------------------------
(***************************************************************************)
(* What is left of a list (a notebook's cells, the run queue) when members *)
(* are taken out of it: Vec::retain and Iterator::filter.                  *)
(***************************************************************************)
EXTENDS SequencesExt

\* The members of s that are in S, in their order.
Only(s, S) ==
    LET kept[i \in 0 .. Len(s)] ==
            IF i = 0 THEN <<>>
            ELSE IF s[i] \in S THEN Append(kept[i - 1], s[i]) ELSE kept[i - 1]
    IN  kept[Len(s)]

\* The members of s that are not in S.
Without(s, S) == Only(s, ToSet(s) \ S)
=============================================================================
