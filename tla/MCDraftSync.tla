---------------------------- MODULE MCDraftSync ----------------------------
\* Text 2 is too large to be saved, the last one a byte longer than the others;
\* the quota takes a short one and a long one in the slots of the row, and one
\* more byte.
EXTENDS DraftSync

MCSize == [t \in Text |-> CASE t = 2 -> MaxUpload + 1 [] t = MaxText -> MaxUpload [] OTHER -> 1]

Edits(n) == minted = MaxText - n
Acts(n)  == acts = MaxActs - n
Calm     == faults = MaxFaults /\ reloads = MaxReloads
Stormy   == faults = 0 /\ reloads = 0

\* Two pages, undisturbed: one edit and two acts, or two edits and one act.
TwoPages ==
    /\ Opened(Page)
    /\ (Edits(1) /\ Acts(2)) \/ (Edits(2) /\ Acts(1))
    /\ Calm

\* One page: two edits and one act, on a network that fails, with a session
\* that ends and a user who reloads.
OnePage ==
    /\ Opened({CHOOSE p \in Page : TRUE})
    /\ Edits(2) /\ Acts(1)
    /\ Stormy

\* One page, undisturbed: the notebook grows too large, and shrinks again.
TooLarge ==
    /\ Opened({CHOOSE p \in Page : TRUE})
    /\ Edits(3) /\ Acts(1)
    /\ Calm

MCInit == TwoPages \/ OnePage \/ TooLarge

MCSpec == MCInit /\ [][Next]_vars /\ Fairness
=============================================================================
