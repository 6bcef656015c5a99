-------------------------- MODULE AccountNotebook --------------------------
(***************************************************************************)
(* What an account notebook promises its owner and its readers, whatever   *)
(* slots the server keeps it in: there is one working copy, what the owner *)
(* edits, and readers see a version of it or nothing.  Publishing and      *)
(* unpublishing never touch the working copy; only a save changes it, and  *)
(* a discard takes it back to what the readers see.                        *)
(***************************************************************************)
CONSTANTS
    Content,   \* the contents a notebook may have
    Nothing    \* no readers' copy, or no notebook

VARIABLES
    readers,   \* what the notebook's link resolves to
    working    \* what the owner finds when the editor opens

vars == <<readers, working>>

Init == /\ working \in Content
        /\ readers \in {Nothing, working}

Save(t)   == working # Nothing /\ working' = t /\ UNCHANGED readers
Push      == working # Nothing /\ readers' = working /\ UNCHANGED working
Discard   == readers # Nothing /\ working' = readers /\ UNCHANGED readers
Unpublish == readers' = Nothing /\ UNCHANGED working
Delete    == working' = Nothing /\ readers' = Nothing

Next == Push \/ Discard \/ Unpublish \/ Delete \/ \E t \in Content : Save(t)

Spec == Init /\ [][Next]_vars
=============================================================================
