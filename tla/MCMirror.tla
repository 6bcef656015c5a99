------------------------------ MODULE MCMirror ------------------------------
(* Small instances of Mirror for TLC. *)
EXTENDS Mirror, TLC

RequestSymmetry == Permutations(Request)

OneCell == <<CHOOSE c \in Cell : TRUE>>
AnyText == CHOOSE t \in Text : TRUE
=============================================================================
