----------------------------- MODULE MCCompile ------------------------------
(* Small instances of Compile for TLC, and what the scaffold, the diagnostics *)
(* and the cache key compute over small inputs.                               *)
EXTENDS Compile, MCScaffold

CONSTANTS dashed, underscored, other, shared, own, good, fine, bad

\* Two spellings of one output name, and a cell of its own.
MCArtifactOf == dashed :> shared @@ underscored :> shared @@ other :> own

Of(k, c, s, f) == [kind |-> k, cell |-> c, source |-> s, force |-> f]

\* Two sources meet in one output, one source meets itself in two outputs.
MCAsks == {Of("compile", dashed, good, FALSE), Of("compile", underscored, fine, TRUE),
           Of("compile", other, good, FALSE), Of("check", dashed, bad, FALSE)}

\* One cell, edited between two compiles.
EditedAsks == {Of("compile", dashed, good, FALSE), Of("compile", dashed, fine, FALSE)}

\* Requests are numbers, and are used in order: any other run is one of these
\* with its requests renamed.
InOrder ==
    \A q, r \in Request : q < r /\ pc[r] # "new" => pc[q] # "new"

OrderedSpec     == Init /\ [][Next /\ InOrder']_vars
OrderedFairSpec == OrderedSpec /\ Fairness
=============================================================================
