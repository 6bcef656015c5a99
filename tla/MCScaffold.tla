----------------------------- MODULE MCScaffold -----------------------------
(* What the scaffold, the diagnostics and the cache key compute, against    *)
(* what they are for, over small inputs.                                    *)
EXTENDS CellScaffold, CacheKey, TLC

Kinds    == {"code", "simulation", "liveView", "linux"}
TypeSeqs == UNION {[1 .. n -> {NoTag, <<1>>}] : n \in 0 .. 3}

Cells(gates) ==
    [kind : Kinds, lines : {2}, gates : gates, slots : SUBSET (0 .. 1), last : BOOLEAN, raw : BOOLEAN]

\* scaffold.rs:690, diagnostics.rs:204: whatever is put above a cell, a message
\* about one of its lines is shown at that line, and a message about the lines
\* above it at none; so the count kept beside the generated text is right.
ASSUME MessagesComeHome ==
    \A c \in Cells({{}, {"gen"}, Gates}), types \in TypeSeqs, hasShared \in BOOLEAN :
        LET file == File(c, types, hasShared)
            last == Len(Above(c, types, hasShared)) + c.lines
        IN  \A p \in 1 .. last : \A e \in {p, last} :
                LET s == AdjustSpan([start |-> p, end |-> e], PreambleLines(c, types, hasShared))
                IN  /\ s.start = file[p][2]
                    /\ IF s.start = 0 THEN s = Nowhere ELSE s.end = file[e][2]

\* What a cell reads by name is bound to the output of that name, once
\* (scaffold.rs:583).
ASSUME NamesAreBound ==
    \A c \in Cells({{}}), types \in TypeSeqs :
        \A slot \in {s \in c.slots : s + 1 \in DOMAIN types /\ types[s + 1] # NoTag} :
            LET bound == Bindings(c, types)
            IN  Cardinality({i \in 4 .. 3 + Len(TypedCells(c, types)) :
                                bound[i] = <<slot, types[slot + 1]>>}) = 1

Ids   == <<"a", "b", "c">>
Bases == {<<>>} \cup {<<[id |-> "notebook", lines |-> n]>> : n \in 1 .. 2}
SharedLists ==
    {[i \in 1 .. 3 |-> [id |-> Ids[i], lines |-> ls[i], shared |-> sh[i]]] :
        ls \in [1 .. 3 -> 1 .. 2], sh \in [1 .. 3 -> BOOLEAN]}

\* types.rs:655, diagnostics.rs:227: the slice of a shared cell is the part of
\* shared.rs the cell wrote.  A message is shown to the cell whose line it
\* starts at, at that line, and to no other, and ends inside the cell.
ASSUME SlicesAreOwn ==
    \A base \in Bases, cells \in SharedLists :
        LET parts == SharedParts(base, cells)
            file  == Assembly(parts)
        IN  \A n \in DOMAIN parts, p \in DOMAIN file : \A e \in p .. Len(file) :
                LET told == SharedMessage("shared", [start |-> p, end |-> e],
                                          LineOffset(parts, n), parts[n].lines)
                IN  /\ told.shown <=> file[p][1] = parts[n].id
                    /\ told.shown => /\ told.span.start = file[p][2]
                                     /\ told.span.end \in told.span.start .. parts[n].lines
                                     /\ file[e][1] = parts[n].id => told.span.end = file[e][2]

Deps == {[name |-> n, form |-> f, from |-> w] :
            n \in {"ironpad_cell", "rayon", "x"}, f \in {"inline", "section"}, w \in {"notebook", "cell"}}
DepLists(w) == {s \in UNION {[1 .. n -> {d \in Deps : d.from = w}] : n \in 0 .. 2} :
                    \A i, j \in DOMAIN s : s[i].name = s[j].name => i = j}

\* cache_key.rs:482: the merged dependencies name each crate once, the cell's
\* where both name it, with every subtable after every line; and the question
\* whether rayon is among them is answered for that list (515).
ASSUME CellsDependencyWins ==
    \A notebook \in DepLists("notebook"), cell \in DepLists("cell") :
        LET merged == MergedDependencies(notebook, cell)
        IN  /\ ToSet(merged) =
                 {d \in ToSet(cell) \cup ToSet(notebook) :
                     /\ d.name # "ironpad_cell"
                     /\ d.from = "notebook" => \A e \in ToSet(cell) : e.name # d.name}
            /\ Cardinality({d.name : d \in ToSet(merged)}) = Len(merged)
            /\ \A i, j \in DOMAIN merged :
                   i < j /\ merged[i].form = "section" => merged[j].form = "section"
            /\ ContainsRayon(notebook, cell) <=> \E d \in ToSet(merged) : d.name = "rayon"

Body(lto, w)  == If(lto, [key |-> "lto", value |-> "thin"]) \o <<[key |-> "opt-level", value |-> w]>>
Sections(w)   == {<<>>} \cup {<<[name |-> n, body |-> b]>> :
                     n \in {"package", "features", "profile.release"},
                     b \in {<<>>, Body(TRUE, w), Body(FALSE, w)}}

\* scaffold.rs:334: with autodiff the one release profile has fat LTO, once, and
\* keeps what else the author wrote in it; no other section is touched.
ASSUME AutodiffHasItsProfile ==
    \A notebook \in Sections("1"), cell \in Sections("2"), kind \in Kinds \ {"linux"} :
        LET Of(autodiff) == Manifest(kind, autodiff, [deps |-> <<>>, sections |-> notebook],
                                     [deps |-> <<>>, sections |-> cell]).sections
            Release(s) == {i \in DOMAIN s : s[i].name = "profile.release"}
            Keys(s, keep) == {l \in UNION {ToSet(s[i].body) : i \in Release(s)} : keep <=> l.key # "lto"}
            plain == Of(FALSE)
            with  == Of(TRUE)
        IN  /\ Cardinality(Release(with)) = 1
            /\ Keys(with, FALSE) = {Forced[1]}
            /\ Keys(plain, TRUE) \subseteq Keys(with, TRUE)
            /\ {s \in ToSet(plain) : s.name # "profile.release"} =
                   {s \in ToSet(with) : s.name # "profile.release"}

-----------------------------------------------------------------------------
Text    == {<<>>, <<0>>, <<1>>}
Maybe   == {<<>>, <<<<>>>>, <<<<0>>>>, <<<<1>>>>}
Linux   == <<2>>
Inputs  == [source : Text \cup {<<2>>}, cargoToml : Text, triple : {<<1>>, Linux},
            types : UNION {[1 .. n -> {NoTag, <<1>>}] : n \in 0 .. 2},
            sharedCargoToml : Maybe, sharedSource : Maybe, toolchain : {<<0>>, <<1>>}]

\* The sources <<0>>, <<1>> and <<2>> read the slot 0, the last output, the raw buffer.
CellOf(in) == [kind |-> IF in.triple = Linux THEN "linux" ELSE "code", lines |-> 1, gates |-> {},
               slots |-> IF in.source = <<0>> THEN {0} ELSE {},
               last |-> in.source = <<1>>, raw |-> in.source = <<2>>]
Key(in)    == LET c == CellOf(in)
              IN  HashInput(in, [slots |-> c.slots, all |-> c.last \/ c.raw], Linux)
Built(in)  == <<[in EXCEPT !.types = <<>>],
                File(CellOf(in), in.types, in.sharedSource # <<>>)>>

\* cache_key.rs:278: calls whose keys are hashed from the same bytes are built
\* from the same texts, so that what one stored is what the other would build.
ASSUME EqualKeysBuildTheSame ==
    Cardinality({Key(in) : in \in Inputs}) = Cardinality({<<Key(in), Built(in)>> : in \in Inputs})
=============================================================================
