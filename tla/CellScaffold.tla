---------------------------- MODULE CellScaffold ----------------------------
(***************************************************************************)
(* What is put around a cell before rustc sees it, and how the lines rustc *)
(* complains about find their way back to the editor.                      *)
(* crates/ironpad-app/src/compiler/{scaffold,diagnostics}.rs; the shared   *)
(* cells of crates/ironpad-common/src/types.rs and the dependencies of     *)
(* cache_key.rs there.                                                     *)
(*                                                                         *)
(* A file is a sequence of lines, each <<what, number>>: the number is the *)
(* line's own in the text somebody typed, and 0 for a generated line.  Of  *)
(* a cell's text only what the detectors report of it is kept:             *)
(*   kind   "code", "simulation", "liveView" or "linux"                    *)
(*   lines  how many it has                                                *)
(*   gates  the language features it needs, a subset of Gates              *)
(*   slots, last, raw   the outputs above that it reads, by number, as the *)
(*          last one, or as the raw buffer                                 *)
(* A type tag of an output above is a text of one line; NoTag is empty.    *)
(***************************************************************************)
EXTENDS CellDeps

Gates == {"autodiff", "simd", "coroutines", "gen"}
NoTag == <<>>

Lines(texts)   == [i \in DOMAIN texts |-> <<texts[i], 0>>]
If(cond, text) == IF cond THEN <<text>> ELSE <<>>
One(cond)      == IF cond THEN 1 ELSE 0

-----------------------------------------------------------------------------
(***************************************************************************)
(* The generated file.                                                     *)
(***************************************************************************)

SharedMod(hasShared) == If(hasShared, "mod shared;")

\* Each is put before what is there; a Linux cell writes its own.
GateLines(c) ==
    If("gen" \in c.gates, "feature(gen_blocks)") \o If("coroutines" \in c.gates, "feature(coroutines)")
    \o If("simd" \in c.gates, "feature(portable_simd)") \o If("autodiff" \in c.gates, "feature(autodiff)")

\* The slots that get a typed binding.
TypedCells(c, types) ==
    SelectSeq([i \in DOMAIN types |-> i - 1],
              LAMBDA slot : types[slot + 1] # NoTag /\ (c.last \/ slot \in c.slots))

Reconstructs(c, types) == TypedCells(c, types) # <<>> \/ (c.raw /\ types # <<>>)

Bindings(c, types) ==
    LET typed == TypedCells(c, types)
    IN  IF ~Reconstructs(c, types) THEN <<>>
        ELSE <<"let input_ptr", "let input_len", "let __ironpad_inputs__">>
             \o [i \in DOMAIN typed |-> <<typed[i], types[typed[i] + 1]>>]
             \o If(c.last /\ typed # <<>>, "let last")

\* generate_lib_rs: a fragment becomes the body of a function, whole items stay
\* at the top.  generate_main_rs: a program keeps the top of the file.
Above(c, types, hasShared) ==
    CASE c.kind = "linux" -> <<>>
      [] c.kind = "code" ->
            GateLines(c) \o <<"use prelude">> \o SharedMod(hasShared)
            \o <<"", "#[wasm_bindgen]", "fn cell_main", "fn __ironpad_user__", "panic hook">>
            \o Bindings(c, types) \o <<"let output">>
      [] OTHER -> GateLines(c) \o <<"use prelude">> \o SharedMod(hasShared) \o <<"">>

Below(c, hasShared) ==
    IF c.kind = "linux" THEN SharedMod(hasShared) ELSE <<"the rest of the wrapper">>

File(c, types, hasShared) ==
    Lines(Above(c, types, hasShared)) \o [k \in 1 .. c.lines |-> <<"own", k>>]
        \o Lines(Below(c, hasShared))

\* preamble_lines: counted beside the text, not from it.
PreambleLines(c, types, hasShared) ==
    LET typed == TypedCells(c, types)
    IN  CASE c.kind = "linux" -> 0
          [] c.kind = "code" ->
                7 + One(hasShared) + 3 * One(Reconstructs(c, types))
                + Len(typed) + One(c.last /\ typed # <<>>) + Cardinality(c.gates)
          [] OTHER -> 2 + One(hasShared) + Cardinality(c.gates)

-----------------------------------------------------------------------------
(***************************************************************************)
(* shared.rs: the notebook's shared source, if any, and the shared cells,  *)
(* in order, with a blank line between them.  A part is [id, lines].       *)
(***************************************************************************)

SharedParts(base, cells) == base \o SelectSeq(cells, LAMBDA c : c.shared)

PartLines(part) == [k \in 1 .. part.lines |-> <<part.id, k>>]

\* effective_shared_source.
Assembly(parts) ==
    FoldLeft(LAMBDA file, part : file \o Lines(If(file # <<>>, "")) \o PartLines(part), <<>>, parts)

\* shared_cell_line_offset: the lines before the n-th part.
LineOffset(parts, n) ==
    FoldLeft(LAMBDA sum, part : sum + part.lines + 1, 0, SubSeq(parts, 1, n - 1))

-----------------------------------------------------------------------------
(***************************************************************************)
(* The way back: lines of the file to lines of the editor.                 *)
(***************************************************************************)

Nowhere == [start |-> 0, end |-> 0]

AdjustSpan(s, preamble) ==
    IF s.start <= preamble THEN Nowhere
    ELSE [start |-> s.start - preamble, end |-> Max({s.end, s.start}) - preamble]

\* Only what starts in the `count` lines after the first `first`; the end is
\* clamped to them.
RemapSharedSpan(s, first, count) ==
    LET start == s.start - first
    IN  IF start \notin 1 .. count THEN Nowhere
        ELSE [start |-> start, end |-> Min({count, Max({start, s.end - first})})]

\* What a message with one primary span becomes: where it is shown, if at all.
CellMessage(file, s, preamble) ==
    [shown    |-> TRUE,
     span     |-> IF file = "body" THEN AdjustSpan(s, preamble) ELSE Nowhere,
     inShared |-> file = "shared"]

SharedMessage(file, s, first, count) ==
    LET span == IF file = "shared" THEN RemapSharedSpan(s, first, count) ELSE Nowhere
    IN  [shown |-> span # Nowhere, span |-> span, inShared |-> FALSE]

-----------------------------------------------------------------------------
(***************************************************************************)
(* The manifest.  Dependencies are matched by name, with '-' read as '_',  *)
(* other sections by header: the cell's takes the place of the notebook's. *)
(***************************************************************************)

Overridden(notebook, cell) ==
    FoldLeft(LAMBDA merged, entry :
                LET same == {i \in DOMAIN merged : merged[i].name = entry.name}
                IN  IF same = {} THEN Append(merged, entry)
                                 ELSE [merged EXCEPT ![Min(same)] = entry],
             notebook, cell)

UserEntries(deps) == SelectSeq(deps, LAMBDA e : e.name # "ironpad_cell")

\* merge_dependencies, rendered: lines first, subtables after them.
MergedDependencies(notebook, cell) ==
    LET merged == Overridden(UserEntries(notebook), UserEntries(cell))
    IN  SelectSeq(merged, LAMBDA e : e.form = "inline")
        \o SelectSeq(merged, LAMBDA e : e.form = "section")

\* merged_deps_contain_rayon looks at the entries before they are merged.
ContainsRayon(notebook, cell) ==
    \E e \in ToSet(UserEntries(notebook)) \cup ToSet(UserEntries(cell)) : e.name = "rayon"

\* The sections the scaffold writes itself are its own, and empty ones are lost.
\* A body is a sequence of [key, value].
Extra(sections) ==
    SelectSeq(sections, LAMBDA s : s.name \notin {"package", "lib", "workspace"} /\ s.body # <<>>)

ExtraSections(notebook, cell) == Overridden(Extra(notebook), Extra(cell))

Forced == <<[key |-> "lto", value |-> "fat"], [key |-> "codegen-units", value |-> "1"]>>

\* enforce_autodiff_profile.
AutodiffProfile(sections) ==
    LET Forcing(s) ==
            IF s.name # "profile.release" THEN s
            ELSE [s EXCEPT !.body = Forced \o SelectSeq(@, LAMBDA l :
                                        l.key \notin {"lto", "codegen-units"})]
    IN  [i \in DOMAIN sections |-> Forcing(sections[i])]
        \o If(\A i \in DOMAIN sections : sections[i].name # "profile.release",
              [name |-> "profile.release", body |-> Forced])

\* generate_cargo_toml, generate_linux_cargo_toml: names under [dependencies],
\* and the sections after it.
Manifest(kind, autodiff, notebook, cell) ==
    LET merged == MergedDependencies(notebook.deps, cell.deps)
        names  == [i \in DOMAIN merged |-> merged[i].name]
        extra  == ExtraSections(notebook.sections, cell.sections)
    IN  [deps     |-> (IF kind = "linux" THEN <<>> ELSE <<"ironpad_cell", "wasm_bindgen">>) \o names,
         sections |-> IF autodiff /\ kind # "linux" THEN AutodiffProfile(extra) ELSE extra]
=============================================================================
