---------------------------- MODULE NotebookOps -----------------------------
(***************************************************************************)
(* The notebook document and the structural operations on it that the     *)
(* browser (the authority) and the agents' daemons (mirrors) share:        *)
(* crates/ironpad-common/src/notebook_ops.rs and the patch types of        *)
(* protocol.rs.                                                            *)
(*                                                                         *)
(* A document is the order of its cells, what each cell holds, and the     *)
(* notebook's own shared source.  A cell's text stands for its source and  *)
(* its Cargo.toml (both are content, saved and versioned alike); label and *)
(* collapse defaults are left out, so a patch that changes neither text    *)
(* nor shared is an edit of one of those.  Every cell is a Code cell: the  *)
(* other types only ever subtract behaviour (they never run or go stale).  *)
(***************************************************************************)
EXTENDS Naturals, Sequences, FiniteSets, Lists

CONSTANTS
    Cell,     \* cell ids (fresh uuids)
    Text,     \* what a cell or the notebook's shared source may say
    Same,     \* a patch field that is not set
    Top       \* after_cell_id = None

ASSUME SameAssumption == Same \notin Text /\ Same \notin BOOLEAN
ASSUME TopAssumption  == Top \notin Cell

CellState == [text: Text, shared: BOOLEAN, version: Nat]
Patch     == [text: Text \cup {Same}, shared: BOOLEAN \cup {Same}]

NewCell(t, s) == [text |-> t, shared |-> s, version |-> 0]

Listed(d) == DOMAIN d.cell

Place(order, c) == CHOOSE i \in DOMAIN order : order[i] = c

\* Where a cell added after `after` goes: behind it, at the end when that cell
\* was deleted meanwhile, at the top when none was named.
InsertAtPlace(order, after) ==
    CASE after = Top           -> 1
      [] after \in ToSet(order) -> Place(order, after) + 1
      [] OTHER                 -> Len(order) + 1

Inserted(d, c, content, after) ==
    [d EXCEPT !.order = InsertAt(@, InsertAtPlace(@, after), c),
              !.cell  = [x \in DOMAIN @ \cup {c} |-> IF x = c THEN content ELSE @[x]]]

Removed(d, c) ==
    [d EXCEPT !.order = Without(@, {c}),
              !.cell  = [x \in DOMAIN @ \ {c} |-> @[x]]]

\* Mutation: a cell the list leaves out is dropped.
ReorderedListed(d, ids) ==
    [d EXCEPT !.order = Only(ids, Listed(d))]

\* Listed ids first, in the order given, then whatever the list leaves out.
Reordered(d, ids) ==
    [d EXCEPT !.order = Only(ids, Listed(d)) \o Without(@, ToSet(ids))]

\* The list with its i-th cell dragged to place j.
Moved(order, i, j) == InsertAt(RemoveAt(order, i), j, order[i])

Field(new, old) == IF new = Same THEN old ELSE new

\* Mutation: the new version is not stamped on the cell.
PatchedUnstamped(d, c, patch, version) ==
    IF c \in Listed(d)
    THEN [d EXCEPT !.cell[c].text = Field(patch.text, @), !.cell[c].shared = Field(patch.shared, @)]
    ELSE d

Patched(d, c, patch, version) ==
    IF c \in Listed(d)
    THEN [d EXCEPT !.cell[c] = [text    |-> Field(patch.text, @.text),
                                shared  |-> Field(patch.shared, @.shared),
                                version |-> version]]
    ELSE d

MetaPatched(d, meta) == [d EXCEPT !.meta = Field(meta, @)]

(***************************************************************************)
(* Mutations and events.  An event repeats the mutation the host applied,  *)
(* except that an update's event carries the version it produced.          *)
(***************************************************************************)
Add(c, t, s, after)    == [op |-> "add", cell |-> c, content |-> NewCell(t, s), after |-> after]
Update(c, patch, v)    == [op |-> "update", cell |-> c, patch |-> patch, version |-> v]
Delete(c, v)           == [op |-> "delete", cell |-> c, version |-> v]
Reorder(ids)           == [op |-> "reorder", ids |-> ids]
UpdateMeta(meta)       == [op |-> "meta", meta |-> meta]

SetText(t)   == [text |-> t, shared |-> Same]
SetShared(s) == [text |-> Same, shared |-> s]
SetLabel     == [text |-> Same, shared |-> Same]

EventOf(m) == IF m.op = "update" THEN [m EXCEPT !.version = @ + 1] ELSE m
=============================================================================
