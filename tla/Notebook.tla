------------------------------ MODULE Notebook ------------------------------
(***************************************************************************)
(* The notebook an editor page owns: NotebookModel::apply, through which   *)
(* every edit of the browser and of the agents goes, and the editor panes  *)
(* of the cells, whose text reaches the model by a debounced save.         *)
(* crates/ironpad-app/src/model.rs and pages/notebook_editor/cell_item.rs. *)
(*                                                                         *)
(* The page is single threaded.  A step is one event handler (a keystroke, *)
(* a click, a timer, an agent's message) with the effects it queues: those *)
(* run before the next handler does.                                       *)
(*                                                                         *)
(* What the agents send is arbitrary: any mutation, with any version.      *)
(***************************************************************************)
EXTENDS NotebookOps

CONSTANTS
    InitialOrder,   \* the cells of the notebook that is opened, in order
    DefaultText,    \* the text of every cell at first, and of a new one
    MaxVersion,     \* bound: nobody starts an edit of a cell at this version
    AgentVersion    \* the versions an agent's mutation may carry

ASSUME InitialAssumption == InitialOrder \in Seq(Cell) /\ IsInjective(InitialOrder)
ASSUME TextAssumption    == DefaultText \in Text

VARIABLES
    doc,       \* the notebook signal
    versions,  \* cell_versions: what an update or a delete is checked against
    cells,     \* the derived list of cell manifests
    stale,     \* cell_stale
    used,      \* every cell id generated so far
    pane,      \* [text, dirty, timer] of each mounted cell's editor
    \* history, read by no guard
    typed,     \* cells whose pane holds text the user typed and has not saved
    executed   \* cells that ran successfully at least once

model   == <<doc, versions, cells, stale, used>>
history == <<typed, executed>>
vars    == <<model, pane, history>>

Manifests(d) == [i \in DOMAIN d.order |->
                    [id |-> d.order[i], shared |-> d.cell[d.order[i]].shared]]

\* sync_from_notebook: rebuild the list, and track cells not tracked yet.
Synced(v, d) == [c \in DOMAIN v \cup Listed(d) |->
                    IF c \in DOMAIN v THEN v[c] ELSE d.cell[c].version]

CurrentVersion(c) == IF c \in DOMAIN versions THEN versions[c] ELSE 0

\* Mutation: an edited cell is not counted among those below it.
RunnableBelow(i) == {cells[j].id : j \in {j \in i + 1 .. Len(cells) : ~cells[j].shared}}

\* The cells Run All executes, in the manifest list from position i on.
RunnableFrom(i) == {cells[j].id : j \in {j \in i .. Len(cells) : ~cells[j].shared}}

\* A cell missing from the list marks nothing.
Downstream(c) == UNION {RunnableFrom(i) : i \in {i \in DOMAIN cells : cells[i].id = c}}

OpenPane(t)  == [text |-> t, dirty |-> FALSE, timer |-> FALSE]

\* Mutation: the debounce is not started.
EditedPaneUnarmed(t) == [text |-> t, dirty |-> TRUE, timer |-> FALSE]

EditedPane(t) == [text |-> t, dirty |-> TRUE, timer |-> TRUE]

Init ==
    /\ doc = [order |-> InitialOrder,
              cell  |-> [c \in ToSet(InitialOrder) |-> NewCell(DefaultText, FALSE)],
              meta  |-> DefaultText]
    /\ cells = Manifests(doc)
    /\ versions = [c \in ToSet(InitialOrder) |-> 0]
    /\ stale = {}
    /\ used = ToSet(InitialOrder)
    /\ pane = [c \in ToSet(InitialOrder) |-> OpenPane(DefaultText)]
    /\ typed = {} /\ executed = {}

-----------------------------------------------------------------------------
(***************************************************************************)
(* NotebookModel::apply, one definition per mutation.                      *)
(***************************************************************************)

\* cell_add: never refused.
CellAdd(m) ==
    /\ m.cell \in Cell \ used
    /\ doc' = Inserted(doc, m.cell, m.content, m.after)
    /\ versions' = Synced([c \in DOMAIN versions \cup {m.cell} |->
                              IF c = m.cell THEN 0 ELSE versions[c]], doc')
    /\ cells' = Manifests(doc')
    /\ used' = used \cup {m.cell}
    /\ UNCHANGED stale

\* cell_update: the version check comes before the existence check.
UpdateVerdict(m) ==
    IF m.version # CurrentVersion(m.cell) THEN "VersionConflict"
    ELSE IF m.cell \notin Listed(doc) THEN "CellNotFound" ELSE "Ok"

\* Label, collapse defaults and the shared flag are repeated in the manifest.
InManifest(patch) == patch.text = Same \/ patch.shared # Same

CellUpdate(m) ==
    LET old            == doc.cell[m.cell]
        contentChanged == Field(m.patch.text, old.text) # old.text
        affectsShared  == \/ Field(m.patch.shared, old.shared) # old.shared
                          \/ old.shared /\ contentChanged
    IN  /\ UpdateVerdict(m) = "Ok"
        /\ doc' = Patched(doc, m.cell, m.patch, CurrentVersion(m.cell) + 1)
        /\ versions' = [versions EXCEPT ![m.cell] = @ + 1]
        /\ stale' = stale \cup (IF affectsShared THEN RunnableFrom(1)
                              ELSE IF contentChanged THEN Downstream(m.cell) ELSE {})
        /\ cells' = IF InManifest(m.patch) THEN Manifests(doc') ELSE cells
        /\ UNCHANGED used

\* cell_delete: the existence check comes first.
DeleteVerdict(m) ==
    IF m.cell \notin Listed(doc) THEN "CellNotFound"
    ELSE IF m.version # CurrentVersion(m.cell) THEN "VersionConflict" ELSE "Ok"

\* Mutation: the deleted cell's version stays behind.
CellDeleteVersionKept(m) ==
    /\ DeleteVerdict(m) = "Ok"
    /\ doc' = Removed(doc, m.cell)
    /\ cells' = Manifests(doc')
    /\ stale' = stale \ {m.cell}
    /\ UNCHANGED <<versions, used>>

CellDelete(m) ==
    /\ DeleteVerdict(m) = "Ok"
    /\ doc' = Removed(doc, m.cell)
    /\ versions' = Synced([c \in DOMAIN versions \ {m.cell} |-> versions[c]], doc')
    /\ cells' = Manifests(doc')
    /\ stale' = stale \ {m.cell}
    /\ UNCHANGED used

CellReorder(m) ==
    /\ doc' = Reordered(doc, m.ids)
    /\ versions' = Synced(versions, doc')
    /\ cells' = Manifests(doc')
    /\ UNCHANGED <<stale, used>>

NotebookUpdateMeta(m) ==
    /\ doc' = MetaPatched(doc, m.meta)
    /\ stale' = IF m.meta = Same THEN stale ELSE stale \cup RunnableFrom(1)
    /\ UNCHANGED <<versions, cells, used>>

Apply(m) ==
    \/ m.op = "add"     /\ CellAdd(m)
    \/ m.op = "update"  /\ CellUpdate(m)
    \/ m.op = "delete"  /\ CellDelete(m)
    \/ m.op = "reorder" /\ CellReorder(m)
    \/ m.op = "meta"    /\ NotebookUpdateMeta(m)

Verdict(m) ==
    CASE m.op = "update" -> UpdateVerdict(m)
      [] m.op = "delete" -> DeleteVerdict(m)
      [] OTHER           -> "Ok"

-----------------------------------------------------------------------------
(***************************************************************************)
(* The browser.  Its mutations carry the current version, read in the same *)
(* handler, so none is ever refused.                                       *)
(***************************************************************************)

\* Cells appear and disappear with their panes; a cleanup cancels the timer.
Remounted(p) == [c \in Listed(doc') |->
                    IF c \in DOMAIN p THEN p[c] ELSE OpenPane(doc'.cell[c].text)]

\* A mutation that leaves what the open panes show alone.
BrowserEdit(m) ==
    /\ Apply(m)
    /\ pane' = Remounted(pane)
    /\ typed' = typed \cap Listed(doc')
    /\ executed' = executed \cap Listed(doc')

Editable(c) == c \in Listed(doc) /\ CurrentVersion(c) < MaxVersion

AddMutation(c, after)  == Add(c, DefaultText, FALSE, after)
CopyMutation(c, orig)  == Add(c, doc.cell[orig].text, doc.cell[orig].shared, orig)
DeleteMutation(c)      == Delete(c, CurrentVersion(c))
LabelMutation(c)       == Update(c, SetLabel, CurrentVersion(c))
ToggleMutation(c)      == Update(c, SetShared(~doc.cell[c].shared), CurrentVersion(c))
SaveMutation(c)        == Update(c, SetText(pane[c].text), CurrentVersion(c))

\* Drag, or move up and down: the page sends the whole list, from the manifests.
MoveMutations ==
    LET ids == [i \in DOMAIN cells |-> cells[i].id]
    IN  {Reorder(Moved(ids, i, j)) : i, j \in DOMAIN ids} \ {Reorder(ids)}

AddCell(c, after) == after \in Listed(doc) \cup {Top} /\ BrowserEdit(AddMutation(c, after))
Duplicate(c, orig) == orig \in Listed(doc) /\ BrowserEdit(CopyMutation(c, orig))
DeleteCell(c)     == c \in Listed(doc) /\ BrowserEdit(DeleteMutation(c))
Rename(c)         == Editable(c) /\ BrowserEdit(LabelMutation(c))
ToggleShared(c)   == Editable(c) /\ BrowserEdit(ToggleMutation(c))
MoveCell(m)       == m \in MoveMutations /\ BrowserEdit(m)
SaveMeta(t)       == BrowserEdit(UpdateMeta(t))   \* a shared panel, or with Same another

\* on_source_change for a keystroke: restart the one second debounce.
Type(c, t) ==
    /\ Editable(c)
    /\ t # pane[c].text
    /\ pane' = [pane EXCEPT ![c] = EditedPane(t)]
    /\ typed' = typed \cup {c}
    /\ UNCHANGED <<model, executed>>

\* The debounce fires: the pane's text is saved under the version of now.
SaveTimer(c) ==
    /\ c \in DOMAIN pane /\ pane[c].timer
    /\ Apply(SaveMutation(c))
    /\ pane' = [pane EXCEPT ![c] = OpenPane(@.text)]
    /\ typed' = typed \ {c}
    /\ UNCHANGED executed

\* Ctrl+S, share, Push, Preview: every dirty pane saves at once and the timer
\* stays armed.  Each pane's effect touches its own cell only, so the effects
\* of one flush are taken one at a time.
Flush(c) ==
    /\ c \in DOMAIN pane /\ pane[c].dirty
    /\ Apply(SaveMutation(c))
    /\ pane' = [pane EXCEPT ![c].dirty = FALSE]
    /\ typed' = typed \ {c}
    /\ UNCHANGED executed

\* A run of the cell that ended well clears its flag (when and whether a run
\* does is not this module's matter).
RunSucceeds(c) ==
    /\ c \in Listed(doc) /\ ~doc.cell[c].shared
    /\ c \in stale \/ c \notin executed
    /\ stale' = stale \ {c}
    /\ executed' = executed \cup {c}
    /\ UNCHANGED <<doc, versions, cells, used, pane, typed>>

-----------------------------------------------------------------------------
(***************************************************************************)
(* The agents.                                                             *)
(***************************************************************************)

ContentEdit(m) == m.op = "update" /\ m.patch.text # Same

\* Mutation: the pane keeps the text it was opened with.
NotRefreshed(p, t) == p

\* refresh_pane: a clean pane that shows another text takes the model's, and
\* the write to Monaco fires the pane's own on_change.
Refreshed(p, t) == IF ~p.dirty /\ p.text # t THEN EditedPane(t) ELSE p

RemoteEdit(m) ==
    /\ m.op = "update" => Editable(m.cell)
    /\ Apply(m)
    /\ pane' = IF ContentEdit(m)
               THEN [c \in Listed(doc') |-> Refreshed(pane[c], doc'.cell[c].text)]
               ELSE Remounted(pane)
    /\ typed' = typed \cap Listed(doc')
    /\ executed' = executed \cap Listed(doc')

Patches == {SetText(t) : t \in Text} \cup {SetShared(s) : s \in BOOLEAN} \cup {SetLabel}

AgentMutations ==
    {Add(c, t, s, a) : c \in Cell \ used, t \in Text, s \in BOOLEAN, a \in Cell \cup {Top}}
    \cup {Update(c, p, v) : c \in Cell, p \in Patches, v \in AgentVersion}
    \cup {Delete(c, v) : c \in Cell, v \in AgentVersion}
    \cup {Reorder(ids) : ids \in UNION {SetToSeqs(S) : S \in SUBSET used}}
    \cup {UpdateMeta(t) : t \in Text \cup {Same}}

Browser ==
    \/ \E c \in Cell, a \in Cell \cup {Top} : AddCell(c, a)
    \/ \E c, orig \in Cell : Duplicate(c, orig)
    \/ \E c \in Cell : DeleteCell(c) \/ Rename(c) \/ ToggleShared(c)
    \/ \E m \in MoveMutations : MoveCell(m)
    \/ \E t \in Text \cup {Same} : SaveMeta(t)
    \/ \E c \in Cell, t \in Text : Type(c, t)
    \/ \E c \in Cell : SaveTimer(c) \/ Flush(c) \/ RunSucceeds(c)

Next == Browser \/ \E m \in AgentMutations : RemoteEdit(m)

Spec == Init /\ [][Next]_vars

\* A timeout that is set fires: nobody types on forever without pausing for
\* the second the debounce asks for.
FairSpec == Spec /\ \A c \in Cell : WF_vars(SaveTimer(c))

-----------------------------------------------------------------------------
(***************************************************************************)
(* Properties.                                                             *)
(***************************************************************************)

PaneType == [text: Text, dirty: BOOLEAN, timer: BOOLEAN]

\* Type correctness, on the state apply() and the panes keep.
TypeOK ==
    /\ doc.order \in Seq(Cell) /\ doc.meta \in Text
    /\ Listed(doc) \subseteq used /\ used \subseteq Cell
    /\ doc.cell \in [Listed(doc) -> CellState]
    /\ DOMAIN versions \subseteq Cell /\ versions \in [DOMAIN versions -> Nat]
    /\ stale \subseteq Cell
    /\ DOMAIN pane \subseteq Cell /\ pane \in [DOMAIN pane -> PaneType]
    /\ typed \subseteq Cell /\ executed \subseteq Cell

\* The version an edit is checked against (cell_versions) is the version
\* readers of the notebook are told (cell.version), for every cell there is
\* and for no other.  Were they to differ, every edit based on a fresh read
\* would be refused, or one based on an old read let through.
VersionsAgree ==
    /\ DOMAIN versions = Listed(doc)
    /\ \A c \in Listed(doc) : versions[c] = doc.cell[c].version

\* However adds, deletes, drags and agents' partial or outdated reorder lists
\* mix, no cell is lost from the order and none is listed twice.
OrderListsEachCellOnce ==
    /\ IsInjective(doc.order)
    /\ ToSet(doc.order) = Listed(doc)

\* The derived list, from which stale marks and run queues are computed, is
\* never behind the notebook (apply rebuilds it only for some patches).
ManifestsCurrent == cells = Manifests(doc)

\* The document keeps its shape under browser and agents: types, order, and the
\* list derived from it.
DocumentSound == TypeOK /\ OrderListsEachCellOnce /\ ManifestsCurrent

\* Every cell has its pane; a pane without unsaved text shows what the model
\* holds, and one with unsaved text has the timer that will save it.
PanesFollowModel ==
    /\ DOMAIN pane = Listed(doc)
    /\ \A c \in Listed(doc) :
         IF pane[c].dirty THEN pane[c].timer ELSE pane[c].text = doc.cell[c].text

\* A version names one text: a cell's version never goes back, its text
\* changes only together with the version, and a deleted cell does not return.
\* This is what makes an agent's "I read version v" meaningful.
VersionNamesText ==
    [][\A c \in used \cap Listed(doc') :
          /\ c \in Listed(doc)
          /\ doc'.cell[c].version >= doc.cell[c].version
          /\ doc'.cell[c].text # doc.cell[c].text
                => doc'.cell[c].version > doc.cell[c].version]_vars

\* When the text of a runnable cell changes, that cell and every runnable cell
\* below it are stale afterwards, whoever edited and whatever moved before.
EditMarksDownstream ==
    [][\A i \in DOMAIN doc.order :
          LET c == doc.order[i]
          IN  /\ c \in Listed(doc') /\ ~doc.cell[c].shared
              /\ doc'.cell[c].text # doc.cell[c].text
              => \A j \in i .. Len(doc.order) :
                    ~doc.cell[doc.order[j]].shared => doc.order[j] \in stale']_vars

\* What the user typed is eventually saved, or goes with its cell.
TypedTextIsSaved == \A c \in Cell : c \in typed ~> c \notin typed

Saves(c) == c \in DOMAIN pane /\ c \in DOMAIN pane' /\ pane[c].dirty /\ ~pane'[c].dirty

\* A pane its user did not type in has nothing of its own to save, so it never
\* changes what the agents wrote.
IdlePaneChangesNothing ==
    [][\A c \in Cell \ typed : Saves(c) => doc'.cell[c].text = doc.cell[c].text]_vars

\* What every cell is compiled with: the notebook's shared source and the text
\* of the shared cells (their order is irrelevant to the compiler).
SharedSource(d) ==
    <<d.meta, [c \in {x \in Listed(d) : d.cell[x].shared} |-> d.cell[c].text]>>

\* A change of the shared source outdates the result of every cell that ran,
\* and each of them is marked so.
SharedChangeMarksStale ==
    [][SharedSource(doc) # SharedSource(doc')
          => \A c \in executed \cap Listed(doc') : doc'.cell[c].shared \/ c \in stale']_vars
=============================================================================
