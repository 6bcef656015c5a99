--------------------------- MODULE NotebookProofs ---------------------------
(***************************************************************************)
(* Theorems about Notebook, for any cells, texts, initial notebook and     *)
(* versions agents may send.                                               *)
(*                                                                         *)
(* First the versions: what they rest on is that every step either is an   *)
(* apply() of one mutation, or leaves notebook and version map alone.      *)
(* Then the document (the order of its cells and the manifest list) and    *)
(* the panes, and what each mutation does to the texts below them.         *)
(***************************************************************************)
EXTENDS Notebook, ListProofs, FiniteSetTheorems, TLAPS

-----------------------------------------------------------------------------
(* The inductive invariant of the versions. *)

CellRecord(r) == /\ r = [text |-> r.text, shared |-> r.shared, version |-> r.version]
                 /\ r.version \in Nat

\* The notebook is a record of an order, the cells and the shared source, and
\* each of its cells a record with a version.
DocShape ==
    /\ doc = [order |-> doc.order, cell |-> doc.cell, meta |-> doc.meta]
    /\ doc.cell = [c \in Listed(doc) |-> doc.cell[c]]
    /\ \A c \in Listed(doc) : CellRecord(doc.cell[c])

IInv ==
    /\ DocShape
    /\ versions = [c \in DOMAIN versions |-> versions[c]]
    /\ Listed(doc) \subseteq used
    /\ VersionsAgree

\* The mutations the browser and the agents make: a new cell starts at 0.
Sound(m) == m.op = "add" => \E t, s : m.content = NewCell(t, s)

\* What one step may do to a cell (the body of VersionNamesText).
CellStep(c) ==
    /\ c \in Listed(doc)
    /\ doc'.cell[c].version >= doc.cell[c].version
    /\ doc'.cell[c].text # doc.cell[c].text => doc'.cell[c].version > doc.cell[c].version

Kept == IInv' /\ \A c \in used \cap Listed(doc') : CellStep(c)

LEMMA VersionIsNat ==
    ASSUME IInv, NEW c \in Listed(doc)
    PROVE  doc.cell[c].version \in Nat
  BY DEF IInv, DocShape, CellRecord

\* A cell left alone takes a step that is allowed.
LEMMA SameCellStep ==
    ASSUME IInv, NEW c \in Listed(doc), doc'.cell[c] = doc.cell[c]
    PROVE  CellStep(c)
  <1>1. \A n \in Nat : n >= n
        OBVIOUS
  <1> QED
        BY <1>1, VersionIsNat DEF CellStep

-----------------------------------------------------------------------------
(* apply(), mutation by mutation. *)

LEMMA AddKeeps ==
    ASSUME IInv, NEW m, CellAdd(m), \E t, s : m.content = NewCell(t, s)
    PROVE  Kept
  <1> DEFINE n == m.cell
  <1>1. PICK o : doc' = [order |-> o,
                         cell  |-> [x \in Listed(doc) \cup {n} |->
                                        IF x = n THEN m.content ELSE doc.cell[x]],
                         meta  |-> doc.meta]
        BY DEF CellAdd, Inserted, IInv, DocShape, Listed
  <1>2. CellRecord(m.content) /\ m.content.version = 0
        BY DEF NewCell, CellRecord
  <1>3. n \notin used /\ n \notin Listed(doc) /\ used' = used \cup {n}
        BY DEF CellAdd, IInv
  <1>4. Listed(doc') = Listed(doc) \cup {n}
        BY <1>1 DEF Listed
  <1>5. \A x \in Listed(doc') : doc'.cell[x] = IF x = n THEN m.content ELSE doc.cell[x]
        BY <1>1, <1>4
  <1>6. versions' = [x \in Listed(doc') |-> IF x = n THEN 0 ELSE versions[x]]
        BY <1>4 DEF CellAdd, Synced, IInv, VersionsAgree
  <1>7. DocShape'
        BY <1>1, <1>2, <1>4, <1>5 DEF DocShape, Listed, IInv
  <1>8. VersionsAgree'
        BY <1>2, <1>4, <1>5, <1>6 DEF VersionsAgree, IInv
  <1>9. \A c \in used \cap Listed(doc') : CellStep(c)
        BY <1>3, <1>4, <1>5, SameCellStep
  <1> QED
        BY <1>3, <1>4, <1>6, <1>7, <1>8, <1>9 DEF Kept, IInv

LEMMA UpdateKeeps ==
    ASSUME IInv, NEW m, CellUpdate(m)
    PROVE  Kept
  <1> DEFINE n == m.cell
             v == versions[n] + 1
             new == [text    |-> Field(m.patch.text, doc.cell[n].text),
                     shared  |-> Field(m.patch.shared, doc.cell[n].shared),
                     version |-> v]
  <1>1. n \in Listed(doc)
        BY DEF CellUpdate, UpdateVerdict
  <1>2. n \in DOMAIN versions /\ CurrentVersion(n) + 1 = v
        BY <1>1 DEF IInv, VersionsAgree, CurrentVersion
  <1>3. versions[n] = doc.cell[n].version /\ v \in Nat /\ v > versions[n]
    <2>1. versions[n] = doc.cell[n].version
          BY <1>1 DEF IInv, VersionsAgree
    <2>2. versions[n] \in Nat
          BY <1>1, <2>1, VersionIsNat
    <2> QED
          BY <2>1, <2>2
  <1>4. doc' = [order |-> doc.order,
                cell  |-> [x \in Listed(doc) |-> IF x = n THEN new ELSE doc.cell[x]],
                meta  |-> doc.meta]
    <2>1. doc' = [doc EXCEPT !.cell[n] = new]
          BY <1>1, <1>2 DEF CellUpdate, Patched
    <2>2. [doc EXCEPT !.cell[n] = new]
            = [order |-> doc.order, cell |-> [doc.cell EXCEPT ![n] = new], meta |-> doc.meta]
          BY DEF IInv, DocShape
    <2> QED
          BY <2>1, <2>2 DEF IInv, DocShape, Listed
  <1>5. Listed(doc') = Listed(doc)
        BY <1>4 DEF Listed
  <1>6. \A x \in Listed(doc') : doc'.cell[x] = IF x = n THEN new ELSE doc.cell[x]
        BY <1>4, <1>5
  <1>7. versions' = [x \in Listed(doc) |-> IF x = n THEN v ELSE versions[x]]
        BY <1>2 DEF CellUpdate, IInv, VersionsAgree
  <1>8. CellRecord(new) /\ new.version = v
        BY <1>3 DEF CellRecord
  <1>9. DocShape'
        BY <1>4, <1>5, <1>6, <1>8 DEF DocShape, Listed, IInv
  <1>10. VersionsAgree'
        BY <1>5, <1>6, <1>7, <1>8 DEF VersionsAgree, IInv
  <1>11. \A c \in used \cap Listed(doc') : CellStep(c)
    <2>1. SUFFICES ASSUME NEW c \in Listed(doc') PROVE CellStep(c)
          OBVIOUS
    <2>2. CASE c = n
      <3>1. doc'.cell[c].version = v /\ v > doc.cell[c].version
            BY <1>3, <1>6, <1>8, <2>2
      <3>2. doc.cell[c].version \in Nat /\ v \in Nat
            BY <1>3, <1>5, VersionIsNat
      <3> QED
            BY <1>5, <3>1, <3>2 DEF CellStep
    <2>3. CASE c # n
          BY <1>5, <1>6, <2>3, SameCellStep
    <2> QED
          BY <2>2, <2>3
  <1>12. used' = used
        BY DEF CellUpdate
  <1> QED
        BY <1>5, <1>7, <1>9, <1>10, <1>11, <1>12 DEF Kept, IInv

LEMMA DeleteKeeps ==
    ASSUME IInv, NEW m, CellDelete(m)
    PROVE  Kept
  <1> DEFINE n == m.cell
  <1>1. PICK o : doc' = [order |-> o,
                         cell  |-> [x \in Listed(doc) \ {n} |-> doc.cell[x]],
                         meta  |-> doc.meta]
        BY DEF CellDelete, Removed, IInv, DocShape, Listed
  <1>2. Listed(doc') = Listed(doc) \ {n}
        BY <1>1 DEF Listed
  <1>3. \A x \in Listed(doc') : doc'.cell[x] = doc.cell[x]
        BY <1>1, <1>2
  <1>4. versions' = [x \in Listed(doc') |-> versions[x]]
        BY <1>2 DEF CellDelete, Synced, IInv, VersionsAgree
  <1>5. DocShape'
        BY <1>1, <1>2, <1>3 DEF DocShape, Listed, IInv
  <1>6. VersionsAgree'
        BY <1>2, <1>3, <1>4 DEF VersionsAgree, IInv
  <1>7. \A c \in used \cap Listed(doc') : CellStep(c)
        BY <1>2, <1>3, SameCellStep
  <1>8. used' = used
        BY DEF CellDelete
  <1> QED
        BY <1>2, <1>4, <1>5, <1>6, <1>7, <1>8 DEF Kept, IInv

\* A step that changes at most the order and the shared source.
LEMMA SameCellsKeep ==
    ASSUME IInv,
           doc' = [order |-> doc'.order, cell |-> doc.cell, meta |-> doc'.meta],
           versions' = versions, used' = used
    PROVE  Kept
  <1>1. doc'.cell = doc.cell /\ Listed(doc') = Listed(doc)
        BY DEF Listed
  <1>2. DocShape'
        BY <1>1 DEF DocShape, IInv, Listed
  <1>3. VersionsAgree'
        BY <1>1 DEF VersionsAgree, IInv
  <1>4. \A c \in used \cap Listed(doc') : CellStep(c)
        BY <1>1, SameCellStep
  <1> QED
        BY <1>1, <1>2, <1>3, <1>4 DEF Kept, IInv

LEMMA ApplyKeeps ==
    ASSUME IInv, NEW m, Sound(m), Apply(m)
    PROVE  Kept
  <1>1. CASE m.op = "add" /\ CellAdd(m)
        BY <1>1, AddKeeps DEF Sound
  <1>2. CASE CellUpdate(m)
        BY <1>2, UpdateKeeps
  <1>3. CASE CellDelete(m)
        BY <1>3, DeleteKeeps
  <1>4. CASE CellReorder(m)
    <2>1. doc' = [order |-> doc'.order, cell |-> doc.cell, meta |-> doc'.meta]
          BY <1>4 DEF CellReorder, Reordered, IInv, DocShape
    <2>2. Listed(doc') = Listed(doc)
          BY <2>1 DEF Listed
    <2>3. versions' = versions
          BY <1>4, <2>2 DEF CellReorder, Synced, IInv, VersionsAgree
    <2> QED
          BY <1>4, <2>1, <2>3, SameCellsKeep DEF CellReorder
  <1>5. CASE NotebookUpdateMeta(m)
    <2>1. doc' = [order |-> doc'.order, cell |-> doc.cell, meta |-> doc'.meta]
          BY <1>5 DEF NotebookUpdateMeta, MetaPatched, IInv, DocShape
    <2> QED
          BY <1>5, <2>1, SameCellsKeep DEF NotebookUpdateMeta
  <1> QED
        BY <1>1, <1>2, <1>3, <1>4, <1>5 DEF Apply

-----------------------------------------------------------------------------
(* Every step. *)

LEMMA InitIInv == Init => IInv
  <1> SUFFICES ASSUME Init PROVE IInv
        OBVIOUS
  <1>1. Listed(doc) = ToSet(InitialOrder)
        BY DEF Init, Listed
  <1>2. \A c \in Listed(doc) : doc.cell[c] = NewCell(DefaultText, FALSE)
        BY <1>1 DEF Init
  <1>3. DocShape
        BY <1>1, <1>2 DEF Init, DocShape, Listed, NewCell, CellRecord
  <1>4. VersionsAgree
        BY <1>1, <1>2 DEF Init, VersionsAgree, NewCell
  <1> QED
        BY <1>1, <1>3, <1>4 DEF Init, IInv

LEMMA UnchangedKeeps ==
    ASSUME IInv, UNCHANGED <<doc, versions, used>>
    PROVE  Kept
  BY SameCellsKeep DEF IInv, DocShape

LEMMA BrowserKeeps ==
    ASSUME IInv, Browser
    PROVE  Kept
  <1>1. ASSUME NEW c, NEW a, AddCell(c, a) PROVE Kept
    <2>1. Sound(AddMutation(c, a))
          BY DEF Sound, AddMutation, Add
    <2> QED
          BY <1>1, <2>1, ApplyKeeps DEF AddCell, BrowserEdit
  <1>2. ASSUME NEW c, NEW orig, Duplicate(c, orig) PROVE Kept
    <2>1. Sound(CopyMutation(c, orig))
          BY DEF Sound, CopyMutation, Add
    <2> QED
          BY <1>2, <2>1, ApplyKeeps DEF Duplicate, BrowserEdit
  <1>3. ASSUME NEW c, DeleteCell(c) PROVE Kept
    <2>1. Sound(DeleteMutation(c))
          BY DEF Sound, DeleteMutation, Delete
    <2> QED
          BY <1>3, <2>1, ApplyKeeps DEF DeleteCell, BrowserEdit
  <1>4. ASSUME NEW c, Rename(c) PROVE Kept
    <2>1. Sound(LabelMutation(c))
          BY DEF Sound, LabelMutation, Update
    <2> QED
          BY <1>4, <2>1, ApplyKeeps DEF Rename, BrowserEdit
  <1>5. ASSUME NEW c, ToggleShared(c) PROVE Kept
    <2>1. Sound(ToggleMutation(c))
          BY DEF Sound, ToggleMutation, Update
    <2> QED
          BY <1>5, <2>1, ApplyKeeps DEF ToggleShared, BrowserEdit
  <1>6. ASSUME NEW m \in MoveMutations, MoveCell(m) PROVE Kept
    <2>1. PICK ids : m = Reorder(ids)
          BY <1>6 DEF MoveMutations
    <2>2. Sound(m)
          BY <2>1 DEF Sound, Reorder
    <2> QED
          BY <1>6, <2>2, ApplyKeeps DEF MoveCell, BrowserEdit
  <1>7. ASSUME NEW t, SaveMeta(t) PROVE Kept
    <2>1. Sound(UpdateMeta(t))
          BY DEF Sound, UpdateMeta
    <2> QED
          BY <1>7, <2>1, ApplyKeeps DEF SaveMeta, BrowserEdit
  <1>8. ASSUME NEW c, NEW t, Type(c, t) PROVE Kept
        BY <1>8, UnchangedKeeps DEF Type, model
  <1>9. ASSUME NEW c, SaveTimer(c) \/ Flush(c) PROVE Kept
    <2>1. Sound(SaveMutation(c))
          BY DEF Sound, SaveMutation, Update
    <2> QED
          BY <1>9, <2>1, ApplyKeeps DEF SaveTimer, Flush
  <1>10. ASSUME NEW c, RunSucceeds(c) PROVE Kept
        BY <1>10, UnchangedKeeps DEF RunSucceeds
  <1> QED
        BY <1>1, <1>2, <1>3, <1>4, <1>5, <1>6, <1>7, <1>8, <1>9, <1>10 DEF Browser

LEMMA RemoteKeeps ==
    ASSUME IInv, NEW m \in AgentMutations, RemoteEdit(m)
    PROVE  Kept
  <1>1. Sound(m)
        BY DEF Sound, AgentMutations, Add, Update, Delete, Reorder, UpdateMeta
  <1> QED
        BY <1>1, ApplyKeeps DEF RemoteEdit

LEMMA StepKeeps == IInv /\ [Next]_vars => Kept
  <1> SUFFICES ASSUME IInv, [Next]_vars PROVE Kept
        OBVIOUS
  <1>1. CASE Browser
        BY <1>1, BrowserKeeps
  <1>2. CASE \E m \in AgentMutations : RemoteEdit(m)
        BY <1>2, RemoteKeeps
  <1>3. CASE UNCHANGED vars
        BY <1>3, UnchangedKeeps DEF vars, model
  <1> QED
        BY <1>1, <1>2, <1>3 DEF Next

-----------------------------------------------------------------------------
(***************************************************************************)
(* What each mutation makes of the order of the cells.                     *)
(***************************************************************************)

\* o lists the cells of S, each once.
Orders(o, S) == o \in Seq(Cell) /\ ToSet(o) = S /\ IsInjective(o)

LEMMA InsertedOrder ==
    ASSUME NEW o, NEW S, Orders(o, S), NEW c \in Cell \ S, NEW after
    PROVE  Orders(InsertAt(o, InsertAtPlace(o, after), c), S \cup {c})
  <1> DEFINE i == InsertAtPlace(o, after)
  <1>1. Len(o) \in Nat /\ DOMAIN o = 1 .. Len(o) /\ o \in Seq(Cell)
        /\ IsInjective(o) /\ c \notin ToSet(o) /\ ToSet(o) = S
        BY DEF Orders
  <1>2. i \in 1 .. Len(o) + 1
    <2>1. CASE after = Top
      <3>1. Top \notin ToSet(o)
            BY <1>1, TopAssumption DEF ToSet
      <3>2. i = 1
            BY <2>1, <3>1 DEF InsertAtPlace
      <3> QED
            BY <1>1, <3>2
    <2>2. CASE after # Top /\ after \in ToSet(o)
      <3>1. \E k \in DOMAIN o : o[k] = after
            BY <2>2 DEF ToSet
      <3>2. Place(o, after) \in DOMAIN o
            BY <3>1 DEF Place
      <3>3. i = Place(o, after) + 1
            BY <2>2 DEF InsertAtPlace
      <3> QED
            BY <1>1, <3>2, <3>3
    <2>3. CASE after # Top /\ after \notin ToSet(o)
          BY <1>1, <2>3 DEF InsertAtPlace
    <2> QED
          BY <2>1, <2>2, <2>3
  <1> HIDE DEF i
  <1> QED
        BY <1>1, <1>2, InsertMembers DEF Orders, i

LEMMA RemovedOrder ==
    ASSUME NEW o, NEW S, Orders(o, S), NEW c
    PROVE  Orders(Without(o, {c}), S \ {c})
  BY WithoutMembers DEF Orders

LEMMA ReorderedOrder ==
    ASSUME NEW o, NEW S, Orders(o, S), NEW ids \in Seq(Cell), IsInjective(ids)
    PROVE  Orders(Only(ids, S) \o Without(o, ToSet(ids)), S)
  <1> DEFINE l == Only(ids, S)
             r == Without(o, ToSet(ids))
  <1>1. l \in Seq(Cell) /\ ToSet(l) = ToSet(ids) \cap S /\ IsInjective(l)
        BY OnlyMembers
  <1>2. r \in Seq(Cell) /\ ToSet(r) = S \ ToSet(ids) /\ IsInjective(r)
        BY WithoutMembers DEF Orders
  <1> HIDE DEF l, r
  <1>3. /\ l \o r \in Seq(Cell) /\ ToSet(l \o r) = ToSet(l) \cup ToSet(r)
        /\ ToSet(l) \cap ToSet(r) = {} => IsInjective(l \o r)
        BY <1>1, <1>2, ConcatMembers
  <1>4. Orders(l \o r, S)
        BY <1>1, <1>2, <1>3 DEF Orders
  <1> QED
        BY <1>4 DEF l, r

\* What a drag sends is a list of cells, each once.
LEMMA MovedOrder ==
    ASSUME NEW o, NEW S, Orders(o, S), NEW i \in DOMAIN o, NEW j \in DOMAIN o
    PROVE  Moved(o, i, j) \in Seq(Cell) /\ IsInjective(Moved(o, i, j))
  <1> DEFINE r == RemoveAt(o, i)
  <1>1. /\ Len(o) \in Nat /\ DOMAIN o = 1 .. Len(o) /\ o[i] \in Cell
        /\ i \in 1 .. Len(o) /\ j \in 1 .. Len(o) /\ o \in Seq(Cell) /\ IsInjective(o)
        BY DEF Orders
  <1>2. r \in Seq(Cell) /\ Len(r) = Len(o) - 1 /\ IsInjective(r) /\ o[i] \notin ToSet(r)
    <2>1. i \in 1 .. Len(o) /\ o \in Seq(Cell) /\ IsInjective(o)
          BY <1>1
    <2>2. /\ RemoveAt(o, i) \in Seq(Cell) /\ Len(RemoveAt(o, i)) = Len(o) - 1
          /\ IsInjective(o) => /\ IsInjective(RemoveAt(o, i))
                               /\ o[i] \notin ToSet(RemoveAt(o, i))
          BY <2>1, RemoveMembers, Zenon
    <2> QED
          BY <2>1, <2>2
  <1> HIDE DEF r
  <1>3. j \in 1 .. Len(r) + 1
        BY <1>1, <1>2
  <1>4. InsertAt(r, j, o[i]) \in Seq(Cell) /\ IsInjective(InsertAt(r, j, o[i]))
        BY <1>1, <1>2, <1>3, InsertMembers
  <1> QED
        BY <1>4 DEF Moved, r

\* So is what an agent sends.
LEMMA AgentOrder ==
    ASSUME NEW S, S \subseteq Cell, IsFiniteSet(S), NEW ids \in SetToSeqs(S)
    PROVE  ids \in Seq(Cell) /\ IsInjective(ids)
  <1> DEFINE n == Cardinality(S)
  <1>1. n \in Nat
        BY FS_CardinalityType
  <1>2. ids \in [1 .. n -> S] /\ \A i, j \in 1 .. n : i # j => ids[i] # ids[j]
        BY DEF SetToSeqs
  <1> HIDE DEF n
  <1>3. ids \in Seq(S) /\ DOMAIN ids = 1 .. n
        BY <1>1, <1>2
  <1>4. ids \in Seq(Cell)
        BY <1>3, SeqMonotonic
  <1> QED
        BY <1>2, <1>3, <1>4 DEF IsInjective

\* The cells of a list are finitely many.
LEMMA ListedIsFinite ==
    ASSUME NEW s \in Seq(Cell)
    PROVE  IsFiniteSet(ToSet(s))
  <1>1. s \in Seq(ToSet(s)) /\ \A e \in ToSet(s) : \E n \in 1 .. Len(s) : s[n] = e
        BY DEF ToSet
  <1> QED
        BY <1>1 DEF IsFiniteSet

-----------------------------------------------------------------------------
(***************************************************************************)
(* The document's soundness, and what a step may do to the texts.          *)
(***************************************************************************)

\* What apply() keeps, the version map apart.
ModelSound ==
    /\ doc.meta \in Text /\ doc.cell \in [Listed(doc) -> CellState]
    /\ Orders(doc.order, Listed(doc))
    /\ ManifestsCurrent
    /\ used \subseteq Cell /\ IsFiniteSet(used)
    /\ stale \subseteq Cell

\* The mutations the browser and the agents make.
Proper(m) ==
    /\ m.op = "add" => \E t \in Text, s \in BOOLEAN : m.content = NewCell(t, s)
    /\ m.op = "update" => m.patch \in Patch
    /\ m.op = "reorder" => m.ids \in Seq(Cell) /\ IsInjective(m.ids)
    /\ m.op = "meta" => m.meta \in Text \cup {Same}

\* Only an update touches the text of a cell, and only that of its own.
TextStep(m) ==
    /\ m.op # "add" => Listed(doc') \subseteq Listed(doc)
    /\ m.op = "update" => Listed(doc') = Listed(doc) /\ m.cell \in Listed(doc)
    /\ \A c \in Listed(doc) \cap Listed(doc') :
          doc'.cell[c].text = IF m.op = "update" /\ c = m.cell
                              THEN Field(m.patch.text, doc.cell[c].text)
                              ELSE doc.cell[c].text

\* The body of EditMarksDownstream.
Marks ==
    \A i \in DOMAIN doc.order :
       LET c == doc.order[i]
       IN  /\ c \in Listed(doc') /\ ~doc.cell[c].shared
           /\ doc'.cell[c].text # doc.cell[c].text
           => \A j \in i .. Len(doc.order) :
                 ~doc.cell[doc.order[j]].shared => doc.order[j] \in stale'

LEMMA TextKeepsMarks ==
    ASSUME Orders(doc.order, Listed(doc)),
           \A c \in Listed(doc) \cap Listed(doc') : doc'.cell[c].text = doc.cell[c].text
    PROVE  Marks
  <1>1. \A i \in DOMAIN doc.order : doc.order[i] \in Listed(doc)
        BY DEF Orders, ToSet
  <1> QED
        BY <1>1 DEF Marks

\* The manifest list has a manifest for each place of the order.
LEMMA ManifestsAt ==
    ASSUME NEW d, NEW S, Orders(d.order, S)
    PROVE  /\ Len(Manifests(d)) = Len(d.order) /\ Len(d.order) \in Nat
           /\ DOMAIN Manifests(d) = 1 .. Len(d.order) /\ DOMAIN d.order = 1 .. Len(d.order)
           /\ \A i \in 1 .. Len(d.order) : /\ Manifests(d)[i].id = d.order[i]
                                           /\ Manifests(d)[i].shared = d.cell[d.order[i]].shared
                                           /\ d.order[i] \in S
  <1> DEFINE o == d.order
             n == Len(o)
  <1>1. n \in Nat /\ DOMAIN o = 1 .. n /\ o \in Seq(Cell) /\ ToSet(o) = S
        BY DEF Orders
  <1>2. Manifests(d) = [i \in 1 .. n |-> [id |-> o[i], shared |-> d.cell[o[i]].shared]]
        BY <1>1 DEF Manifests
  <1>3. \A i \in 1 .. n : o[i] \in S
        BY <1>1 DEF ToSet
  <1> HIDE DEF o, n
  <1>4. Len(Manifests(d)) = n
        BY <1>1, <1>2
  <1> QED
        BY <1>1, <1>2, <1>3, <1>4 DEF o, n

\* Two documents with one order and the same shared flags have one list.
LEMMA SameManifests ==
    ASSUME NEW d, NEW e, NEW S, Orders(d.order, S), e.order = d.order,
           \A c \in S : e.cell[c].shared = d.cell[c].shared
    PROVE  Manifests(e) = Manifests(d)
  <1>1. \A i \in DOMAIN d.order : d.order[i] \in S
        BY DEF Orders, ToSet
  <1> QED
        BY <1>1 DEF Manifests

\* What is marked stale are cells.
LEMMA MarkedAreCells ==
    ASSUME ModelSound
    PROVE  /\ \A i \in Nat \ {0} : RunnableFrom(i) \subseteq Cell
           /\ \A c : Downstream(c) \subseteq Cell
  <1>1. /\ Len(cells) = Len(doc.order) /\ Len(cells) \in Nat /\ DOMAIN cells = 1 .. Len(cells)
        /\ \A i \in 1 .. Len(cells) : cells[i].id \in Listed(doc)
        BY ManifestsAt DEF ModelSound, ManifestsCurrent
  <1>2. Listed(doc) \subseteq Cell
        BY DEF ModelSound, Orders, ToSet
  <1>3. ASSUME NEW i \in Nat \ {0} PROVE RunnableFrom(i) \subseteq Cell
    <2>1. \A j \in i .. Len(cells) : j \in 1 .. Len(cells)
          BY <1>1
    <2> QED
          BY <1>1, <1>2, <2>1 DEF RunnableFrom
  <1>4. \A c : Downstream(c) \subseteq Cell
        BY <1>1, <1>3 DEF Downstream
  <1> QED
        BY <1>3, <1>4

-----------------------------------------------------------------------------
(***************************************************************************)
(* apply() keeps the document sound, marks what it has to and touches the  *)
(* text of no other cell.                                                  *)
(***************************************************************************)

Held(m) == ModelSound' /\ TextStep(m) /\ Marks

LEMMA AddHolds ==
    ASSUME IInv, ModelSound, NEW m, Proper(m), m.op = "add", CellAdd(m)
    PROVE  Held(m)
  <1> DEFINE n == m.cell
             o == InsertAt(doc.order, InsertAtPlace(doc.order, m.after), n)
             f == [x \in Listed(doc) \cup {n} |-> IF x = n THEN m.content ELSE doc.cell[x]]
  <1>1. doc' = [order |-> o, cell |-> f, meta |-> doc.meta]
        BY DEF CellAdd, Inserted, IInv, DocShape, Listed
  <1>2. n \in Cell \ used /\ n \notin Listed(doc) /\ Listed(doc) \subseteq used
        BY DEF CellAdd, IInv
  <1>3. PICK t \in Text, s \in BOOLEAN : m.content = NewCell(t, s)
        BY DEF Proper
  <1>4. m.content \in CellState
        BY <1>3 DEF NewCell, CellState
  <1>5. Orders(o, Listed(doc) \cup {n})
    <2>1. n \in Cell \ Listed(doc) /\ Orders(doc.order, Listed(doc))
          BY <1>2 DEF ModelSound
    <2> QED
          BY <2>1, InsertedOrder
  <1>6. f \in [Listed(doc) \cup {n} -> CellState] /\ DOMAIN f = Listed(doc) \cup {n}
        /\ \A x \in Listed(doc) : f[x] = doc.cell[x]
        BY <1>2, <1>4 DEF ModelSound
  <1> HIDE DEF o, f
  <1>7. Listed(doc') = Listed(doc) \cup {n} /\ doc'.order = o /\ doc'.cell = f
        /\ doc'.meta = doc.meta
        BY <1>1, <1>6 DEF Listed
  <1>8. cells' = Manifests(doc') /\ used' = used \cup {n} /\ stale' = stale
        BY DEF CellAdd
  <1>9. ModelSound'
    <2>1. IsFiniteSet(used')
          BY <1>8, FS_AddElement DEF ModelSound
    <2> QED
          BY <1>2, <1>5, <1>6, <1>7, <1>8, <2>1 DEF ModelSound, ManifestsCurrent
  <1>10. \A c \in Listed(doc) \cap Listed(doc') : doc'.cell[c] = doc.cell[c]
        BY <1>6, <1>7
  <1>11. Marks
        BY <1>10, TextKeepsMarks DEF ModelSound
  <1> QED
        BY <1>9, <1>10, <1>11 DEF Held, TextStep

LEMMA UpdateHolds ==
    ASSUME IInv, ModelSound, NEW m, Proper(m), m.op = "update", CellUpdate(m)
    PROVE  Held(m)
  <1> DEFINE n == m.cell
             old == doc.cell[n]
             new == [text    |-> Field(m.patch.text, old.text),
                     shared  |-> Field(m.patch.shared, old.shared),
                     version |-> CurrentVersion(n) + 1]
             f == [doc.cell EXCEPT ![n] = new]
             affectsShared == \/ Field(m.patch.shared, old.shared) # old.shared
                              \/ old.shared /\ new.text # old.text
  <1>1. n \in Listed(doc)
        BY DEF CellUpdate, UpdateVerdict
  <1>2. old \in CellState
        BY <1>1 DEF ModelSound
  <1>3. new \in CellState
    <2>1. CurrentVersion(n) \in Nat
          BY <1>1, VersionIsNat DEF CurrentVersion, IInv, VersionsAgree
    <2>2. Field(m.patch.text, old.text) \in Text /\ Field(m.patch.shared, old.shared) \in BOOLEAN
          BY <1>2 DEF Proper, Patch, CellState, Field
    <2> QED
          BY <2>1, <2>2 DEF CellState
  <1>4. doc' = [order |-> doc.order, cell |-> f, meta |-> doc.meta]
    <2>1. doc' = [doc EXCEPT !.cell[n] = new]
          BY <1>1 DEF CellUpdate, Patched
    <2> QED
          BY <2>1 DEF IInv, DocShape
  <1>5. f \in [Listed(doc) -> CellState] /\ DOMAIN f = Listed(doc)
        /\ \A x \in Listed(doc) : f[x] = IF x = n THEN new ELSE doc.cell[x]
    <2>1. doc.cell \in [Listed(doc) -> CellState]
          BY DEF ModelSound
    <2> HIDE DEF new
    <2> QED
          BY <1>1, <1>3, <2>1
  <1> HIDE DEF f
  <1>6. Listed(doc') = Listed(doc) /\ doc'.order = doc.order /\ doc'.cell = f
        /\ doc'.meta = doc.meta
        BY <1>4, <1>5 DEF Listed
  <1>7. /\ stale' = stale \cup (IF affectsShared THEN RunnableFrom(1)
                              ELSE IF new.text # old.text THEN Downstream(n) ELSE {})
        /\ cells' = IF InManifest(m.patch) THEN Manifests(doc') ELSE cells
        /\ used' = used
        BY DEF CellUpdate
  <1>8. cells' = Manifests(doc')
    <2>1. CASE InManifest(m.patch)
          BY <1>7, <2>1
    <2>2. CASE ~ InManifest(m.patch)
      <3>1. new.shared = old.shared
            BY <2>2 DEF InManifest, Field
      <3>2. \A c \in Listed(doc) : doc'.cell[c].shared = doc.cell[c].shared
            BY <1>5, <1>6, <3>1
      <3>3. Manifests(doc') = Manifests(doc)
            BY <1>6, <3>2, SameManifests DEF ModelSound
      <3> QED
            BY <1>7, <2>2, <3>3 DEF ModelSound, ManifestsCurrent
    <2> QED
          BY <2>1, <2>2
  <1>9. ModelSound'
    <2>1. stale' \subseteq Cell
      <3>1. RunnableFrom(1) \subseteq Cell /\ Downstream(n) \subseteq Cell
            BY MarkedAreCells
      <3> QED
            BY <1>7, <3>1 DEF ModelSound
    <2> QED
          BY <1>5, <1>6, <1>7, <1>8, <2>1 DEF ModelSound, ManifestsCurrent
  <1>10. \A c \in Listed(doc) :
            doc'.cell[c].text = IF c = n THEN new.text ELSE doc.cell[c].text
        BY <1>5, <1>6
  <1>11. TextStep(m)
        BY <1>1, <1>6, <1>10 DEF TextStep
  <1>12. Marks
    <2>1. SUFFICES ASSUME NEW i \in DOMAIN doc.order, doc.order[i] = n, ~ old.shared,
                          new.text # old.text,
                          NEW j \in i .. Len(doc.order), ~ doc.cell[doc.order[j]].shared
                   PROVE  doc.order[j] \in stale'
      <3>1. \A i \in DOMAIN doc.order : doc.order[i] \in Listed(doc)
            BY DEF ModelSound, Orders, ToSet
      <3> QED
            BY <1>10, <3>1 DEF Marks
    <2>2. /\ Len(cells) = Len(doc.order) /\ Len(cells) \in Nat
          /\ DOMAIN cells = 1 .. Len(cells) /\ DOMAIN doc.order = 1 .. Len(cells)
          /\ \A k \in 1 .. Len(cells) : /\ cells[k].id = doc.order[k]
                                        /\ cells[k].shared = doc.cell[doc.order[k]].shared
          BY ManifestsAt DEF ModelSound, ManifestsCurrent
    <2>3. i \in 1 .. Len(cells) /\ j \in i .. Len(cells) /\ j \in 1 .. Len(cells)
          BY <2>1, <2>2
    <2>4. doc.order[j] \in RunnableFrom(i)
          BY <2>1, <2>2, <2>3 DEF RunnableFrom
    <2>5. RunnableFrom(i) \subseteq RunnableFrom(1)
          BY <2>2, <2>3 DEF RunnableFrom
    <2>6. RunnableFrom(i) \subseteq Downstream(n)
          BY <2>1, <2>2, <2>3 DEF Downstream
    <2> HIDE DEF new, old
    <2> QED
          BY <1>7, <2>1, <2>4, <2>5, <2>6
  <1> QED
        BY <1>9, <1>11, <1>12 DEF Held

LEMMA DeleteHolds ==
    ASSUME IInv, ModelSound, NEW m, m.op = "delete", CellDelete(m)
    PROVE  Held(m)
  <1> DEFINE n == m.cell
             o == Without(doc.order, {n})
             f == [x \in Listed(doc) \ {n} |-> doc.cell[x]]
  <1>1. doc' = [order |-> o, cell |-> f, meta |-> doc.meta]
        BY DEF CellDelete, Removed, IInv, DocShape, Listed
  <1>2. Orders(o, Listed(doc) \ {n})
        BY RemovedOrder DEF ModelSound
  <1>3. f \in [Listed(doc) \ {n} -> CellState] /\ DOMAIN f = Listed(doc) \ {n}
        /\ \A x \in Listed(doc) \ {n} : f[x] = doc.cell[x]
        BY DEF ModelSound
  <1> HIDE DEF o, f
  <1>4. Listed(doc') = Listed(doc) \ {n} /\ doc'.order = o /\ doc'.cell = f
        /\ doc'.meta = doc.meta
        BY <1>1, <1>3 DEF Listed
  <1>5. cells' = Manifests(doc') /\ used' = used /\ stale' = stale \ {n}
        BY DEF CellDelete
  <1>6. ModelSound'
        BY <1>2, <1>3, <1>4, <1>5 DEF ModelSound, ManifestsCurrent
  <1>7. \A c \in Listed(doc) \cap Listed(doc') : doc'.cell[c] = doc.cell[c]
        BY <1>3, <1>4
  <1>8. Marks
        BY <1>7, TextKeepsMarks DEF ModelSound
  <1> QED
        BY <1>4, <1>6, <1>7, <1>8 DEF Held, TextStep

\* A mutation that changes at most the order and the shared source.
LEMMA SameCellsHold ==
    ASSUME IInv, ModelSound, NEW m, m.op \notin {"add", "update"}, NEW o, NEW t,
           doc' = [order |-> o, cell |-> doc.cell, meta |-> t],
           Orders(o, Listed(doc)), t \in Text,
           cells' = Manifests(doc'), used' = used, stale' \subseteq Cell
    PROVE  Held(m)
  <1>1. Listed(doc') = Listed(doc) /\ doc'.order = o /\ doc'.cell = doc.cell
        /\ doc'.meta = t
        BY DEF Listed
  <1>2. ModelSound'
        BY <1>1 DEF ModelSound, ManifestsCurrent
  <1>3. Marks
        BY <1>1, TextKeepsMarks DEF ModelSound
  <1> QED
        BY <1>1, <1>2, <1>3 DEF Held, TextStep

LEMMA ReorderHolds ==
    ASSUME IInv, ModelSound, NEW m, Proper(m), m.op = "reorder", CellReorder(m)
    PROVE  Held(m)
  <1> DEFINE o == Only(m.ids, Listed(doc)) \o Without(doc.order, ToSet(m.ids))
  <1>1. doc' = [order |-> o, cell |-> doc.cell, meta |-> doc.meta]
        BY DEF CellReorder, Reordered, IInv, DocShape
  <1>2. Orders(o, Listed(doc))
    <2>1. m.ids \in Seq(Cell) /\ IsInjective(m.ids) /\ Orders(doc.order, Listed(doc))
          BY DEF Proper, ModelSound
    <2> QED
          BY <2>1, ReorderedOrder
  <1> HIDE DEF o
  <1>3. cells' = Manifests(doc') /\ used' = used /\ stale' \subseteq Cell
        /\ doc.meta \in Text
        BY DEF CellReorder, ModelSound
  <1> QED
        BY <1>1, <1>2, <1>3, SameCellsHold

LEMMA MetaHolds ==
    ASSUME IInv, ModelSound, NEW m, Proper(m), m.op = "meta", NotebookUpdateMeta(m)
    PROVE  Held(m)
  <1> DEFINE t == Field(m.meta, doc.meta)
  <1>1. doc' = [order |-> doc.order, cell |-> doc.cell, meta |-> t]
        BY DEF NotebookUpdateMeta, MetaPatched, IInv, DocShape
  <1>2. t \in Text
        BY DEF Proper, Field, ModelSound
  <1> HIDE DEF t
  <1>3. doc'.order = doc.order /\ doc'.cell = doc.cell
        BY <1>1
  <1>4. cells' = Manifests(doc')
    <2>1. Manifests(doc') = Manifests(doc)
          BY <1>3, SameManifests DEF ModelSound
    <2> QED
          BY <2>1 DEF NotebookUpdateMeta, ModelSound, ManifestsCurrent
  <1>5. stale' \subseteq Cell
    <2>1. RunnableFrom(1) \subseteq Cell
          BY MarkedAreCells
    <2> QED
          BY <2>1 DEF NotebookUpdateMeta, ModelSound
  <1>6. used' = used /\ Orders(doc.order, Listed(doc))
        BY DEF NotebookUpdateMeta, ModelSound
  <1> QED
        BY <1>1, <1>2, <1>4, <1>5, <1>6, SameCellsHold

LEMMA ApplyHolds ==
    ASSUME IInv, ModelSound, NEW m, Proper(m), Apply(m)
    PROVE  Held(m)
  BY AddHolds, UpdateHolds, DeleteHolds, ReorderHolds, MetaHolds DEF Apply

-----------------------------------------------------------------------------
(***************************************************************************)
(* The panes.                                                              *)
(***************************************************************************)

PanesSound ==
    /\ DOMAIN pane \subseteq Cell /\ pane \in [DOMAIN pane -> PaneType]
    /\ typed \subseteq Cell /\ executed \subseteq Cell
    /\ PanesFollowModel

NInv == IInv /\ ModelSound /\ PanesSound

\* A pane that may stand over a cell with text t.
Shows(p, t) == p \in PaneType /\ IF p.dirty THEN p.timer ELSE p.text = t

\* The panes are sound when each cell has one that may stand over its text.
LEMMA ShownPanes ==
    ASSUME NEW f, pane' = f, DOMAIN f = Listed(doc'), f = [c \in DOMAIN f |-> f[c]],
           \A c \in Listed(doc') : Shows(f[c], doc'.cell[c].text),
           Listed(doc') \subseteq Cell, typed' \subseteq Cell, executed' \subseteq Cell
    PROVE  PanesSound'
  <1>1. f \in [DOMAIN f -> PaneType]
        BY DEF Shows
  <1>2. PanesFollowModel'
        BY DEF PanesFollowModel, Shows
  <1> QED
        BY <1>1, <1>2 DEF PanesSound

LEMMA OpenPaneShows ==
    ASSUME NEW t \in Text
    PROVE  Shows(OpenPane(t), t)
  BY DEF Shows, OpenPane, PaneType

LEMMA EditedPaneShows ==
    ASSUME NEW t \in Text, NEW u
    PROVE  Shows(EditedPane(t), u)
  BY DEF Shows, EditedPane, PaneType

LEMMA PanesShow ==
    ASSUME PanesSound
    PROVE  /\ DOMAIN pane = Listed(doc) /\ pane = [c \in Listed(doc) |-> pane[c]]
           /\ \A c \in Listed(doc) : Shows(pane[c], doc.cell[c].text)
  BY DEF PanesSound, PanesFollowModel, Shows

LEMMA ListedAreCells ==
    ASSUME ModelSound
    PROVE  /\ Listed(doc) \subseteq Cell
           /\ \A c \in Listed(doc) : doc.cell[c].text \in Text /\ doc.cell[c].shared \in BOOLEAN
  BY DEF ModelSound, Orders, ToSet, CellState

\* A mutation that changes no text: panes come and go with their cells.
LEMMA RemountedPanes ==
    ASSUME PanesSound, ModelSound',
           \A c \in Listed(doc) \cap Listed(doc') : doc'.cell[c].text = doc.cell[c].text,
           pane' = Remounted(pane), typed' \subseteq Cell, executed' \subseteq Cell
    PROVE  PanesSound'
  <1> DEFINE f == Remounted(pane)
  <1>1. /\ DOMAIN f = Listed(doc') /\ f = [c \in DOMAIN f |-> f[c]]
        /\ \A c \in Listed(doc') :
              f[c] = IF c \in DOMAIN pane THEN pane[c] ELSE OpenPane(doc'.cell[c].text)
        BY DEF Remounted
  <1>2. Listed(doc') \subseteq Cell /\ \A c \in Listed(doc') : doc'.cell[c].text \in Text
        BY DEF ModelSound, Orders, ToSet, CellState
  <1> HIDE DEF f
  <1>3. ASSUME NEW c \in Listed(doc') PROVE Shows(f[c], doc'.cell[c].text)
    <2>1. CASE c \in DOMAIN pane
          BY <1>1, <2>1, PanesShow
    <2>2. CASE c \notin DOMAIN pane
          BY <1>1, <1>2, <2>2, OpenPaneShows
    <2> QED
          BY <2>1, <2>2
  <1>4. pane' = f
        BY DEF f
  <1> QED
        BY <1>1, <1>2, <1>3, <1>4, ShownPanes

\* An agent's edit of a text: the pane it concerns is refreshed.
LEMMA RefreshedPanes ==
    ASSUME PanesSound, ModelSound', NEW m, m.op = "update", TextStep(m),
           pane' = [c \in Listed(doc') |-> Refreshed(pane[c], doc'.cell[c].text)],
           typed' \subseteq Cell, executed' \subseteq Cell
    PROVE  PanesSound'
  <1> DEFINE f == [c \in Listed(doc') |-> Refreshed(pane[c], doc'.cell[c].text)]
  <1>1. /\ DOMAIN f = Listed(doc') /\ f = [c \in DOMAIN f |-> f[c]] /\ pane' = f
        /\ \A c \in Listed(doc') : f[c] = Refreshed(pane[c], doc'.cell[c].text)
        OBVIOUS
  <1>2. Listed(doc') \subseteq Cell /\ \A c \in Listed(doc') : doc'.cell[c].text \in Text
        BY DEF ModelSound, Orders, ToSet, CellState
  <1> HIDE DEF f
  <1>3. Listed(doc') = Listed(doc)
        BY DEF TextStep
  <1>4. ASSUME NEW c \in Listed(doc') PROVE Shows(f[c], doc'.cell[c].text)
    <2> DEFINE t == doc'.cell[c].text
    <2>1. pane[c] \in PaneType /\ (pane[c].dirty => pane[c].timer) /\ t \in Text
          BY <1>2, <1>3, PanesShow DEF Shows
    <2>2. f[c] = Refreshed(pane[c], t)
          BY <1>1
    <2> HIDE DEF t
    <2>3. CASE ~ pane[c].dirty /\ pane[c].text # t
      <3>1. f[c] = EditedPane(t)
            BY <2>2, <2>3 DEF Refreshed
      <3>2. Shows(EditedPane(t), t)
            BY <2>1, EditedPaneShows
      <3> QED
            BY <3>1, <3>2 DEF t
    <2>4. CASE ~ (~ pane[c].dirty /\ pane[c].text # t)
      <3>1. f[c] = pane[c]
            BY <2>2, <2>4 DEF Refreshed
      <3>2. Shows(pane[c], t)
            BY <2>1, <2>4 DEF Shows
      <3> QED
            BY <3>1, <3>2 DEF t
    <2> QED
          BY <2>3, <2>4
  <1> QED
        BY <1>1, <1>2, <1>4, ShownPanes

\* A pane takes over p; the others stay as they are, and so do their texts.
LEMMA OnePane ==
    ASSUME PanesSound, ModelSound, NEW n \in Listed(doc), NEW p,
           pane' = [pane EXCEPT ![n] = p], Shows(p, doc'.cell[n].text),
           Listed(doc') = Listed(doc),
           \A c \in Listed(doc) \ {n} : doc'.cell[c].text = doc.cell[c].text,
           typed' \subseteq Cell, executed' \subseteq Cell
    PROVE  PanesSound'
  <1> DEFINE f == [pane EXCEPT ![n] = p]
  <1>1. /\ DOMAIN f = Listed(doc) /\ f = [c \in DOMAIN f |-> f[c]] /\ pane' = f
        /\ \A c \in Listed(doc) : f[c] = IF c = n THEN p ELSE pane[c]
        BY PanesShow
  <1> HIDE DEF f
  <1>2. ASSUME NEW c \in Listed(doc') PROVE Shows(f[c], doc'.cell[c].text)
    <2>1. CASE c = n
          BY <1>1, <2>1
    <2>2. CASE c # n
      <3>1. f[c] = pane[c] /\ doc'.cell[c].text = doc.cell[c].text
            BY <1>1, <2>2
      <3>2. Shows(pane[c], doc.cell[c].text)
            BY PanesShow
      <3> QED
            BY <3>1, <3>2
    <2> QED
          BY <2>1, <2>2
  <1>3. Listed(doc') \subseteq Cell
        BY ListedAreCells
  <1> QED
        BY <1>1, <1>2, <1>3, ShownPanes

-----------------------------------------------------------------------------
(***************************************************************************)
(* Every step keeps NInv and marks what it has to.                         *)
(***************************************************************************)

Stays == NInv' /\ Marks

\* What the page sends.
LEMMA BrowserMutations ==
    ASSUME ModelSound
    PROVE  /\ \A c, a : Proper(AddMutation(c, a))
           /\ \A c : \A orig \in Listed(doc) : Proper(CopyMutation(c, orig))
           /\ \A c : Proper(DeleteMutation(c)) /\ Proper(LabelMutation(c))
           /\ \A c \in Listed(doc) : Proper(ToggleMutation(c))
           /\ \A m \in MoveMutations : Proper(m) /\ m.op = "reorder"
           /\ \A t \in Text \cup {Same} : Proper(UpdateMeta(t))
  <1>1. \A c, a : Proper(AddMutation(c, a))
        BY TextAssumption DEF Proper, AddMutation, Add
  <1>2. \A c : \A orig \in Listed(doc) : Proper(CopyMutation(c, orig))
        BY ListedAreCells DEF Proper, CopyMutation, Add
  <1>3. \A c : Proper(DeleteMutation(c)) /\ Proper(LabelMutation(c))
        BY DEF Proper, DeleteMutation, Delete, LabelMutation, Update, SetLabel, Patch
  <1>4. \A c \in Listed(doc) : Proper(ToggleMutation(c))
        BY DEF Proper, ToggleMutation, Update, SetShared, Patch
  <1>5. ASSUME NEW m \in MoveMutations PROVE Proper(m) /\ m.op = "reorder"
    <2> DEFINE ids == [i \in DOMAIN cells |-> cells[i].id]
    <2>1. PICK i \in DOMAIN ids, j \in DOMAIN ids : m = Reorder(Moved(ids, i, j))
          BY DEF MoveMutations
    <2>2. ids = doc.order
          BY ManifestsAt DEF ModelSound, ManifestsCurrent, Orders
    <2>3. Orders(ids, Listed(doc))
          BY <2>2 DEF ModelSound
    <2> HIDE DEF ids
    <2>4. Moved(ids, i, j) \in Seq(Cell) /\ IsInjective(Moved(ids, i, j))
          BY <2>1, <2>3, MovedOrder
    <2> QED
          BY <2>1, <2>4 DEF Proper, Reorder
  <1>6. \A t \in Text \cup {Same} : Proper(UpdateMeta(t))
        BY DEF Proper, UpdateMeta
  <1> QED
        BY <1>1, <1>2, <1>3, <1>4, <1>5, <1>6

\* A mutation that changes no text, with the panes following.
LEMMA TextlessStays ==
    ASSUME NInv, NEW m, Proper(m), Sound(m), Apply(m), m.op = "update" => m.patch.text = Same,
           pane' = Remounted(pane),
           typed' = typed \cap Listed(doc'), executed' = executed \cap Listed(doc')
    PROVE  Stays
  <1>1. ModelSound' /\ TextStep(m) /\ Marks
        BY ApplyHolds DEF NInv, Held
  <1>2. IInv'
        BY ApplyKeeps DEF NInv, Kept
  <1>3. \A c \in Listed(doc) \cap Listed(doc') : doc'.cell[c].text = doc.cell[c].text
        BY <1>1 DEF TextStep, Field
  <1>4. PanesSound'
        BY <1>1, <1>3, RemountedPanes DEF NInv, PanesSound
  <1> QED
        BY <1>1, <1>2, <1>4 DEF Stays, NInv

LEMMA BrowserEditStays ==
    ASSUME NInv, NEW m, Proper(m), Sound(m), BrowserEdit(m), m.op = "update" => m.patch.text = Same
    PROVE  Stays
  BY TextlessStays DEF BrowserEdit

LEMMA RemoteStays ==
    ASSUME NInv, NEW m \in AgentMutations, RemoteEdit(m)
    PROVE  Stays
  <1>1. Sound(m)
        BY DEF Sound, AgentMutations, Add, Update, Delete, Reorder, UpdateMeta
  <1>2. Proper(m)
    <2>1. CASE \E c \in Cell \ used, t \in Text, s \in BOOLEAN, a \in Cell \cup {Top} :
                  m = Add(c, t, s, a)
          BY <2>1 DEF Proper, Add
    <2>2. CASE \E c \in Cell, p \in Patches, v \in AgentVersion : m = Update(c, p, v)
          BY <2>2 DEF Proper, Update, Patches, SetText, SetShared, SetLabel, Patch
    <2>3. CASE \E c \in Cell, v \in AgentVersion : m = Delete(c, v)
          BY <2>3 DEF Proper, Delete
    <2>4. CASE \E ids \in UNION {SetToSeqs(S) : S \in SUBSET used} : m = Reorder(ids)
      <3>1. PICK S \in SUBSET used : \E ids \in SetToSeqs(S) : m = Reorder(ids)
            BY <2>4
      <3>2. PICK ids \in SetToSeqs(S) : m = Reorder(ids)
            BY <3>1
      <3>3. S \subseteq Cell /\ IsFiniteSet(S)
            BY <3>1, FS_Subset DEF NInv, ModelSound
      <3>4. ids \in Seq(Cell) /\ IsInjective(ids)
            BY <3>2, <3>3, AgentOrder
      <3> QED
            BY <3>2, <3>4 DEF Proper, Reorder
    <2>5. CASE \E t \in Text \cup {Same} : m = UpdateMeta(t)
          BY <2>5 DEF Proper, UpdateMeta
    <2> QED
          BY <2>1, <2>2, <2>3, <2>4, <2>5 DEF AgentMutations
  <1>3. ModelSound' /\ TextStep(m) /\ Marks
        BY <1>2, ApplyHolds DEF NInv, Held, RemoteEdit
  <1>4. IInv'
        BY <1>1, ApplyKeeps DEF NInv, Kept, RemoteEdit
  <1>5. typed' \subseteq Cell /\ executed' \subseteq Cell
        BY DEF RemoteEdit, NInv, PanesSound
  <1>6. CASE ContentEdit(m)
    <2>1. m.op = "update" /\ Listed(doc') = Listed(doc)
          BY <1>3, <1>6 DEF ContentEdit, TextStep
    <2>2. pane' = [c \in Listed(doc) |-> Refreshed(pane[c], doc'.cell[c].text)]
          BY <1>6, <2>1 DEF RemoteEdit
    <2>3. PanesSound'
          BY <1>3, <1>5, <2>1, <2>2, RefreshedPanes DEF NInv
    <2> QED
          BY <1>3, <1>4, <2>3 DEF Stays, NInv
  <1>7. CASE ~ ContentEdit(m)
    <2>1. m.op = "update" => m.patch.text = Same
          BY <1>7 DEF ContentEdit
    <2> QED
          BY <1>1, <1>2, <1>7, <2>1, TextlessStays DEF RemoteEdit
  <1> QED
        BY <1>6, <1>7

\* A save of a pane's text, by its timer or by a flush.
LEMMA SaveStays ==
    ASSUME NInv, NEW c, c \in DOMAIN pane, Apply(SaveMutation(c)), NEW p,
           pane' = [pane EXCEPT ![c] = p], p \in PaneType, ~ p.dirty, p.text = pane[c].text,
           typed' \subseteq typed, executed' = executed
    PROVE  Stays
  <1> DEFINE m == SaveMutation(c)
  <1>1. c \in Listed(doc) /\ pane[c].text \in Text
        BY PanesShow DEF NInv, Shows, PaneType
  <1>2. m.op = "update" /\ m.cell = c /\ m.patch = SetText(pane[c].text)
        BY DEF SaveMutation, Update
  <1>3. Sound(m) /\ Proper(m)
        BY <1>1, <1>2 DEF Sound, Proper, SetText, Patch
  <1>4. Apply(m)
        OBVIOUS
  <1> HIDE DEF m
  <1>5. ModelSound' /\ TextStep(m) /\ Marks
        BY <1>3, <1>4, ApplyHolds DEF NInv, Held
  <1>6. IInv'
        BY <1>3, <1>4, ApplyKeeps DEF NInv, Kept
  <1>7. /\ Listed(doc') = Listed(doc)
        /\ \A x \in Listed(doc) \ {c} : doc'.cell[x].text = doc.cell[x].text
        /\ doc'.cell[c].text = pane[c].text
        BY <1>1, <1>2, <1>5, SameAssumption DEF TextStep, Field, SetText
  <1>8. Shows(p, doc'.cell[c].text)
        BY <1>7 DEF Shows
  <1>9. PanesSound'
    <2>1. typed' \subseteq Cell /\ executed' \subseteq Cell
          BY DEF NInv, PanesSound
    <2> QED
          BY <1>1, <1>7, <1>8, <2>1, OnePane DEF NInv
  <1> QED
        BY <1>5, <1>6, <1>9 DEF Stays, NInv

\* A step that leaves the document and the panes' relation to it alone.
LEMMA QuietStays ==
    ASSUME NInv, doc' = doc, versions' = versions, cells' = cells, used' = used,
           stale' \subseteq Cell, PanesSound'
    PROVE  Stays
  <1>1. IInv'
        BY UnchangedKeeps DEF NInv, Kept
  <1>2. ModelSound'
        BY DEF NInv, ModelSound, ManifestsCurrent, Manifests, Listed
  <1>3. Marks
        BY TextKeepsMarks DEF NInv, ModelSound
  <1> QED
        BY <1>1, <1>2, <1>3 DEF Stays, NInv

LEMMA BrowserStays ==
    ASSUME NInv, Browser
    PROVE  Stays
  <1>1. ASSUME NEW c, NEW a, AddCell(c, a) PROVE Stays
    <2>1. Proper(AddMutation(c, a))
          BY BrowserMutations DEF NInv
    <2>2. Sound(AddMutation(c, a)) /\ AddMutation(c, a).op = "add"
          BY DEF Sound, AddMutation, Add
    <2> QED
          BY <1>1, <2>1, <2>2, BrowserEditStays DEF AddCell
  <1>2. ASSUME NEW c, NEW orig, Duplicate(c, orig) PROVE Stays
    <2>1. Proper(CopyMutation(c, orig))
          BY <1>2, BrowserMutations DEF NInv, Duplicate
    <2>2. Sound(CopyMutation(c, orig)) /\ CopyMutation(c, orig).op = "add"
          BY DEF Sound, CopyMutation, Add
    <2> QED
          BY <1>2, <2>1, <2>2, BrowserEditStays DEF Duplicate
  <1>3. ASSUME NEW c, DeleteCell(c) PROVE Stays
    <2>1. Proper(DeleteMutation(c))
          BY BrowserMutations DEF NInv
    <2>2. Sound(DeleteMutation(c)) /\ DeleteMutation(c).op = "delete"
          BY DEF Sound, DeleteMutation, Delete
    <2> QED
          BY <1>3, <2>1, <2>2, BrowserEditStays DEF DeleteCell
  <1>4. ASSUME NEW c, Rename(c) PROVE Stays
    <2>1. Proper(LabelMutation(c))
          BY BrowserMutations DEF NInv
    <2>2. Sound(LabelMutation(c)) /\ LabelMutation(c).patch.text = Same
          BY DEF Sound, LabelMutation, Update, SetLabel
    <2> QED
          BY <1>4, <2>1, <2>2, BrowserEditStays DEF Rename
  <1>5. ASSUME NEW c, ToggleShared(c) PROVE Stays
    <2>1. Proper(ToggleMutation(c))
          BY <1>5, BrowserMutations DEF NInv, ToggleShared, Editable
    <2>2. Sound(ToggleMutation(c)) /\ ToggleMutation(c).patch.text = Same
          BY DEF Sound, ToggleMutation, Update, SetShared
    <2> QED
          BY <1>5, <2>1, <2>2, BrowserEditStays DEF ToggleShared
  <1>6. ASSUME NEW m \in MoveMutations, MoveCell(m) PROVE Stays
    <2>1. Proper(m) /\ m.op = "reorder"
          BY BrowserMutations DEF NInv
    <2>2. Sound(m)
          BY <2>1 DEF Sound
    <2> QED
          BY <1>6, <2>1, <2>2, BrowserEditStays DEF MoveCell
  <1>7. ASSUME NEW t \in Text \cup {Same}, SaveMeta(t) PROVE Stays
    <2>1. Proper(UpdateMeta(t))
          BY BrowserMutations DEF NInv
    <2>2. Sound(UpdateMeta(t)) /\ UpdateMeta(t).op = "meta"
          BY DEF Sound, UpdateMeta
    <2> QED
          BY <1>7, <2>1, <2>2, BrowserEditStays DEF SaveMeta
  <1>8. ASSUME NEW c \in Cell, NEW t \in Text, Type(c, t) PROVE Stays
    <2>1. UNCHANGED <<doc, versions, cells, stale, used, executed>> /\ c \in Listed(doc)
          BY <1>8 DEF Type, model, Editable
    <2>2. pane' = [pane EXCEPT ![c] = EditedPane(t)] /\ typed' \subseteq Cell /\ executed' \subseteq Cell
          BY <1>8 DEF Type, NInv, PanesSound
    <2>3. Shows(EditedPane(t), doc'.cell[c].text)
          BY EditedPaneShows
    <2>4. PanesSound'
          BY <2>1, <2>2, <2>3, OnePane DEF NInv
    <2> QED
          BY <2>1, <2>4, QuietStays DEF NInv, ModelSound
  <1>9. ASSUME NEW c, SaveTimer(c) PROVE Stays
    <2> DEFINE p == OpenPane(pane[c].text)
    <2>1. c \in DOMAIN pane /\ pane[c].text \in Text
          BY <1>9, PanesShow DEF SaveTimer, NInv, Shows, PaneType
    <2>2. p \in PaneType /\ ~ p.dirty /\ p.text = pane[c].text
          BY <2>1 DEF OpenPane, PaneType
    <2>3. pane' = [pane EXCEPT ![c] = p] /\ Apply(SaveMutation(c)) /\ typed' \subseteq typed
          /\ executed' = executed
          BY <1>9, <2>1 DEF SaveTimer
    <2> HIDE DEF p
    <2> QED
          BY <2>1, <2>2, <2>3, SaveStays
  <1>10. ASSUME NEW c, Flush(c) PROVE Stays
    <2> DEFINE p == [pane[c] EXCEPT !.dirty = FALSE]
    <2>1. c \in DOMAIN pane /\ pane[c] \in PaneType
          BY <1>10, PanesShow DEF Flush, NInv, Shows
    <2>2. p \in PaneType /\ ~ p.dirty /\ p.text = pane[c].text
          BY <2>1 DEF PaneType
    <2>3. pane' = [pane EXCEPT ![c] = p] /\ Apply(SaveMutation(c)) /\ typed' \subseteq typed
          /\ executed' = executed
          BY <1>10, <2>1 DEF Flush
    <2> HIDE DEF p
    <2> QED
          BY <2>1, <2>2, <2>3, SaveStays
  <1>11. ASSUME NEW c \in Cell, RunSucceeds(c) PROVE Stays
    <2>1. UNCHANGED <<doc, versions, cells, used, pane, typed>> /\ stale' \subseteq Cell
          /\ executed' \subseteq Cell
          BY <1>11 DEF RunSucceeds, NInv, ModelSound, PanesSound
    <2>2. PanesSound'
          BY <2>1 DEF NInv, PanesSound, PanesFollowModel, Listed
    <2> QED
          BY <2>1, <2>2, QuietStays
  <1> QED
        BY <1>1, <1>2, <1>3, <1>4, <1>5, <1>6, <1>7, <1>8, <1>9, <1>10, <1>11 DEF Browser

LEMMA StepStays == NInv /\ [Next]_vars => Stays
  <1> SUFFICES ASSUME NInv, [Next]_vars PROVE Stays
        OBVIOUS
  <1>1. CASE Browser
        BY <1>1, BrowserStays
  <1>2. CASE \E m \in AgentMutations : RemoteEdit(m)
        BY <1>2, RemoteStays
  <1>3. CASE UNCHANGED vars
    <2>1. UNCHANGED <<doc, versions, cells, stale, used, pane, typed, executed>>
          BY <1>3 DEF vars, model, history
    <2>2. PanesSound'
          BY <2>1 DEF NInv, PanesSound, PanesFollowModel, Listed
    <2> QED
          BY <2>1, <2>2, QuietStays DEF NInv, ModelSound
  <1> QED
        BY <1>1, <1>2, <1>3 DEF Next

LEMMA InitNInv == Init => NInv
  <1> SUFFICES ASSUME Init PROVE NInv
        OBVIOUS
  <1> DEFINE S == ToSet(InitialOrder)
  <1>1. Listed(doc) = S /\ doc.order = InitialOrder /\ doc.meta = DefaultText
        BY DEF Init, Listed
  <1>2. \A c \in Listed(doc) : doc.cell[c] = NewCell(DefaultText, FALSE)
        BY <1>1 DEF Init
  <1>3. NewCell(DefaultText, FALSE) \in CellState /\ NewCell(DefaultText, FALSE).text = DefaultText
        BY TextAssumption DEF NewCell, CellState
  <1>4. Orders(InitialOrder, S) /\ S \subseteq Cell /\ IsFiniteSet(S)
        BY InitialAssumption, ListedIsFinite, ListOfMembers DEF Orders
  <1>5. doc.cell \in [Listed(doc) -> CellState]
        BY <1>1, <1>3 DEF Init
  <1>6. ModelSound
        BY <1>1, <1>4, <1>5, TextAssumption DEF Init, ModelSound, ManifestsCurrent
  <1>7. pane = [c \in S |-> OpenPane(DefaultText)] /\ typed = {} /\ executed = {}
        BY DEF Init
  <1>8. PanesSound
    <2>1. OpenPane(DefaultText) \in PaneType /\ ~ OpenPane(DefaultText).dirty
          /\ OpenPane(DefaultText).text = DefaultText
          BY TextAssumption DEF OpenPane, PaneType
    <2>2. pane \in [S -> PaneType] /\ DOMAIN pane = S
          BY <1>7, <2>1
    <2>3. PanesFollowModel
          BY <1>1, <1>2, <1>3, <1>7, <2>1, <2>2 DEF PanesFollowModel
    <2> QED
          BY <1>4, <1>7, <2>2, <2>3 DEF PanesSound
  <1> QED
        BY <1>6, <1>8, InitIInv DEF NInv

-----------------------------------------------------------------------------
(* The theorems. *)

\* For every cell there is, and for no other, cell_versions and the notebook
\* say the same version, whatever the browser and the agents do.
THEOREM VersionsSafe == Spec => []VersionsAgree
  <1>1. IInv /\ [Next]_vars => IInv'
        BY StepKeeps DEF Kept
  <1>2. IInv => VersionsAgree
        BY DEF IInv
  <1> QED
        BY InitIInv, <1>1, <1>2, PTL DEF Spec

\* A cell's version never goes back and its text never changes under an
\* unchanged version; a deleted cell's id is never seen again.
THEOREM VersionsNameTexts == Spec => VersionNamesText
  <1>1. IInv /\ [Next]_vars => IInv'
        BY StepKeeps DEF Kept
  <1>2. IInv /\ [Next]_vars
          => [\A c \in used \cap Listed(doc') :
                /\ c \in Listed(doc)
                /\ doc'.cell[c].version >= doc.cell[c].version
                /\ doc'.cell[c].text # doc.cell[c].text
                      => doc'.cell[c].version > doc.cell[c].version]_vars
        BY StepKeeps DEF Kept, CellStep
  <1> QED
        BY InitIInv, <1>1, <1>2, PTL DEF Spec, VersionNamesText

\* The inductive invariant: versions, document and panes together.
THEOREM NotebookInvariant == Spec => []NInv
  <1>1. NInv /\ [Next]_vars => NInv'
        BY StepStays DEF Stays
  <1> QED
        BY InitNInv, <1>1, PTL DEF Spec

\* Adds, deletes, drags and agents' outdated reorder lists, however mixed, lose
\* no cell and list none twice, and the manifest list is never behind.
THEOREM DocumentIsSound == Spec => []DocumentSound
  <1>1. NInv => DocumentSound
    <2>1. SUFFICES ASSUME NInv PROVE DocumentSound
          OBVIOUS
    <2>2. Listed(doc) \subseteq Cell
          BY <2>1, ListedAreCells DEF NInv
    <2>3. DOMAIN versions \subseteq Cell /\ versions \in [DOMAIN versions -> Nat]
          BY <2>1, <2>2, VersionIsNat DEF NInv, IInv, VersionsAgree
    <2>4. TypeOK
          BY <2>1, <2>3 DEF TypeOK, NInv, IInv, ModelSound, Orders, PanesSound
    <2> QED
          BY <2>1, <2>4 DEF DocumentSound, OrderListsEachCellOnce, NInv, ModelSound, Orders
  <1> QED
        BY NotebookInvariant, <1>1, PTL

\* Every cell has its pane, a clean pane shows the model's text and a dirty one
\* has the timer that will save it, whatever agents edit meanwhile.
THEOREM PanesFollow == Spec => []PanesFollowModel
  <1>1. NInv => PanesFollowModel
        BY DEF NInv, PanesSound
  <1> QED
        BY NotebookInvariant, <1>1, PTL

\* An edit of a runnable cell's text, by whomever, leaves that cell and every
\* runnable cell below it stale, in the order the document has then.
THEOREM EditsMarkDownstream == Spec => EditMarksDownstream
  <1>1. NInv /\ [Next]_vars
          => [\A i \in DOMAIN doc.order :
                LET c == doc.order[i]
                IN  /\ c \in Listed(doc') /\ ~doc.cell[c].shared
                    /\ doc'.cell[c].text # doc.cell[c].text
                    => \A j \in i .. Len(doc.order) :
                          ~doc.cell[doc.order[j]].shared => doc.order[j] \in stale']_vars
        BY StepStays DEF Stays, Marks
  <1> QED
        BY NotebookInvariant, <1>1, PTL DEF Spec, EditMarksDownstream
=============================================================================
