--------------------------- MODULE DraftSyncProofs --------------------------
(***************************************************************************)
(* Theorems about DraftSync, for any number of pages, versions, sizes,     *)
(* editorial acts, lost requests and reloads.                              *)
(*                                                                         *)
(* The row keeps a content and its slots in step, and is served as         *)
(* AccountNotebook promises; no edit is lost between the pages and the     *)
(* row; at rest the row holds what some page shows; and a push makes       *)
(* public what its page showed at the click, or something newer.           *)
(***************************************************************************)
EXTENDS DraftSync, TLAPS

-----------------------------------------------------------------------------
(***************************************************************************)
(* The saves on a page's wire.                                             *)
(***************************************************************************)

LEMMA SaveFields ==
    ASSUME NEW r \in Save
    PROVE  /\ r.text \in Text /\ r.durable \in BOOLEAN /\ r.age \in Nat
           /\ r.stage \in Stages /\ r.heard \in BOOLEAN /\ r.late \in BOOLEAN
BY DEF Save

LEMMA RestagedTyped ==
    ASSUME NEW w \in SUBSET Save, NEW r \in w, NEW stage \in Stages
    PROVE  Restaged(w, r, stage) \in SUBSET Save
BY DEF Restaged, Replaced, Save

LEMMA RemovedTyped ==
    ASSUME NEW w \in SUBSET Save, NEW r \in Save
    PROVE  Removed(w, r) \in SUBSET Save
<1>1. ASSUME NEW q \in w
      PROVE  [q EXCEPT !.age = IF @ > r.age THEN @ - 1 ELSE @] \in Save
  BY SaveFields DEF Save
<1>2. QED
  BY <1>1 DEF Removed

LEMMA AbandonedTyped ==
    ASSUME NEW w \in SUBSET Save
    PROVE  Abandoned(w) \in SUBSET Save /\ Inflight(Abandoned(w)) = {}
<1>1. ASSUME NEW r \in Save
      PROVE  /\ [r EXCEPT !.heard = FALSE, !.late = TRUE] \in Save
             /\ ~[r EXCEPT !.heard = FALSE, !.late = TRUE].heard
  BY DEF Save
<1>2. \A a \in Abandoned(w) : \E r \in Save : a = [r EXCEPT !.heard = FALSE, !.late = TRUE]
  BY DEF Abandoned
<1>3. \A a \in Abandoned(w) : a \in Save /\ ~a.heard
  BY <1>1, <1>2
<1>4. QED
  BY <1>3 DEF Inflight

\* A page that waits for a save after one of these steps did so before.
LEMMA RestagedHeard ==
    ASSUME NEW w \in SUBSET Save, NEW r \in w, NEW stage \in Stages,
           Inflight(Restaged(w, r, stage)) # {}
    PROVE  Inflight(w) # {}
<1>1. [r EXCEPT !.stage = stage].heard = r.heard
  BY DEF Save
<1>2. PICK q \in Restaged(w, r, stage) : q.heard
  BY DEF Inflight
<1>3. q \in w \/ q = [r EXCEPT !.stage = stage]
  BY DEF Restaged, Replaced
<1>4. QED
  BY <1>1, <1>2, <1>3 DEF Inflight

LEMMA RemovedHeard ==
    ASSUME NEW w \in SUBSET Save, NEW r \in w, Inflight(Removed(w, r)) # {}
    PROVE  Inflight(w) # {}
<1>1. PICK q \in Removed(w, r) : q.heard
  BY DEF Inflight
<1>2. PICK x \in w : q = [x EXCEPT !.age = IF @ > r.age THEN @ - 1 ELSE @]
  BY DEF Removed
<1>3. q.heard = x.heard
  BY <1>2 DEF Save
<1>4. QED
  BY <1>1, <1>3 DEF Inflight

LEMMA OutdatedHeard ==
    ASSUME NEW w \in SUBSET Save, NEW r \in w, Inflight(Outdated(w, r)) # {}
    PROVE  Inflight(w) # {}
<1>1. PICK q \in Outdated(w, r) : q.heard
  BY DEF Inflight
<1>2. PICK x \in w : q = IF x.age > r.age /\ x.stage \in Unsettled
                         THEN [x EXCEPT !.late = TRUE] ELSE x
  BY DEF Outdated
<1>3. q.heard = x.heard
  BY <1>2 DEF Save
<1>4. QED
  BY <1>1, <1>3 DEF Inflight

LEMMA OutdatedTyped ==
    ASSUME NEW w \in SUBSET Save, NEW r \in Save
    PROVE  Outdated(w, r) \in SUBSET Save
<1>1. ASSUME NEW q \in w
      PROVE  (IF q.age > r.age /\ q.stage \in Unsettled THEN [q EXCEPT !.late = TRUE] ELSE q)
                 \in Save
  BY DEF Save
<1>2. QED
  BY <1>1 DEF Outdated

\* The save that is written is as old as itself.
LEMMA OutdatedKeeps ==
    ASSUME NEW w \in SUBSET Save, NEW r \in w
    PROVE  r \in Outdated(w, r)
<1>1. ~(r.age > r.age)
  BY SaveFields
<1>2. QED
  BY <1>1 DEF Outdated

LEMMA SettledTyped ==
    ASSUME NEW p \in Page, NEW r \in wire[p], wire \in [Page -> SUBSET Save],
           NEW stage \in Stages, Settled(p, r, stage)
    PROVE  wire' \in [Page -> SUBSET Save]
BY RestagedTyped, RemovedTyped DEF Settled

LEMMA SentTyped ==
    ASSUME NEW p \in Page, wire \in [Page -> SUBSET Save], text[p] \in Text,
           NEW durable \in BOOLEAN, SendDraft(p, durable)
    PROVE  wire' \in [Page -> SUBSET Save]
<1>1. ASSUME NEW q \in wire[p] PROVE [q EXCEPT !.age = @ + 1] \in Save
  BY SaveFields DEF Save
<1>2. Aged(wire[p]) \in SUBSET Save
  BY <1>1 DEF Aged
<1>3. [text |-> Outgoing(p), durable |-> durable, age |-> 0, stage |-> "sent",
       heard |-> TRUE, late |-> FALSE] \in Save
  BY DEF Save, Stages, Outgoing
<1>4. QED
  BY <1>2, <1>3 DEF SendDraft

-----------------------------------------------------------------------------
(***************************************************************************)
(* Types, and what the row holds.                                          *)
(***************************************************************************)

\* A page that will send, waits or acts shows a notebook.
Showing ==
    \A p \in Page : armed[p] \/ act[p] # Idle \/ Inflight(wire[p]) # {} => text[p] \in Text

\* A push has read a content before it promotes.
Reading == \A p \in Page : act[p].at = "promote" => act[p].read \in Text

\* A notebook that was deleted is gone from both slots.
Gone == ~exists => pub = NoText /\ draft = NoText

RowInv == TypeOK /\ Showing /\ Reading /\ Gone /\ NeverNowhere

LEMMA TextFacts ==
    /\ First \in Text /\ NoText \notin Text
    /\ \A t \in Text : t \in Nat /\ Size[t] \in Nat /\ Size[t] # 0
BY BoundAssumption, SizeAssumption DEF Text, First, NoText

LEMMA Bounds == /\ 0 \in 0..MaxActs /\ 0 \in 0..MaxFaults /\ 0 \in 0..MaxReloads
                /\ MaxText \in Nat /\ MaxActs \in Nat /\ MaxFaults \in Nat /\ MaxReloads \in Nat
BY BoundAssumption

LEMMA ContentTyped ==
    ASSUME TypeOK PROVE Content \in Text \union {NoText}
BY DEF TypeOK, Content

LEMMA ContentIsText ==
    ASSUME RowInv, exists PROVE Content \in Text
BY DEF RowInv, TypeOK, Content, NeverNowhere

LEMMA IdleTyped == Idle \in Act
BY DEF Idle, Act

LEMMA InitRow == ASSUME Init PROVE RowInv
<1>1. TypeOK
  <2>1. /\ pub \in Text \union {NoText} /\ draft \in Text \union {NoText}
        /\ bytes \in Nat /\ draftBytes \in Nat /\ manifest \in Text \union {NoText}
    BY TextFacts DEF Init, Opened
  <2>2. act \in [Page -> Act]
    BY IdleTyped DEF Init, Opened
  <2>3. text \in [Page -> Text \union {NoText}] /\ minted \in Text
    BY TextFacts DEF Init, Opened
  <2>4. /\ dirty \in [Page -> BOOLEAN] /\ published \in [Page -> BOOLEAN]
        /\ indicator \in [Page -> {"Synced", "Saving", "Failed", "Refused"}]
        /\ armed \in [Page -> BOOLEAN] /\ wire \in [Page -> SUBSET Save]
        /\ login \in [Page -> BOOLEAN] /\ toasts \in [Page -> 0..2]
    BY DEF Init, Opened
  <2>5. /\ acts \in 0..MaxActs /\ faults \in 0..MaxFaults /\ reloads \in 0..MaxReloads
        /\ saved \subseteq Text /\ refused \subseteq Text
    BY TextFacts, Bounds DEF Init, Opened
  <2>6. QED
    BY <2>1, <2>2, <2>3, <2>4, <2>5 DEF Init, Opened, TypeOK
<1>2. Showing
  BY DEF Init, Opened, Showing, Inflight
<1>3. Reading
  BY DEF Init, Opened, Reading, Idle
<1>4. QED
  BY <1>1, <1>2, <1>3, TextFacts DEF Init, Opened, RowInv, Gone, NeverNowhere

-----------------------------------------------------------------------------
(* One lemma per action, or per action that opens or ends alike. *)

\* A page is loaded, and shows the notebook or, signed out, nothing.
Mounting(p) ==
    Reload(p) \/ DiscardAnswered(p) \/ DeleteAnswered(p) \/ (SignsIn(p) /\ text[p] = NoText)

\* A session ends or is back, and the page stays as it is.
Quiet(p) == SessionEnds(p) \/ (SignsIn(p) /\ text[p] # NoText)

LEMMA MountFacts ==
    ASSUME RowInv, NEW p \in Page, Mounting(p)
    PROVE  /\ \E shown \in {Content, NoText} :
                  Mount(p, shown) /\ (shown = Content \/ (shown = NoText /\ ~login'[p]))
           /\ UNCHANGED <<row, minted, acts, faults, saved, refused, writer, overtaken, stray,
                          lagged>>
           /\ reloads' \in 0..MaxReloads /\ login' \in [Page -> BOOLEAN]
           /\ \A q \in Page \ {p} : login'[q] = login[q]
<1> USE DEF RowInv
<1>1. CASE Reload(p) \/ DiscardAnswered(p) \/ DeleteAnswered(p)
  <2>1. Mount(p, Editable(p)) /\ login' = login
    BY <1>1 DEF Reload, DiscardAnswered, DeleteAnswered
  <2>2. Editable(p) = Content \/ (Editable(p) = NoText /\ ~login'[p])
    BY <2>1 DEF Editable
  <2>3. reloads' \in 0..MaxReloads
    BY <1>1, Bounds DEF Reload, DiscardAnswered, DeleteAnswered, bounds, TypeOK
  <2>4. UNCHANGED <<row, minted, acts, faults, saved, refused, writer, overtaken, stray, lagged>>
    BY <1>1 DEF Reload, DiscardAnswered, DeleteAnswered, bounds
  <2>5. QED
    BY <2>1, <2>2, <2>3, <2>4 DEF TypeOK
<1>2. CASE SignsIn(p) /\ text[p] = NoText
  BY <1>2 DEF SignsIn, bounds, TypeOK
<1>3. QED
  BY <1>1, <1>2 DEF Mounting

LEMMA QuietFacts ==
    ASSUME RowInv, NEW p \in Page, Quiet(p)
    PROVE  /\ UNCHANGED <<row, text, dirty, published, indicator, armed, wire, act,
                          minted, acts, reloads, history>>
           /\ faults' \in 0..MaxFaults /\ login' \in [Page -> BOOLEAN]
           /\ text[p] # NoText /\ \A q \in Page \ {p} : login'[q] = login[q]
<1> USE DEF RowInv
<1>1. CASE SessionEnds(p)
  BY <1>1, Bounds DEF SessionEnds, TypeOK
<1>2. CASE SignsIn(p) /\ text[p] # NoText
  BY <1>2 DEF SignsIn, TypeOK, bounds, history
<1>3. QED
  BY <1>1, <1>2 DEF Quiet

LEMMA MountTyped ==
    ASSUME RowInv, NEW p \in Page, NEW shown \in {Content, NoText}, Mount(p, shown),
           UNCHANGED <<row, minted, acts, faults, saved, refused, writer, overtaken, stray, lagged>>,
           reloads' \in 0..MaxReloads, login' \in [Page -> BOOLEAN]
    PROVE  RowInv'
<1> USE DEF RowInv
<1>1. wire' \in [Page -> SUBSET Save]
  BY AbandonedTyped DEF Mount, TypeOK
<1>2. act' \in [Page -> Act] /\ act' = [act EXCEPT ![p] = Idle]
  BY IdleTyped DEF Mount, TypeOK
<1>3. text' \in [Page -> Text \union {NoText}]
  BY ContentTyped DEF Mount, TypeOK
<1>4. TypeOK'
  BY <1>1, <1>2, <1>3 DEF Mount, TypeOK, row, Unscheduled
<1>5. Inflight(wire'[p]) = {}
  BY AbandonedTyped DEF Mount, TypeOK
<1>6. \A q \in Page \ {p} : /\ wire'[q] = wire[q] /\ act'[q] = act[q]
                            /\ armed'[q] = armed[q] /\ text'[q] = text[q]
  BY DEF Mount, Unscheduled, TypeOK
<1>7. ~armed'[p] /\ act'[p] = Idle
  BY DEF Mount, Unscheduled, TypeOK
<1>8. Showing'
  BY <1>5, <1>6, <1>7 DEF Showing, Inflight
<1>9. Reading'
  BY <1>6, <1>7 DEF Reading, Idle
<1>10. Gone' /\ NeverNowhere'
  BY DEF Gone, NeverNowhere, row
<1>11. QED
  BY <1>4, <1>8, <1>9, <1>10

\* A page that keeps its text and comes to nothing new.
LEMMA SendKeeps ==
    ASSUME RowInv, NEW p \in Page, text[p] \in Text, NEW durable \in BOOLEAN,
           SendDraft(p, durable), Unscheduled(p)
    PROVE  /\ wire' \in [Page -> SUBSET Save]
           /\ armed' \in [Page -> BOOLEAN]
           /\ indicator' \in [Page -> {"Synced", "Saving", "Failed", "Refused"}]
           /\ \A q \in Page : Inflight(wire'[q]) # {} \/ armed'[q] =>
                  q = p \/ Inflight(wire[q]) # {} \/ armed[q]
<1> USE DEF RowInv
<1>1. wire' \in [Page -> SUBSET Save]
  BY SentTyped DEF TypeOK
<1>2. \A q \in Page \ {p} : wire'[q] = wire[q] /\ armed'[q] = armed[q]
  BY DEF SendDraft, Unscheduled, TypeOK
<1>3. QED
  BY <1>1, <1>2 DEF SendDraft, Unscheduled, TypeOK

LEMMA EditRow == ASSUME RowInv, NEW p \in Page, Edit(p) PROVE RowInv'
<1> USE DEF RowInv
<1>1. minted + 1 \in Text
  BY Bounds DEF Edit, TypeOK, Text
<1>2. TypeOK'
  BY <1>1 DEF Edit, TypeOK, row, history
<1>3. Showing'
  BY <1>1 DEF Edit, Showing, TypeOK
<1>4. Reading' /\ Gone' /\ NeverNowhere'
  BY DEF Edit, Reading, Gone, NeverNowhere, row
<1>5. QED
  BY <1>2, <1>3, <1>4

LEMMA SaveFiresRow == ASSUME RowInv, NEW p \in Page, SaveFires(p) PROVE RowInv'
<1> USE DEF RowInv
<1>1. text[p] \in Text
  BY DEF SaveFires, Showing
<1>2. SendDraft(p, FALSE) /\ Unscheduled(p)
  BY DEF SaveFires
<1>3. TypeOK'
  BY <1>1, <1>2, SendKeeps DEF SaveFires, TypeOK, row, history, bounds
<1>4. Showing'
  BY <1>1, <1>2, SendKeeps DEF SaveFires, Showing
<1>5. Reading' /\ Gone' /\ NeverNowhere'
  BY DEF SaveFires, Reading, Gone, NeverNowhere, row
<1>6. QED
  BY <1>3, <1>4, <1>5

LEMMA DurableSaveRow == ASSUME RowInv, NEW p \in Page, DurableSave(p) PROVE RowInv'
<1> USE DEF RowInv
<1>1. text[p] \in Text
  BY DEF DurableSave, Showing, At, Idle
<1>2. SendDraft(p, TRUE) /\ Unscheduled(p)
  BY DEF DurableSave
<1>3. act' = [act EXCEPT ![p] = [@ EXCEPT !.at = "save", !.late = WaitExpired(p)]]
  BY DEF DurableSave
<1>4. act' \in [Page -> Act]
  <2>1. act[p] \in Act /\ WaitExpired(p) \in BOOLEAN
    BY DEF TypeOK, WaitExpired
  <2>2. [act[p] EXCEPT !.at = "save", !.late = WaitExpired(p)] \in Act
    BY <2>1 DEF Act
  <2>3. QED
    BY <1>3, <2>2 DEF TypeOK
<1>5. TypeOK'
  BY <1>1, <1>2, <1>4, SendKeeps DEF DurableSave, TypeOK, row, history, bounds
<1>6. \A q \in Page \ {p} : act'[q] = act[q]
  BY <1>3 DEF TypeOK
<1>7. Showing'
  BY <1>1, <1>2, <1>6, SendKeeps DEF DurableSave, Showing
<1>8. act'[p].at = "save"
  BY <1>3 DEF TypeOK, Act
<1>9. Reading' /\ Gone' /\ NeverNowhere'
  BY <1>6, <1>8 DEF DurableSave, Reading, Gone, NeverNowhere, row
<1>10. QED
  BY <1>5, <1>7, <1>9

\* An act that starts, moves on or is given up.
LEMMA ActKeeps ==
    ASSUME RowInv, NEW p \in Page, NEW x \in Act, act' = [act EXCEPT ![p] = x],
           x = Idle \/ text[p] \in Text, x.at = "promote" => x.read \in Text,
           UNCHANGED <<text, armed, wire>>
    PROVE  act' \in [Page -> Act] /\ Showing' /\ Reading'
<1> USE DEF RowInv
<1>1. act' \in [Page -> Act]
  BY DEF TypeOK
<1>2. act'[p] = x /\ \A q \in Page \ {p} : act'[q] = act[q]
  BY DEF TypeOK
<1>3. Showing'
  BY <1>2 DEF Showing
<1>4. Reading'
  BY <1>2 DEF Reading
<1>5. QED
  BY <1>1, <1>3, <1>4

LEMMA AbandonKeeps ==
    ASSUME RowInv, NEW p \in Page, act' = [act EXCEPT ![p] = Idle],
           UNCHANGED <<text, armed, wire>>
    PROVE  act' \in [Page -> Act] /\ Showing' /\ Reading'
<1>1. Idle.at # "promote"
  BY DEF Idle
<1>2. QED
  BY <1>1, IdleTyped, ActKeeps

LEMMA ReachesKeeps ==
    ASSUME RowInv, NEW p \in Page, act[p].at # "none", Reaches(p, "answer"),
           UNCHANGED <<text, armed, wire>>
    PROVE  act' \in [Page -> Act] /\ Showing' /\ Reading'
<1> DEFINE x == [act[p] EXCEPT !.at = "answer"]
<1>1. act[p] \in Act
  BY DEF RowInv, TypeOK
<1>2. x \in Act /\ x.at # "promote"
  BY <1>1 DEF Act
<1>3. text[p] \in Text
  BY DEF RowInv, Showing, Idle
<1>4. act' = [act EXCEPT ![p] = x]
  BY DEF Reaches
<1> HIDE DEF x
<1>5. QED
  BY <1>2, <1>3, <1>4, ActKeeps

\* What a click makes of a page's act.
LEMMA ClickRow ==
    ASSUME RowInv, NEW p \in Page,
           NEW kind \in {"push", "discard", "unpublish", "delete"},
           NEW at \in {"drain", "request"}, Click(p, kind, at)
    PROVE  RowInv'
<1> DEFINE x == [Idle EXCEPT !.kind = kind, !.at = at, !.clicked = text[p]]
<1> USE DEF RowInv
<1>1. text[p] \in Text
  BY DEF Click, TypeOK
<1>2. x \in Act /\ x.at # "promote"
  BY <1>1 DEF Idle, Act
<1>3. act' = [act EXCEPT ![p] = x]
  BY DEF Click
<1> HIDE DEF x
<1>4. act' \in [Page -> Act] /\ Showing' /\ Reading'
  BY <1>1, <1>2, <1>3, ActKeeps DEF Click
<1>5. acts' \in 0..MaxActs
  BY Bounds DEF Click, TypeOK
<1>6. TypeOK'
  BY <1>4, <1>5 DEF Click, TypeOK, row, history
<1>7. Gone' /\ NeverNowhere'
  BY DEF Click, Gone, NeverNowhere, row
<1>8. QED
  BY <1>4, <1>6, <1>7

\* The page's answers that only change its flags.
LEMMA FlagsRow ==
    ASSUME RowInv, NEW p \in Page, PushAnswered(p) \/ UnpublishAnswered(p) PROVE RowInv'
<1> USE DEF RowInv
<1>1. act' \in [Page -> Act] /\ Showing' /\ Reading'
  BY AbandonKeeps DEF PushAnswered, UnpublishAnswered
<1>2. TypeOK'
  BY <1>1 DEF PushAnswered, UnpublishAnswered, TypeOK, row, history, bounds
<1>3. Gone' /\ NeverNowhere'
  BY DEF PushAnswered, UnpublishAnswered, Gone, NeverNowhere, row
<1>4. QED
  BY <1>1, <1>2, <1>3

LEMMA MountsRow == ASSUME RowInv, NEW p \in Page, Mounting(p) PROVE RowInv'
BY MountFacts, MountTyped

LEMMA QuietRow == ASSUME RowInv, NEW p \in Page, Quiet(p) PROVE RowInv'
<1> USE DEF RowInv
<1>1. TypeOK'
  BY QuietFacts DEF TypeOK, row, history
<1>2. Showing' /\ Reading' /\ Gone' /\ NeverNowhere'
  BY QuietFacts DEF Showing, Reading, Gone, NeverNowhere, row
<1>3. QED
  BY <1>1, <1>2

LEMMA ActLostRow == ASSUME RowInv, NEW p \in Page, ActLost(p) PROVE RowInv'
<1> USE DEF RowInv
<1>1. act' \in [Page -> Act] /\ Showing' /\ Reading'
  BY AbandonKeeps DEF ActLost
<1>2. faults' \in 0..MaxFaults
  BY Bounds DEF ActLost, TypeOK
<1>3. stray' \in BOOLEAN
  BY DEF ActLost, TypeOK, At
<1>4. TypeOK'
  BY <1>1, <1>2, <1>3 DEF ActLost, TypeOK, row
<1>5. Gone' /\ NeverNowhere'
  BY DEF ActLost, Gone, NeverNowhere, row
<1>6. QED
  BY <1>1, <1>4, <1>5

LEMMA PushReadRow == ASSUME RowInv, NEW p \in Page, PushRead(p) PROVE RowInv'
<1> USE DEF RowInv
<1> DEFINE x == [act[p] EXCEPT !.at = "promote", !.read = Content]
<1>1. act' \in [Page -> Act] /\ Showing' /\ Reading'
  <2>1. CASE act' = [act EXCEPT ![p] = Idle]
    BY <2>1, AbandonKeeps DEF PushRead
  <2>2. CASE Reaches(p, "answer")
    BY <2>2, ReachesKeeps DEF PushRead, At
  <2>3. CASE exists /\ act' = [act EXCEPT ![p] = x]
    <3>1. Content \in Text
      BY <2>3, ContentIsText
    <3>2. act[p] \in Act
      BY DEF TypeOK
    <3>3. x \in Act /\ x.read \in Text
      BY <3>1, <3>2 DEF Act
    <3>4. text[p] \in Text
      BY DEF PushRead, At, Showing, Idle
    <3> HIDE DEF x
    <3>5. QED
      BY <2>3, <3>3, <3>4, ActKeeps DEF PushRead
  <2>4. QED
    BY <2>1, <2>2, <2>3 DEF PushRead, IsOwner
<1>2. TypeOK'
  BY <1>1 DEF PushRead, TypeOK, row, history, bounds
<1>3. Gone' /\ NeverNowhere'
  BY DEF PushRead, Gone, NeverNowhere, row
<1>4. QED
  BY <1>1, <1>2, <1>3

LEMMA PromoteRow == ASSUME RowInv, NEW p \in Page, Promote(p) PROVE RowInv'
<1> USE DEF RowInv
<1>1. act' \in [Page -> Act] /\ Showing' /\ Reading'
  BY ReachesKeeps DEF Promote, At
<1>2. act[p].read \in Text
  BY DEF Promote, At, Reading
<1>3. /\ pub' \in Text \union {NoText} /\ draft' \in Text \union {NoText}
      /\ bytes' \in Nat /\ draftBytes' \in Nat /\ manifest' \in Text \union {NoText}
      /\ lagged' \in BOOLEAN
  <2>1. Size[act[p].read] \in Nat
    BY <1>2, TextFacts
  <2>2. CASE Promotable
    BY <1>2, <2>1, <2>2, ContentTyped DEF Promote, TypeOK
  <2>3. CASE ~Promotable
    BY <2>3 DEF Promote, TypeOK
  <2>4. QED
    BY <2>2, <2>3
<1>4. TypeOK'
  BY <1>1, <1>3 DEF Promote, TypeOK, bounds
<1>5. Gone' /\ NeverNowhere'
  BY DEF Promote, Promotable, Content, Gone, NeverNowhere
<1>6. QED
  BY <1>1, <1>4, <1>5

LEMMA DraftDiscardedRow == ASSUME RowInv, NEW p \in Page, DraftDiscarded(p) PROVE RowInv'
<1> USE DEF RowInv
<1>1. act' \in [Page -> Act] /\ Showing' /\ Reading'
  BY ReachesKeeps, AbandonKeeps DEF DraftDiscarded, At
<1>2. TypeOK'
  BY <1>1 DEF DraftDiscarded, TypeOK, bounds, history
<1>3. Gone' /\ NeverNowhere'
  BY DEF DraftDiscarded, Discardable, Gone, NeverNowhere
<1>4. QED
  BY <1>1, <1>2, <1>3

LEMMA UnpublishedRow == ASSUME RowInv, NEW p \in Page, Unpublished(p) PROVE RowInv'
<1> USE DEF RowInv
<1>1. act' \in [Page -> Act] /\ Showing' /\ Reading'
  BY ReachesKeeps, AbandonKeeps DEF Unpublished, At
<1>2. TypeOK'
  BY <1>1, ContentTyped DEF Unpublished, MovedToDraft, TypeOK, bounds, history
<1>3. Gone' /\ NeverNowhere'
  BY DEF Unpublished, MovedToDraft, Content, Gone, NeverNowhere
<1>4. QED
  BY <1>1, <1>2, <1>3

LEMMA DeletedRow == ASSUME RowInv, NEW p \in Page, Deleted(p) PROVE RowInv'
<1> USE DEF RowInv
<1>1. act' \in [Page -> Act] /\ Showing' /\ Reading'
  BY ReachesKeeps, AbandonKeeps DEF Deleted, At
<1>2. TypeOK'
  <2>1. CASE IsOwner(p)
    <3>1. /\ exists' = FALSE /\ pub' = NoText /\ draft' = NoText /\ manifest' = NoText
          /\ bytes' = 0 /\ draftBytes' = 0
      BY <2>1 DEF Deleted
    <3>2. UNCHANGED <<text, dirty, published, indicator, armed, wire, login, bounds, history>>
      BY DEF Deleted
    <3>3. QED
      BY <1>1, <3>1, <3>2 DEF TypeOK, bounds, history
  <2>2. CASE ~IsOwner(p)
    BY <1>1, <2>2 DEF Deleted, row, TypeOK, bounds, history
  <2>3. QED
    BY <2>1, <2>2
<1>3. Gone' /\ NeverNowhere'
  BY DEF Deleted, row, Gone, NeverNowhere
<1>4. QED
  BY <1>1, <1>2, <1>3

-----------------------------------------------------------------------------
(* The steps of a save on the wire. *)

LEMMA WireKeeps ==
    ASSUME RowInv, NEW p \in Page, NEW w \in SUBSET Save, wire' = [wire EXCEPT ![p] = w],
           Inflight(w) # {} => Inflight(wire[p]) # {},
           UNCHANGED <<text, armed, act>>
    PROVE  wire' \in [Page -> SUBSET Save] /\ Showing' /\ Reading'
<1> USE DEF RowInv
<1>1. wire' \in [Page -> SUBSET Save]
  BY DEF TypeOK
<1>2. wire'[p] = w /\ \A q \in Page \ {p} : wire'[q] = wire[q]
  BY DEF TypeOK
<1>3. Showing'
  BY <1>2 DEF Showing
<1>4. QED
  BY <1>1, <1>3 DEF Reading

LEMMA SettledKeeps ==
    ASSUME RowInv, NEW p \in Page, NEW r \in wire[p], NEW stage \in Stages,
           Settled(p, r, stage), UNCHANGED <<text, armed, act>>
    PROVE  wire' \in [Page -> SUBSET Save] /\ Showing' /\ Reading'
<1>1. wire[p] \in SUBSET Save
  BY DEF RowInv, TypeOK
<1>2. CASE r.heard \/ stage = "admitted"
  BY <1>1, <1>2, RestagedTyped, RestagedHeard, WireKeeps DEF Settled
<1>3. CASE ~(r.heard \/ stage = "admitted")
  BY <1>1, <1>3, RemovedTyped, RemovedHeard, WireKeeps DEF Settled
<1>4. QED
  BY <1>2, <1>3

LEMMA SaveAdmittedRow ==
    ASSUME RowInv, NEW p \in Page, NEW r \in wire[p], SaveAdmitted(p, r) PROVE RowInv'
<1> USE DEF RowInv
<1>1. PICK stage \in Stages : Settled(p, r, stage)
  BY DEF SaveAdmitted, Stages
<1>2. wire' \in [Page -> SUBSET Save] /\ Showing' /\ Reading'
  BY <1>1, SettledKeeps DEF SaveAdmitted
<1>3. r.text \in Text
  BY SaveFields DEF TypeOK
<1>4. TypeOK'
  BY <1>2, <1>3 DEF SaveAdmitted, TypeOK, row, bounds
<1>5. Gone' /\ NeverNowhere'
  BY DEF SaveAdmitted, Gone, NeverNowhere, row
<1>6. QED
  BY <1>2, <1>4, <1>5

LEMMA RequestLostRow ==
    ASSUME RowInv, NEW p \in Page, NEW r \in wire[p], RequestLost(p, r) PROVE RowInv'
<1> USE DEF RowInv
<1>1. wire' \in [Page -> SUBSET Save] /\ Showing' /\ Reading'
  BY SettledKeeps DEF RequestLost, Stages
<1>2. faults' \in 0..MaxFaults
  BY Bounds DEF RequestLost, TypeOK
<1>3. TypeOK'
  BY <1>1, <1>2 DEF RequestLost, TypeOK, row, history
<1>4. Gone' /\ NeverNowhere'
  BY DEF RequestLost, Gone, NeverNowhere, row
<1>5. QED
  BY <1>1, <1>3, <1>4

LEMMA SaveWrittenRow ==
    ASSUME RowInv, NEW p \in Page, NEW r \in wire[p], SaveWritten(p, r) PROVE RowInv'
<1> USE DEF RowInv
<1> DEFINE w == Outdated(wire[p], r)
<1>1. wire[p] \in SUBSET Save /\ r \in Save
  BY DEF TypeOK
<1>2. r.text \in Text /\ r.late \in BOOLEAN
  BY <1>1, SaveFields
<1>3. w \in SUBSET Save /\ r \in w
  BY <1>1, OutdatedTyped, OutdatedKeeps
<1>4. Inflight(w) # {} => Inflight(wire[p]) # {}
  BY <1>1, OutdatedHeard
<1> DEFINE left == IF r.heard THEN Restaged(w, r, "saved") ELSE Removed(w, r)
<1>5. wire' = [wire EXCEPT ![p] = left]
  BY DEF SaveWritten
<1> HIDE DEF w
<1>6. left \in SUBSET Save /\ (Inflight(left) # {} => Inflight(w) # {})
  <2>1. "saved" \in Stages
    BY DEF Stages
  <2>2. QED
    BY <1>1, <1>3, <2>1, RestagedTyped, RestagedHeard, RemovedTyped, RemovedHeard
<1> HIDE DEF left
<1>7. wire' \in [Page -> SUBSET Save] /\ Showing' /\ Reading'
  BY <1>4, <1>5, <1>6, WireKeeps DEF SaveWritten
<1>8. /\ draft' \in Text \union {NoText} /\ draftBytes' \in Nat
      /\ writer' \in Page /\ saved' \subseteq Text
  BY <1>2, TextFacts DEF SaveWritten, TypeOK
<1>9. overtaken' \in BOOLEAN /\ stray' \in BOOLEAN
  BY DEF SaveWritten, TypeOK
<1>10. TypeOK'
  BY <1>7, <1>8, <1>9 DEF SaveWritten, TypeOK, bounds
<1>11. Gone' /\ NeverNowhere'
  BY <1>2, TextFacts DEF SaveWritten, Gone, NeverNowhere
<1>12. QED
  BY <1>7, <1>10, <1>11

\* A page that heard of a save showed a notebook, and still does.
LEMMA HeardKeeps ==
    ASSUME RowInv, NEW p \in Page, NEW r \in wire[p], r.heard,
           NEW w \in SUBSET Save, wire' = [wire EXCEPT ![p] = w],
           NEW x \in Act, act' = [act EXCEPT ![p] = x], x.at # "promote" \/ x = act[p],
           UNCHANGED armed \/ armed' = [armed EXCEPT ![p] = TRUE],
           UNCHANGED text
    PROVE  /\ wire' \in [Page -> SUBSET Save] /\ act' \in [Page -> Act]
           /\ armed' \in [Page -> BOOLEAN]
           /\ Showing' /\ Reading'
<1> USE DEF RowInv
<1>1. text[p] \in Text
  BY DEF Showing, Inflight
<1>2. wire' \in [Page -> SUBSET Save] /\ act' \in [Page -> Act] /\ armed' \in [Page -> BOOLEAN]
  BY DEF TypeOK
<1>3. \A q \in Page \ {p} : wire'[q] = wire[q] /\ act'[q] = act[q] /\ armed'[q] = armed[q]
  BY DEF TypeOK
<1>4. Showing'
  BY <1>1, <1>3 DEF Showing
<1>5. act'[p] = x
  BY DEF TypeOK
<1>6. Reading'
  BY <1>3, <1>5 DEF Reading
<1>7. QED
  BY <1>2, <1>4, <1>6

LEMMA SaveAnsweredRow ==
    ASSUME RowInv, NEW p \in Page, NEW r \in wire[p], SaveAnswered(p, r) PROVE RowInv'
<1> USE DEF RowInv
<1> DEFINE x == IF ~r.durable THEN act[p]
                ELSE IF r.stage = "saved" THEN [act[p] EXCEPT !.at = "request"] ELSE Idle
<1>1. act' = [act EXCEPT ![p] = x]
  BY DEF SaveAnswered
<1>2. x \in Act /\ (x.at # "promote" \/ x = act[p])
  <2>1. act[p] \in Act
    BY DEF TypeOK
  <2>2. /\ [act[p] EXCEPT !.at = "request"] \in Act
        /\ [act[p] EXCEPT !.at = "request"].at = "request"
    BY <2>1 DEF Act
  <2>3. Idle.at # "promote"
    BY DEF Idle
  <2>4. QED
    BY <2>1, <2>2, <2>3, IdleTyped
<1> HIDE DEF x
<1>3. Removed(wire[p], r) \in SUBSET Save
  BY RemovedTyped DEF TypeOK
<1>4. wire' = [wire EXCEPT ![p] = Removed(wire[p], r)] /\ r.heard /\ UNCHANGED text
  BY DEF SaveAnswered
<1>5. UNCHANGED armed \/ armed' = [armed EXCEPT ![p] = TRUE]
  BY DEF SaveAnswered, GivenUp, Retried
<1>6. /\ wire' \in [Page -> SUBSET Save] /\ act' \in [Page -> Act]
      /\ armed' \in [Page -> BOOLEAN]
      /\ Showing' /\ Reading'
  BY <1>1, <1>2, <1>3, <1>4, <1>5, HeardKeeps
<1>7. indicator' \in [Page -> {"Synced", "Saving", "Failed", "Refused"}]
      /\ toasts' \in [Page -> 0..2]
  BY DEF SaveAnswered, TypeOK
<1>8. TypeOK'
  BY <1>6, <1>7 DEF SaveAnswered, TypeOK, row, bounds
<1>9. Gone' /\ NeverNowhere'
  BY DEF SaveAnswered, Gone, NeverNowhere, row
<1>10. QED
  BY <1>6, <1>8, <1>9

LEMMA AnswerLostRow ==
    ASSUME RowInv, NEW p \in Page, NEW r \in wire[p], AnswerLost(p, r) PROVE RowInv'
<1> USE DEF RowInv
<1> DEFINE x == IF r.durable THEN Idle ELSE act[p]
           w == IF r.stage = "saved" THEN Removed(wire[p], r)
                ELSE Replaced(wire[p], r, [r EXCEPT !.heard = FALSE])
<1>1. act' = [act EXCEPT ![p] = x] /\ wire' = [wire EXCEPT ![p] = w]
  BY DEF AnswerLost
<1>2. x \in Act /\ (x.at # "promote" \/ x = act[p])
  BY IdleTyped DEF TypeOK, Idle
<1>3. w \in SUBSET Save
  <2>1. wire[p] \in SUBSET Save /\ r \in Save
    BY DEF TypeOK
  <2>2. [r EXCEPT !.heard = FALSE] \in Save
    BY <2>1 DEF Save
  <2>3. Replaced(wire[p], r, [r EXCEPT !.heard = FALSE]) \in SUBSET Save
    BY <2>1, <2>2 DEF Replaced
  <2>4. QED
    BY <2>1, <2>3, RemovedTyped
<1> HIDE DEF x, w
<1>4. r.heard /\ armed' = [armed EXCEPT ![p] = TRUE] /\ UNCHANGED text
  BY DEF AnswerLost, Retried
<1>5. /\ wire' \in [Page -> SUBSET Save] /\ act' \in [Page -> Act]
      /\ armed' \in [Page -> BOOLEAN]
      /\ Showing' /\ Reading'
  BY <1>1, <1>2, <1>3, <1>4, HeardKeeps
<1>6. faults' \in 0..MaxFaults
  BY Bounds DEF AnswerLost, TypeOK
<1>7. indicator' \in [Page -> {"Synced", "Saving", "Failed", "Refused"}]
  BY DEF AnswerLost, TypeOK
<1>8. TypeOK'
  BY <1>5, <1>6, <1>7 DEF AnswerLost, TypeOK, row, history
<1>9. Gone' /\ NeverNowhere'
  BY DEF AnswerLost, Gone, NeverNowhere, row
<1>10. QED
  BY <1>5, <1>8, <1>9

-----------------------------------------------------------------------------

LEMMA NextRow == ASSUME RowInv, [Next]_vars PROVE RowInv'
<1>1. ASSUME NEW p \in Page, PageStep(p) PROVE RowInv'
  <2>1. CASE ClickPush(p) \/ ClickDiscard(p) \/ ClickUnpublish(p) \/ ClickDelete(p)
    BY <2>1, ClickRow DEF ClickPush, ClickDiscard, ClickUnpublish, ClickDelete
  <2>2. QED
    BY <1>1, <2>1, EditRow, SaveFiresRow, DurableSaveRow, FlagsRow, MountsRow, QuietRow,
       SaveAnsweredRow DEF PageStep, Mounting, Quiet
<1>2. ASSUME NEW p \in Page, ServerStep(p) PROVE RowInv'
  BY <1>2, PushReadRow, PromoteRow, DraftDiscardedRow, UnpublishedRow, DeletedRow,
     SaveAdmittedRow, SaveWrittenRow DEF ServerStep
<1>3. ASSUME NEW p \in Page, NetworkFault(p) PROVE RowInv'
  BY <1>3, ActLostRow, QuietRow, RequestLostRow, AnswerLostRow DEF NetworkFault, Quiet
<1>4. CASE UNCHANGED vars
  BY <1>4 DEF vars, row, bounds, history, RowInv, TypeOK, Showing, Reading, Gone, NeverNowhere
<1>5. QED
  BY <1>1, <1>2, <1>3, <1>4 DEF Next

\* The variables of pages, network and row keep their types.
THEOREM TypeCorrect == Spec => []TypeOK
<1>1. RowInv => TypeOK
  BY DEF RowInv
<1>2. QED
  BY InitRow, NextRow, <1>1, PTL DEF Spec

\* However saves and editorial acts of any number of pages interleave, a
\* notebook that exists has a content.
THEOREM ContentKept == Spec => []NeverNowhere
<1>1. RowInv => NeverNowhere
  BY DEF RowInv
<1>2. QED
  BY InitRow, NextRow, <1>1, PTL DEF Spec

-----------------------------------------------------------------------------
(***************************************************************************)
(* Sizes, manifest, and the promise to owner and readers.                  *)
(***************************************************************************)

\* The steps that touch the row.
RowStep(p) ==
    \/ Promote(p) \/ DraftDiscarded(p) \/ Unpublished(p) \/ Deleted(p)
    \/ \E r \in wire[p] : SaveWritten(p, r)

LEMMA RowSteps ==
    ASSUME [Next]_vars
    PROVE  (\E p \in Page : RowStep(p)) \/ UNCHANGED <<row, lagged, saved>>
<1>1. ASSUME NEW p \in Page, PageStep(p) PROVE UNCHANGED <<row, lagged, saved>>
  BY <1>1 DEF PageStep, Edit, SaveFires, Reload, ClickPush, ClickDiscard, ClickUnpublish,
     ClickDelete, Click, DurableSave, PushAnswered, DiscardAnswered, UnpublishAnswered,
     DeleteAnswered, SaveAnswered, SignsIn, history
<1>2. ASSUME NEW p \in Page, ServerStep(p), ~RowStep(p)
      PROVE  UNCHANGED <<row, lagged, saved>>
  BY <1>2 DEF ServerStep, RowStep, PushRead, SaveAdmitted, history
<1>3. ASSUME NEW p \in Page, NetworkFault(p) PROVE UNCHANGED <<row, lagged, saved>>
  BY <1>3 DEF NetworkFault, ActLost, SessionEnds, RequestLost, AnswerLost, history
<1>4. CASE UNCHANGED vars
  BY <1>4 DEF vars, history
<1>5. QED
  BY <1>1, <1>2, <1>3, <1>4 DEF Next

LEMMA NextSlots ==
    ASSUME RowInv, SlotsInStep, [Next]_vars PROVE SlotsInStep'
<1> USE DEF RowInv
<1>1. ASSUME NEW p \in Page, Promote(p) PROVE SlotsInStep'
  BY <1>1, TextFacts DEF Promote, Promotable, Content, SlotsInStep, TypeOK, NoText
<1>2. ASSUME NEW p \in Page, DraftDiscarded(p) PROVE SlotsInStep'
  BY <1>2 DEF DraftDiscarded, SlotsInStep, history
<1>3. ASSUME NEW p \in Page, Unpublished(p) PROVE SlotsInStep'
  <2>1. draft # NoText => Size[draft] # 0
    BY TextFacts DEF TypeOK
  <2>2. QED
    BY <1>3, <2>1 DEF Unpublished, MovedToDraft, Content, SlotsInStep, history
<1>4. ASSUME NEW p \in Page, Deleted(p) PROVE SlotsInStep'
  BY <1>4 DEF Deleted, row, SlotsInStep, history
<1>5. ASSUME NEW p \in Page, NEW r \in wire[p], SaveWritten(p, r) PROVE SlotsInStep'
  <2>1. r.text \in Text
    BY SaveFields DEF TypeOK
  <2>2. QED
    BY <1>5, <2>1, TextFacts DEF SaveWritten, SlotsInStep
<1>6. CASE UNCHANGED <<row, lagged, saved>>
  BY <1>6 DEF row, SlotsInStep
<1>7. QED
  BY <1>1, <1>2, <1>3, <1>4, <1>5, <1>6, RowSteps DEF RowStep

\* The sizes the quota counts and the manifest belong to the contents of their
\* slots, unless a push promoted a newer draft than the one it read.
THEOREM SlotsKept == Spec => []SlotsInStep
<1>1. Init => SlotsInStep
  BY DEF Init, Opened, SlotsInStep, First, NoText
<1>2. QED
  BY InitRow, NextRow, NextSlots, <1>1, PTL DEF Spec

\* What is true of the row at all times: the two together.
THEOREM RowKept == Spec => []RowSound
<1>1. (NeverNowhere /\ SlotsInStep) => RowSound
  BY DEF RowSound
<1>2. QED
  BY ContentKept, SlotsKept, <1>1, PTL

LEMMA NextPromised ==
    ASSUME RowInv, [Next]_vars PROVE [Promise!Next]_(Promise!vars)
<1> USE DEF RowInv
<1>1. ASSUME NEW p \in Page, Promote(p) PROVE [Promise!Next]_(Promise!vars)
  <2>1. CASE draft # NoText
    <3>1. Promise!Push
      BY <1>1, <2>1 DEF Promote, Promotable, Content, Promise!Push
    <3>2. QED
      BY <3>1 DEF Promise!Next
  <2>2. CASE draft = NoText
    BY <1>1, <2>2 DEF Promote, Promotable, Content, Promise!vars
  <2>3. QED
    BY <2>1, <2>2
<1>2. ASSUME NEW p \in Page, DraftDiscarded(p) PROVE [Promise!Next]_(Promise!vars)
  <2>1. CASE pub # NoText /\ IsOwner(p)
    <3>1. Promise!Discard
      BY <1>2, <2>1 DEF DraftDiscarded, Discardable, Content, Promise!Discard
    <3>2. QED
      BY <3>1 DEF Promise!Next
  <2>2. CASE ~(pub # NoText /\ IsOwner(p))
    BY <1>2, <2>2 DEF DraftDiscarded, Discardable, Content, Promise!vars
  <2>3. QED
    BY <2>1, <2>2
<1>3. ASSUME NEW p \in Page, Unpublished(p) PROVE [Promise!Next]_(Promise!vars)
  <2>1. CASE IsOwner(p)
    <3>1. Promise!Unpublish
      BY <1>3, <2>1 DEF Unpublished, IsOwner, MovedToDraft, Content, Promise!Unpublish
    <3>2. QED
      BY <3>1 DEF Promise!Next
  <2>2. CASE ~IsOwner(p)
    BY <1>3, <2>2 DEF Unpublished, Content, Promise!vars
  <2>3. QED
    BY <2>1, <2>2
<1>4. ASSUME NEW p \in Page, Deleted(p) PROVE [Promise!Next]_(Promise!vars)
  <2>1. CASE IsOwner(p)
    <3>1. Promise!Delete
      BY <1>4, <2>1 DEF Deleted, Content, Promise!Delete
    <3>2. QED
      BY <3>1 DEF Promise!Next
  <2>2. CASE ~IsOwner(p)
    BY <1>4, <2>2 DEF Deleted, row, Content, Promise!vars
  <2>3. QED
    BY <2>1, <2>2
<1>5. ASSUME NEW p \in Page, NEW r \in wire[p], SaveWritten(p, r)
      PROVE  [Promise!Next]_(Promise!vars)
  <2>1. r.text \in Text
    BY SaveFields DEF TypeOK
  <2>2. CASE exists
    <3>1. Content # NoText
      BY <2>2, ContentIsText, TextFacts
    <3>2. Promise!Save(r.text)
      BY <1>5, <2>1, <2>2, <3>1, TextFacts DEF SaveWritten, Content, Promise!Save
    <3>3. QED
      BY <2>1, <3>2 DEF Promise!Next
  <2>3. CASE ~exists
    BY <1>5, <2>3 DEF SaveWritten, Content, Promise!vars
  <2>4. QED
    BY <2>2, <2>3
<1>6. CASE UNCHANGED <<row, lagged, saved>>
  BY <1>6 DEF row, Content, Promise!vars
<1>7. QED
  BY <1>1, <1>2, <1>3, <1>4, <1>5, <1>6, RowSteps DEF RowStep

\* DraftSync implements AccountNotebook: the two slots of the row, shuffled by
\* pushes, discards and unpublishes, show owner and readers what it promises.
THEOREM PromiseKept == Spec => NotebookPromise
<1>1. Init => Promise!Init
  BY TextFacts DEF Init, Opened, Content, Promise!Init
<1>2. QED
  BY InitRow, NextRow, NextPromised, <1>1, PTL DEF Spec, NotebookPromise, Promise!Spec

-----------------------------------------------------------------------------
(***************************************************************************)
(* No edit is lost on its way.                                             *)
(***************************************************************************)

\* What the row holds was saved.
RowSaved == {pub, draft} \subseteq saved \union {NoText}

\* What a page was told of its saves is what became of them.
ToldTrue(p) ==
    \A r \in wire[p] : /\ r.stage = "saved"   => r.text \in saved
                       /\ r.stage = "refused" => r.text \in refused

\* A text has arrived, is to be sent, or is in a save its page waits for.
Heeded(p) ==
    \/ text[p] \in saved \union refused \union {NoText}
    \/ armed[p]
    \/ \E r \in wire[p] : r.heard /\ r.text = text[p]

LossInv == exists => RowSaved /\ \A p \in Page : ToldTrue(p) /\ Heeded(p)

Alike(q, r) == q.text = r.text /\ q.heard = r.heard /\ q.stage = r.stage

LEMMA AgedAlike ==
    ASSUME NEW w \in SUBSET Save
    PROVE  /\ \A q \in Aged(w) : \E r \in w : Alike(q, r)
           /\ \A r \in w : \E q \in Aged(w) : Alike(q, r)
<1>1. \A r \in w : Alike([r EXCEPT !.age = @ + 1], r)
  BY DEF Alike, Save
<1>2. QED
  BY <1>1 DEF Aged

LEMMA RemovedAlike ==
    ASSUME NEW w \in SUBSET Save, NEW x \in w
    PROVE  /\ \A q \in Removed(w, x) : \E r \in w \ {x} : Alike(q, r)
           /\ \A r \in w \ {x} : \E q \in Removed(w, x) : Alike(q, r)
<1>1. \A r \in w : Alike([r EXCEPT !.age = IF @ > x.age THEN @ - 1 ELSE @], r)
  BY DEF Alike, Save
<1>2. QED
  BY <1>1 DEF Removed

LEMMA OutdatedAlike ==
    ASSUME NEW w \in SUBSET Save, NEW x \in w
    PROVE  /\ \A q \in Outdated(w, x) : \E r \in w : Alike(q, r)
           /\ \A r \in w : \E q \in Outdated(w, x) : Alike(q, r)
<1>1. \A r \in w : /\ Alike([r EXCEPT !.late = TRUE], r)
                   /\ Alike(r, r)
  BY DEF Alike, Save
<1>2. QED
  BY <1>1 DEF Outdated

LEMMA RestagedAlike ==
    ASSUME NEW w \in SUBSET Save, NEW x \in w, NEW stage
    PROVE  /\ \A q \in Restaged(w, x, stage) :
                  q \in w \/ (q.stage = stage /\ q.text = x.text /\ q.heard = x.heard)
           /\ \A r \in w : \E q \in Restaged(w, x, stage) : q.text = r.text /\ q.heard = r.heard
<1>1. LET y == [x EXCEPT !.stage = stage]
      IN  y.stage = stage /\ y.text = x.text /\ y.heard = x.heard
  BY DEF Save
<1>2. QED
  BY <1>1 DEF Restaged, Replaced

\* Pages but p, and the row, are as before.
Elsewhere(p) ==
    /\ \A q \in Page \ {p} : text'[q] = text[q] /\ wire'[q] = wire[q] /\ armed'[q] = armed[q]
    /\ saved \subseteq saved' /\ refused \subseteq refused'
    /\ exists' => exists

LEMMA LossFromPage ==
    ASSUME RowInv, LossInv, NEW p \in Page, Elsewhere(p),
           exists' => RowSaved' /\ ToldTrue(p)' /\ Heeded(p)'
    PROVE  LossInv'
<1>1. ASSUME NEW q \in Page \ {p}, exists' PROVE ToldTrue(q)' /\ Heeded(q)'
  BY <1>1 DEF LossInv, Elsewhere, ToldTrue, Heeded
<1>2. QED
  BY <1>1 DEF LossInv

LEMMA EditLoss == ASSUME RowInv, LossInv, NEW p \in Page, Edit(p) PROVE LossInv'
<1>1. Elsewhere(p)
  BY DEF Edit, Elsewhere, RowInv, TypeOK, row, history
<1>2. exists' => RowSaved' /\ ToldTrue(p)' /\ Heeded(p)'
  BY DEF Edit, LossInv, RowSaved, ToldTrue, Heeded, RowInv, TypeOK, row, history
<1>3. QED
  BY <1>1, <1>2, LossFromPage

LEMMA SendLoss ==
    ASSUME RowInv, LossInv, NEW p \in Page, SaveFires(p) \/ DurableSave(p) PROVE LossInv'
<1> DEFINE r(d) == [text |-> Outgoing(p), durable |-> d, age |-> 0, stage |-> "sent",
                    heard |-> TRUE, late |-> FALSE]
<1>1. PICK d \in BOOLEAN : wire' = [wire EXCEPT ![p] = Aged(wire[p]) \union {r(d)}]
  BY DEF SaveFires, DurableSave, SendDraft
<1>2. UNCHANGED <<row, text, saved, refused>> /\ armed' = [armed EXCEPT ![p] = FALSE]
  BY DEF SaveFires, DurableSave, Unscheduled, history
<1>3. wire'[p] = Aged(wire[p]) \union {r(d)}
  BY <1>1 DEF RowInv, TypeOK
<1>4. r(d).text = text[p] /\ r(d).heard /\ r(d).stage = "sent"
  BY DEF Outgoing
<1> HIDE DEF r
<1>5. Elsewhere(p)
  BY <1>1, <1>2 DEF Elsewhere, RowInv, TypeOK, row
<1>6. Heeded(p)'
  BY <1>2, <1>3, <1>4 DEF Heeded
<1>7. wire[p] \in SUBSET Save
  BY DEF RowInv, TypeOK
<1>8. exists' => ToldTrue(p)'
  BY <1>2, <1>3, <1>4, <1>7, AgedAlike DEF LossInv, ToldTrue, Alike, row
<1>9. exists' => RowSaved'
  BY <1>2 DEF LossInv, RowSaved, row
<1>10. QED
  BY <1>5, <1>6, <1>8, <1>9, LossFromPage

LEMMA MountLoss ==
    ASSUME RowInv, LossInv, NEW p \in Page, Mounting(p)
    PROVE  LossInv'
<1>1. PICK shown \in {Content, NoText} : Mount(p, shown) /\ UNCHANGED <<row, saved, refused>>
  BY MountFacts
<1>2. Elsewhere(p)
  BY <1>1 DEF Mount, Unscheduled, Elsewhere, RowInv, TypeOK, row
<1>3. wire'[p] = Abandoned(wire[p]) /\ text'[p] = shown
  BY <1>1 DEF Mount, RowInv, TypeOK
<1>4. \A q \in Abandoned(wire[p]) : q.stage \in Unsettled
  <2>1. \A r \in Save : [r EXCEPT !.heard = FALSE, !.late = TRUE].stage = r.stage
    BY DEF Save
  <2>2. QED
    BY <2>1 DEF Abandoned, RowInv, TypeOK
<1>5. ToldTrue(p)'
  BY <1>3, <1>4 DEF ToldTrue, Unsettled
<1>6. exists' => RowSaved' /\ Heeded(p)'
  BY <1>1, <1>3 DEF LossInv, RowSaved, Heeded, Content, row
<1>7. QED
  BY <1>2, <1>5, <1>6, LossFromPage

LEMMA SettledLoss ==
    ASSUME RowInv, LossInv, NEW p \in Page, NEW r \in wire[p],
           NEW stage \in {"admitted", "refused", "failed"}, Settled(p, r, stage),
           refused' = refused \/ refused' = refused \union {r.text},
           stage = "refused" => r.text \in refused',
           UNCHANGED <<row, text, armed, saved>>
    PROVE  LossInv'
<1>1. wire[p] \in SUBSET Save
  BY DEF RowInv, TypeOK
<1>2. Elsewhere(p)
  BY DEF Settled, Elsewhere, RowInv, TypeOK, row
<1>3. wire'[p] = IF r.heard \/ stage = "admitted" THEN Restaged(wire[p], r, stage)
                                                  ELSE Removed(wire[p], r)
  BY DEF Settled, RowInv, TypeOK
<1>4. exists' => RowSaved'
  BY DEF LossInv, RowSaved, row
<1>5. exists' => ToldTrue(p)'
  <2>1. CASE r.heard \/ stage = "admitted"
    BY <1>1, <1>3, <2>1, RestagedAlike DEF LossInv, ToldTrue, row
  <2>2. CASE ~(r.heard \/ stage = "admitted")
    BY <1>1, <1>3, <2>2, RemovedAlike DEF LossInv, ToldTrue, Alike, row
  <2>3. QED
    BY <2>1, <2>2
<1>6. exists' => Heeded(p)'
  <2>1. CASE r.heard \/ stage = "admitted"
    BY <1>1, <1>3, <2>1, RestagedAlike DEF LossInv, Heeded, row
  <2>2. CASE ~(r.heard \/ stage = "admitted")
    BY <1>1, <1>3, <2>2, RemovedAlike DEF LossInv, Heeded, Alike, row
  <2>3. QED
    BY <2>1, <2>2
<1>7. QED
  BY <1>2, <1>4, <1>5, <1>6, LossFromPage

LEMMA SaveWrittenLoss ==
    ASSUME RowInv, LossInv, NEW p \in Page, NEW r \in wire[p], SaveWritten(p, r)
    PROVE  LossInv'
<1> DEFINE w == Outdated(wire[p], r)
<1>1. wire[p] \in SUBSET Save
  BY DEF RowInv, TypeOK
<1>2. w \in SUBSET Save /\ r \in w
  BY <1>1, OutdatedTyped, OutdatedKeeps
<1>3. /\ \A q \in w : \E x \in wire[p] : Alike(q, x)
      /\ \A x \in wire[p] : \E q \in w : Alike(q, x)
  BY <1>1, OutdatedAlike
<1>4. wire' = [wire EXCEPT ![p] = IF r.heard THEN Restaged(w, r, "saved") ELSE Removed(w, r)]
  BY DEF SaveWritten
<1>5. wire'[p] = IF r.heard THEN Restaged(w, r, "saved") ELSE Removed(w, r)
  BY <1>4 DEF RowInv, TypeOK
<1> HIDE DEF w
<1>6. /\ UNCHANGED <<exists, text, armed, refused>> /\ saved \subseteq saved'
      /\ exists => r.text \in saved' /\ RowSaved'
  BY DEF SaveWritten, LossInv, RowSaved
<1>7. Elsewhere(p)
  BY <1>4, <1>6 DEF Elsewhere, RowInv, TypeOK
<1>8. exists' => ToldTrue(p)'
  <2>1. ASSUME exists, NEW q \in w
        PROVE  /\ q.stage = "saved"   => q.text \in saved'
               /\ q.stage = "refused" => q.text \in refused'
    BY <1>3, <1>6, <2>1 DEF LossInv, ToldTrue, Alike
  <2>2. CASE r.heard
    BY <1>2, <1>5, <1>6, <2>1, <2>2, RestagedAlike DEF ToldTrue
  <2>3. CASE ~r.heard
    BY <1>2, <1>5, <1>6, <2>1, <2>3, RemovedAlike DEF ToldTrue, Alike
  <2>4. QED
    BY <2>2, <2>3
<1>9. exists' => Heeded(p)'
  <2>1. ASSUME NEW x \in wire[p], x.heard
        PROVE  \E q \in wire'[p] : q.heard /\ q.text = x.text
    <3>1. PICK y \in w : Alike(y, x)
      BY <1>3
    <3>2. CASE r.heard
      <4>1. PICK q \in Restaged(w, r, "saved") : q.text = y.text /\ q.heard = y.heard
        BY <1>2, RestagedAlike
      <4>2. QED
        BY <1>5, <2>1, <3>1, <3>2, <4>1 DEF Alike
    <3>3. CASE ~r.heard
      <4>1. y \in w \ {r}
        BY <2>1, <3>1, <3>3 DEF Alike
      <4>2. PICK q \in Removed(w, r) : Alike(q, y)
        BY <1>2, <4>1, RemovedAlike
      <4>3. QED
        BY <1>5, <2>1, <3>1, <3>3, <4>2 DEF Alike
    <3>4. QED
      BY <3>2, <3>3
  <2>2. QED
    BY <1>6, <2>1 DEF LossInv, Heeded
<1>10. QED
  BY <1>6, <1>7, <1>8, <1>9, LossFromPage

\* A page hears of a save: it was carried out, refused, or is sent again.
LEMMA SaveAnsweredLoss ==
    ASSUME RowInv, LossInv, NEW p \in Page, NEW r \in wire[p], SaveAnswered(p, r)
    PROVE  LossInv'
<1>1. wire[p] \in SUBSET Save
  BY DEF RowInv, TypeOK
<1>2. UNCHANGED <<row, text, saved, refused>>
  BY DEF SaveAnswered
<1>3. wire' = [wire EXCEPT ![p] = Removed(wire[p], r)]
  BY DEF SaveAnswered
<1>4. wire'[p] = Removed(wire[p], r)
  BY <1>3 DEF RowInv, TypeOK
<1>5. Elsewhere(p)
  BY <1>2, <1>3 DEF SaveAnswered, Retried, GivenUp, Elsewhere, RowInv, TypeOK, row
<1>6. exists' => RowSaved'
  BY <1>2 DEF LossInv, RowSaved, row
<1>7. exists' => ToldTrue(p)'
  BY <1>1, <1>2, <1>4, RemovedAlike DEF LossInv, ToldTrue, Alike, row
<1>8. armed[p] => armed'[p]
  BY DEF SaveAnswered, Retried, GivenUp, RowInv, TypeOK
<1>9. r.stage = "failed" => armed'[p]
  BY DEF SaveAnswered, Retried, GivenUp, RowInv, TypeOK
<1>10. r.stage \in {"saved", "refused", "failed"}
  BY DEF SaveAnswered
<1>11. exists' => Heeded(p)'
  BY <1>1, <1>2, <1>4, <1>8, <1>9, <1>10, RemovedAlike DEF LossInv, ToldTrue, Heeded, Alike, row
<1>12. QED
  BY <1>5, <1>6, <1>7, <1>11, LossFromPage

LEMMA AnswerLostLoss ==
    ASSUME RowInv, LossInv, NEW p \in Page, NEW r \in wire[p], AnswerLost(p, r)
    PROVE  LossInv'
<1>1. wire[p] \in SUBSET Save
  BY DEF RowInv, TypeOK
<1>2. UNCHANGED <<row, text, saved, refused>> /\ armed' = [armed EXCEPT ![p] = TRUE]
  BY DEF AnswerLost, Retried, history
<1>3. wire'[p] = IF r.stage = "saved" THEN Removed(wire[p], r)
                 ELSE Replaced(wire[p], r, [r EXCEPT !.heard = FALSE])
  BY DEF AnswerLost, RowInv, TypeOK
<1>4. Elsewhere(p)
  BY <1>2 DEF AnswerLost, Elsewhere, RowInv, TypeOK, row
<1>5. Heeded(p)'
  BY <1>2 DEF Heeded, RowInv, TypeOK
<1>6. exists' => ToldTrue(p)'
  <2>1. CASE r.stage = "saved"
    BY <1>1, <1>2, <1>3, <2>1, RemovedAlike DEF LossInv, ToldTrue, Alike, row
  <2>2. CASE r.stage # "saved"
    <3>1. [r EXCEPT !.heard = FALSE].stage = r.stage /\ [r EXCEPT !.heard = FALSE].text = r.text
      BY <1>1 DEF Save
    <3>2. QED
      BY <1>2, <1>3, <2>2, <3>1 DEF LossInv, ToldTrue, Replaced, row
  <2>3. QED
    BY <2>1, <2>2
<1>7. exists' => RowSaved'
  BY <1>2 DEF LossInv, RowSaved, row
<1>8. QED
  BY <1>4, <1>5, <1>6, <1>7, LossFromPage

\* What leaves pages and history alone, and the row with saved texts only.
LEMMA RowOnlyLoss ==
    ASSUME LossInv, UNCHANGED <<text, armed, wire, saved, refused>>,
           exists' => exists /\ {pub', draft'} \subseteq {pub, draft, NoText}
    PROVE  LossInv'
  BY DEF LossInv, RowSaved, ToldTrue, Heeded

LEMMA ActLoss ==
    ASSUME RowInv, LossInv, NEW p \in Page,
           \/ ClickPush(p) \/ ClickDiscard(p) \/ ClickUnpublish(p) \/ ClickDelete(p)
           \/ PushAnswered(p) \/ UnpublishAnswered(p) \/ PushRead(p) \/ Promote(p)
           \/ DraftDiscarded(p) \/ Unpublished(p) \/ Deleted(p) \/ ActLost(p)
    PROVE  LossInv'
<1>1. CASE ClickPush(p) \/ ClickDiscard(p) \/ ClickUnpublish(p) \/ ClickDelete(p)
  BY <1>1, RowOnlyLoss DEF ClickPush, ClickDiscard, ClickUnpublish, ClickDelete, Click, row, history
<1>2. CASE PushAnswered(p) \/ UnpublishAnswered(p) \/ PushRead(p)
  BY <1>2, RowOnlyLoss DEF PushAnswered, UnpublishAnswered, PushRead, row, history
<1>3. CASE Promote(p)
  BY <1>3, RowOnlyLoss DEF Promote, Content
<1>4. CASE DraftDiscarded(p)
  BY <1>4, RowOnlyLoss DEF DraftDiscarded, history
<1>5. CASE Unpublished(p)
  BY <1>5, RowOnlyLoss DEF Unpublished, MovedToDraft, Content, history
<1>6. CASE Deleted(p)
  BY <1>6, RowOnlyLoss DEF Deleted, row, history
<1>7. CASE ActLost(p)
  BY <1>7, RowOnlyLoss DEF ActLost, row
<1>8. QED
  BY <1>1, <1>2, <1>3, <1>4, <1>5, <1>6, <1>7

LEMMA QuietLoss == ASSUME RowInv, LossInv, NEW p \in Page, Quiet(p) PROVE LossInv'
BY QuietFacts, RowOnlyLoss DEF row, history

LEMMA AdmitLoss ==
    ASSUME RowInv, LossInv, NEW p \in Page, NEW r \in wire[p],
           SaveAdmitted(p, r) \/ RequestLost(p, r)
    PROVE  LossInv'
<1>1. CASE SaveAdmitted(p, r)
  <2>1. UNCHANGED <<row, text, armed, saved>>
    BY <1>1 DEF SaveAdmitted
  <2>2. PICK stage \in {"admitted", "refused", "failed"} :
            /\ Settled(p, r, stage)
            /\ refused' = refused \/ refused' = refused \union {r.text}
            /\ stage = "refused" => r.text \in refused'
    BY <1>1 DEF SaveAdmitted
  <2>3. QED
    BY <2>1, <2>2, SettledLoss
<1>2. CASE RequestLost(p, r)
  <2>1. UNCHANGED <<row, text, armed, saved, refused>> /\ Settled(p, r, "failed")
    BY <1>2 DEF RequestLost, history
  <2>2. QED
    BY <2>1, SettledLoss
<1>3. QED
  BY <1>1, <1>2

LEMMA NextLoss == ASSUME RowInv, LossInv, [Next]_vars PROVE LossInv'
<1>1. ASSUME NEW p \in Page, PageStep(p) PROVE LossInv'
  BY <1>1, EditLoss, SendLoss, MountLoss, QuietLoss, ActLoss, SaveAnsweredLoss
     DEF PageStep, Mounting, Quiet
<1>2. ASSUME NEW p \in Page, ServerStep(p) PROVE LossInv'
  BY <1>2, ActLoss, AdmitLoss, SaveWrittenLoss DEF ServerStep
<1>3. ASSUME NEW p \in Page, NetworkFault(p) PROVE LossInv'
  BY <1>3, ActLoss, QuietLoss, AdmitLoss, AnswerLostLoss DEF NetworkFault, Quiet
<1>4. CASE UNCHANGED vars
  BY <1>4, RowOnlyLoss DEF vars, row, history
<1>5. QED
  BY <1>1, <1>2, <1>3, <1>4 DEF Next

\* However debounce, retries, durable saves, reloads and lost messages of any
\* number of pages interleave, a page at rest shows a text that was in the row
\* or was refused for the quota.
THEOREM NothingLost == Spec => []NoSilentLoss
<1>1. Init => LossInv
  BY DEF Init, Opened, LossInv, RowSaved, ToldTrue, Heeded, First, NoText
<1>2. RowInv /\ LossInv => NoSilentLoss
  <2>1. ASSUME LossInv, exists, NEW p \in Page, PageAtRest(p)
        PROVE  text[p] \in saved \union refused \union {NoText}
    BY <2>1 DEF LossInv, Heeded, PageAtRest, Inflight
  <2>2. QED
    BY <2>1 DEF NoSilentLoss
<1>3. QED
  BY InitRow, NextRow, NextLoss, <1>1, <1>2, PTL DEF Spec
-----------------------------------------------------------------------------
(***************************************************************************)
(* The order of a page's saves: what was sent later may land earlier.      *)
(***************************************************************************)

\* No two saves of a page are as old; it waits for one durable save at most;
\* and nobody waits for a save without hearing what became of it.
Tidy(w) ==
    /\ \A q, r \in w : q.age = r.age => q = r
    /\ \A q, r \in w : q.heard /\ q.durable /\ r.heard /\ r.durable => q = r
    /\ \A r \in w : r.heard \/ r.stage \in Unsettled

\* A save after a step, and the save it was before.
From(a, b) ==
    /\ a.text = b.text /\ a.durable = b.durable
    /\ a.heard => b.heard
    /\ b.late => a.late
    /\ a.stage \in Unsettled => b.stage \in Unsettled

\* A save its page still waits for, and that has not been carried out.
Still(h, g) ==
    /\ h.text = g.text /\ h.durable = g.durable /\ h.heard = g.heard
    /\ \/ h.stage = g.stage
       \/ h.stage \in {"admitted", "failed"} /\ g.stage \in Unsettled

\* The saves w have become the saves v; what was younger than another still
\* is, but for those that are gone.
Become(w, v, gone) ==
    \A a \in v : \E b \in w :
        /\ From(a, b)
        /\ \A g \in w \ gone : g.age < b.age => \E h \in v : h.age < a.age /\ Still(h, g)

LEMMA SameSave ==
    ASSUME NEW a \in Save, NEW b \in Save, a.text = b.text, a.durable = b.durable,
           a.heard = b.heard, a.stage = b.stage, a.late = b.late
    PROVE  From(a, b) /\ Still(a, b)
<1>1. a.late \in BOOLEAN /\ b.late \in BOOLEAN /\ a.heard \in BOOLEAN /\ b.heard \in BOOLEAN
  BY SaveFields
<1>2. QED
  BY <1>1 DEF From, Still

\* One more on the wire: all others have grown older.
LEMMA AgedBecome ==
    ASSUME NEW w \in SUBSET Save, Tidy(w)
    PROVE  /\ Aged(w) \in SUBSET Save /\ Tidy(Aged(w)) /\ Become(w, Aged(w), {})
           /\ \A a \in Aged(w) : a.age > 0
<1> DEFINE f(q) == [q EXCEPT !.age = @ + 1]
<1>1. \A q \in w : /\ f(q) \in Save /\ f(q).age = q.age + 1 /\ f(q).text = q.text
                   /\ f(q).durable = q.durable /\ f(q).heard = q.heard
                   /\ f(q).stage = q.stage /\ f(q).late = q.late
  BY SaveFields DEF Save
<1>2. Aged(w) = {f(q) : q \in w}
  BY DEF Aged
<1>3. \A q \in w : q.age \in Nat
  BY SaveFields
<1> HIDE DEF f
<1>4. Aged(w) \in SUBSET Save /\ \A a \in Aged(w) : a.age > 0
  BY <1>1, <1>2, <1>3
<1>5. Tidy(Aged(w))
  <2>1. \A q, r \in w : f(q).age = f(r).age => f(q) = f(r)
    BY <1>1, <1>3 DEF Tidy
  <2>2. \A q, r \in w : f(q).heard /\ f(q).durable /\ f(r).heard /\ f(r).durable => f(q) = f(r)
    BY <1>1 DEF Tidy
  <2>3. \A q \in w : f(q).heard \/ f(q).stage \in Unsettled
    BY <1>1 DEF Tidy
  <2>4. QED
    BY <1>2, <2>1, <2>2, <2>3 DEF Tidy
<1>6. \A q \in w : From(f(q), q) /\ Still(f(q), q)
  BY <1>1, SameSave
<1>7. \A g, b \in w : g.age < b.age => f(g).age < f(b).age
  BY <1>1, <1>3
<1>8. Become(w, Aged(w), {})
  BY <1>2, <1>6, <1>7 DEF Become
<1>9. QED
  BY <1>2, <1>4, <1>5, <1>6, <1>8

LEMMA RemovedBecome ==
    ASSUME NEW w \in SUBSET Save, Tidy(w), NEW x \in w
    PROVE  /\ Tidy(Removed(w, x)) /\ Become(w, Removed(w, x), {x})
           /\ \A a \in Removed(w, x) : \E b \in w \ {x} : From(a, b) /\ a.stage = b.stage
<1> DEFINE f(q) == [q EXCEPT !.age = IF @ > x.age THEN @ - 1 ELSE @]
<1>1. \A q \in w : /\ f(q).age = (IF q.age > x.age THEN q.age - 1 ELSE q.age)
                   /\ f(q) \in Save /\ f(q).text = q.text
                   /\ f(q).durable = q.durable /\ f(q).heard = q.heard
                   /\ f(q).stage = q.stage /\ f(q).late = q.late
  <2>1. x.age \in Nat
    BY SaveFields
  <2>2. QED
    BY <2>1, SaveFields DEF Save
<1>2. Removed(w, x) = {f(q) : q \in w \ {x}}
  BY DEF Removed
<1>3. \A q \in w : q.age \in Nat
  BY SaveFields
<1> HIDE DEF f
<1>4. \A q \in w \ {x} : q.age # x.age
  BY DEF Tidy
<1>5. Tidy(Removed(w, x))
  <2>1. \A q, r \in w \ {x} : f(q).age = f(r).age => q.age = r.age
    BY <1>1, <1>3, <1>4
  <2>2. \A q, r \in w \ {x} : f(q).age = f(r).age => f(q) = f(r)
    BY <2>1 DEF Tidy
  <2>3. \A q, r \in w : f(q).heard /\ f(q).durable /\ f(r).heard /\ f(r).durable => f(q) = f(r)
    BY <1>1 DEF Tidy
  <2>4. \A q \in w : f(q).heard \/ f(q).stage \in Unsettled
    BY <1>1 DEF Tidy
  <2>5. QED
    BY <1>2, <2>2, <2>3, <2>4 DEF Tidy
<1>6. \A q \in w : From(f(q), q) /\ Still(f(q), q)
  BY <1>1, SameSave
<1>7. \A g, b \in w \ {x} : g.age < b.age => f(g).age < f(b).age
  BY <1>1, <1>3, <1>4
<1>8. Become(w, Removed(w, x), {x})
  BY <1>2, <1>6, <1>7 DEF Become
<1>9. QED
  BY <1>1, <1>2, <1>5, <1>6, <1>8

LEMMA RestagedBecome ==
    ASSUME NEW w \in SUBSET Save, Tidy(w), NEW x \in w, NEW stage \in Stages,
           x.heard \/ stage \in Unsettled, stage \in Unsettled => x.stage \in Unsettled
    PROVE  /\ Tidy(Restaged(w, x, stage)) /\ Become(w, Restaged(w, x, stage), {x})
           /\ stage \in {"admitted", "failed"} /\ x.stage \in Unsettled
                  => Become(w, Restaged(w, x, stage), {})
           /\ \A a \in Restaged(w, x, stage) :
                  (a \in w /\ a # x) \/ (a = [x EXCEPT !.stage = stage])
<1> DEFINE y == [x EXCEPT !.stage = stage]
<1>1. /\ y \in Save /\ y.stage = stage /\ y.text = x.text /\ y.durable = x.durable
      /\ y.heard = x.heard /\ y.late = x.late /\ y.age = x.age
  BY DEF Save
<1>2. Restaged(w, x, stage) = (w \ {x}) \union {y}
  BY DEF Restaged, Replaced
<1> HIDE DEF y
<1>3. Tidy(Restaged(w, x, stage))
  BY <1>1, <1>2 DEF Tidy
<1>4. From(y, x)
  BY <1>1 DEF From
<1>5. \A q \in w : From(q, q) /\ Still(q, q)
  BY SameSave
<1>6. Become(w, Restaged(w, x, stage), {x})
  BY <1>1, <1>2, <1>4, <1>5 DEF Become
<1>7. ASSUME stage \in {"admitted", "failed"}, x.stage \in Unsettled
      PROVE  Become(w, Restaged(w, x, stage), {})
  <2>1. Still(y, x)
    BY <1>1, <1>7 DEF Still
  <2>2. QED
    BY <1>1, <1>2, <1>4, <1>5, <2>1 DEF Become
<1>8. QED
  BY <1>2, <1>3, <1>6, <1>7 DEF y

\* The page has lost the connection on which it waited for x.
LEMMA UnheardBecome ==
    ASSUME NEW w \in SUBSET Save, Tidy(w), NEW x \in w, x.stage \in Unsettled
    PROVE  LET v == Replaced(w, x, [x EXCEPT !.heard = FALSE])
           IN  Tidy(v) /\ Become(w, v, {x}) /\ \A a \in v : (a \in w /\ a # x) \/ ~a.heard
<1> DEFINE y == [x EXCEPT !.heard = FALSE]
           v == Replaced(w, x, y)
<1>1. /\ y \in Save /\ y.stage = x.stage /\ y.text = x.text /\ y.durable = x.durable
      /\ ~y.heard /\ y.late = x.late /\ y.age = x.age
  BY DEF Save
<1>2. v = (w \ {x}) \union {y}
  BY DEF Replaced
<1> HIDE DEF y
<1> SUFFICES Tidy(v) /\ Become(w, v, {x}) /\ \A a \in v : (a \in w /\ a # x) \/ ~a.heard
  BY DEF y
<1> HIDE DEF v
<1>3. Tidy(v)
  BY <1>1, <1>2 DEF Tidy
<1>4. From(y, x)
  BY <1>1 DEF From
<1>5. \A q \in w : From(q, q) /\ Still(q, q)
  BY SameSave
<1>6. Become(w, v, {x})
  BY <1>1, <1>2, <1>4, <1>5 DEF Become
<1>7. QED
  BY <1>1, <1>2, <1>3, <1>6

LEMMA AbandonedTidy ==
    ASSUME NEW w \in SUBSET Save, Tidy(w) PROVE Tidy(Abandoned(w))
<1> DEFINE f(q) == [q EXCEPT !.heard = FALSE, !.late = TRUE]
<1>1. \A q \in w : ~f(q).heard /\ f(q).stage = q.stage /\ f(q).age = q.age
  BY DEF Save
<1>2. Abandoned(w) = {f(q) : q \in {r \in w : r.stage \in Unsettled}}
  BY DEF Abandoned
<1> HIDE DEF f
<1>3. QED
  BY <1>1, <1>2 DEF Tidy

\* A save has been written: what was sent before it is late.
Written(w, x) ==
    IF x.heard THEN Restaged(Outdated(w, x), x, "saved") ELSE Removed(Outdated(w, x), x)

LEMMA WrittenBecome ==
    ASSUME NEW w \in SUBSET Save, Tidy(w), NEW x \in w, x.stage = "admitted"
    PROVE  /\ Tidy(Written(w, x))
           /\ \A a \in Written(w, x) : \E b \in w :
                  /\ From(a, b)
                  /\ a.stage = b.stage \/ (b = x /\ x.heard)
                  /\ a.stage \in Unsettled /\ ~a.late => b.age <= x.age
                  /\ \A g \in w \ {x} :
                         g.age < b.age => \E h \in Written(w, x) : h.age < a.age /\ Still(h, g)
<1> DEFINE f(q) == IF q.age > x.age /\ q.stage \in Unsettled THEN [q EXCEPT !.late = TRUE] ELSE q
           n(q) == [q EXCEPT !.age = IF @ > x.age THEN @ - 1 ELSE @]
           y    == [x EXCEPT !.stage = "saved"]
           e(q) == IF x.heard THEN f(q) ELSE n(f(q))
           v    == Written(w, x)
<1>1. x \in Save /\ x.age \in Nat /\ \A q \in w : q \in Save /\ q.age \in Nat
  BY SaveFields
<1>2. ASSUME NEW q \in w
      PROVE  /\ f(q) \in Save /\ f(q).text = q.text /\ f(q).durable = q.durable
             /\ f(q).heard = q.heard /\ f(q).stage = q.stage /\ f(q).age = q.age
             /\ q.late => f(q).late
             /\ f(q).stage \in Unsettled /\ ~f(q).late => q.age <= x.age
  <2>1. q \in Save /\ q.age \in Nat /\ q.late \in BOOLEAN
    BY SaveFields
  <2>2. CASE q.age > x.age /\ q.stage \in Unsettled
    <3>1. f(q) = [q EXCEPT !.late = TRUE]
      BY <2>2
    <3> HIDE DEF f
    <3>2. f(q).late /\ f(q).age = q.age /\ f(q).stage = q.stage
      BY <2>1, <3>1 DEF Save
    <3>3. QED
      BY <2>1, <2>2, <3>1, <3>2 DEF Save
  <2>3. CASE ~(q.age > x.age /\ q.stage \in Unsettled)
    BY <1>1, <2>1, <2>3
  <2>4. QED
    BY <2>2, <2>3
<1>3. ASSUME NEW q \in Save
      PROVE  /\ n(q).text = q.text /\ n(q).durable = q.durable
             /\ n(q).heard = q.heard /\ n(q).stage = q.stage /\ n(q).late = q.late
             /\ n(q).age = IF q.age > x.age THEN q.age - 1 ELSE q.age
  BY <1>1, SaveFields DEF Save
<1>4. /\ y.stage = "saved" /\ y.text = x.text /\ y.durable = x.durable
      /\ y.heard = x.heard /\ y.late = x.late /\ y.age = x.age
  BY <1>1 DEF Save
<1>5. Outdated(w, x) = {f(q) : q \in w} /\ f(x) = x
  BY <1>1 DEF Outdated
<1>6. \A q \in w \ {x} : q.age # x.age /\ f(q) # x
  BY <1>2 DEF Tidy
<1>7. v = {e(q) : q \in w \ {x}} \union (IF x.heard THEN {y} ELSE {})
  <2>1. Outdated(w, x) \ {x} = {f(q) : q \in w \ {x}}
    BY <1>5, <1>6
  <2>2. CASE x.heard
    BY <2>1, <2>2 DEF Written, Restaged, Replaced
  <2>3. CASE ~x.heard
    <3>1. v = {n(q) : q \in Outdated(w, x) \ {x}}
      BY <2>3 DEF Written, Removed
    <3> HIDE DEF n, f, v
    <3>2. v = {n(f(q)) : q \in w \ {x}}
      BY <2>1, <3>1
    <3>3. QED
      BY <2>3, <3>2 DEF n
  <2>4. QED
    BY <2>2, <2>3
<1>8. \A q, r \in w : q = r => e(q) = e(r)
  OBVIOUS
<1>9. ASSUME NEW q \in w
      PROVE  /\ e(q).text = q.text /\ e(q).durable = q.durable
             /\ e(q).heard = q.heard /\ e(q).stage = q.stage
             /\ q.late => e(q).late
             /\ e(q).stage \in Unsettled /\ ~e(q).late => q.age <= x.age
             /\ e(q).age = IF q.age > x.age /\ ~x.heard THEN q.age - 1 ELSE q.age
  <2>1. f(q) \in Save
    BY <1>2
  <2>2. CASE x.heard
    BY <1>2, <2>2
  <2>3. CASE ~x.heard
    <3>1. e(q) = n(f(q))
      BY <2>3
    <3> HIDE DEF e, n, f
    <3>2. /\ e(q).text = f(q).text /\ e(q).durable = f(q).durable
          /\ e(q).heard = f(q).heard /\ e(q).stage = f(q).stage /\ e(q).late = f(q).late
          /\ e(q).age = IF f(q).age > x.age THEN f(q).age - 1 ELSE f(q).age
      BY <1>3, <2>1, <3>1
    <3>3. QED
      BY <1>2, <2>3, <3>2
  <2>4. QED
    BY <2>2, <2>3
<1> HIDE DEF f, n, e, y, v
<1>10. \A q, r \in w \ {x} : (e(q).age = e(r).age => q = r) /\ (q.age < r.age => e(q).age < e(r).age)
  <2>1. ASSUME NEW q \in w \ {x}, NEW r \in w \ {x}
        PROVE  (e(q).age = e(r).age => q.age = r.age) /\ (q.age < r.age => e(q).age < e(r).age)
    BY <1>1, <1>6, <1>9
  <2>2. QED
    BY <2>1 DEF Tidy
<1>11. \A q \in w \ {x} : x.heard => e(q).age = q.age
  BY <1>1, <1>9
<1>12. Tidy(v)
  <2>1. \A q, r \in v : q.age = r.age => q = r
    BY <1>4, <1>6, <1>7, <1>10, <1>11
  <2>2. \A q, r \in v : q.heard /\ q.durable /\ r.heard /\ r.durable => q = r
    BY <1>4, <1>7, <1>8, <1>9 DEF Tidy
  <2>3. \A r \in v : r.heard \/ r.stage \in Unsettled
    BY <1>4, <1>7, <1>9 DEF Tidy
  <2>4. QED
    BY <2>1, <2>2, <2>3 DEF Tidy
<1>13. \A q \in w : From(e(q), q) /\ Still(e(q), q)
  BY <1>9 DEF From, Still
<1>14. From(y, x) /\ y.stage \notin Unsettled
  BY <1>4 DEF From, Unsettled
<1>15. ASSUME NEW q \in w \ {x}, NEW g \in w \ {x}, g.age < q.age
       PROVE  \E h \in v : h.age < e(q).age /\ Still(h, g)
  BY <1>7, <1>10, <1>13, <1>15
<1>16. ASSUME NEW g \in w \ {x}, g.age < x.age, x.heard
       PROVE  \E h \in v : h.age < y.age /\ Still(h, g)
  BY <1>4, <1>7, <1>11, <1>13, <1>16
<1>17. \A q \in w \ {x} : e(q).stage = q.stage
  BY <1>9
<1>18. ASSUME NEW a \in v
       PROVE  \E b \in w : /\ From(a, b)
                           /\ a.stage = b.stage \/ (b = x /\ x.heard)
                           /\ a.stage \in Unsettled /\ ~a.late => b.age <= x.age
                           /\ \A g \in w \ {x} :
                                  g.age < b.age => \E h \in v : h.age < a.age /\ Still(h, g)
  <2>1. CASE \E q \in w \ {x} : a = e(q)
    BY <2>1, <1>9, <1>13, <1>15, <1>17
  <2>2. CASE a = y /\ x.heard
    BY <2>2, <1>14, <1>16
  <2>3. QED
    BY <2>1, <2>2, <1>7
<1>19. QED
  BY <1>12, <1>18 DEF v

-----------------------------------------------------------------------------
(***************************************************************************)
(* What a page's saves still on the wire can do to the row.                *)
(***************************************************************************)

\* A save of what the page shows, which the page waits for and which may still
\* be carried out or be sent again.
Carrying(p, q) ==
    q.heard /\ q.text = text[p] /\ (q.stage \in Unsettled \/ q.stage = "failed")

\* A save that is not late brings what the page shows, or the page has more to
\* send, or will be refused, or waits for a younger save that brings it.
Fresh(p) ==
    \A r \in wire[p] :
        r.stage \in Unsettled /\ ~r.late
            => \/ r.text = text[p] \/ armed[p] \/ text[p] \in refused
               \/ \E q \in wire[p] : Carrying(p, q) /\ q.age < r.age

\* The part of a push that rests on its durable save.
Pushing(a) == a.kind = "push" /\ a.at \in {"save", "request", "promote"} /\ ~a.late

\* The durable save of a push, which has not been carried out.
Awaited(d) == d.heard /\ d.durable /\ d.stage # "saved"

\* During a push a save of an older text is one nobody waits for, and it is
\* late or becomes late with the durable save.
Behind(p) ==
    Pushing(act[p]) =>
        \A s \in wire[p] :
            s.text < act[p].clicked
                => ~s.heard /\ (s.late \/ \E d \in wire[p] : Awaited(d) /\ d.age < s.age)

\* A durable save belongs to the push that waits for it.
Durable(p) == \A r \in wire[p] : r.heard /\ r.durable => At(p, "push", "save")

\* The numbers of the versions grow; an act does not outlive the text it was
\* clicked on.
Growing(p) ==
    /\ text[p] <= minted /\ act[p].clicked <= text[p]
    /\ \A r \in wire[p] : r.text <= minted

Own(p) == Tidy(wire[p]) /\ Fresh(p) /\ Behind(p) /\ Durable(p) /\ Growing(p)

\* Neither slot of the row holds a version that was not typed.
Numbered == pub <= minted /\ draft <= minted

WireInv == Numbered /\ \A p \in Page : Own(p)

LEMMA Numbers ==
    ASSUME RowInv
    PROVE  /\ minted \in Nat /\ Content \in Nat /\ pub \in Nat /\ draft \in Nat
           /\ \A p \in Page : /\ text[p] \in Nat /\ act[p] \in Act /\ act[p].clicked \in Nat
                              /\ wire[p] \in SUBSET Save
                              /\ \A r \in wire[p] : r.text \in Nat /\ r.age \in Nat
<1>1. Text \subseteq Nat /\ NoText \in Nat
  BY DEF Text, NoText
<1>2. \A p \in Page : wire[p] \in SUBSET Save /\ act[p] \in Act
  BY DEF RowInv, TypeOK
<1>3. \A a \in Act : a.clicked \in Nat
  BY <1>1 DEF Act
<1>4. QED
  BY <1>1, <1>2, <1>3, SaveFields DEF RowInv, TypeOK, Content

\* The other pages' own variables are as before.
Aside(p) ==
    /\ \A q \in Page \ {p} : /\ text'[q] = text[q] /\ wire'[q] = wire[q]
                             /\ armed'[q] = armed[q] /\ act'[q] = act[q]
    /\ minted' \in Nat /\ minted <= minted' /\ refused \subseteq refused'

LEMMA AsideOwn ==
    ASSUME RowInv, WireInv, NEW p \in Page, Aside(p), Own(p)', Numbered'
    PROVE  WireInv'
<1>1. ASSUME NEW q \in Page \ {p} PROVE Own(q)'
  <2>1. Own(q) /\ minted <= minted' /\ minted \in Nat /\ minted' \in Nat
    BY Numbers DEF WireInv, Aside
  <2>2. /\ text'[q] = text[q] /\ wire'[q] = wire[q] /\ armed'[q] = armed[q]
        /\ act'[q] = act[q] /\ refused \subseteq refused'
    BY DEF Aside
  <2>3. Tidy(wire[q])' /\ Durable(q)'
    BY <2>1, <2>2 DEF Own, Tidy, Durable, At
  <2>4. Fresh(q)'
    BY <2>1, <2>2 DEF Own, Fresh, Carrying
  <2>5. Behind(q)'
    BY <2>1, <2>2 DEF Own, Behind
  <2>6. Growing(q)'
    <3>1. text[q] \in Nat /\ \A r \in wire[q] : r.text \in Nat
      BY Numbers
    <3>2. QED
      BY <2>1, <2>2, <3>1 DEF Own, Growing
  <2>7. QED
    BY <2>3, <2>4, <2>5, <2>6 DEF Own
<1>2. QED
  BY <1>1 DEF WireInv

\* Through a step of the wire a page keeps what it is up to.
LEMMA FreshKept ==
    ASSUME NEW p \in Page, Fresh(p), NEW gone, Become(wire[p], wire'[p], gone),
           text'[p] = text[p], armed[p] => armed'[p], refused \subseteq refused',
           \A g \in gone : Carrying(p, g) => armed'[p] \/ text[p] \in refused'
    PROVE  Fresh(p)'
<1> SUFFICES ASSUME NEW a \in wire'[p], a.stage \in Unsettled, ~a.late,
                    a.text # text[p], ~armed'[p], text[p] \notin refused'
             PROVE  \E h \in wire'[p] : Carrying(p, h)' /\ h.age < a.age
  BY DEF Fresh
<1>1. PICK b \in wire[p] :
          /\ From(a, b)
          /\ \A g \in wire[p] \ gone :
                 g.age < b.age => \E h \in wire'[p] : h.age < a.age /\ Still(h, g)
  BY DEF Become
<1>2. b.stage \in Unsettled /\ ~b.late /\ b.text # text[p]
  BY <1>1 DEF From
<1>3. PICK g \in wire[p] : Carrying(p, g) /\ g.age < b.age
  BY <1>2 DEF Fresh
<1>4. PICK h \in wire'[p] : h.age < a.age /\ Still(h, g)
  BY <1>1, <1>3
<1>5. Carrying(p, h)'
  BY <1>3, <1>4 DEF Carrying, Still, Unsettled
<1>6. QED
  BY <1>4, <1>5

LEMMA BehindKept ==
    ASSUME NEW p \in Page, Behind(p), NEW gone, Become(wire[p], wire'[p], gone),
           Pushing(act'[p]) => Pushing(act[p]) /\ act'[p].clicked = act[p].clicked,
           \A g \in gone : Awaited(g) => ~Pushing(act'[p])
    PROVE  Behind(p)'
<1> SUFFICES ASSUME Pushing(act'[p]), NEW a \in wire'[p], a.text < act[p].clicked
             PROVE  ~a.heard /\ (a.late \/ \E h \in wire'[p] : Awaited(h) /\ h.age < a.age)
  BY DEF Behind
<1>1. PICK b \in wire[p] :
          /\ From(a, b)
          /\ \A g \in wire[p] \ gone :
                 g.age < b.age => \E h \in wire'[p] : h.age < a.age /\ Still(h, g)
  BY DEF Become
<1>2. ~b.heard /\ (b.late \/ \E d \in wire[p] : Awaited(d) /\ d.age < b.age)
  BY <1>1 DEF From, Behind
<1>3. ASSUME NEW d \in wire[p], Awaited(d), d.age < b.age
      PROVE  \E h \in wire'[p] : Awaited(h) /\ h.age < a.age
  <2>1. PICK h \in wire'[p] : h.age < a.age /\ Still(h, d)
    BY <1>1, <1>3
  <2>2. Awaited(h)
    BY <1>3, <2>1 DEF Awaited, Still, Unsettled
  <2>3. QED
    BY <2>1, <2>2
<1>4. QED
  BY <1>1, <1>2, <1>3 DEF From

LEMMA GrowingKept ==
    ASSUME RowInv, NEW p \in Page, Growing(p), NEW gone, Become(wire[p], wire'[p], gone),
           text'[p] = text[p], minted' = minted, act'[p].clicked <= text[p]
    PROVE  Growing(p)'
BY DEF Growing, Become, From

-----------------------------------------------------------------------------
(* One lemma per action, or per action that treats the wire alike. *)

LEMMA EditOwn == ASSUME RowInv, WireInv, NEW p \in Page, Edit(p) PROVE WireInv'
<1>1. /\ wire' = wire /\ act' = act /\ refused' = refused /\ minted' = minted + 1
      /\ text'[p] = minted + 1 /\ armed'[p] /\ pub' = pub /\ draft' = draft
  BY DEF Edit, history, row, RowInv, TypeOK
<1>2. Aside(p)
  BY Numbers DEF Edit, Aside, history, RowInv, TypeOK
<1>3. Own(p)
  BY DEF WireInv
<1>4. Tidy(wire[p])' /\ Durable(p)' /\ Fresh(p)' /\ Behind(p)'
  BY <1>1, <1>3 DEF Own, Tidy, Durable, At, Fresh, Behind
<1>5. Growing(p)'
  BY <1>1, <1>3, Numbers DEF Own, Growing
<1>6. Numbered'
  BY <1>1, Numbers DEF WireInv, Numbered
<1>7. QED
  BY <1>2, <1>4, <1>5, <1>6, AsideOwn DEF Own

\* What is sent is what the page shows, and older than nothing.
LEMMA SentOwn ==
    ASSUME RowInv, NEW p \in Page, Own(p), text[p] \in Text,
           NEW durable \in BOOLEAN, SendDraft(p, durable),
           durable => \A r \in wire[p] : ~(r.heard /\ r.durable),
           UNCHANGED <<text, minted>>
    PROVE  /\ Tidy(wire[p])' /\ Fresh(p)' /\ wire'[p] \in SUBSET Save
           /\ \A r \in wire'[p] : r.text <= minted'
           /\ \A r \in wire'[p] : \/ \E b \in wire[p] : From(r, b)
                                  \/ r.text = text[p] /\ r.heard /\ r.durable = durable
           /\ durable => \E d \in wire'[p] : /\ Awaited(d) /\ d.text = text[p]
                                             /\ \A r \in wire'[p] : r = d \/ d.age < r.age
           /\ ~durable /\ Behind(p) /\ act'[p] = act[p] => Behind(p)'
<1> DEFINE r0 == [text |-> text[p], durable |-> durable, age |-> 0, stage |-> "sent",
                  heard |-> TRUE, late |-> FALSE]
           w == Aged(wire[p])
<1>1. wire'[p] = w \union {r0}
  BY DEF SendDraft, Outgoing, RowInv, TypeOK
<1>2. /\ r0 \in Save /\ r0.text = text[p] /\ r0.age = 0 /\ r0.heard /\ r0.stage = "sent"
      /\ r0.durable = durable
  BY DEF Save, Stages
<1>3. wire[p] \in SUBSET Save /\ Tidy(wire[p]) /\ Fresh(p) /\ Growing(p)
  BY Numbers DEF Own
<1>4. /\ w \in SUBSET Save /\ Tidy(w) /\ Become(wire[p], w, {})
      /\ \A a \in w : a.age > 0
  BY <1>3, AgedBecome
<1> HIDE DEF r0, w
<1>5. \A a \in w : \E b \in wire[p] : From(a, b)
  BY <1>4 DEF Become
<1>6. durable => \A a \in w : ~(a.heard /\ a.durable)
  BY <1>5 DEF From
<1>7. Tidy(wire'[p])
  <2>1. \A a \in w : a.age # r0.age
    BY <1>2, <1>4, SaveFields
  <2>2. ~durable \/ \A a \in w : ~(a.heard /\ a.durable)
    BY <1>6
  <2>3. QED
    BY <1>1, <1>2, <1>4, <2>1, <2>2 DEF Tidy
<1>8. Carrying(p, r0)
  BY <1>2 DEF Carrying, Unsettled
<1>9. Fresh(p)'
  BY <1>1, <1>2, <1>4, <1>8 DEF Fresh, Carrying
<1>10. \A r \in wire'[p] : r.text <= minted'
  BY <1>1, <1>2, <1>3, <1>5 DEF Growing, From
<1>11. durable => \E d \in wire'[p] : /\ Awaited(d) /\ d.text = text[p]
                                      /\ \A r \in wire'[p] : r = d \/ d.age < r.age
  BY <1>1, <1>2, <1>4, SaveFields DEF Awaited
<1>12. ASSUME Behind(p), act'[p] = act[p] PROVE Behind(p)'
  <2> SUFFICES ASSUME Pushing(act[p]), NEW a \in wire'[p], a.text < act[p].clicked
               PROVE  ~a.heard /\ (a.late \/ \E h \in wire'[p] : Awaited(h) /\ h.age < a.age)
    BY <1>12 DEF Behind
  <2>1. a \in w
    <3>1. ~(text[p] < act[p].clicked)
      BY <1>3, Numbers DEF Growing
    <3>2. QED
      BY <1>1, <1>2, <3>1
  <2>2. PICK b \in wire[p] :
            /\ From(a, b)
            /\ \A g \in wire[p] : g.age < b.age => \E h \in w : h.age < a.age /\ Still(h, g)
    BY <1>4, <2>1 DEF Become
  <2>3. ~b.heard /\ (b.late \/ \E d \in wire[p] : Awaited(d) /\ d.age < b.age)
    BY <1>12, <2>2 DEF From, Behind
  <2>4. ASSUME NEW d \in wire[p], Awaited(d), d.age < b.age
        PROVE  \E h \in wire'[p] : Awaited(h) /\ h.age < a.age
    <3>1. PICK h \in w : h.age < a.age /\ Still(h, d)
      BY <2>2, <2>4
    <3>2. Awaited(h)
      BY <2>4, <3>1 DEF Awaited, Still, Unsettled
    <3>3. QED
      BY <1>1, <3>1, <3>2
  <2>5. QED
    BY <2>2, <2>3, <2>4 DEF From
<1>13. QED
  BY <1>1, <1>2, <1>4, <1>5, <1>7, <1>9, <1>10, <1>11, <1>12

LEMMA SaveFiresOwn == ASSUME RowInv, WireInv, NEW p \in Page, SaveFires(p) PROVE WireInv'
<1>1. /\ SendDraft(p, FALSE) /\ UNCHANGED <<row, text, act, minted, refused>>
      /\ armed' = [armed EXCEPT ![p] = FALSE]
  BY DEF SaveFires, Unscheduled, bounds, history
<1>2. Own(p) /\ text[p] \in Text
  BY DEF WireInv, SaveFires, RowInv, Showing
<1>3. Aside(p) /\ Numbered'
  BY <1>1, Numbers DEF SendDraft, Aside, WireInv, Numbered, row, RowInv, TypeOK
<1>4. /\ Tidy(wire[p])' /\ Fresh(p)' /\ Behind(p)'
      /\ \A r \in wire'[p] : r.text <= minted'
      /\ \A r \in wire'[p] : \/ \E b \in wire[p] : From(r, b)
                             \/ r.text = text[p] /\ r.heard /\ r.durable = FALSE
  BY <1>1, <1>2, SentOwn DEF Own
<1>5. Durable(p)'
  BY <1>1, <1>2, <1>4 DEF Own, Durable, At, From
<1>6. Growing(p)'
  BY <1>1, <1>2, <1>4 DEF Own, Growing
<1>7. QED
  BY <1>3, <1>4, <1>5, <1>6, AsideOwn DEF Own

LEMMA DurableSaveOwn == ASSUME RowInv, WireInv, NEW p \in Page, DurableSave(p) PROVE WireInv'
<1>1. /\ SendDraft(p, TRUE) /\ UNCHANGED <<row, text, minted, refused>>
      /\ armed' = [armed EXCEPT ![p] = FALSE]
      /\ act' = [act EXCEPT ![p] = [@ EXCEPT !.at = "save", !.late = WaitExpired(p)]]
      /\ At(p, "push", "drain")
  BY DEF DurableSave, Unscheduled, bounds, history
<1>2. Own(p) /\ text[p] \in Text
  BY DEF WireInv, DurableSave, At, Idle, RowInv, Showing
<1>3. Aside(p) /\ Numbered'
  BY <1>1, Numbers DEF SendDraft, Aside, WireInv, Numbered, row, RowInv, TypeOK
<1>4. \A r \in wire[p] : ~(r.heard /\ r.durable)
  BY <1>1, <1>2 DEF Own, Durable, At
<1>5. /\ Tidy(wire[p])' /\ Fresh(p)'
      /\ \A r \in wire'[p] : r.text <= minted'
      /\ \A r \in wire'[p] : \/ \E b \in wire[p] : From(r, b)
                             \/ r.text = text[p] /\ r.heard /\ r.durable = TRUE
      /\ \E d \in wire'[p] : /\ Awaited(d) /\ d.text = text[p]
                             /\ \A r \in wire'[p] : r = d \/ d.age < r.age
  BY <1>1, <1>2, <1>4, SentOwn DEF Own
<1>6. /\ act'[p].kind = "push" /\ act'[p].at = "save" /\ act'[p].clicked = act[p].clicked
      /\ act'[p].late = WaitExpired(p)
  BY <1>1 DEF At, RowInv, TypeOK, Act
<1>7. Durable(p)'
  BY <1>6 DEF Durable, At
<1>8. Behind(p)'
  <2> SUFFICES ASSUME Pushing(act'[p]), NEW s \in wire'[p], s.text < act[p].clicked
               PROVE  ~s.heard /\ \E d \in wire'[p] : Awaited(d) /\ d.age < s.age
    BY <1>6 DEF Behind
  <2>1. \A b \in wire[p] : ~b.heard
    BY <1>6 DEF Pushing, WaitExpired, Inflight
  <2>2. ~(text[p] < act[p].clicked)
    BY <1>2, Numbers DEF Own, Growing
  <2>3. ~s.heard
    BY <1>5, <2>1, <2>2 DEF From
  <2>4. QED
    BY <1>5, <2>2, <2>3
<1>9. Growing(p)'
  BY <1>1, <1>2, <1>5, <1>6 DEF Own, Growing
<1>10. QED
  BY <1>3, <1>5, <1>7, <1>8, <1>9, AsideOwn DEF Own

LEMMA MountOwn ==
    ASSUME RowInv, WireInv, NEW p \in Page, Mounting(p)
    PROVE  WireInv'
<1>1. PICK shown \in {Content, NoText} : Mount(p, shown) /\ UNCHANGED <<row, minted, refused>>
  BY MountFacts
<1>2. Own(p)
  BY DEF WireInv
<1>3. Aside(p) /\ Numbered'
  BY <1>1, Numbers DEF Mount, Unscheduled, Aside, WireInv, Numbered, row, RowInv, TypeOK
<1>4. wire'[p] = Abandoned(wire[p]) /\ text'[p] = shown /\ act'[p] = Idle
  BY <1>1 DEF Mount, RowInv, TypeOK
<1>5. \A a \in wire'[p] : ~a.heard /\ a.late /\ \E b \in wire[p] : a.text = b.text
  <2>1. \A b \in Save : LET a == [b EXCEPT !.heard = FALSE, !.late = TRUE]
                        IN  ~a.heard /\ a.late /\ a.text = b.text
    BY DEF Save
  <2>2. QED
    BY <1>4, <2>1, Numbers DEF Abandoned
<1>6. Tidy(wire[p])'
  BY <1>2, <1>4, Numbers, AbandonedTidy DEF Own
<1>7. Fresh(p)' /\ Durable(p)'
  BY <1>5 DEF Fresh, Durable
<1>8. Behind(p)'
  BY <1>4 DEF Behind, Pushing, Idle
<1>9. Growing(p)'
  BY <1>1, <1>2, <1>4, <1>5, Numbers DEF Own, Growing, WireInv, Numbered, Content, Idle, NoText
<1>10. QED
  BY <1>3, <1>6, <1>7, <1>8, <1>9, AsideOwn DEF Own

\* Through a step of the wire that moves no act on.
LEMMA DurableKept ==
    ASSUME NEW p \in Page, Durable(p), \A a \in wire'[p] : \E b \in wire[p] : From(a, b),
           act'[p] = act[p]
    PROVE  Durable(p)'
BY DEF Durable, From, At

LEMMA SettledOwn ==
    ASSUME RowInv, WireInv, NEW p \in Page, NEW r \in wire[p], r.stage \in Unsettled,
           NEW stage \in {"admitted", "refused", "failed"}, Settled(p, r, stage),
           refused \subseteq refused', stage = "refused" => r.text \in refused',
           stage = "admitted" => r.stage = "sent",
           UNCHANGED <<row, text, armed, act, minted>>
    PROVE  WireInv'
<1>1. Own(p) /\ wire[p] \in SUBSET Save
  BY Numbers DEF WireInv
<1>2. Aside(p) /\ Numbered'
  BY Numbers DEF Settled, Aside, WireInv, Numbered, row, RowInv, TypeOK
<1>3. wire'[p] = IF r.heard \/ stage = "admitted" THEN Restaged(wire[p], r, stage)
                                                  ELSE Removed(wire[p], r)
  BY DEF Settled, RowInv, TypeOK
<1>4. PICK gone : /\ Tidy(wire'[p]) /\ Become(wire[p], wire'[p], gone)
                  /\ gone = {} \/ (gone = {r} /\ (stage = "refused" \/ ~r.heard))
  <2>1. CASE r.heard \/ stage = "admitted"
    <3>1. stage \in Stages /\ (r.heard \/ stage \in Unsettled)
      BY <2>1 DEF Stages, Unsettled
    <3>2. /\ Tidy(wire'[p]) /\ Become(wire[p], wire'[p], {r})
          /\ stage \in {"admitted", "failed"} => Become(wire[p], wire'[p], {})
      BY <1>1, <1>3, <2>1, <3>1, RestagedBecome DEF Own
    <3>3. QED
      BY <3>2
  <2>2. CASE ~(r.heard \/ stage = "admitted")
    <3>1. Tidy(wire[p]) /\ wire'[p] = Removed(wire[p], r)
      BY <1>1, <1>3, <2>2 DEF Own
    <3>2. Tidy(Removed(wire[p], r)) /\ Become(wire[p], Removed(wire[p], r), {r})
      BY <1>1, <3>1, RemovedBecome
    <3>3. QED
      BY <2>2, <3>1, <3>2
  <2>3. QED
    BY <2>1, <2>2
<1>5. Fresh(p)'
  BY <1>1, <1>4, FreshKept DEF Own, Carrying
<1>6. Durable(p)'
  BY <1>1, <1>4, DurableKept DEF Own, Become
<1>7. Growing(p)'
  BY <1>1, <1>4, GrowingKept DEF Own, Growing
<1>8. Behind(p)'
  <2>1. CASE stage = "refused" /\ r.heard
    <3> DEFINE y == [r EXCEPT !.stage = stage]
    <3>1. wire'[p] = (wire[p] \ {r}) \union {y}
      BY <1>3, <2>1 DEF Restaged, Replaced
    <3>2. /\ y.text = r.text /\ y.age = r.age /\ y.heard = r.heard /\ y.durable = r.durable
          /\ y.late = r.late /\ y.stage = "refused"
      BY <1>1, <2>1 DEF Save
    <3> HIDE DEF y
    <3>3. Awaited(r) => Awaited(y)
      BY <3>2 DEF Awaited
    <3>4. Behind(p)
      BY <1>1 DEF Own
    <3>5. QED
      BY <3>1, <3>2, <3>3, <3>4 DEF Behind
  <2>2. CASE gone = {} \/ ~r.heard
    <3>1. \A g \in gone : ~Awaited(g)
      BY <1>4, <2>2 DEF Awaited
    <3>2. Behind(p) /\ act'[p] = act[p]
      BY <1>1 DEF Own
    <3>3. QED
      BY <1>4, <3>1, <3>2, BehindKept
  <2>3. QED
    BY <1>4, <2>1, <2>2
<1>9. QED
  BY <1>2, <1>4, <1>5, <1>6, <1>7, <1>8, AsideOwn DEF Own

LEMMA AdmittedOwn ==
    ASSUME RowInv, WireInv, NEW p \in Page, NEW r \in wire[p],
           SaveAdmitted(p, r) \/ RequestLost(p, r)
    PROVE  WireInv'
<1>1. CASE SaveAdmitted(p, r)
  <2>1. UNCHANGED <<row, text, armed, act, minted>> /\ r.stage = "sent"
    BY <1>1 DEF SaveAdmitted, bounds
  <2>2. PICK stage \in {"admitted", "refused", "failed"} :
            /\ Settled(p, r, stage)
            /\ refused' = refused \/ refused' = refused \union {r.text}
            /\ stage = "refused" => r.text \in refused'
    BY <1>1 DEF SaveAdmitted
  <2>3. refused \subseteq refused' /\ r.stage \in Unsettled
    BY <2>1, <2>2 DEF Unsettled
  <2>4. QED
    BY <2>1, <2>2, <2>3, SettledOwn
<1>2. CASE RequestLost(p, r)
  <2>1. /\ UNCHANGED <<row, text, armed, act, minted, refused>> /\ Settled(p, r, "failed")
        /\ r.stage \in Unsettled
    BY <1>2 DEF RequestLost, history
  <2>2. QED
    BY <2>1, SettledOwn
<1>3. QED
  BY <1>1, <1>2

LEMMA SaveWrittenOwn ==
    ASSUME RowInv, WireInv, NEW p \in Page, NEW r \in wire[p], SaveWritten(p, r)
    PROVE  WireInv'
<1>1. Own(p) /\ wire[p] \in SUBSET Save /\ r.stage = "admitted"
  BY Numbers DEF WireInv, SaveWritten
<1>2. /\ UNCHANGED <<exists, pub, text, armed, act, minted, refused>>
      /\ wire' = [wire EXCEPT ![p] = Written(wire[p], r)]
      /\ draft' = IF exists THEN r.text ELSE draft
  BY DEF SaveWritten, Written, bounds
<1>3. Aside(p)
  BY <1>2, Numbers DEF Aside, RowInv, TypeOK
<1>4. Numbered'
  BY <1>1, <1>2 DEF WireInv, Own, Growing, Numbered
<1>5. wire'[p] = Written(wire[p], r)
  BY <1>2 DEF RowInv, TypeOK
<1>6. Tidy(wire'[p])
  BY <1>1, <1>5, WrittenBecome DEF Own
<1>7. \A a \in wire'[p] : \E b \in wire[p] :
          /\ From(a, b)
          /\ a.stage = b.stage \/ (b = r /\ r.heard)
          /\ a.stage \in Unsettled /\ ~a.late => b.age <= r.age
          /\ \A g \in wire[p] \ {r} :
                 g.age < b.age => \E h \in wire'[p] : h.age < a.age /\ Still(h, g)
  <2>1. Tidy(wire[p])
    BY <1>1 DEF Own
  <2>2. QED
    BY <1>1, <1>5, <2>1, WrittenBecome
<1>8. r.age \in Nat /\ \A b \in wire[p] : b.age \in Nat
  BY Numbers
<1>9. Fresh(p)'
  <2> SUFFICES ASSUME NEW a \in wire'[p], a.stage \in Unsettled, ~a.late,
                      a.text # text[p], ~armed[p], text[p] \notin refused
               PROVE  \E h \in wire'[p] : Carrying(p, h)' /\ h.age < a.age
    BY <1>2 DEF Fresh
  <2>1. PICK b \in wire[p] :
            /\ From(a, b) /\ b.age <= r.age
            /\ \A g \in wire[p] \ {r} :
                   g.age < b.age => \E h \in wire'[p] : h.age < a.age /\ Still(h, g)
    BY <1>7
  <2>2. b.stage \in Unsettled /\ ~b.late /\ b.text # text[p]
    BY <2>1 DEF From
  <2>3. PICK g \in wire[p] : Carrying(p, g) /\ g.age < b.age
    BY <1>1, <2>2 DEF Own, Fresh
  <2>4. g # r
    BY <1>8, <2>1, <2>3
  <2>5. PICK h \in wire'[p] : h.age < a.age /\ Still(h, g)
    BY <2>1, <2>3, <2>4
  <2>6. Carrying(p, h)'
    BY <1>2, <2>3, <2>5 DEF Carrying, Still, Unsettled
  <2>7. QED
    BY <2>5, <2>6
<1>10. Behind(p)'
  <2> SUFFICES ASSUME Pushing(act[p]), NEW a \in wire'[p], a.text < act[p].clicked
               PROVE  ~a.heard /\ (a.late \/ \E h \in wire'[p] : Awaited(h) /\ h.age < a.age)
    BY <1>2 DEF Behind
  <2>1. PICK b \in wire[p] :
            /\ From(a, b)
            /\ a.stage \in Unsettled /\ ~a.late => b.age <= r.age
            /\ \A g \in wire[p] \ {r} :
                   g.age < b.age => \E h \in wire'[p] : h.age < a.age /\ Still(h, g)
    BY <1>7
  <2>2. ~b.heard /\ (b.late \/ \E d \in wire[p] : Awaited(d) /\ d.age < b.age)
    BY <1>1, <2>1 DEF Own, Behind, From
  <2>3. ~a.heard /\ a.stage \in Unsettled
    BY <1>6, <2>1, <2>2 DEF From, Tidy
  <2>4. ASSUME NEW d \in wire[p], Awaited(d), d.age < b.age, ~a.late
        PROVE  \E h \in wire'[p] : Awaited(h) /\ h.age < a.age
    <3>1. d # r
      BY <1>8, <2>1, <2>3, <2>4
    <3>2. PICK h \in wire'[p] : h.age < a.age /\ Still(h, d)
      BY <2>1, <2>4, <3>1
    <3>3. Awaited(h)
      BY <2>4, <3>2 DEF Awaited, Still, Unsettled
    <3>4. QED
      BY <3>2, <3>3
  <2>5. QED
    BY <2>1, <2>2, <2>3, <2>4 DEF From
<1>11. Durable(p)'
  BY <1>1, <1>2, <1>7, DurableKept DEF Own
<1>12. Growing(p)'
  BY <1>1, <1>2, <1>7 DEF Own, Growing, From
<1>13. QED
  BY <1>3, <1>4, <1>6, <1>9, <1>10, <1>11, <1>12, AsideOwn DEF Own

\* The page hears of r, or that its connection for r has broken.
LEMMA HeardOwn ==
    ASSUME RowInv, WireInv, NEW p \in Page, NEW r \in wire[p], r.heard,
           UNCHANGED <<row, text, minted, refused>>,
           UNCHANGED armed \/ armed' = [armed EXCEPT ![p] = TRUE],
           r.stage \in Unsettled \/ r.stage = "failed" => armed'[p],
           NEW v, wire' = [wire EXCEPT ![p] = v], Tidy(v), Become(wire[p], v, {r}),
           \A a \in v : a.heard => \E b \in wire[p] \ {r} : From(a, b),
           NEW x, act' = [act EXCEPT ![p] = x],
           x = IF ~r.durable THEN act[p]
               ELSE IF r.stage = "saved" /\ x # Idle THEN [act[p] EXCEPT !.at = "request"] ELSE Idle
    PROVE  WireInv'
<1>1. Own(p) /\ wire[p] \in SUBSET Save
  BY Numbers DEF WireInv
<1>2. Aside(p) /\ Numbered'
  BY Numbers DEF Aside, WireInv, Numbered, row, RowInv, TypeOK
<1>3. wire'[p] = v /\ act'[p] = x
  BY DEF RowInv, TypeOK
<1>4. r.durable => At(p, "push", "save")
  BY <1>1 DEF Own, Durable
<1>5. /\ x.clicked = act[p].clicked \/ x.clicked = NoText
      /\ Pushing(x) => Pushing(act[p]) /\ x.clicked = act[p].clicked
      /\ Awaited(r) => ~Pushing(x)
  <2>1. act[p] \in Act
    BY Numbers
  <2>2. LET z == [act[p] EXCEPT !.at = "request"]
        IN  z.kind = act[p].kind /\ z.clicked = act[p].clicked /\ z.late = act[p].late
    BY <2>1 DEF Act
  <2>3. Idle.clicked = NoText /\ ~Pushing(Idle)
    BY DEF Idle, Pushing
  <2>4. QED
    BY <1>4, <2>2, <2>3 DEF Pushing, At, Awaited
<1>6. Fresh(p)'
  <2>1. \A g \in {r} : Carrying(p, g) => armed'[p] \/ text[p] \in refused'
    BY DEF Carrying
  <2>2. armed[p] => armed'[p]
    BY DEF RowInv, TypeOK
  <2>3. QED
    BY <1>1, <1>3, <2>1, <2>2, FreshKept DEF Own
<1>7. Behind(p)'
  <2>1. \A g \in {r} : Awaited(g) => ~Pushing(act'[p])
    BY <1>3, <1>5
  <2>2. Behind(p) /\ (Pushing(act'[p]) => Pushing(act[p]) /\ act'[p].clicked = act[p].clicked)
    BY <1>1, <1>3, <1>5 DEF Own
  <2>3. QED
    BY <1>3, <2>1, <2>2, BehindKept
<1>8. Durable(p)'
  <2>1. CASE r.durable
    <3>1. \A b \in wire[p] \ {r} : ~(b.heard /\ b.durable)
      BY <1>1, <2>1 DEF Own, Tidy
    <3>2. QED
      BY <1>3, <3>1 DEF Durable, From
  <2>2. CASE ~r.durable
    BY <1>1, <1>3, <2>2 DEF Own, Durable, From, At
  <2>3. QED
    BY <2>1, <2>2
<1>9. Growing(p)'
  <2>1. act'[p].clicked <= text[p]
    BY <1>1, <1>3, <1>5, Numbers DEF Own, Growing, NoText
  <2>2. Growing(p) /\ Become(wire[p], wire'[p], {r})
    BY <1>1, <1>3 DEF Own
  <2>3. QED
    BY <2>1, <2>2, GrowingKept
<1>10. QED
  BY <1>2, <1>3, <1>6, <1>7, <1>8, <1>9, AsideOwn DEF Own

LEMMA AnsweredOwn ==
    ASSUME RowInv, WireInv, NEW p \in Page, NEW r \in wire[p], SaveAnswered(p, r)
    PROVE  WireInv'
<1> DEFINE x == IF ~r.durable THEN act[p]
                ELSE IF r.stage = "saved" THEN [act[p] EXCEPT !.at = "request"] ELSE Idle
           v == Removed(wire[p], r)
<1>1. /\ r.heard /\ UNCHANGED <<row, text, minted, refused>>
      /\ UNCHANGED armed \/ armed' = [armed EXCEPT ![p] = TRUE]
      /\ wire' = [wire EXCEPT ![p] = v] /\ act' = [act EXCEPT ![p] = x]
      /\ r.stage \notin Unsettled
  BY DEF SaveAnswered, bounds, Retried, GivenUp, Unsettled
<1>2. r.stage = "failed" => armed'[p]
  BY DEF SaveAnswered, Retried, RowInv, TypeOK
<1>3. wire[p] \in SUBSET Save /\ Tidy(wire[p])
  BY Numbers DEF WireInv, Own
<1>4. /\ Tidy(v) /\ Become(wire[p], v, {r})
      /\ \A a \in v : \E b \in wire[p] \ {r} : From(a, b)
  BY <1>3, RemovedBecome
<1>5. x = IF ~r.durable THEN act[p]
          ELSE IF r.stage = "saved" /\ x # Idle THEN [act[p] EXCEPT !.at = "request"] ELSE Idle
  OBVIOUS
<1> HIDE DEF x, v
<1>6. QED
  BY <1>1, <1>2, <1>4, <1>5, HeardOwn

LEMMA AnswerLostOwn ==
    ASSUME RowInv, WireInv, NEW p \in Page, NEW r \in wire[p], AnswerLost(p, r)
    PROVE  WireInv'
<1> DEFINE x == IF r.durable THEN Idle ELSE act[p]
           u == Replaced(wire[p], r, [r EXCEPT !.heard = FALSE])
           v == IF r.stage = "saved" THEN Removed(wire[p], r) ELSE u
<1>1. /\ r.heard /\ UNCHANGED <<row, text, minted, refused>>
      /\ armed' = [armed EXCEPT ![p] = TRUE] /\ armed'[p]
      /\ wire' = [wire EXCEPT ![p] = v] /\ act' = [act EXCEPT ![p] = x]
      /\ r.stage = "saved" \/ r.stage \in Unsettled
  BY DEF AnswerLost, history, Retried, RowInv, TypeOK
<1>2. wire[p] \in SUBSET Save /\ Tidy(wire[p])
  BY Numbers DEF WireInv, Own
<1>3. /\ Tidy(v) /\ Become(wire[p], v, {r})
      /\ \A a \in v : a.heard => \E b \in wire[p] \ {r} : From(a, b)
  <2>1. CASE r.stage = "saved"
    BY <1>2, <2>1, RemovedBecome
  <2>2. CASE r.stage # "saved"
    <3>1. Tidy(u) /\ Become(wire[p], u, {r}) /\ \A a \in u : (a \in wire[p] /\ a # r) \/ ~a.heard
      BY <1>1, <1>2, <2>2, UnheardBecome
    <3>2. \A a \in wire[p] : From(a, a)
      BY DEF From
    <3>3. QED
      BY <2>2, <3>1, <3>2
  <2>3. QED
    BY <2>1, <2>2
<1>4. x = IF ~r.durable THEN act[p]
          ELSE IF r.stage = "saved" /\ x # Idle THEN [act[p] EXCEPT !.at = "request"] ELSE Idle
  OBVIOUS
<1> HIDE DEF x, v
<1>5. QED
  BY <1>1, <1>3, <1>4, HeardOwn

\* What moves an act on, gives it up or begins it leaves the wire alone.
LEMMA ActOwn ==
    ASSUME RowInv, WireInv, NEW p \in Page, ~At(p, "push", "save"),
           NEW x, act' = [act EXCEPT ![p] = x], x.clicked <= text[p],
           Pushing(x) => Pushing(act[p]) /\ x.clicked = act[p].clicked,
           UNCHANGED <<text, wire, armed, minted, refused>>, Numbered'
    PROVE  WireInv'
<1>1. Own(p)
  BY DEF WireInv
<1>2. Aside(p)
  BY Numbers DEF Aside, RowInv, TypeOK
<1>3. act'[p] = x
  BY DEF RowInv, TypeOK
<1>4. Durable(p)'
  BY <1>1, <1>3 DEF Own, Durable
<1>5. Fresh(p)' /\ Tidy(wire[p])'
  BY <1>1 DEF Own, Fresh, Carrying, Tidy
<1>6. Behind(p)'
  BY <1>1, <1>3 DEF Own, Behind
<1>7. Growing(p)'
  BY <1>1, <1>3 DEF Own, Growing
<1>8. QED
  BY <1>2, <1>4, <1>5, <1>6, <1>7, AsideOwn DEF Own

LEMMA ActValues ==
    ASSUME RowInv, WireInv, NEW p \in Page
    PROVE  /\ Idle.clicked <= text[p] /\ ~Pushing(Idle)
           /\ LET x == [act[p] EXCEPT !.at = "answer"]
              IN  x.clicked <= text[p] /\ ~Pushing(x)
           /\ LET x == [act[p] EXCEPT !.at = "promote", !.read = Content]
              IN  /\ x.clicked <= text[p] /\ x.clicked = act[p].clicked
                  /\ At(p, "push", "request") /\ Pushing(x) => Pushing(act[p])
           /\ \A kind \in {"push", "discard", "unpublish", "delete"}, at \in {"drain", "request"} :
                  LET x == [Idle EXCEPT !.kind = kind, !.at = at, !.clicked = text[p]]
                  IN  x.clicked <= text[p] /\ (at = "drain" \/ kind # "push" => ~Pushing(x))
<1>1. act[p] \in Act /\ act[p].clicked <= text[p] /\ text[p] \in Nat /\ act[p].clicked \in Nat
  BY Numbers DEF WireInv, Own, Growing
<1>2. Idle.clicked <= text[p] /\ ~Pushing(Idle)
  BY <1>1 DEF Idle, Pushing, NoText
<1>3. LET x == [act[p] EXCEPT !.at = "answer"]
      IN  x.clicked <= text[p] /\ ~Pushing(x)
  BY <1>1 DEF Act, Pushing
<1>4. LET x == [act[p] EXCEPT !.at = "promote", !.read = Content]
      IN  /\ x.clicked <= text[p] /\ x.clicked = act[p].clicked
          /\ At(p, "push", "request") /\ Pushing(x) => Pushing(act[p])
  BY <1>1 DEF Act, Pushing, At
<1>5. \A kind \in {"push", "discard", "unpublish", "delete"}, at \in {"drain", "request"} :
          LET x == [Idle EXCEPT !.kind = kind, !.at = at, !.clicked = text[p]]
          IN  x.clicked <= text[p] /\ (at = "drain" \/ kind # "push" => ~Pushing(x))
  BY <1>1 DEF Idle, Pushing
<1>6. QED
  BY <1>2, <1>3, <1>4, <1>5

\* What an editorial act makes of the content.
LEMMA ActsContent ==
    ASSUME RowInv, NEW p \in Page,
           \/ ClickPush(p) \/ ClickDiscard(p) \/ ClickUnpublish(p) \/ ClickDelete(p)
           \/ PushAnswered(p) \/ UnpublishAnswered(p) \/ PushRead(p) \/ Promote(p)
           \/ DraftDiscarded(p) \/ Unpublished(p) \/ Deleted(p) \/ ActLost(p)
    PROVE  /\ UNCHANGED <<text, wire, armed, login, minted, refused, overtaken>>
           /\ \/ Content' = Content /\ exists' = exists /\ writer' = writer
              \/ /\ DraftDiscarded(p) /\ Content' = pub /\ exists' = exists
                 /\ Content' # Content => writer' = p
              \/ Deleted(p) /\ Content' = NoText /\ ~exists'
<1>1. CASE ClickPush(p) \/ ClickDiscard(p) \/ ClickUnpublish(p) \/ ClickDelete(p)
  BY <1>1 DEF ClickPush, ClickDiscard, ClickUnpublish, ClickDelete, Click, row, history, Content
<1>2. CASE PushAnswered(p) \/ UnpublishAnswered(p) \/ PushRead(p)
  BY <1>2 DEF PushAnswered, UnpublishAnswered, PushRead, row, history, bounds, Content
<1>3. CASE Promote(p)
  BY <1>3, TextFacts DEF Promote, Promotable, Content, bounds
<1>4. CASE DraftDiscarded(p)
  BY <1>4 DEF DraftDiscarded, Discardable, Content, bounds
<1>5. CASE Unpublished(p)
  BY <1>5 DEF Unpublished, MovedToDraft, Content, bounds, history
<1>6. CASE Deleted(p)
  BY <1>6 DEF Deleted, row, Content, bounds, history
<1>7. CASE ActLost(p)
  BY <1>7 DEF ActLost, Content, row
<1>8. QED
  BY <1>1, <1>2, <1>3, <1>4, <1>5, <1>6, <1>7

LEMMA ActsOwn ==
    ASSUME RowInv, WireInv, NEW p \in Page,
           \/ ClickPush(p) \/ ClickDiscard(p) \/ ClickUnpublish(p) \/ ClickDelete(p)
           \/ PushAnswered(p) \/ UnpublishAnswered(p) \/ PushRead(p) \/ Promote(p)
           \/ DraftDiscarded(p) \/ Unpublished(p) \/ Deleted(p) \/ ActLost(p)
    PROVE  WireInv' /\ ~At(p, "push", "save")
<1>1. UNCHANGED <<text, wire, armed, minted, refused>>
  BY ActsContent
<1>2. Numbered'
  <2>1. {pub', draft'} \subseteq {pub, draft, NoText} /\ minted' = minted
    BY DEF ClickPush, ClickDiscard, ClickUnpublish, ClickDelete, Click, PushAnswered,
       UnpublishAnswered, PushRead, Promote, DraftDiscarded, Unpublished, MovedToDraft, Content,
       Deleted, ActLost, row, bounds
  <2>2. QED
    BY <2>1, Numbers DEF WireInv, Numbered, NoText
<1>3. ~At(p, "push", "save")
  BY DEF ClickPush, ClickDiscard, ClickUnpublish, ClickDelete, Click, PushAnswered,
     UnpublishAnswered, PushRead, Promote, DraftDiscarded, Unpublished, Deleted, ActLost, At, Idle
<1>4. \/ act' = [act EXCEPT ![p] = Idle]
      \/ act' = [act EXCEPT ![p] = [@ EXCEPT !.at = "answer"]]
      \/ /\ At(p, "push", "request")
         /\ act' = [act EXCEPT ![p] = [@ EXCEPT !.at = "promote", !.read = Content]]
      \/ \E kind \in {"push", "discard", "unpublish", "delete"}, at \in {"drain", "request"} :
             /\ at = "drain" \/ kind # "push"
             /\ act' = [act EXCEPT ![p] = [Idle EXCEPT !.kind = kind, !.at = at,
                                                       !.clicked = text[p]]]
  BY DEF ClickPush, ClickDiscard, ClickUnpublish, ClickDelete, Click, PushAnswered, Reaches,
     UnpublishAnswered, PushRead, Promote, DraftDiscarded, Unpublished, Deleted, ActLost
<1>5. QED
  BY <1>1, <1>2, <1>3, <1>4, ActOwn, ActValues

\* What the invariant of the wires speaks of is as before.
LEMMA WireUnchanged ==
    ASSUME WireInv, UNCHANGED <<row, text, armed, wire, act, minted, refused>> PROVE WireInv'
BY DEF row, WireInv, Numbered, Own, Tidy, Fresh, Carrying, Behind, Durable, At, Growing

LEMMA QuietOwn == ASSUME RowInv, WireInv, NEW p \in Page, Quiet(p) PROVE WireInv'
BY QuietFacts, WireUnchanged DEF history

LEMMA NextWire == ASSUME RowInv, WireInv, [Next]_vars PROVE WireInv'
<1>1. ASSUME NEW p \in Page, PageStep(p) PROVE WireInv'
  BY <1>1, EditOwn, SaveFiresOwn, DurableSaveOwn, MountOwn, QuietOwn, ActsOwn, AnsweredOwn
     DEF PageStep, Mounting, Quiet
<1>2. ASSUME NEW p \in Page, ServerStep(p) PROVE WireInv'
  BY <1>2, ActsOwn, AdmittedOwn, SaveWrittenOwn DEF ServerStep
<1>3. ASSUME NEW p \in Page, NetworkFault(p) PROVE WireInv'
  BY <1>3, ActsOwn, QuietOwn, AdmittedOwn, AnswerLostOwn DEF NetworkFault, Quiet
<1>4. CASE UNCHANGED vars
  BY <1>4, WireUnchanged DEF vars, bounds, history
<1>5. QED
  BY <1>1, <1>2, <1>3, <1>4 DEF Next

LEMMA InitWire == ASSUME Init PROVE WireInv
<1>1. \A p \in Page : wire[p] = {} /\ act[p] = Idle /\ text[p] = First
  BY DEF Init, Opened
<1>2. minted = First /\ pub <= First /\ draft <= First
  BY DEF Init, Opened, First, NoText
<1>3. ASSUME NEW p \in Page PROVE Own(p)
  <2>1. Idle.kind = "none" /\ Idle.clicked = 0
    BY DEF Idle, NoText
  <2>2. Growing(p)
    BY <1>1, <1>2, <2>1 DEF Growing, First
  <2>3. Behind(p)
    BY <1>1, <2>1 DEF Behind, Pushing
  <2>4. Tidy(wire[p]) /\ Fresh(p) /\ Durable(p)
    BY <1>1 DEF Tidy, Fresh, Durable
  <2>5. QED
    BY <2>2, <2>3, <2>4 DEF Own
<1>4. QED
  BY <1>2, <1>3 DEF WireInv, Numbered

-----------------------------------------------------------------------------
(***************************************************************************)
(* Some page shows what the row holds, or is about to make it so.          *)
(***************************************************************************)

Tends(p) ==
    \/ text[p] = Content \/ text[p] \in refused \/ armed[p]
    \/ \E q \in wire[p] : Carrying(p, q)
    \/ At(p, "discard", "answer")
    \/ text[p] = NoText /\ ~login[p]

SomeTends == exists /\ ~overtaken /\ ~stray => \E p \in Page : Tends(p)

LEMMA TendsAside ==
    ASSUME NEW p \in Page, Aside(p), \A q \in Page \ {p} : login'[q] = login[q],
           Content' = Content, NEW t \in Page \ {p}, Tends(t)
    PROVE  Tends(t)'
BY DEF Aside, Tends, Carrying, At

\* The page of the step takes care of it by itself.
LEMMA PageTends ==
    ASSUME RowInv, WireInv, NEW p \in Page,
           Edit(p) \/ SaveFires(p) \/ DurableSave(p) \/ Mounting(p)
    PROVE  SomeTends'
<1>1. CASE Edit(p)
  BY <1>1 DEF Edit, SomeTends, Tends, RowInv, TypeOK
<1>2. CASE SaveFires(p) \/ DurableSave(p)
  <2>0. PICK d \in BOOLEAN :
            wire' = [wire EXCEPT ![p] = Aged(wire[p]) \union
                        {[text |-> Outgoing(p), durable |-> d, age |-> 0, stage |-> "sent",
                          heard |-> TRUE, late |-> FALSE]}]
    BY <1>2 DEF SaveFires, DurableSave, SendDraft
  <2>1. PICK q :
            /\ q = [text |-> Outgoing(p), durable |-> d, age |-> 0, stage |-> "sent",
                    heard |-> TRUE, late |-> FALSE]
            /\ wire' = [wire EXCEPT ![p] = Aged(wire[p]) \union {q}]
    BY <2>0
  <2>2. text' = text /\ q \in wire'[p]
    BY <1>2, <2>1 DEF SaveFires, DurableSave, RowInv, TypeOK
  <2>3. q.text = text[p] /\ q.heard /\ q.stage \in Unsettled
    BY <2>1 DEF Outgoing, Unsettled
  <2>4. Carrying(p, q)'
    BY <2>2, <2>3 DEF Carrying
  <2>5. QED
    BY <2>2, <2>4 DEF SomeTends, Tends
<1>3. CASE Mounting(p)
  <2>1. PICK shown \in {Content, NoText} :
            /\ Mount(p, shown) /\ UNCHANGED row
            /\ shown = Content \/ (shown = NoText /\ ~login'[p])
    BY <1>3, MountFacts
  <2>2. text'[p] = shown /\ Content' = Content
    BY <2>1 DEF Mount, row, Content, RowInv, TypeOK
  <2>3. QED
    BY <2>1, <2>2 DEF SomeTends, Tends
<1>4. QED
  BY <1>1, <1>2, <1>3

LEMMA QuietTends ==
    ASSUME RowInv, SomeTends, NEW p \in Page, Quiet(p) PROVE SomeTends'
<1>1. /\ UNCHANGED <<row, text, armed, wire, act, refused, overtaken, stray>>
      /\ text[p] # NoText /\ \A q \in Page \ {p} : login'[q] = login[q]
  BY QuietFacts DEF history
<1>2. ASSUME NEW t \in Page, Tends(t) PROVE Tends(t)'
  BY <1>1, <1>2 DEF Tends, Carrying, At, Content, row
<1>3. QED
  BY <1>1, <1>2 DEF SomeTends, row

LEMMA ActsTend ==
    ASSUME RowInv, WireInv, SomeTends, NEW p \in Page,
           \/ ClickPush(p) \/ ClickDiscard(p) \/ ClickUnpublish(p) \/ ClickDelete(p)
           \/ PushAnswered(p) \/ UnpublishAnswered(p) \/ PushRead(p) \/ Promote(p)
           \/ DraftDiscarded(p) \/ Unpublished(p) \/ Deleted(p) \/ ActLost(p)
    PROVE  SomeTends'
<1>1. /\ UNCHANGED <<text, wire, armed, login, minted, refused, overtaken>>
      /\ \/ Content' = Content /\ exists' = exists
         \/ DraftDiscarded(p) /\ Content' = pub /\ exists' = exists
         \/ ~exists'
  BY ActsContent
<1>2. stray' = (stray \/ (ActLost(p) /\ At(p, "discard", "answer")))
  BY DEF ClickPush, ClickDiscard, ClickUnpublish, ClickDelete, Click, PushAnswered,
     UnpublishAnswered, PushRead, Promote, DraftDiscarded, Unpublished, Deleted, ActLost, At,
     Idle, history, RowInv, TypeOK
<1>3. CASE DraftDiscarded(p) /\ IsOwner(p) /\ Discardable
  <2>1. At(p, "discard", "answer")'
    <3>1. act[p] \in Act /\ act' = [act EXCEPT ![p] = [@ EXCEPT !.at = "answer"]]
          /\ act[p].kind = "discard"
      BY <1>3, Numbers DEF DraftDiscarded, Reaches, At
    <3>2. QED
      BY <3>1 DEF At, Act, RowInv, TypeOK
  <2>2. QED
    BY <2>1 DEF SomeTends, Tends
<1>4. CASE ~(DraftDiscarded(p) /\ IsOwner(p) /\ Discardable)
  <2>1. (Content' = Content /\ exists' = exists) \/ ~exists'
    BY <1>1, <1>4 DEF DraftDiscarded, Content
  <2>2. At(p, "discard", "answer") => ActLost(p)
    BY DEF ClickPush, ClickDiscard, ClickUnpublish, ClickDelete, Click, PushAnswered,
       UnpublishAnswered, PushRead, Promote, DraftDiscarded, Unpublished, Deleted, At, Idle
  <2>3. ASSUME exists', ~stray', Tends(p) PROVE Tends(p)'
    BY <1>1, <1>2, <2>1, <2>2, <2>3 DEF Tends, Carrying
  <2>4. ASSUME NEW t \in Page \ {p}, exists', Tends(t) PROVE Tends(t)'
    <3>1. act'[t] = act[t]
      BY DEF ClickPush, ClickDiscard, ClickUnpublish, ClickDelete, Click, PushAnswered, Reaches,
         UnpublishAnswered, PushRead, Promote, DraftDiscarded, Unpublished, Deleted, ActLost,
         RowInv, TypeOK
    <3>2. QED
      BY <1>1, <2>1, <2>4, <3>1 DEF Tends, Carrying, At
  <2>5. QED
    BY <1>1, <1>2, <2>1, <2>3, <2>4 DEF SomeTends
<1>5. QED
  BY <1>3, <1>4

LEMMA SavesTend ==
    ASSUME RowInv, WireInv, SomeTends, NEW p \in Page, NEW r \in wire[p],
           SaveAdmitted(p, r) \/ RequestLost(p, r) \/ SaveAnswered(p, r) \/ AnswerLost(p, r)
    PROVE  SomeTends'
<1>1. /\ UNCHANGED <<row, text, login, minted, overtaken, stray>> /\ refused \subseteq refused'
      /\ \A q \in Page \ {p} : /\ wire'[q] = wire[q] /\ armed'[q] = armed[q] /\ act'[q] = act[q]
  BY DEF SaveAdmitted, RequestLost, SaveAnswered, AnswerLost, Settled, Retried, GivenUp, bounds,
     history, RowInv, TypeOK
<1>2. Aside(p) /\ Content' = Content /\ exists' = exists
  BY <1>1, Numbers DEF Aside, Content, row
<1>3. wire[p] \in SUBSET Save /\ Own(p)
  BY Numbers DEF WireInv
<1>4. armed[p] => armed'[p]
  BY DEF SaveAdmitted, RequestLost, SaveAnswered, AnswerLost, Retried, GivenUp, RowInv, TypeOK
<1>5. At(p, "discard", "answer") => act'[p] = act[p]
  <2>1. r.heard /\ r.durable => At(p, "push", "save")
    BY <1>3 DEF Own, Durable
  <2>2. QED
    BY <2>1 DEF At, SaveAdmitted, RequestLost, SaveAnswered, AnswerLost, RowInv, TypeOK
<1>6. ASSUME exists, NEW q \in wire[p], Carrying(p, q) PROVE Tends(p)'
  <2>1. CASE SaveAnswered(p, r)
    <3>1. wire'[p] = Removed(wire[p], r)
      BY <2>1 DEF SaveAnswered, RowInv, TypeOK
    <3>2. CASE q = r
      BY <1>6, <2>1, <3>2 DEF SaveAnswered, Retried, Carrying, Unsettled, Tends, RowInv, TypeOK
    <3>3. CASE q # r
      BY <1>1, <1>3, <1>6, <3>1, <3>3, RemovedAlike DEF Tends, Carrying, Alike
    <3>4. QED
      BY <3>2, <3>3
  <2>2. CASE AnswerLost(p, r)
    BY <2>2 DEF AnswerLost, Retried, Tends, RowInv, TypeOK
  <2>3. CASE SaveAdmitted(p, r) \/ RequestLost(p, r)
    <3>1. PICK stage \in {"admitted", "refused", "failed"} :
              Settled(p, r, stage) /\ (stage = "refused" => r.text \in refused')
      BY <2>3 DEF SaveAdmitted, RequestLost
    <3>2. wire'[p] = IF r.heard \/ stage = "admitted" THEN Restaged(wire[p], r, stage)
                                                      ELSE Removed(wire[p], r)
      BY <3>1 DEF Settled, RowInv, TypeOK
    <3>3. CASE q = r
      <4> DEFINE y == [r EXCEPT !.stage = stage]
      <4>1. y \in wire'[p]
        BY <1>6, <3>2, <3>3 DEF Carrying, Restaged, Replaced
      <4>2. y.text = r.text /\ y.heard = r.heard /\ y.stage = stage
        BY <1>3 DEF Save
      <4> HIDE DEF y
      <4>3. QED
        BY <1>1, <1>6, <3>1, <3>3, <4>1, <4>2 DEF Tends, Carrying, Unsettled
    <3>4. CASE q # r
      <4>1. CASE r.heard \/ stage = "admitted"
        BY <1>1, <1>6, <3>2, <3>4, <4>1 DEF Restaged, Replaced, Tends, Carrying
      <4>2. CASE ~(r.heard \/ stage = "admitted")
        BY <1>1, <1>3, <1>6, <3>2, <3>4, <4>2, RemovedAlike DEF Tends, Carrying, Alike
      <4>3. QED
        BY <4>1, <4>2
    <3>5. QED
      BY <3>3, <3>4
  <2>4. QED
    BY <2>1, <2>2, <2>3
<1>7. ASSUME exists, Tends(p) PROVE Tends(p)'
  BY <1>1, <1>2, <1>4, <1>5, <1>6, <1>7 DEF Tends, At
<1>8. QED
  BY <1>1, <1>2, <1>7, TendsAside DEF SomeTends

LEMMA WrittenTends ==
    ASSUME RowInv, WireInv, SomeTends, NEW p \in Page, NEW r \in wire[p], SaveWritten(p, r)
    PROVE  SomeTends'
<1> SUFFICES ASSUME exists, ~overtaken', ~stray' PROVE \E t \in Page : Tends(t)'
  BY DEF SaveWritten, SomeTends
<1>1. /\ UNCHANGED <<text, armed, act, login, minted, refused>> /\ r.stage = "admitted"
      /\ draft' = r.text /\ ~overtaken /\ ~stray /\ (~r.late \/ r.text = Content)
      /\ wire' = [wire EXCEPT ![p] = Written(wire[p], r)]
  BY DEF SaveWritten, Written, bounds
<1>2. Content' = r.text
  <2>1. r.text # NoText
    BY TextFacts, SaveFields DEF RowInv, TypeOK
  <2>2. QED
    BY <1>1, <2>1 DEF Content
<1>3. wire[p] \in SUBSET Save /\ Tidy(wire[p]) /\ Fresh(p) /\ Aside(p)
  BY <1>1, Numbers DEF WireInv, Own, Aside, RowInv, TypeOK
<1>4. wire'[p] = Written(wire[p], r)
  BY <1>1 DEF RowInv, TypeOK
\* A save the page waits for, other than r, stays on the wire as it was.
<1>5. ASSUME NEW q \in wire[p], Carrying(p, q), q # r PROVE Tends(p)'
  <2>1. r \in Outdated(wire[p], r) /\ Outdated(wire[p], r) \in SUBSET Save
    BY <1>3, OutdatedKeeps, OutdatedTyped
  <2>2. PICK y \in Outdated(wire[p], r) : Alike(y, q) /\ y.age = q.age
    <3>1. \A x \in Save : [x EXCEPT !.late = TRUE].age = x.age /\ Alike([x EXCEPT !.late = TRUE], x)
                         /\ Alike(x, x)
      BY DEF Alike, Save
    <3>2. QED
      BY <1>3, <3>1 DEF Outdated
  <2>3. CASE r.heard
    <3>1. y # r
      BY <1>3, <1>5, <2>2 DEF Tidy
    <3>2. y \in wire'[p]
      BY <1>4, <2>2, <2>3, <3>1 DEF Written, Restaged, Replaced
    <3>3. QED
      BY <1>1, <1>5, <2>2, <3>2 DEF Tends, Carrying, Alike
  <2>4. CASE ~r.heard
    <3>1. y # r
      BY <1>5, <2>2, <2>4 DEF Alike, Carrying
    <3>2. PICK z \in wire'[p] : Alike(z, y)
      BY <1>4, <2>1, <2>2, <2>4, <3>1, RemovedAlike DEF Written
    <3>3. QED
      BY <1>1, <1>5, <2>2, <3>2 DEF Tends, Carrying, Alike
  <2>5. QED
    BY <2>3, <2>4
<1>6. CASE r.text = Content
  <2>1. PICK t \in Page : Tends(t)
    BY <1>1 DEF SomeTends
  <2>2. CASE t # p
    BY <1>1, <1>2, <1>3, <1>6, <2>1, <2>2, TendsAside
  <2>3. CASE t = p
    <3>1. CASE \E q \in wire[p] : Carrying(p, q)
      BY <1>1, <1>2, <1>5, <3>1 DEF Tends, Carrying
    <3>2. CASE ~\E q \in wire[p] : Carrying(p, q)
      BY <1>1, <1>2, <1>6, <2>1, <2>3, <3>2 DEF Tends, At
    <3>3. QED
      BY <3>1, <3>2
  <2>4. QED
    BY <2>2, <2>3
<1>7. CASE ~r.late
  <2>1. r.stage \in Unsettled
    BY <1>1 DEF Unsettled
  <2>2. \/ r.text = text[p] \/ armed[p] \/ text[p] \in refused
        \/ \E q \in wire[p] : Carrying(p, q) /\ q.age < r.age
    BY <1>3, <1>7, <2>1 DEF Fresh
  <2>3. \A q \in wire[p] : q.age < r.age => q # r
    BY Numbers
  <2>4. QED
    BY <1>1, <1>2, <1>5, <2>2, <2>3 DEF Tends
<1>8. QED
  BY <1>1, <1>6, <1>7

LEMMA NextTends ==
    ASSUME RowInv, WireInv, SomeTends, [Next]_vars PROVE SomeTends'
<1>1. ASSUME NEW p \in Page, PageStep(p) PROVE SomeTends'
  BY <1>1, PageTends, QuietTends, ActsTend, SavesTend DEF PageStep, Mounting, Quiet
<1>2. ASSUME NEW p \in Page, ServerStep(p) PROVE SomeTends'
  BY <1>2, ActsTend, SavesTend, WrittenTends DEF ServerStep
<1>3. ASSUME NEW p \in Page, NetworkFault(p) PROVE SomeTends'
  BY <1>3, QuietTends, ActsTend, SavesTend DEF NetworkFault, Quiet
<1>4. CASE UNCHANGED vars
  BY <1>4 DEF vars, row, bounds, history, SomeTends, Tends, Carrying, At, Content
<1>5. QED
  BY <1>1, <1>2, <1>3, <1>4 DEF Next

LEMMA InitTends == ASSUME Init PROVE SomeTends
<1>1. writer \in Page /\ \A p \in Page : text[p] = First
  BY DEF Init, Opened
<1>2. Content = First
  BY DEF Init, Opened, Content, First, NoText
<1>3. QED
  BY <1>1, <1>2 DEF SomeTends, Tends

\* When everything is at rest, whatever edits, saves, acts, reloads and lost
\* messages of any number of pages went before, the notebook the server would
\* hand out is one some page shows, but for a save that landed out of order,
\* a request nobody waited for any more, or the quota.
THEOREM SomePageKept == Spec => []SomePageIsTrue
<1>1. SomeTends => SomePageIsTrue
  <2>1. ASSUME AtRest, NEW p \in Page, Tends(p)
        PROVE  text[p] = Content \/ text[p] \in refused \/ (text[p] = NoText /\ ~login[p])
    BY <2>1 DEF AtRest, PageAtRest, Tends, At, Idle
  <2>2. QED
    BY <2>1 DEF SomeTends, SomePageIsTrue
<1>2. QED
  BY InitRow, NextRow, InitWire, NextWire, InitTends, NextTends, <1>1, PTL DEF Spec

-----------------------------------------------------------------------------
(***************************************************************************)
(* A push makes public what its page showed at the click, or newer.        *)
(***************************************************************************)

\* The durable save of p's push has been carried out, the promote has not.
Landed(p) ==
    \/ At(p, "push", "request") \/ At(p, "push", "promote")
    \/ \E d \in wire[p] : d.heard /\ d.durable /\ d.stage = "saved"

\* From then on what p itself puts in the row is as new as what was clicked.
Public(p) ==
    Landed(p) /\ ~act[p].late /\ ~stray /\ exists /\ writer = p => act[p].clicked <= Content

LEMMA PublicKept ==
    ASSUME RowInv, NEW p \in Page, Public(p),
           Landed(p)' => Landed(p), act'[p] = act[p] \/ act'[p].clicked = NoText
               \/ (act'[p].clicked = act[p].clicked /\ act'[p].late = act[p].late),
           Content' = Content, writer' = writer, stray => stray', exists' => exists
    PROVE  Public(p)'
BY Numbers DEF Public, NoText

\* The page of the step is another one.
LEMMA PublicAside ==
    ASSUME NEW p \in Page, NEW q \in Page, Public(q), wire'[q] = wire[q], act'[q] = act[q],
           (Content' = Content /\ writer' = writer) \/ (writer' = p /\ q # p) \/ ~exists',
           stray => stray', exists' => exists
    PROVE  Public(q)'
BY DEF Public, Landed, At

\* What is left on the wire by a step that does not write was there before.
LEMMA PagePublic ==
    ASSUME RowInv, WireInv, NEW p \in Page, Public(p),
           Edit(p) \/ SaveFires(p) \/ DurableSave(p) \/ Mounting(p)
    PROVE  Public(p)'
<1>1. UNCHANGED <<row, writer, stray>> /\ Content' = Content /\ Own(p)
  BY MountFacts DEF Edit, SaveFires, DurableSave, history, row, Content, WireInv
<1>2. CASE Edit(p)
  BY <1>1, <1>2, PublicKept DEF Edit, Landed, At, row
<1>3. CASE SaveFires(p) \/ DurableSave(p)
  <2>0. PICK d \in BOOLEAN :
            wire' = [wire EXCEPT ![p] = Aged(wire[p]) \union
                        {[text |-> Outgoing(p), durable |-> d, age |-> 0, stage |-> "sent",
                          heard |-> TRUE, late |-> FALSE]}]
    BY <1>3 DEF SaveFires, DurableSave, SendDraft
  <2>1. PICK s :
            /\ s = [text |-> Outgoing(p), durable |-> d, age |-> 0, stage |-> "sent",
                    heard |-> TRUE, late |-> FALSE]
            /\ wire' = [wire EXCEPT ![p] = Aged(wire[p]) \union {s}]
    BY <2>0
  <2>2. wire'[p] = Aged(wire[p]) \union {s} /\ s.stage = "sent"
    BY <2>1 DEF RowInv, TypeOK
  <2>3. \A a \in Aged(wire[p]) : \E b \in wire[p] : /\ a.stage = b.stage /\ a.heard = b.heard
                                                    /\ a.durable = b.durable
    BY Numbers DEF Aged, Save
  <2>4. CASE SaveFires(p)
    <3>1. act' = act
      BY <2>4 DEF SaveFires
    <3>2. Landed(p)' => Landed(p)
      BY <2>2, <2>3, <3>1 DEF Landed, At
    <3>3. QED
      BY <1>1, <3>1, <3>2, PublicKept DEF row
  <2>5. CASE DurableSave(p)
    <3>1. act'[p].at = "save"
      BY <2>5, Numbers DEF DurableSave, RowInv, TypeOK, Act
    <3>2. \A b \in wire[p] : ~(b.heard /\ b.durable)
      BY <1>1, <2>5 DEF Own, Durable, DurableSave, At
    <3>3. ~Landed(p)'
      BY <2>2, <2>3, <3>1, <3>2 DEF Landed, At
    <3>4. QED
      BY <3>3 DEF Public
  <2>6. QED
    BY <1>3, <2>4, <2>5
<1>4. CASE Mounting(p)
  <2>1. act'[p] = Idle
    BY <1>4, MountFacts DEF Mount, RowInv, TypeOK
  <2>2. Content' \in Nat
    BY <1>1, Numbers
  <2>3. QED
    BY <2>1, <2>2 DEF Public, Idle, NoText
<1>5. QED
  BY <1>2, <1>3, <1>4

LEMMA QuietPublic ==
    ASSUME RowInv, NEW p \in Page, Public(p), Quiet(p) PROVE Public(p)'
<1>1. UNCHANGED <<row, wire, act, writer, stray>>
  BY QuietFacts DEF history
<1>2. QED
  BY <1>1 DEF Public, Landed, At, Content, row

LEMMA ActsPublic ==
    ASSUME RowInv, WireInv, NEW p \in Page, Public(p),
           \/ ClickPush(p) \/ ClickDiscard(p) \/ ClickUnpublish(p) \/ ClickDelete(p)
           \/ PushAnswered(p) \/ UnpublishAnswered(p) \/ PushRead(p) \/ Promote(p)
           \/ DraftDiscarded(p) \/ Unpublished(p) \/ Deleted(p) \/ ActLost(p)
    PROVE  Public(p)'
<1>1. wire' = wire /\ ~At(p, "push", "save") /\ Own(p) /\ act[p] \in Act
  BY ActsContent, ActsOwn, Numbers DEF WireInv
<1>2. \A d \in wire'[p] : ~(d.heard /\ d.durable)
  BY <1>1 DEF Own, Durable
<1>3. Content' \in Nat /\ Content \in Nat
  BY ActsContent, Numbers, TextFacts DEF NoText
<1>4. CASE PushRead(p)
  <2>1. /\ Content' = Content /\ UNCHANGED <<exists, writer, stray>>
        /\ act'[p] = Idle \/ act'[p] = [act[p] EXCEPT !.at = "answer"]
           \/ act'[p] = [act[p] EXCEPT !.at = "promote", !.read = Content]
        /\ At(p, "push", "request")
    BY <1>4 DEF PushRead, Reaches, row, history, Content, RowInv, TypeOK
  <2>2. act'[p].clicked = NoText \/ (act'[p].clicked = act[p].clicked /\ act'[p].late = act[p].late)
    <3>1. Idle.clicked = NoText
      BY DEF Idle
    <3>2. \A a \in Act : /\ [a EXCEPT !.at = "answer"].clicked = a.clicked
                        /\ [a EXCEPT !.at = "answer"].late = a.late
      BY DEF Act
    <3>3. \A a \in Act : /\ [a EXCEPT !.at = "promote", !.read = Content].clicked = a.clicked
                        /\ [a EXCEPT !.at = "promote", !.read = Content].late = a.late
      BY DEF Act
    <3>4. QED
      BY <1>1, <2>1, <3>1, <3>2, <3>3
  <2>3. QED
    BY <2>1, <2>2, PublicKept DEF Landed
<1>5. CASE ~PushRead(p)
  <2>1. act'[p].at \notin {"request", "promote"} \/ act'[p].kind # "push"
    <3>1. CASE ClickPush(p) \/ ClickDiscard(p) \/ ClickUnpublish(p) \/ ClickDelete(p)
      <4>1. PICK kind \in {"push", "discard", "unpublish", "delete"}, at \in {"drain", "request"} :
                /\ at = "drain" \/ kind # "push"
                /\ act' = [act EXCEPT ![p] = [Idle EXCEPT !.kind = kind, !.at = at,
                                                        !.clicked = text[p]]]
        BY <3>1 DEF ClickPush, ClickDiscard, ClickUnpublish, ClickDelete, Click
      <4>2. act'[p] = [Idle EXCEPT !.kind = kind, !.at = at, !.clicked = text[p]]
        BY <4>1 DEF RowInv, TypeOK
      <4>3. act'[p].kind = kind /\ act'[p].at = at
        BY <4>2 DEF Idle
      <4>4. QED
        BY <4>1, <4>3
    <3>2. CASE PushAnswered(p) \/ UnpublishAnswered(p) \/ ActLost(p)
      BY <3>2 DEF PushAnswered, UnpublishAnswered, ActLost, Idle, RowInv, TypeOK
    <3>3. CASE Promote(p) \/ DraftDiscarded(p) \/ Unpublished(p) \/ Deleted(p)
      <4>1. act'[p] = Idle \/ act'[p] = [act[p] EXCEPT !.at = "answer"]
        BY <3>3 DEF Promote, DraftDiscarded, Unpublished, Deleted, Reaches, RowInv, TypeOK
      <4>2. QED
        BY <1>1, <4>1 DEF Idle, Act
    <3>4. QED
      BY <1>5, <3>1, <3>2, <3>3
  <2>2. ~Landed(p)'
    BY <1>2, <2>1 DEF Landed, At
  <2>3. QED
    BY <2>2 DEF Public
<1>6. QED
  BY <1>4, <1>5

LEMMA SavesPublic ==
    ASSUME RowInv, WireInv, NEW p \in Page, Public(p), NEW r \in wire[p],
           SaveAdmitted(p, r) \/ RequestLost(p, r) \/ SaveAnswered(p, r) \/ AnswerLost(p, r)
    PROVE  Public(p)'
<1>1. /\ UNCHANGED <<row, writer, stray>> /\ Content' = Content /\ Own(p) /\ act[p] \in Act
      /\ wire[p] \in SUBSET Save
  BY Numbers DEF SaveAdmitted, RequestLost, SaveAnswered, AnswerLost, bounds, history, row, Content,
     WireInv
<1>2. CASE SaveAdmitted(p, r) \/ RequestLost(p, r)
  <2>1. PICK stage \in {"admitted", "refused", "failed"} : Settled(p, r, stage) /\ act' = act
    BY <1>2 DEF SaveAdmitted, RequestLost
  <2>2. wire'[p] = IF r.heard \/ stage = "admitted" THEN Restaged(wire[p], r, stage)
                                                    ELSE Removed(wire[p], r)
    BY <2>1 DEF Settled, RowInv, TypeOK
  <2>3. \A a \in wire'[p] : a.stage = "saved" => \E b \in wire[p] :
            a.stage = b.stage /\ a.heard = b.heard /\ a.durable = b.durable
    <3>1. [r EXCEPT !.stage = stage].stage = stage
      BY <1>1 DEF Save
    <3> DEFINE f(x) == [x EXCEPT !.age = IF @ > r.age THEN @ - 1 ELSE @]
    <3>2. \A x \in Save : f(x).stage = x.stage /\ f(x).heard = x.heard /\ f(x).durable = x.durable
      BY DEF Save
    <3> HIDE DEF f
    <3>3. CASE r.heard \/ stage = "admitted"
      BY <2>2, <3>1, <3>3 DEF Restaged, Replaced
    <3>4. CASE ~(r.heard \/ stage = "admitted")
      <4>1. \A a \in Removed(wire[p], r) : \E x \in wire[p] : a = f(x)
        BY DEF Removed, f
      <4>2. QED
        BY <1>1, <2>2, <3>2, <3>4, <4>1
    <3>5. QED
      BY <3>3, <3>4
  <2>4. Landed(p)' => Landed(p)
    BY <2>1, <2>3 DEF Landed, At
  <2>5. QED
    BY <1>1, <2>1, <2>4, PublicKept DEF row
<1>3. CASE SaveAnswered(p, r) \/ AnswerLost(p, r)
  <2>1. /\ wire'[p] = Removed(wire[p], r) \/ wire'[p] = Replaced(wire[p], r, [r EXCEPT !.heard = FALSE])
        /\ \/ act'[p] = act[p] \/ act'[p] = Idle
           \/ r.heard /\ r.durable /\ r.stage = "saved" /\ act'[p] = [act[p] EXCEPT !.at = "request"]
    BY <1>3 DEF SaveAnswered, AnswerLost, RowInv, TypeOK
  <2>2. \A a \in wire'[p] : a.heard => \E b \in wire[p] :
            a.stage = b.stage /\ b.heard /\ a.durable = b.durable
    <3>1. ~[r EXCEPT !.heard = FALSE].heard
      BY <1>1 DEF Save
    <3> DEFINE f(x) == [x EXCEPT !.age = IF @ > r.age THEN @ - 1 ELSE @]
    <3>2. \A x \in Save : f(x).stage = x.stage /\ f(x).heard = x.heard /\ f(x).durable = x.durable
      BY DEF Save
    <3> HIDE DEF f
    <3>3. CASE wire'[p] = Replaced(wire[p], r, [r EXCEPT !.heard = FALSE])
      BY <3>1, <3>3 DEF Replaced
    <3>4. CASE wire'[p] = Removed(wire[p], r)
      <4>1. \A a \in Removed(wire[p], r) : \E x \in wire[p] : a = f(x)
        BY DEF Removed, f
      <4>2. QED
        BY <1>1, <3>2, <3>4, <4>1
    <3>5. QED
      BY <2>1, <3>3, <3>4
  <2>3. CASE act'[p] = Idle
    <3>1. Content' \in Nat
      BY <1>1, Numbers
    <3>2. QED
      BY <2>3, <3>1 DEF Public, Idle, NoText
  <2>4. CASE act'[p] # Idle
    <3>1. Landed(p)' => Landed(p)
      BY <2>1, <2>2, <2>4 DEF Landed, At
    <3>2. act'[p] = act[p] \/ (act'[p].clicked = act[p].clicked /\ act'[p].late = act[p].late)
      BY <1>1, <2>1, <2>4 DEF Act
    <3>3. QED
      BY <1>1, <3>1, <3>2, PublicKept DEF row
  <2>5. QED
    BY <2>3, <2>4
<1>4. QED
  BY <1>2, <1>3

LEMMA WrittenPublic ==
    ASSUME RowInv, WireInv, NEW p \in Page, Public(p), NEW r \in wire[p], SaveWritten(p, r)
    PROVE  Public(p)'
<1> SUFFICES ASSUME Landed(p)', ~act[p].late, ~stray', exists, writer' = p
             PROVE  act[p].clicked <= Content'
  BY DEF Public, SaveWritten
<1>1. /\ act' = act /\ pub' = pub /\ draft' = r.text /\ ~stray /\ r.stage = "admitted"
      /\ (r.late /\ r.text # Content) => r.heard
      /\ writer' = IF r.text = Content THEN writer ELSE p
      /\ wire' = [wire EXCEPT ![p] = Written(wire[p], r)]
  BY DEF SaveWritten, Written
<1>2. Content' = r.text
  BY <1>1, TextFacts, SaveFields DEF Content, RowInv, TypeOK
<1>3. wire[p] \in SUBSET Save /\ Tidy(wire[p]) /\ Behind(p) /\ Durable(p) /\ r.text \in Nat
      /\ act[p].clicked \in Nat
  BY Numbers DEF WireInv, Own
<1>4. wire'[p] = Written(wire[p], r)
  BY <1>1 DEF RowInv, TypeOK
<1>5. PICK b \in wire[p] :
          \/ b = r /\ r.heard /\ r.durable
          \/ b.heard /\ b.durable /\ b.stage = "saved"
          \/ At(p, "push", "request") \/ At(p, "push", "promote")
  <2>1. CASE At(p, "push", "request") \/ At(p, "push", "promote")
    BY <2>1
  <2>2. CASE ~(At(p, "push", "request") \/ At(p, "push", "promote"))
    <3>1. PICK a \in wire'[p] : a.heard /\ a.durable /\ a.stage = "saved"
      BY <1>1, <2>2 DEF Landed, At
    <3>2. PICK b \in wire[p] : From(a, b) /\ (a.stage = b.stage \/ (b = r /\ r.heard))
      BY <1>1, <1>3, <1>4, <3>1, WrittenBecome
    <3>3. QED
      BY <3>1, <3>2 DEF From
  <2>3. QED
    BY <2>1, <2>2
<1>6. Pushing(act[p])
  BY <1>3, <1>5 DEF Durable, At, Pushing
<1>7. CASE r.heard
  <2>1. ~(r.text < act[p].clicked)
    BY <1>3, <1>6, <1>7 DEF Behind
  <2>2. QED
    BY <1>2, <1>3, <2>1
<1>8. CASE ~r.heard
  <2>1. Landed(p)
    BY <1>5, <1>8 DEF Landed
  <2>2. CASE r.text = Content
    BY <1>1, <1>2, <2>1, <2>2 DEF Public
  <2>3. CASE r.text # Content
    <3>1. ~r.late
      BY <1>1, <1>8, <2>3
    <3>2. \A d \in wire[p] : ~Awaited(d)
      <4>1. CASE At(p, "push", "request") \/ At(p, "push", "promote")
        BY <1>3, <4>1 DEF Durable, At, Awaited
      <4>2. CASE b.heard /\ b.durable /\ b.stage = "saved"
        BY <1>3, <4>2 DEF Tidy, Awaited
      <4>3. QED
        BY <1>5, <1>8, <4>1, <4>2
    <3>3. ~(r.text < act[p].clicked)
      BY <1>3, <1>6, <3>1, <3>2 DEF Behind
    <3>4. QED
      BY <1>2, <1>3, <3>3
  <2>4. QED
    BY <2>2, <2>3
<1>9. QED
  BY <1>7, <1>8

\* What a step of page p leaves alone that the pushes of the others rest on.
LEMMA OthersPublic ==
    ASSUME RowInv, NEW p \in Page, PageStep(p) \/ ServerStep(p) \/ NetworkFault(p)
    PROVE  /\ \A q \in Page \ {p} : wire'[q] = wire[q] /\ act'[q] = act[q]
           /\ (Content' = Content /\ writer' = writer) \/ writer' = p \/ ~exists'
           /\ (stray => stray') /\ (exists' => exists)
<1>1. CASE \/ ClickPush(p) \/ ClickDiscard(p) \/ ClickUnpublish(p) \/ ClickDelete(p)
           \/ PushAnswered(p) \/ UnpublishAnswered(p) \/ PushRead(p) \/ Promote(p)
           \/ DraftDiscarded(p) \/ Unpublished(p) \/ Deleted(p) \/ ActLost(p)
  <2>1. /\ wire' = wire
        /\ (Content' = Content /\ writer' = writer) \/ writer' = p \/ ~exists'
    <3>1. CASE DraftDiscarded(p)
      BY <3>1, ActsContent DEF DraftDiscarded, Content
    <3>2. CASE ~DraftDiscarded(p)
      BY <1>1, <3>2, ActsContent
    <3>3. QED
      BY <3>1, <3>2
  <2>2. (stray => stray') /\ (exists' => exists)
    <3>1. CASE ClickPush(p) \/ ClickDiscard(p) \/ ClickUnpublish(p) \/ ClickDelete(p)
      BY <3>1 DEF ClickPush, ClickDiscard, ClickUnpublish, ClickDelete, Click, row, history
    <3>2. CASE PushAnswered(p) \/ UnpublishAnswered(p) \/ PushRead(p)
      BY <3>2 DEF PushAnswered, UnpublishAnswered, PushRead, row, history
    <3>5. CASE ActLost(p)
      BY <3>5 DEF ActLost, row
    <3>3. CASE Promote(p) \/ DraftDiscarded(p) \/ Unpublished(p)
      BY <3>3 DEF Promote, DraftDiscarded, Unpublished, history
    <3>4. CASE Deleted(p)
      BY <3>4 DEF Deleted, row, history, RowInv, TypeOK
    <3>6. QED
      BY <1>1, <3>1, <3>2, <3>3, <3>4, <3>5
  <2>3. \A q \in Page \ {p} : act'[q] = act[q]
    BY <1>1 DEF ClickPush, ClickDiscard, ClickUnpublish, ClickDelete, Click, PushAnswered, Reaches,
       UnpublishAnswered, PushRead, Promote, DraftDiscarded, Unpublished, Deleted, ActLost,
       RowInv, TypeOK
  <2>4. QED
    BY <2>1, <2>2, <2>3
<1>2. CASE Edit(p) \/ SaveFires(p) \/ DurableSave(p) \/ Mounting(p) \/ Quiet(p)
  <2>1. CASE Edit(p) \/ SaveFires(p) \/ DurableSave(p)
    BY <2>1 DEF Edit, SaveFires, DurableSave, SendDraft, row, history, Content, RowInv, TypeOK
  <2>2. CASE Mounting(p)
    BY <2>2, MountFacts DEF Mount, row, Content, RowInv, TypeOK
  <2>3. CASE Quiet(p)
    BY <2>3, QuietFacts DEF row, history, Content
  <2>4. QED
    BY <1>2, <2>1, <2>2, <2>3
<1>3. CASE \E r \in wire[p] : \/ SaveAdmitted(p, r) \/ RequestLost(p, r)
                              \/ SaveAnswered(p, r) \/ AnswerLost(p, r)
  BY <1>3 DEF SaveAdmitted, RequestLost, SaveAnswered, AnswerLost, Settled, bounds, row, history,
     Content, RowInv, TypeOK
<1>4. CASE \E r \in wire[p] : SaveWritten(p, r)
  <2>1. PICK r \in wire[p] : SaveWritten(p, r)
    BY <1>4
  <2>2. r.text # NoText
    BY TextFacts, SaveFields DEF RowInv, TypeOK
  <2>3. QED
    BY <2>1, <2>2 DEF SaveWritten, Content, RowInv, TypeOK
<1>5. QED
  BY <1>1, <1>2, <1>3, <1>4 DEF PageStep, ServerStep, NetworkFault, Mounting, Quiet

LEMMA OwnPublic ==
    ASSUME RowInv, WireInv, NEW p \in Page, Public(p),
           PageStep(p) \/ ServerStep(p) \/ NetworkFault(p)
    PROVE  Public(p)'
<1>1. CASE PageStep(p)
  BY <1>1, PagePublic, QuietPublic, ActsPublic, SavesPublic DEF PageStep, Mounting, Quiet
<1>2. CASE ServerStep(p)
  BY <1>2, ActsPublic, SavesPublic, WrittenPublic DEF ServerStep
<1>3. CASE NetworkFault(p)
  BY <1>3, QuietPublic, ActsPublic, SavesPublic DEF NetworkFault, Quiet
<1>4. QED
  BY <1>1, <1>2, <1>3

AllPublic == \A p \in Page : Public(p)

LEMMA NextPublic == ASSUME RowInv, WireInv, AllPublic, [Next]_vars PROVE AllPublic'
<1>1. ASSUME NEW p \in Page, PageStep(p) \/ ServerStep(p) \/ NetworkFault(p), NEW q \in Page
      PROVE  Public(q)'
  <2>1. CASE q = p
    BY <1>1, <2>1, OwnPublic DEF AllPublic
  <2>2. CASE q # p
    BY <1>1, <2>2, OthersPublic, PublicAside DEF AllPublic
  <2>3. QED
    BY <2>1, <2>2
<1>2. CASE UNCHANGED vars
  BY <1>2 DEF vars, row, history, AllPublic, Public, Landed, At, Content
<1>3. QED
  BY <1>1, <1>2 DEF Next, AllPublic

\* A push makes public what its page showed at the click, or something newer,
\* unless another page changed the content last, the wait for the saves on the
\* wire gave up, or a request nobody waited for any more was carried out.
THEOREM PushIsCurrent == Spec => PushPublishesClicked
<1>1. Init => AllPublic
  BY DEF Init, Opened, AllPublic, Public, Landed, At, Idle
<1>2. ASSUME RowInv, AllPublic, NEW p \in Page, Promote(p), draft # NoText
      PROVE  pub' >= act[p].clicked \/ writer # p \/ act[p].late \/ stray
  <2>1. Landed(p) /\ exists
    BY <1>2 DEF Promote, Landed, RowInv, Gone
  <2>2. pub' = Content
    BY <1>2 DEF Promote, Promotable
  <2>3. QED
    BY <1>2, <2>1, <2>2, Numbers DEF AllPublic, Public
<1> DEFINE Clicked == \A p \in Page :
        (Promote(p) /\ draft # NoText)
            => pub' >= act[p].clicked \/ writer # p \/ act[p].late \/ stray
<1>3. RowInv /\ AllPublic => [Clicked]_vars
  BY <1>2
<1>4. [][Clicked]_vars => PushPublishesClicked
  BY DEF PushPublishesClicked
<1> HIDE DEF Clicked
<1>5. QED
  BY InitRow, NextRow, InitWire, NextWire, NextPublic, <1>1, <1>3, <1>4, PTL DEF Spec
=============================================================================
