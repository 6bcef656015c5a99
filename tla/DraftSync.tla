----------------------------- MODULE DraftSync ------------------------------
(***************************************************************************)
(* An account notebook: the editor pages that autosave it, push it,        *)
(* discard its draft, unpublish or delete it, and the row the server keeps *)
(* of it.  crates/ironpad-app/src/pages/notebook_editor/{state,sharing}.rs *)
(* on the pages' side, server_fns.rs and db.rs on the server's.            *)
(*                                                                         *)
(* Two pages may show one notebook.  A page handles one event at a time;   *)
(* its requests are on the wire at the same time and arrive in any order.  *)
(* A connection may break before or after the server has acted.            *)
(*                                                                         *)
(* Versions of the text are numbered in the order they are typed, 0 is no  *)
(* text.  The epoch that lets only the newest scheduled save run is the    *)
(* flag armed: a superseded task wakes up and returns.                     *)
(***************************************************************************)
EXTENDS Integers

CONSTANTS
    Page,      \* the open editor pages of the notebook
    MaxText,   \* bound: versions of the text, the first one included
    Size,      \* the bytes of each version
    Cap,       \* the quota of the account
    Others,    \* what the account's other notebooks take of it, all along
    MaxUpload, \* the largest notebook the server takes, MAX_SHARE_BYTES
    MaxActs,   \* bound: editorial acts (push, discard, unpublish, delete)
    MaxFaults, \* bound: requests or answers lost, sessions that end
    MaxReloads \* bound: reloads of a page by its user

Text   == 1..MaxText
NoText == 0
First  == 1

ASSUME BoundAssumption == /\ MaxText \in Nat \ {0}
                          /\ {MaxActs, MaxFaults, MaxReloads} \subseteq Nat
ASSUME SizeAssumption  == /\ Size \in [Text -> Nat \ {0}]
                          /\ {Cap, Others, MaxUpload} \subseteq Nat
                          /\ Size[First] <= MaxUpload

VARIABLES
    \* the server's row of the notebook
    exists,     \* the row is there
    pub,        \* notebook_json
    draft,      \* draft_json
    bytes,      \* bytes
    draftBytes, \* draft_bytes, 0 for none
    manifest,   \* manifest_json: the version the blobs were snapshotted for
    \* the pages
    text,       \* notebook: the version in the model
    dirty,      \* draft_dirty
    published,  \* share_published
    indicator,  \* draft_save_state
    armed,      \* the newest scheduled draft save is still to run
    wire,       \* the page's draft saves; age: how many of them were sent after it
    act,        \* the editorial act under way
    login,      \* its browser holds a live session of the owner
    \* bounds
    minted, acts, faults, reloads,
    \* history, read by no guard
    saved,      \* versions that were in the row at some time
    refused,    \* versions the quota refused
    writer,     \* the page that changed the content of the row last
    overtaken,  \* a save landed after a later one of its page, which waited for both
    stray,      \* a request its page had given up landed, or its answer was lost
    lagged,     \* a push promoted another draft than the one it had read
    toasts      \* refusal toasts of a page since its last successful save, up to two

row     == <<exists, pub, draft, bytes, draftBytes, manifest>>
bounds  == <<minted, acts, faults, reloads>>
history == <<saved, refused, writer, overtaken, stray, lagged, toasts>>
vars    == <<row, text, dirty, published, indicator, armed, wire, act, login, bounds, history>>

Idle == [kind |-> "none", at |-> "none", clicked |-> NoText, read |-> NoText, late |-> FALSE]

\* Mutation: the readers' copy is preferred to the draft.
PublishedOrDraft == IF pub # NoText THEN pub ELSE draft

\* resolve_content: the owner's view of the row.
Content == IF draft # NoText THEN draft ELSE pub

\* What the quota counts for this account.
Stored == Others + bytes + draftBytes

Stages == {"sent", "admitted", "saved", "refused", "failed"}
Unsettled == {"sent", "admitted"}

Inflight(w)  == {r \in w : r.heard}
Aged(w)      == {[q EXCEPT !.age = @ + 1] : q \in w}
Removed(w, r) == {[q EXCEPT !.age = IF @ > r.age THEN @ - 1 ELSE @] : q \in w \ {r}}
Replaced(w, r, r1)    == (w \ {r}) \union {r1}
Restaged(w, r, stage) == Replaced(w, r, [r EXCEPT !.stage = stage])

\* What is left of a page's saves when nobody waits for them.
Abandoned(w) ==
    {[r EXCEPT !.heard = FALSE, !.late = TRUE] : r \in {q \in w : q.stage \in Unsettled}}

----------------------------------------------------------------------------
\* A scheduled save that a newer epoch supersedes, or whose page goes away.
Unscheduled(p) == armed' = [armed EXCEPT ![p] = FALSE]

\* What a page that is loaded gets to edit: nothing, unless it is signed in.
Editable(p) == IF login[p] THEN Content ELSE NoText

\* Opening or reloading a page: the model, the flags and the indicator start
\* from the row, and whatever the page had on the wire nobody waits for.
Mount(p, shown) ==
    /\ text' = [text EXCEPT ![p] = shown]
    /\ dirty' = [dirty EXCEPT ![p] = (draft # NoText)]
    /\ published' = [published EXCEPT ![p] = (pub # NoText)]
    /\ indicator' = [indicator EXCEPT ![p] = "Synced"]
    /\ Unscheduled(p)
    /\ wire' = [wire EXCEPT ![p] = Abandoned(@)]
    /\ act' = [act EXCEPT ![p] = Idle]
    /\ toasts' = [toasts EXCEPT ![p] = 0]

\* The notebook has been saved to the account, and published or not; some pages
\* show it, the others stay closed.
Opened(open) ==
    /\ exists = TRUE
    /\ \/ pub = NoText /\ draft = First /\ bytes = 0 /\ draftBytes = Size[First]
          /\ manifest = NoText
       \/ pub = First /\ draft = NoText /\ bytes = Size[First] /\ draftBytes = 0
          /\ manifest = First
    /\ text = [p \in Page |-> IF p \in open THEN First ELSE NoText]
    /\ dirty = [p \in Page |-> draft # NoText]
    /\ published = [p \in Page |-> pub # NoText]
    /\ indicator = [p \in Page |-> "Synced"]
    /\ armed = [p \in Page |-> FALSE]
    /\ wire = [p \in Page |-> {}]
    /\ act = [p \in Page |-> Idle]
    /\ login = [p \in Page |-> TRUE]
    /\ saved = {First} /\ refused = {} /\ writer \in open
    /\ overtaken = FALSE /\ stray = FALSE /\ lagged = FALSE
    /\ toasts = [p \in Page |-> 0]

Init == Opened(Page) /\ minted = First /\ acts = 0 /\ faults = 0 /\ reloads = 0

----------------------------------------------------------------------------
\* The pages: editing and saving.

\* persist_notebook: any change of the notebook arms the debounce.
Edit(p) ==
    /\ minted < MaxText /\ text[p] # NoText
    /\ minted' = minted + 1
    /\ text' = [text EXCEPT ![p] = minted + 1]
    /\ dirty' = [dirty EXCEPT ![p] = TRUE]
    /\ armed' = [armed EXCEPT ![p] = TRUE]
    /\ UNCHANGED <<row, published, indicator, wire, act, login, acts, faults, reloads, history>>

\* What is serialized: the notebook as it is when the request goes out.
Outgoing(p) == text[p]

\* save_draft_now
SendDraft(p, durable) ==
    /\ wire' = [wire EXCEPT ![p] = Aged(@) \union {[text |-> Outgoing(p), durable |-> durable,
                  age |-> 0, stage |-> "sent", heard |-> TRUE, late |-> FALSE]}]
    /\ indicator' = [indicator EXCEPT ![p] = "Saving"]

\* The task with the newest epoch wakes up.
SaveFires(p) ==
    /\ armed[p]
    /\ Unscheduled(p)
    /\ SendDraft(p, FALSE)
    /\ UNCHANGED <<row, text, dirty, published, act, login, bounds, history>>

\* Mutation: a transient failure is not retried.
NotRetried(p) == UNCHANGED armed
\* Mutation: a refusal for the quota is retried like a failure.
RetriedAnyway(p) == armed' = [armed EXCEPT ![p] = TRUE]

\* A transient failure is retried, a refusal for the quota is not.
Retried(p) == armed' = [armed EXCEPT ![p] = TRUE]
GivenUp(p) == UNCHANGED armed

\* The answer of a draft save; a transient failure is retried later, and a
\* push whose save did not land is abandoned.
SaveAnswered(p, r) ==
    /\ r.heard /\ r.stage \in {"saved", "refused", "failed"}
    /\ wire' = [wire EXCEPT ![p] = Removed(@, r)]
    /\ \/ /\ r.stage = "saved"
          /\ indicator' = [indicator EXCEPT ![p] = "Synced"]
          /\ toasts' = [toasts EXCEPT ![p] = 0]
          /\ UNCHANGED armed
       \/ /\ r.stage = "refused"
          /\ indicator' = [indicator EXCEPT ![p] = "Refused"]
          /\ toasts' = [toasts EXCEPT ![p] = IF indicator[p] = "Refused" \/ @ = 2 THEN @ ELSE @ + 1]
          /\ GivenUp(p)
       \/ /\ r.stage = "failed"
          /\ indicator' = [indicator EXCEPT ![p] = "Failed"]
          /\ Retried(p)
          /\ UNCHANGED toasts
    /\ act' = [act EXCEPT ![p] = IF ~r.durable THEN @
                                 ELSE IF r.stage = "saved" THEN [@ EXCEPT !.at = "request"]
                                 ELSE Idle]
    /\ UNCHANGED <<row, text, dirty, published, login, bounds,
                   saved, refused, writer, overtaken, stray, lagged>>

\* The user reloads the page; edits not yet on the wire are lost with it.
Reload(p) ==
    /\ exists /\ text[p] # NoText /\ act[p] = Idle /\ reloads < MaxReloads
    /\ reloads' = reloads + 1
    /\ Mount(p, Editable(p))
    /\ UNCHANGED <<row, login, minted, acts, faults, saved, refused, writer, overtaken, stray, lagged>>

----------------------------------------------------------------------------
\* The server: draft saves.  The quota is checked before the row is written.

Settled(p, r, stage) ==
    wire' = [wire EXCEPT ![p] = IF r.heard \/ stage = "admitted"
                                THEN Restaged(@, r, stage) ELSE Removed(@, r)]

\* require_login and ensure_share_owner: a notebook that is gone, and a caller
\* who is not signed in as its owner.
IsOwner(p) == exists /\ login[p]

\* validate_notebook_upload
Fits(t) == t # NoText => Size[t] <= MaxUpload

\* admit_mutable_write: what the draft replaces still counts.
WithinQuota(t) == Stored + Size[t] <= Cap

\* The server takes the save, or refuses it for the quota; the refusals of a
\* caller who is not the owner and of a notebook that is too large bear no
\* marker of it, and are to the page a failure like any other.
SaveAdmitted(p, r) ==
    /\ r.stage = "sent"
    /\ \/ /\ IsOwner(p) /\ Fits(r.text) /\ WithinQuota(r.text)
          /\ Settled(p, r, "admitted") /\ UNCHANGED refused
       \/ /\ IsOwner(p) /\ Fits(r.text) /\ ~WithinQuota(r.text)
          /\ Settled(p, r, "refused") /\ refused' = refused \union {r.text}
       \/ /\ ~(IsOwner(p) /\ Fits(r.text))
          /\ Settled(p, r, "failed") /\ UNCHANGED refused
    /\ UNCHANGED <<row, text, dirty, published, indicator, armed, act, login, bounds,
                   saved, writer, overtaken, stray, lagged, toasts>>

\* What the page sent before the save that has just been written is late.
Outdated(w, r) ==
    {IF q.age > r.age /\ q.stage \in Unsettled THEN [q EXCEPT !.late = TRUE] ELSE q : q \in w}

\* save_draft: one statement, and nothing when the row is gone.
SaveWritten(p, r) ==
    LET w == Outdated(wire[p], r)
        reverts == exists /\ r.late /\ r.text # Content
    IN
    /\ r.stage = "admitted"
    /\ IF exists THEN /\ draft' = r.text /\ draftBytes' = Size[r.text]
                      /\ writer' = (IF r.text = Content THEN writer ELSE p)
                      /\ saved' = saved \union {r.text}
                 ELSE UNCHANGED <<draft, draftBytes, writer, saved>>
    /\ wire' = [wire EXCEPT ![p] = IF r.heard THEN Restaged(w, r, "saved") ELSE Removed(w, r)]
    /\ overtaken' = (overtaken \/ (reverts /\ r.heard))
    /\ stray' = (stray \/ (reverts /\ ~r.heard))
    /\ UNCHANGED <<exists, pub, bytes, manifest, text, dirty, published, indicator, armed, act,
                   login, bounds, refused, lagged, toasts>>

\* The request does not reach the server, or the database gives up on it.
RequestLost(p, r) ==
    /\ faults < MaxFaults
    /\ r.stage \in Unsettled
    /\ faults' = faults + 1
    /\ Settled(p, r, "failed")
    /\ UNCHANGED <<row, text, dirty, published, indicator, armed, act, login,
                   minted, acts, reloads, history>>

\* The connection breaks while the page waits: to the page a transient
\* failure, whatever the server makes of the request.
AnswerLost(p, r) ==
    /\ faults < MaxFaults
    /\ r.heard /\ r.stage \in Unsettled \union {"saved"}
    /\ faults' = faults + 1
    /\ wire' = [wire EXCEPT ![p] = IF r.stage = "saved" THEN Removed(@, r)
                                   ELSE Replaced(@, r, [r EXCEPT !.heard = FALSE])]
    /\ indicator' = [indicator EXCEPT ![p] = "Failed"]
    /\ Retried(p)
    /\ act' = [act EXCEPT ![p] = IF r.durable THEN Idle ELSE @]
    /\ UNCHANGED <<row, text, dirty, published, login, minted, acts, reloads, history>>

----------------------------------------------------------------------------
\* Editorial acts, one at a time on each page.

Click(p, kind, at) ==
    /\ act[p] = Idle /\ text[p] # NoText /\ acts < MaxActs
    /\ acts' = acts + 1
    /\ act' = [act EXCEPT ![p] = [Idle EXCEPT !.kind = kind, !.at = at, !.clicked = text[p]]]
    /\ UNCHANGED <<row, text, dirty, published, indicator, armed, wire, login,
                   minted, faults, reloads, history>>

\* PublishButton: disabled when published and clean.
ClickPush(p) == (~published[p] \/ dirty[p]) /\ Click(p, "push", "drain")

\* The menu offers these two for a published notebook only.
ClickDiscard(p)   == published[p] /\ dirty[p] /\ Click(p, "discard", "request")
ClickUnpublish(p) == published[p] /\ Click(p, "unpublish", "request")
ClickDelete(p)    == Click(p, "delete", "request")

At(p, kind, at) == act[p].kind = kind /\ act[p].at = at
Reaches(p, at)  == act' = [act EXCEPT ![p] = [@ EXCEPT !.at = at]]

\* Mutation: the durable save does not wait for the saves on the wire.
NothingOnTheWire(p) == FALSE

\* The wait for the saves on the wire has reached its limit.
WaitExpired(p) == Inflight(wire[p]) # {}

\* persist_notebook_durable: it waits for the page's saves on the wire, but
\* not for ever, and takes over from the scheduled one.
DurableSave(p) ==
    /\ At(p, "push", "drain")
    /\ dirty' = [dirty EXCEPT ![p] = TRUE]
    /\ Unscheduled(p)
    /\ SendDraft(p, TRUE)
    /\ act' = [act EXCEPT ![p] = [@ EXCEPT !.at = "save", !.late = WaitExpired(p)]]
    /\ UNCHANGED <<row, text, published, login, bounds, history>>

\* push_mutable_core up to the snapshot of the blobs.
PushRead(p) ==
    /\ At(p, "push", "request")
    /\ \/ ~IsOwner(p) /\ act' = [act EXCEPT ![p] = Idle]
       \/ IsOwner(p) /\ pub # NoText /\ draft = NoText /\ Reaches(p, "answer")
       \/ IsOwner(p) /\ (pub = NoText \/ draft # NoText)
          /\ act' = [act EXCEPT ![p] = [@ EXCEPT !.at = "promote", !.read = Content]]
    /\ UNCHANGED <<row, text, dirty, published, indicator, armed, wire, login, bounds, history>>

\* Mutation: the draft slot is promoted even when it is empty.
AnyRow == exists

\* WHERE draft_json != NONE
Promotable == draft # NoText

\* promote_draft: published and draft swapped in one statement, if there is a
\* draft; the snapshot is best effort.
Promote(p) ==
    /\ At(p, "push", "promote")
    /\ Reaches(p, "answer")
    /\ IF Promotable
       THEN /\ pub' = Content
            /\ manifest' \in {act[p].read, NoText}
            /\ bytes' = Size[act[p].read]
            /\ draft' = NoText
            /\ draftBytes' = 0
            /\ lagged' = (lagged \/ draft \notin {act[p].read, NoText})
       ELSE UNCHANGED <<pub, manifest, bytes, draft, draftBytes, lagged>>
    /\ UNCHANGED <<exists, text, dirty, published, indicator, armed, wire, login, bounds,
                   saved, refused, writer, overtaken, stray, toasts>>

PushAnswered(p) ==
    /\ At(p, "push", "answer")
    /\ dirty' = [dirty EXCEPT ![p] = FALSE]
    /\ published' = [published EXCEPT ![p] = TRUE]
    /\ act' = [act EXCEPT ![p] = Idle]
    /\ UNCHANGED <<row, text, indicator, armed, wire, login, bounds, history>>

\* Mutation: the draft of an unpublished notebook is discarded.
AnyDraft == exists

\* WHERE notebook_json != NONE
Discardable == pub # NoText

\* discard_draft: only where readers have a copy to return to.
DraftDiscarded(p) ==
    /\ At(p, "discard", "request")
    /\ \/ /\ IsOwner(p) /\ Discardable
          /\ draft' = NoText /\ draftBytes' = 0 /\ Reaches(p, "answer")
          /\ writer' = (IF pub = Content THEN writer ELSE p)
       \/ /\ ~(IsOwner(p) /\ Discardable)
          /\ act' = [act EXCEPT ![p] = Idle]
          /\ UNCHANGED <<draft, draftBytes, writer>>
    /\ UNCHANGED <<exists, pub, bytes, manifest, text, dirty, published, indicator, armed, wire,
                   login, bounds, saved, refused, overtaken, stray, lagged, toasts>>

DiscardAnswered(p) ==
    /\ At(p, "discard", "answer")
    /\ Mount(p, Editable(p))
    /\ UNCHANGED <<row, login, bounds, saved, refused, writer, overtaken, stray, lagged>>

\* Mutation: the readers' copy is not moved to the draft slot.
DraftOnly == draft

\* draft_json ?? notebook_json
MovedToDraft == Content

\* unpublish_share: the readers' copy moves to an empty draft slot.
Unpublished(p) ==
    /\ At(p, "unpublish", "request")
    /\ \/ /\ IsOwner(p)
          /\ draft' = MovedToDraft
          /\ draftBytes' = (IF draftBytes # 0 THEN draftBytes ELSE bytes)
          /\ pub' = NoText /\ manifest' = NoText /\ bytes' = 0
          /\ Reaches(p, "answer")
       \/ /\ ~IsOwner(p)
          /\ act' = [act EXCEPT ![p] = Idle]
          /\ UNCHANGED <<draft, draftBytes, pub, manifest, bytes>>
    /\ UNCHANGED <<exists, text, dirty, published, indicator, armed, wire, login, bounds, history>>

UnpublishAnswered(p) ==
    /\ At(p, "unpublish", "answer")
    /\ published' = [published EXCEPT ![p] = FALSE]
    /\ dirty' = [dirty EXCEPT ![p] = TRUE]
    /\ act' = [act EXCEPT ![p] = Idle]
    /\ UNCHANGED <<row, text, indicator, armed, wire, login, bounds, history>>

\* delete_mutable_share: the row and its grants go.
Deleted(p) ==
    /\ At(p, "delete", "request")
    /\ \/ /\ IsOwner(p)
          /\ exists' = FALSE
          /\ pub' = NoText /\ draft' = NoText /\ bytes' = 0 /\ draftBytes' = 0 /\ manifest' = NoText
          /\ Reaches(p, "answer")
       \/ /\ ~IsOwner(p)
          /\ act' = [act EXCEPT ![p] = Idle]
          /\ UNCHANGED row
    /\ UNCHANGED <<text, dirty, published, indicator, armed, wire, login, bounds, history>>

DeleteAnswered(p) ==
    /\ At(p, "delete", "answer")
    /\ Mount(p, Editable(p))
    /\ UNCHANGED <<row, login, bounds, saved, refused, writer, overtaken, stray, lagged>>

\* The request of an act or its answer is lost: the page reports a failure.
ActLost(p) ==
    /\ faults < MaxFaults
    /\ act[p].at \in {"request", "answer"}
    /\ faults' = faults + 1
    /\ act' = [act EXCEPT ![p] = Idle]
    /\ stray' = (stray \/ At(p, "discard", "answer"))
    /\ UNCHANGED <<row, text, dirty, published, indicator, armed, wire, login, minted, acts, reloads,
                   saved, refused, writer, overtaken, lagged, toasts>>

----------------------------------------------------------------------------
\* The session of a page's browser.

\* It expires, is revoked, or ends with a sign-out on another page; the page
\* is not told.
SessionEnds(p) ==
    /\ faults < MaxFaults
    /\ login[p] /\ text[p] # NoText
    /\ faults' = faults + 1
    /\ login' = [login EXCEPT ![p] = FALSE]
    /\ UNCHANGED <<row, text, dirty, published, indicator, armed, wire, act,
                   minted, acts, reloads, history>>

\* The owner signs in again: on this page, if it has lost the notebook, and it
\* is loaded anew, or else on another one.
SignsIn(p) ==
    /\ ~login[p]
    /\ login' = [login EXCEPT ![p] = TRUE]
    /\ IF text[p] = NoText
       THEN Mount(p, Content)
       ELSE UNCHANGED <<text, dirty, published, indicator, armed, wire, act, toasts>>
    /\ UNCHANGED <<row, bounds, saved, refused, writer, overtaken, stray, lagged>>

----------------------------------------------------------------------------
PageStep(p) ==
    \/ Edit(p) \/ SaveFires(p) \/ Reload(p) \/ SignsIn(p)
    \/ ClickPush(p) \/ ClickDiscard(p) \/ ClickUnpublish(p) \/ ClickDelete(p)
    \/ DurableSave(p) \/ PushAnswered(p) \/ DiscardAnswered(p)
    \/ UnpublishAnswered(p) \/ DeleteAnswered(p)
    \/ \E r \in wire[p] : SaveAnswered(p, r)

ServerStep(p) ==
    \/ PushRead(p) \/ Promote(p) \/ DraftDiscarded(p) \/ Unpublished(p) \/ Deleted(p)
    \/ \E r \in wire[p] : SaveAdmitted(p, r) \/ SaveWritten(p, r)

NetworkFault(p) ==
    \/ ActLost(p) \/ SessionEnds(p)
    \/ \E r \in wire[p] : RequestLost(p, r) \/ AnswerLost(p, r)

Next == \E p \in Page : PageStep(p) \/ ServerStep(p) \/ NetworkFault(p)

Spec == Init /\ [][Next]_vars

\* The server works, answers arrive or fail, and timers fire.
Fairness ==
    \A p \in Page :
        /\ WF_vars(SaveFires(p)) /\ WF_vars(DurableSave(p))
        /\ WF_vars(ServerStep(p))
        /\ WF_vars(PushAnswered(p) \/ DiscardAnswered(p) \/ UnpublishAnswered(p) \/ DeleteAnswered(p))
        /\ WF_vars(\E r \in wire[p] : SaveAnswered(p, r))

FairSpec == Spec /\ Fairness

----------------------------------------------------------------------------
Save == [text : Text, durable : BOOLEAN, age : Nat, stage : Stages, heard : BOOLEAN, late : BOOLEAN]
Act  == [kind : {"none", "push", "discard", "unpublish", "delete"},
         at : {"none", "drain", "save", "request", "promote", "answer"},
         clicked : Text \union {NoText}, read : Text \union {NoText}, late : BOOLEAN]

\* The types of the variables.
TypeOK ==
    /\ exists \in BOOLEAN
    /\ pub \in Text \union {NoText} /\ draft \in Text \union {NoText}
    /\ bytes \in Nat /\ draftBytes \in Nat
    /\ manifest \in Text \union {NoText}
    /\ text \in [Page -> Text \union {NoText}]
    /\ dirty \in [Page -> BOOLEAN] /\ published \in [Page -> BOOLEAN]
    /\ indicator \in [Page -> {"Synced", "Saving", "Failed", "Refused"}]
    /\ armed \in [Page -> BOOLEAN]
    /\ wire \in [Page -> SUBSET Save]
    /\ act \in [Page -> Act]
    /\ login \in [Page -> BOOLEAN]
    /\ minted \in Text
    /\ acts \in 0..MaxActs /\ faults \in 0..MaxFaults /\ reloads \in 0..MaxReloads
    /\ saved \subseteq Text /\ refused \subseteq Text
    /\ writer \in Page
    /\ overtaken \in BOOLEAN /\ stray \in BOOLEAN /\ lagged \in BOOLEAN
    /\ toasts \in [Page -> 0..2]

PageAtRest(p) == ~armed[p] /\ Inflight(wire[p]) = {} /\ act[p] = Idle
AtRest == \A p \in Page : PageAtRest(p) /\ wire[p] = {}

\* "Both slots empty is corruption rather than a state": however the acts of
\* two pages interleave, the row of a notebook holds a draft or a published
\* copy (db.rs, discard_draft and unpublish_share).
NeverNowhere == exists => pub # NoText \/ draft # NoText

\* The autosave loses no edit on its way: the debounce, the retries and the
\* durable save supersede one another, yet once a page has nothing scheduled
\* and waits for nothing, what it shows was in the row or was refused for the
\* quota (state.rs, draft_save_epoch).
NoSilentLoss ==
    exists => \A p \in Page :
        PageAtRest(p) => text[p] \in saved \union refused \union {NoText}

\* When everything is at rest, the notebook the server would hand out is the
\* one some page shows, unless a save landed after a later one of its page,
\* a request the page had given up on was carried out, or the quota stood in
\* the way; a page reloaded when it is signed out shows none until it signs in.
SomePageIsTrue ==
    (AtRest /\ exists /\ ~overtaken /\ ~stray)
        => \E p \in Page : \/ text[p] = Content
                           \/ text[p] \in refused
                           \/ text[p] = NoText /\ ~login[p]

\* The sizes the quota counts and the blobs' manifest belong to the contents of
\* their slots, through every promote, discard and unpublish; only a push that
\* promotes a newer draft than the one it read makes them lag (db.rs,
\* promote_draft).
SlotsInStep ==
    lagged \/ /\ bytes = (IF pub = NoText THEN 0 ELSE Size[pub])
              /\ draftBytes = (IF draft = NoText THEN 0 ELSE Size[draft])
              /\ manifest \in {pub, NoText}

\* Together, what is true of the row at all times.
RowSound == NeverNowhere /\ SlotsInStep

\* A push makes public what its page showed at the click, or something newer:
\* autosaves that were on the wire do not get between its save and its
\* promote, except one the bounded wait gave up on, or one whose connection
\* broke; another page's save or discard may (state.rs, persist_notebook_durable).
PushPublishesClicked ==
    [][\A p \in Page :
          (Promote(p) /\ draft # NoText)
              => pub' >= act[p].clicked \/ writer # p \/ act[p].late \/ stray]_vars

\* Readers and owner are served as AccountNotebook promises, however the two
\* slots of the row are shuffled: publishing and unpublishing leave the
\* working copy alone, and only a save or a discard changes it.
Promise == INSTANCE AccountNotebook
           WITH Content <- Text, Nothing <- NoText, readers <- pub, working <- Content
NotebookPromise == Promise!Spec

\* The autosave comes to an end once the typing and the faults do, for every
\* notebook the server is willing to take: a save refused for the quota is not
\* retried (state.rs, DraftSaveState::Refused), and one that failed is retried
\* until it lands.  Not so on a page whose notebook was deleted elsewhere, whose
\* session has ended or whose notebook is too large: RefusalsEndTheRetries.
AutosaveSettles ==
    <>[](\A p \in Page :
            IsOwner(p) /\ Fits(text[p]) => ~armed[p] /\ Inflight(wire[p]) = {})

----------------------------------------------------------------------------
\* What comments and labels of the code say, and the program does not do.

\* The toast after a discard: "Back to the published copy."
DiscardRemountsPublished ==
    [][\A p \in Page : DiscardAnswered(p) => text'[p] = pub]_vars

\* The button's title when it is disabled: "The published copy matches your
\* draft".
CleanMeansPublished ==
    \A p \in Page : (AtRest /\ published[p] /\ ~dirty[p] /\ text[p] # NoText) => draft = NoText

\* "A failure schedules a retry [...] UNLESS the server refused it, which no
\* retry can change."
RefusalsEndTheRetries ==
    <>[](\A p \in Page : ~armed[p] /\ Inflight(wire[p]) = {})

\* "Say it ONCE": one refusal toast until a save succeeds.
RefusalToldOnce == \A p \in Page : toasts[p] <= 1
=============================================================================
