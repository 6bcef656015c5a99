------------------------------- MODULE Mirror -------------------------------
(***************************************************************************)
(* Agents at work on a hosted notebook.  Every agent's daemon keeps a      *)
(* mirror of the notebook, fetched once when it connects and kept current  *)
(* by replaying the host's events; agents read the mirror and send         *)
(* mutations, which the host accepts or refuses by the cell's version.     *)
(* crates/ironpad-cli/src/daemon.rs, crates/ironpad-app/src/session/       *)
(* connection.rs and the event buffer of model.rs.                         *)
(*                                                                         *)
(* The relay between them (module Relay) is two queues per agent here: it  *)
(* keeps each guest's order in both directions, shows events to guests     *)
(* that may read, and drops a frame when a channel is full.  A frame lost  *)
(* on a broken connection is one dropped when it was sent.                 *)
(*                                                                         *)
(* The host's document is all of its model that matters here: module       *)
(* Notebook shows that the versions it checks are those in the document.   *)
(***************************************************************************)
EXTENDS NotebookOps

CONSTANTS
    Agent,          \* connected daemons
    Reads, Writes,  \* the agents whose session may read, and write
    Request,        \* ids of the agents' requests (fresh uuids)
    InitialOrder, DefaultText,
    Get,            \* the id of a daemon's first query, NotebookGet
    NoId,           \* an event of the browser's own carries no id
    NoDoc,          \* a daemon that has not cached a notebook
    BufferCap,      \* MAX_EVENT_BUFFER
    MaxEdits,       \* bound: edits of the user at the browser
    MaxLosses,      \* bound: frames dropped
    MaxOutages,     \* bound: times the host's connection breaks
    BlindVersion    \* the versions an agent that cannot read may name

ASSUME PermissionAssumption == Reads \subseteq Agent /\ Writes \subseteq Agent
ASSUME AgentAssumption == IsFiniteSet(Agent)
ASSUME IdAssumption  == Get \notin Request /\ NoId \notin Request \cup {Get}
ASSUME CapAssumption == BufferCap \in Nat /\ {MaxEdits, MaxLosses, MaxOutages} \subseteq Nat
ASSUME InitialDocAssumption ==
    InitialOrder \in Seq(Cell) /\ IsInjective(InitialOrder) /\ DefaultText \in Text

VARIABLES
    doc, used,   \* the host's notebook, and every cell id it generated
    open,        \* the host's socket is open
    unsent,      \* pending_events: the browser's events not drained yet
    linked,      \* agents connected to the relay
    up, down,    \* frames on their way to the host, and to each agent
    mirror,      \* DaemonState.notebook
    pending,     \* DaemonState.pending, of all daemons
    resolving,   \* the answer a daemon's receive task has yet to hand over
    request,     \* what each request asks, and how far it is
    edits, losses, outages,
    \* history, read by no guard
    whole,       \* agents for which no snapshot or event was lost
    applied      \* requests the host carried out

host    == <<doc, used, open, unsent>>
net     == <<linked, up, down>>
daemons == <<mirror, pending, resolving, request>>
bounds  == <<edits, losses, outages>>
history == <<whole, applied>>
vars    == <<host, net, daemons, bounds, history>>

\* What a request has come to: "ready" while the command line tool has not
\* sent it, "sent" while it waits, and then the answer it prints.
NoRequest == [at |-> "none"]

\* Frames from the host.
Snapshot      == [kind |-> "notebook", id |-> Get, doc |-> doc]
EventFrame(id, e) == [kind |-> "event", id |-> id, event |-> e]
ErrorFrame(id)    == [kind |-> "error", id |-> id]
NoFrame           == [kind |-> "none", id |-> NoId]

InitialDoc == [order |-> InitialOrder,
               cell  |-> [c \in ToSet(InitialOrder) |-> NewCell(DefaultText, FALSE)],
               meta  |-> DefaultText]

Init ==
    /\ doc = InitialDoc /\ used = ToSet(InitialOrder)
    /\ open = TRUE /\ unsent = <<>>
    /\ linked = {} /\ up = [a \in Agent |-> <<>>] /\ down = [a \in Agent |-> <<>>]
    /\ mirror = [a \in Agent |-> NoDoc]
    /\ pending = {} /\ resolving = [a \in Agent |-> NoFrame]
    /\ request = [r \in Request |-> NoRequest]
    /\ edits = 0 /\ losses = 0 /\ outages = 0
    /\ whole = Agent /\ applied = {}

-----------------------------------------------------------------------------
(***************************************************************************)
(* The document.  The host applies a mutation, and a daemon the event that *)
(* tells of it, with the same operations.                                  *)
(***************************************************************************)

Applied(d, e) ==
    CASE e.op = "add"     -> Inserted(d, e.cell, e.content, e.after)
      [] e.op = "update"  -> Patched(d, e.cell, e.patch, e.version)
      [] e.op = "delete"  -> IF e.cell \in Listed(d) THEN Removed(d, e.cell) ELSE d
      [] e.op = "reorder" -> Reordered(d, e.ids)
      [] e.op = "meta"    -> MetaPatched(d, e.meta)

CurrentVersion(c) == IF c \in Listed(doc) THEN doc.cell[c].version ELSE 0

\* Mutation: an update is not checked against the version it was based on.
AcceptableUnchecked(m) == m.op \in {"update", "delete"} => m.cell \in Listed(doc)

\* An update of a cell that does not exist is refused whatever its version.
Acceptable(m) ==
    m.op \in {"update", "delete"} =>
        /\ m.cell \in Listed(doc)
        /\ m.version = CurrentVersion(m.cell)

-----------------------------------------------------------------------------
(***************************************************************************)
(* Sending to the agents: one frame to each of a set of them, at most      *)
(* MaxLosses of which are dropped on the way.                              *)
(***************************************************************************)

Hearers == Reads \cap linked

Send(A, frame) ==
    \E missed \in SUBSET A :
        /\ losses + Cardinality(missed) <= MaxLosses
        /\ losses' = losses + Cardinality(missed)
        /\ down' = [a \in Agent |-> IF a \in A \ missed THEN Append(down[a], frame) ELSE down[a]]
        /\ whole' = IF frame.kind = "error" THEN whole ELSE whole \ missed

\* Several events, in order; none of them lost.
SendAll(A, frames) ==
    down' = [a \in Agent |-> IF a \in A THEN down[a] \o frames ELSE down[a]]

-----------------------------------------------------------------------------
(***************************************************************************)
(* The host's browser.                                                     *)
(***************************************************************************)

BrowserMutations ==
    LET here == Listed(doc)
    IN  {Add(c, DefaultText, FALSE, p) : c \in Cell \ used, p \in here \cup {Top}}
        \cup {Update(c, SetText(t), CurrentVersion(c)) : c \in here, t \in Text}
        \cup {Update(c, SetLabel, CurrentVersion(c)) : c \in here}
        \cup {Delete(c, CurrentVersion(c)) : c \in here}
        \cup {Reorder(Moved(doc.order, i, j)) : i, j \in DOMAIN doc.order}
        \cup {UpdateMeta(t) : t \in Text}

Draws(m) == used' = IF m.op = "add" THEN used \cup {m.cell} ELSE used

\* The user edits.  While the socket is open the event is drained and sent
\* before the page does anything else; otherwise it stays in the buffer, and
\* the buffer that is full drops it.
Edit(m) ==
    LET e == EventOf(m)
    IN  /\ edits < MaxEdits
        /\ Applied(doc, e) # doc
        /\ doc' = Applied(doc, e) /\ Draws(m)
        /\ edits' = edits + 1
        /\ \/ /\ open
              /\ Send(Hearers, EventFrame(NoId, e))
              /\ UNCHANGED unsent
           \/ /\ ~open /\ Len(unsent) < BufferCap
              /\ unsent' = Append(unsent, EventFrame(NoId, e))
              /\ UNCHANGED <<down, losses, whole>>
           \/ /\ ~open /\ Len(unsent) = BufferCap
              /\ whole' = whole \ Hearers
              /\ UNCHANGED <<unsent, down, losses>>
        /\ UNCHANGED <<open, linked, up, daemons, outages, applied>>

\* The host's connection breaks, and is replaced before the relay noticed: the
\* sessions and their guests stay.  (If it did notice, they end: HostRegistry.)
Outage ==
    /\ open /\ outages < MaxOutages
    /\ open' = FALSE
    /\ outages' = outages + 1
    /\ UNCHANGED <<doc, used, unsent, net, daemons, edits, losses, history>>

\* Mutation: on_open does not flush what was buffered before.
ReopenDiscards ==
    /\ ~open
    /\ open' = TRUE /\ unsent' = <<>>
    /\ UNCHANGED <<doc, used, net, daemons, bounds, history>>

\* on_open: claim the host role, then flush the buffer.
Reopen ==
    /\ ~open
    /\ open' = TRUE
    /\ SendAll(Hearers, unsent)
    /\ unsent' = <<>>
    /\ UNCHANGED <<doc, used, linked, up, daemons, bounds, history>>

\* The next frame of an agent reaches the host, which answers it at once.
Arrived(a, id) == up[a] # <<>> /\ id = Head(up[a])
Taken(a)       == up' = [up EXCEPT ![a] = Tail(@)]

Permitted(a, id) == a \in (IF id = Get THEN Reads ELSE Writes)

\* model.query: the whole notebook.
AnswerGet(a) ==
    /\ open /\ Arrived(a, Get) /\ Permitted(a, Get)
    /\ Taken(a)
    /\ Send({a}, Snapshot)
    /\ UNCHANGED <<host, linked, daemons, edits, outages, applied>>

\* The host draws the id of a cell that is added.
Resolved(m, c) == IF m.op = "add" THEN [m EXCEPT !.cell = c] ELSE m

\* model.apply accepts: the event goes to every reader, and to the one who
\* asked if that one cannot read.
Accept(a, r, c) ==
    LET m == Resolved(request[r].asks, c)
        e == EventOf(m)
    IN  /\ open /\ Arrived(a, r) /\ Permitted(a, r)
        /\ m.op = "add" => c \notin used
        /\ Acceptable(m)
        /\ doc' = Applied(doc, e) /\ Draws(m)
        /\ Taken(a)
        /\ Send(Hearers \cup {a}, EventFrame(r, e))
        /\ applied' = applied \cup {r}
        /\ UNCHANGED <<open, unsent, linked, daemons, edits, outages>>

Refuse(a, r) ==
    /\ open /\ Arrived(a, r) /\ Permitted(a, r)
    /\ ~Acceptable(request[r].asks)
    /\ Taken(a)
    /\ Send({a}, ErrorFrame(r))
    /\ UNCHANGED <<host, linked, daemons, edits, outages, applied>>

-----------------------------------------------------------------------------
(***************************************************************************)
(* The relay, where it does not just pass on.                              *)
(***************************************************************************)

\* PermissionDenied; the host never sees the frame.
Deny(a) ==
    /\ up[a] # <<>> /\ ~Permitted(a, Head(up[a]))
    /\ Taken(a)
    /\ Send({a}, ErrorFrame(Head(up[a])))
    /\ UNCHANGED <<host, linked, daemons, edits, outages, applied>>

\* Mutation: the sender is told its request failed, and it stays in the queue.
DropAnswered(a) ==
    /\ up[a] # <<>> /\ losses < MaxLosses
    /\ losses' = losses + 1
    /\ down' = [down EXCEPT ![a] = Append(@, ErrorFrame(Head(up[a])))]
    /\ UNCHANGED <<host, linked, up, daemons, edits, outages, history>>

\* The host's channel is full, or its connection dead: the request is gone and
\* nobody is told.
Drop(a) ==
    /\ up[a] # <<>> /\ losses < MaxLosses
    /\ Taken(a)
    /\ losses' = losses + 1
    /\ whole' = IF Head(up[a]) = Get THEN whole \ {a} ELSE whole
    /\ UNCHANGED <<host, linked, down, daemons, edits, outages, applied>>

-----------------------------------------------------------------------------
(***************************************************************************)
(* An agent's daemon.                                                      *)
(***************************************************************************)

\* run: connect and ask for the notebook.
Connect(a) ==
    /\ a \notin linked
    /\ linked' = linked \cup {a}
    /\ up' = [up EXCEPT ![a] = <<Get>>]
    /\ UNCHANGED <<host, down, daemons, bounds, history>>

\* What replaying a frame makes of a mirror.
Replayed(d, frame) ==
    CASE frame.kind = "notebook"               -> frame.doc
      [] frame.kind = "event" /\ d # NoDoc     -> Applied(d, frame.event)
      [] OTHER                                 -> d

\* Mutation: the one who waits is answered before the mirror is brought up to
\* date.
ReceiveAnswerFirst(a) ==
    /\ down[a] # <<>> /\ resolving[a] = NoFrame
    /\ IF Head(down[a]).id \in pending
       THEN /\ resolving' = [resolving EXCEPT ![a] = Head(down[a])]
            /\ UNCHANGED <<down, mirror>>
       ELSE /\ mirror' = [mirror EXCEPT ![a] = Replayed(@, Head(down[a]))]
            /\ down' = [down EXCEPT ![a] = Tail(@)]
            /\ UNCHANGED resolving
    /\ UNCHANGED <<host, linked, up, pending, request, bounds, history>>

\* handle_ws_message, until it takes the pending table's lock: the mirror is
\* replayed, the first answer to NotebookGet cached.
Receive(a) ==
    /\ down[a] # <<>> /\ resolving[a] = NoFrame
    /\ LET frame == Head(down[a])
       IN  /\ mirror' = [mirror EXCEPT ![a] = Replayed(@, frame)]
           /\ resolving' = [resolving EXCEPT ![a] = IF frame.id \in Request THEN frame ELSE NoFrame]
    /\ down' = [down EXCEPT ![a] = Tail(@)]
    /\ UNCHANGED <<host, linked, up, pending, request, bounds, history>>

\* Mutation: the receive task waits until somebody takes the answer.
UnresolvedAwaited(a) == resolving[a].id \in pending

Unresolved(a) == resolving[a] # NoFrame

\* The rest of it: the pending request gets its answer, if it still waits.  An
\* event of somebody else's request carries an id nobody waits for here.
Resolve(a) ==
    LET frame == resolving[a]
        mine  == frame.id \in pending /\ request[frame.id].by = a
    IN  /\ Unresolved(a)
        /\ resolving' = [resolving EXCEPT ![a] = NoFrame]
        /\ pending' = IF mine THEN pending \ {frame.id} ELSE pending
        /\ request' = IF ~mine THEN request
                      ELSE [request EXCEPT ![frame.id] =
                               IF frame.kind = "event"
                               THEN [at |-> "ok", by |-> a, asks |-> @.asks, event |-> frame.event]
                               ELSE [at |-> "refused", by |-> a, asks |-> @.asks]]
        /\ UNCHANGED <<host, net, mirror, bounds, history>>

\* The ten seconds are over.  A late answer finds nobody.
TimeOut(r) ==
    /\ r \in pending
    /\ pending' = pending \ {r}
    /\ request' = [request EXCEPT ![r].at = "timed out"]
    /\ UNCHANGED <<host, net, mirror, resolving, bounds, history>>

\* What an agent may ask.  A version it does not name is read from the mirror
\* (fetch_cell_version), a while before the request is sent; with it the agent
\* saw the cell's text.
Asks(a) ==
    IF a \in Reads
    THEN LET d == mirror[a] IN
         IF d = NoDoc THEN {}
         ELSE {Add(Top, t, FALSE, p) : t \in Text \ {DefaultText}, p \in Listed(d) \cup {Top}}
              \cup {Update(c, SetText(t), d.cell[c].version) : c \in Listed(d), t \in Text}
              \cup {Delete(c, d.cell[c].version) : c \in Listed(d)}
              \cup {Reorder(Moved(d.order, i, j)) : i, j \in DOMAIN d.order}
              \cup {UpdateMeta(t) : t \in Text}
    ELSE {Update(c, SetText(t), v) : c \in ToSet(InitialOrder), t \in Text, v \in BlindVersion}
         \cup {Add(Top, DefaultText, FALSE, Top)}

SeenText(a, m) ==
    IF m.op = "update" /\ a \in Reads THEN mirror[a].cell[m.cell].text ELSE Same

Ask(r, a, m) ==
    /\ request[r] = NoRequest /\ a \in linked
    /\ request' = [request EXCEPT ![r] = [at |-> "ready", by |-> a, asks |-> m,
                                          saw |-> SeenText(a, m)]]
    /\ UNCHANGED <<host, net, mirror, pending, resolving, bounds, history>>

\* forward_to_server: insert in the pending table, then send.
Forward(r) ==
    /\ request[r].at = "ready"
    /\ request' = [request EXCEPT ![r].at = "sent"]
    /\ pending' = pending \cup {r}
    /\ up' = [up EXCEPT ![request[r].by] = Append(@, r)]
    /\ UNCHANGED <<host, linked, down, mirror, resolving, bounds, history>>

-----------------------------------------------------------------------------

Host(a) ==
    \/ AnswerGet(a)
    \/ \E r \in Request : Refuse(a, r) \/ \E c \in Cell : Accept(a, r, c)

Next ==
    \/ \E m \in BrowserMutations : Edit(m)
    \/ Outage \/ Reopen
    \/ \E a \in Agent : Host(a) \/ Deny(a) \/ Drop(a)
    \/ \E a \in Agent : Connect(a) \/ Receive(a) \/ Resolve(a)
    \/ \E r \in Request : TimeOut(r) \/ Forward(r)
    \/ \E r \in Request, a \in Agent : \E m \in Asks(a) : Ask(r, a, m)

Spec == Init /\ [][Next]_vars

\* The page and the daemons handle what arrives, and the relay passes it on.
\* Nothing is assumed of users, agents, timeouts or the return of a connection.
FairSpec ==
    /\ Spec
    /\ \A a \in Agent : /\ WF_vars(Host(a)) /\ WF_vars(Deny(a))
                        /\ WF_vars(Receive(a)) /\ WF_vars(Resolve(a))

-----------------------------------------------------------------------------
(***************************************************************************)
(* Properties.                                                             *)
(***************************************************************************)

FrameType(frame) ==
    /\ frame.kind \in {"notebook", "event", "error", "none"}
    /\ frame.id \in Request \cup {Get, NoId}

DocType(d) ==
    /\ d = [order |-> d.order, cell |-> d.cell, meta |-> d.meta]
    /\ d.order \in Seq(Cell) /\ ToSet(d.order) = Listed(d) /\ IsInjective(d.order)
    /\ d.cell \in [Listed(d) -> CellState] /\ d.meta \in Text

\* Type correctness.  A mirror is a notebook even when an event was lost on its
\* way: each cell listed once, whatever the lost event did.
TypeOK ==
    /\ DocType(doc) /\ Listed(doc) \subseteq used /\ used \subseteq Cell
    /\ open \in BOOLEAN
    /\ \A i \in DOMAIN unsent : FrameType(unsent[i])
    /\ Len(unsent) <= BufferCap
    /\ linked \subseteq Agent
    /\ \A a \in Agent :
          /\ up[a] \in Seq(Request \cup {Get})
          /\ \A i \in DOMAIN down[a] : FrameType(down[a][i])
          /\ mirror[a] = NoDoc \/ DocType(mirror[a])
          /\ FrameType(resolving[a])
    /\ pending = {r \in Request : request[r].at = "sent"}
    /\ \A r \in Request :
          request[r].at \in {"none", "ready", "sent", "ok", "refused", "timed out"}
    /\ losses <= MaxLosses /\ edits <= MaxEdits /\ outages <= MaxOutages
    /\ whole \subseteq Agent /\ applied \subseteq Request

\* All that is on its way to an agent, and what its mirror becomes frame by frame
\* as it replays that.
OnWay(a) == down[a] \o unsent

Replay(d, frames) ==
    LET after[i \in 0 .. Len(frames)] ==
            IF i = 0 THEN d ELSE Replayed(after[i - 1], frames[i])
    IN  after

Course(a) == Replay(mirror[a], OnWay(a))

\* What an agent's mirror will be in the end.
Ahead(a) == Course(a)[Len(OnWay(a))]

\* A mirror never disagrees with the notebook but for what is still on its
\* way: no event falls between the snapshot and the stream of events, none is
\* replayed twice or out of order, none of an outage is left behind.  "The
\* daemon's cached notebook and the authoritative one cannot disagree"
\* (daemon.rs): true of every agent for which no frame was dropped.
MirrorFollows ==
    \A a \in Reads \cap whole : Ahead(a) # NoDoc => Ahead(a) = doc

\* The types, and what the daemons and the host agree on.
MirrorSound == TypeOK /\ MirrorFollows

\* Does a document tell of an event that happened?
Shows(d, e) ==
    CASE e.op = "update" -> e.cell \notin Listed(d) \/ d.cell[e.cell].version >= e.version
      [] e.op = "delete" -> e.cell \notin Listed(d)
      [] e.op = "add"    -> e.cell \in Listed(d) \/ e.cell \notin Listed(doc)
      [] OTHER           -> TRUE

\* An agent that was told its mutation went through reads it back, or what was
\* made of it since: the mirror is brought up to date before the answer.
ReadsOwnWrites ==
    \A r \in Request : request[r].at = "ok" =>
        LET d == mirror[request[r].by] IN d # NoDoc => Shows(d, request[r].event)

\* An agent's verdict is final: what was refused was not carried out and never
\* will be, what was confirmed was.  (After a timeout it may be either.)
VerdictsTrue ==
    \A r \in Request : /\ request[r].at = "refused" => r \notin applied
                       /\ request[r].at = "ok"      => r \in applied

Saw(r)  == request[r].saw
Asked(r) == request[r].asks

\* Nobody's text is lost to an edit by someone who did not see it: when the
\* host carries out an agent's update, the text that agent saw is the text it
\* replaces, however long the request was under way.
NoBlindOverwrite ==
    [][\A r \in applied' \ applied :
          Asked(r).op = "update" /\ request[r].by \in Reads \cap whole
             /\ request[r].at \in {"sent", "timed out"}
          => Saw(r) = doc.cell[Asked(r).cell].text]_vars

\* In the end a connected agent reads the notebook as it is, unless a frame was
\* lost or the host's connection never returns.
MirrorCatchesUp ==
    \A a \in Reads :
        <>[](a \in linked \cap whole /\ open) => <>[](mirror[a] = doc)

\* daemon.rs:372: mirror and notebook "cannot disagree".  They do for good
\* once the relay dropped an event.
MirrorNeverDisagrees ==
    \A a \in Reads : Ahead(a) # NoDoc => Ahead(a) = doc
=============================================================================
