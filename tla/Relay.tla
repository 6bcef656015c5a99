------------------------------- MODULE Relay --------------------------------
(***************************************************************************)
(* The whole WebSocket relay: HostRegistry with its guests.  A guest (a    *)
(* CLI daemon) connects with a session token and sends mutations and       *)
(* queries, which the relay forwards to the notebook's host; the host      *)
(* answers each with an Event or a Response, which the relay routes back   *)
(* through the pending_queries table.                                      *)
(*                                                                         *)
(* Every action of HostRegistry is taken up here, with what it does to the *)
(* guests added to it, so every step of this module is a step of           *)
(* HostRegistry or leaves its variables alone.                             *)
(*                                                                         *)
(* Channels are bounded and written with try_send: a full one drops.       *)
(* A request is a MsgId; NoMsg stands for frames whose content does not    *)
(* matter here (an edit of the host's own user, a guest notice).           *)
(***************************************************************************)
EXTENDS HostRegistry, Sequences

CONSTANTS
    Guest,        \* guest connections; client ids are unique per connection
    MsgId,        \* request ids guests draw (fresh)
    Perms,        \* permission sets a host may grant
    MaxGuests,    \* cap on guest connections
    ChanCap,      \* capacity of an outbound channel (WS_CHANNEL_BOUND)
    NoGuest, NoMsg

ASSUME NoGuestAssumption == NoGuest \notin Guest
ASSUME NoMsgAssumption   == NoMsg \notin MsgId
ASSUME PermsAssumption   == Perms \subseteq SUBSET {"read", "write"}
ASSUME GuestCapAssumption == MaxGuests \in Nat /\ ChanCap \in Nat

VARIABLES
    perm,         \* Session.permissions
    guests,       \* guests map: session -> the registered guests
    pending,      \* pending_queries map: request -> the guest awaiting it
    gsess,        \* the session a guest's token was validated for
    gtask,        \* main task of a guest connection (handle_guest)
    grecv,        \* its read task (handle_guest_message)
    gframe,       \* the request the read task is handling
    chan,         \* outbound channel of a guest
    hchan,        \* outbound channel of a host connection
    taken,        \* requests a host's browser has received and not answered
    job,          \* the Event or Response a host's read task is handling
    todo, told,   \* end_session_guests: sessions still to end, and the one
                  \* whose guests were told and not yet dropped
    kind,         \* [MsgId -> {"mutation", "query"}], fixed by the guests
    sender,       \* the guest that sent a request
    notice,       \* guests to whom SessionEnded was sent (or lost to a full
                  \* channel)
    lateGuests    \* guests registered after their session was removed

tables     == <<perm, guests, pending>>
guestTasks == <<gsess, gtask, grecv, gframe>>
hostSide   == <<hchan, taken, job>>
ends       == <<todo, told>>
history    == <<kind, sender, notice, lateGuests>>
guestVars  == <<tables, guestTasks, hostSide, ends, history, chan>>
allVars == <<vars, guestVars>>

\* The three callers of end_session_guests: the cleanup of a host connection,
\* its read task on EndSession, and the sweeper.
Main(c) == <<c, "main">>
Read(c) == <<c, "read">>
Sweeper == <<NoConn, "sweep">>
Ender == {Main(c) : c \in Conn} \cup {Read(c) : c \in Conn} \cup {Sweeper}

GuestMsg == [type : {"event", "response", "denied", "nohost", "ended"},
             id : MsgId \cup {NoMsg}]
NoJob == [type |-> "none", step |-> "none", id |-> NoMsg, origin |-> NoGuest,
          sids |-> {}]
Job == [type : {"none", "event", "response"},
        step : {"none", "resolve", "list", "cast", "check", "send"},
        id : MsgId \cup {NoMsg}, origin : Guest \cup {NoGuest},
        sids : SUBSET SessionId]

RelayTypeOK ==
    /\ TypeOK
    /\ perm \in [SessionId -> Perms \cup {{}}]
    /\ guests \in [SessionId -> SUBSET Guest]
    /\ pending \in [MsgId -> Guest \cup {NoGuest}]
    /\ gsess \in [Guest -> SessionId \cup {NoSession}]
    /\ gtask \in [Guest -> {"idle", "validated", "upgraded", "registered",
                            "running", "closing", "unlisted", "purged", "done"}]
    /\ grecv \in [Guest -> {"off", "loop", "deny", "track", "send", "full",
                            "gone", "report", "ended"}]
    /\ gframe \in [Guest -> MsgId \cup {NoMsg}]
    /\ chan \in [Guest -> Seq(GuestMsg)]
    /\ \A g \in Guest : Len(chan[g]) <= ChanCap
    /\ hchan \in [Conn -> Seq(MsgId \cup {NoMsg})]
    /\ \A c \in Conn : Len(hchan[c]) <= ChanCap
    /\ taken \in [Conn -> SUBSET MsgId]
    /\ job \in [Conn -> Job]
    /\ todo \in [Ender -> SUBSET SessionId]
    /\ told \in [Ender -> SessionId \cup {NoSession}]
    /\ kind \in [MsgId -> {"mutation", "query"}]
    /\ sender \in [MsgId -> Guest \cup {NoGuest}]
    /\ notice \in SUBSET Guest
    /\ lateGuests \in SUBSET Guest

-----------------------------------------------------------------------------
(* Sending *)

Msg(type, id) == [type |-> type, id |-> id]

Listed(g) == gsess[g] # NoSession /\ g \in guests[gsess[g]]
GuestNotebook(g) == SessionNotebook(gsess[g])

\* The receiving half of a guest's channel lives until its forwarder ends.
Receives(g) == Listed(g) /\ gtask[g] \in {"registered", "running"}

\* try_send of m to every guest of G that is registered and has room.
SendToGuests(G, m) ==
    chan' = [g \in Guest |->
               IF g \in G /\ Receives(g) /\ Len(chan[g]) < ChanCap
               THEN Append(chan[g], m) ELSE chan[g]]

\* send_to_host.  A host whose forwarder has ended is still in the map until its
\* cleanup unregisters it; its channel may already be closed or still take
\* frames nobody will read.
HostGone(n) == Hosted(n) => task[hosts[n]] = "closing"
HostTakes(n) == Hosted(n) /\ Len(hchan[hosts[n]]) < ChanCap
HostFull(n) == Hosted(n) /\ Len(hchan[hosts[n]]) >= ChanCap

Enqueue(n, m) == hchan' = [hchan EXCEPT ![hosts[n]] = Append(@, m)]

\* A notice is sent and its outcome ignored.
NotifyHost(n) ==
    \/ HostTakes(n) /\ Enqueue(n, NoMsg)
    \/ (~HostTakes(n) \/ HostGone(n)) /\ hchan' = hchan

-----------------------------------------------------------------------------
(* HostRegistry's steps, with their effect on the guests *)

R_Handshake(c) == Handshake(c) /\ UNCHANGED guestVars

\* The read task is between two frames: no Event or Response is half handled.
BetweenFrames(c) == job[c] = NoJob

R_CreateSession(c, s) ==
    /\ BetweenFrames(c)
    /\ CreateSession(c, s)
    /\ \E p \in Perms : perm' = [perm EXCEPT ![s] = p]
    /\ UNCHANGED <<guests, pending, guestTasks, hostSide, ends, history, chan>>

\* SessionCreated is a frame in the host's channel like any other.
R_ReplyCreated(c) ==
    LET n == nb[c] IN
    /\ ReplyCreated(c)
    /\ \/ HostTakes(n) /\ Enqueue(n, NoMsg) /\ holder' = [holder EXCEPT ![reply[c]] = hosts[n]]
       \/ (~HostTakes(n) \/ HostGone(n)) /\ hchan' = hchan /\ holder' = holder
    /\ UNCHANGED <<tables, guestTasks, taken, job, ends, history, chan>>

R_EndSession(c, s) ==
    /\ BetweenFrames(c)
    /\ EndSession(c, s)
    /\ todo' = [todo EXCEPT ![Read(c)] = {s}]
    /\ UNCHANGED <<tables, guestTasks, hostSide, told, history, chan>>

Ended(e) == todo[e] = {}

R_EndSessionDone(c) == Ended(Read(c)) /\ EndSessionDone(c) /\ UNCHANGED guestVars

R_RecvCloses(c) == BetweenFrames(c) /\ RecvCloses(c) /\ UNCHANGED guestVars

\* abort() at a yield point of end_session_guests or of the SessionCreated send.
R_RecvAborted(c) ==
    /\ RecvAborted(c)
    /\ todo' = [todo EXCEPT ![Read(c)] = {}]
    /\ told' = [told EXCEPT ![Read(c)] = NoSession]
    /\ UNCHANGED <<tables, guestTasks, hostSide, history, chan>>

\* A replaced host's forwarder ends once it has drained the channel.
R_SelectReplaced(c) == hchan[c] = <<>> /\ SelectReplaced(c) /\ UNCHANGED guestVars
R_SelectSendFailed(c) == SelectSendFailed(c) /\ UNCHANGED guestVars
R_SelectRecvGone(c) == SelectRecvGone(c) /\ UNCHANGED guestVars
R_Unregister(c) == Unregister(c) /\ UNCHANGED guestVars

R_Invalidate(c) ==
    /\ Invalidate(c)
    /\ todo' = [todo EXCEPT ![Main(c)] = OwnedBy(c)]
    /\ UNCHANGED <<tables, guestTasks, hostSide, told, history, chan>>

R_EndingDone(c) == Ended(Main(c)) /\ EndingDone(c) /\ UNCHANGED guestVars

R_Forget(c) ==
    /\ ForgetReadHosts(c) \/ ForgetReadSessions(c) \/ ForgetRemove(c)
    /\ UNCHANGED guestVars

R_Expire(s) == Expire(s) /\ UNCHANGED guestVars

\* sweep_expired_sessions ends the sessions of one sweep before the next one.
R_Sweep ==
    /\ Ended(Sweeper)
    /\ Sweep
    /\ todo' = [todo EXCEPT ![Sweeper] = Expired]
    /\ UNCHANGED <<tables, guestTasks, hostSide, told, history, chan>>

-----------------------------------------------------------------------------
(* end_session_guests: tell, then drop, under two locks *)

\* Mutation: the guests are dropped first.
DropFirst(e) ==
    /\ told[e] = NoSession
    /\ \E s \in todo[e] :
         /\ told' = [told EXCEPT ![e] = s]
         /\ guests' = [guests EXCEPT ![s] = {}]
    /\ UNCHANGED <<vars, perm, pending, guestTasks, hostSide, todo, history, chan>>

Tell(e) ==
    /\ told[e] = NoSession
    /\ \E s \in todo[e] :
         /\ told' = [told EXCEPT ![e] = s]
         /\ SendToGuests(guests[s], Msg("ended", NoMsg))
         /\ notice' = notice \cup guests[s]
    /\ UNCHANGED <<vars, tables, guestTasks, hostSide, todo, kind, sender,
                   lateGuests>>

\* Mutation: only the record of the session is dropped.
DropNothing(e) ==
    /\ told[e] # NoSession
    /\ todo' = [todo EXCEPT ![e] = @ \ {told[e]}]
    /\ told' = [told EXCEPT ![e] = NoSession]
    /\ UNCHANGED <<vars, tables, guestTasks, hostSide, history, chan>>

Drop(e) ==
    /\ told[e] # NoSession
    /\ guests' = [guests EXCEPT ![told[e]] = {}]
    /\ todo' = [todo EXCEPT ![e] = @ \ {told[e]}]
    /\ told' = [told EXCEPT ![e] = NoSession]
    /\ UNCHANGED <<vars, perm, pending, guestTasks, hostSide, history, chan>>

-----------------------------------------------------------------------------
(* A host's browser, and the Events and Responses its read task handles *)

\* The forwarder writes a frame to the socket; the browser has it.
HostForward(c) ==
    /\ task[c] = "running"
    /\ hchan[c] # <<>>
    /\ hchan' = [hchan EXCEPT ![c] = Tail(@)]
    /\ taken' = [taken EXCEPT ![c] = @ \cup ({Head(hchan[c])} \ {NoMsg})]
    /\ UNCHANGED <<vars, tables, guestTasks, job, ends, history, chan>>

StartJob(c, type, step, id) ==
    /\ recv[c] = "loop"
    /\ BetweenFrames(c)
    /\ job' = [job EXCEPT ![c] = [NoJob EXCEPT !.type = type, !.step = step, !.id = id]]
    /\ taken' = [taken EXCEPT ![c] = @ \ {id}]
    /\ UNCHANGED <<vars, tables, guestTasks, hchan, ends, history, chan>>

\* A mutation is acknowledged by the Event it caused, or refused by a Response;
\* a query is answered by a Response.
HostAcks(c) == \E m \in taken[c] : kind[m] = "mutation" /\ StartJob(c, "event", "resolve", m)
HostResponds(c) == \E m \in taken[c] : StartJob(c, "response", "resolve", m)

\* An edit of the host's own user: empty id, nothing to resolve.
HostEdits(c) == StartJob(c, "event", "list", NoMsg)

AtStep(c, step) == job[c].step = step

\* resolve_query.
JobResolve(c) ==
    LET origin == pending[job[c].id] IN
    /\ AtStep(c, "resolve")
    /\ pending' = [pending EXCEPT ![job[c].id] = NoGuest]
    /\ job' = [job EXCEPT ![c] =
                 IF @.type = "event" THEN [@ EXCEPT !.step = "list", !.origin = origin]
                 ELSE IF origin = NoGuest THEN NoJob
                 ELSE [@ EXCEPT !.step = "send", !.origin = origin]]
    /\ UNCHANGED <<vars, perm, guests, guestTasks, hchan, taken, ends, history, chan>>

\* Mutation: every session of the notebook is broadcast to.
ReadableAll(n) == {s \in SessionId : status[s] = "live" /\ SessionNotebook(s) = n}

\* readable_session_ids, under the lock of the session store ...
Readable(n) == {s \in SessionId : /\ status[s] = "live"
                                  /\ SessionNotebook(s) = n
                                  /\ "read" \in perm[s]}

JobList(c) ==
    /\ AtStep(c, "list")
    /\ job' = [job EXCEPT ![c].step = "cast", ![c].sids = Readable(nb[c])]
    /\ UNCHANGED <<vars, tables, guestTasks, hchan, taken, ends, history, chan>>

\* ... then the broadcast, under the lock of the guests.
JobCast(c) ==
    /\ AtStep(c, "cast")
    /\ SendToGuests(UNION {guests[s] : s \in job[c].sids}, Msg("event", job[c].id))
    /\ job' = [job EXCEPT ![c] = IF @.origin = NoGuest THEN NoJob
                                 ELSE [@ EXCEPT !.step = "check"]]
    /\ UNCHANGED <<vars, tables, guestTasks, hchan, taken, ends, history>>

\* Mutation: get_session does not look at expires_at.
CanReadExpired(g) == Listed(g) /\ Present(gsess[g]) /\ "read" \in perm[gsess[g]]

\* guest_can_read.  Its two reads are one step: between them a guest can only
\* leave, and then the direct send finds nobody.
CanRead(g) == Listed(g) /\ status[gsess[g]] = "live" /\ "read" \in perm[gsess[g]]

JobCheck(c) ==
    /\ AtStep(c, "check")
    /\ job' = [job EXCEPT ![c] = IF CanRead(@.origin) THEN NoJob
                                 ELSE [@ EXCEPT !.step = "send"]]
    /\ UNCHANGED <<vars, tables, guestTasks, hchan, taken, ends, history, chan>>

\* Mutation: the answer goes to every guest of the session.
JobSendToSession(c) ==
    /\ AtStep(c, "send")
    /\ SendToGuests(guests[gsess[job[c].origin]], Msg(job[c].type, job[c].id))
    /\ job' = [job EXCEPT ![c] = NoJob]
    /\ UNCHANGED <<vars, tables, guestTasks, hchan, taken, ends, history>>

JobSend(c) ==
    /\ AtStep(c, "send")
    /\ SendToGuests({job[c].origin}, Msg(job[c].type, job[c].id))
    /\ job' = [job EXCEPT ![c] = NoJob]
    /\ UNCHANGED <<vars, tables, guestTasks, hchan, taken, ends, history>>

\* abort() took effect with an Event or Response half handled.
JobAborted(c) ==
    /\ job[c] # NoJob
    /\ task[c] # "running"
    /\ job' = [job EXCEPT ![c] = NoJob]
    /\ recv' = [recv EXCEPT ![c] = "gone"]
    /\ UNCHANGED <<nb, secret, wsVars, task, reply, holder, latest, exposed, late,
                   tables, guestTasks, hchan, taken, ends, history, chan>>

HostFrames(c) == HostAcks(c) \/ HostResponds(c) \/ HostEdits(c)
RunJob(c) == JobResolve(c) \/ JobList(c) \/ JobCast(c) \/ JobCheck(c) \/ JobSend(c)

-----------------------------------------------------------------------------
(* A guest connection: ws_connect_handler and handle_guest *)

GStep(g, from, to) ==
    /\ gtask[g] = from
    /\ gtask' = [gtask EXCEPT ![g] = to]

\* validate_token.  The agent holds a token the relay handed out.
ValidateToken(g, s) ==
    /\ holder[s] # NoConn
    /\ IF status[s] = "live"
       THEN GStep(g, "idle", "validated") /\ gsess' = [gsess EXCEPT ![g] = s]
       ELSE GStep(g, "idle", "done") /\ gsess' = gsess     \* 401 or 410
    /\ UNCHANGED <<vars, tables, grecv, gframe, hostSide, ends, history, chan>>

GuestCount == Cardinality({g \in Guest : Listed(g)})

\* guest_slot_available, then the upgrade; 503 otherwise.
GuestAdmit(g) ==
    /\ GStep(g, "validated", IF GuestCount < MaxGuests THEN "upgraded" ELSE "done")
    /\ UNCHANGED <<vars, tables, gsess, grecv, gframe, hostSide, ends, history, chan>>

\* register_guest: the session is not looked at again.
RegisterGuest(g) ==
    /\ GStep(g, "upgraded", "registered")
    /\ guests' = [guests EXCEPT ![gsess[g]] = @ \cup {g}]
    /\ lateGuests' = IF Present(gsess[g]) THEN lateGuests ELSE lateGuests \cup {g}
    /\ UNCHANGED <<vars, perm, pending, gsess, grecv, gframe, hostSide, ends, kind,
                   sender, notice, chan>>

\* GuestConnected to the host, then the two socket tasks.
NotifyConnected(g) ==
    /\ GStep(g, "registered", "running")
    /\ NotifyHost(GuestNotebook(g))
    /\ grecv' = [grecv EXCEPT ![g] = "loop"]
    /\ UNCHANGED <<vars, tables, gsess, gframe, taken, job, ends, history, chan>>

GuestForward(g) ==
    /\ gtask[g] = "running"
    /\ chan[g] # <<>>
    /\ chan' = [chan EXCEPT ![g] = Tail(@)]
    /\ UNCHANGED <<vars, tables, guestTasks, hostSide, ends, history>>

\* select!: the forwarder drained the channel of a dropped guest, a socket write
\* failed, or the read task ended.
SelectGuestDropped(g) ==
    /\ ~Listed(g) /\ chan[g] = <<>>
    /\ GStep(g, "running", "closing")
    /\ UNCHANGED <<vars, tables, gsess, grecv, gframe, hostSide, ends, history, chan>>

SelectGuestSocket(g) ==
    /\ GStep(g, "running", "closing")
    /\ chan' = [chan EXCEPT ![g] = <<>>]
    /\ UNCHANGED <<vars, tables, gsess, grecv, gframe, hostSide, ends, history>>

\* Mutation: the last guest to leave ends the session.
UnlistGuestEndsSession(g) ==
    /\ GStep(g, "closing", "unlisted")
    /\ guests' = [guests EXCEPT ![gsess[g]] = @ \ {g}]
    /\ status' = IF guests[gsess[g]] = {g} THEN [status EXCEPT ![gsess[g]] = "removed"]
                 ELSE status
    /\ UNCHANGED <<nb, secret, hosts, secrets, owner, taskVars, holder, latest,
                   exposed, late, perm, pending, gsess, grecv, gframe, hostSide, ends,
                   history, chan>>

\* unregister_guest: the list, then the requests it was waiting for.
UnlistGuest(g) ==
    /\ GStep(g, "closing", "unlisted")
    /\ guests' = [guests EXCEPT ![gsess[g]] = @ \ {g}]
    /\ UNCHANGED <<vars, perm, pending, gsess, grecv, gframe, hostSide, ends, history,
                   chan>>

PurgePending(g) ==
    /\ GStep(g, "unlisted", "purged")
    /\ pending' = [m \in MsgId |-> IF pending[m] = g THEN NoGuest ELSE pending[m]]
    /\ UNCHANGED <<vars, perm, guests, gsess, grecv, gframe, hostSide, ends, history,
                   chan>>

NotifyDisconnected(g) ==
    /\ GStep(g, "purged", "done")
    /\ NotifyHost(GuestNotebook(g))
    /\ UNCHANGED <<vars, tables, gsess, grecv, gframe, taken, job, ends, history,
                   chan>>

-----------------------------------------------------------------------------
(* handle_guest_message *)

GRecv(g, from, to) ==
    /\ grecv[g] = from
    /\ grecv' = [grecv EXCEPT ![g] = to]

\* Mutation: any permission will do.
AllowedByAny(g, m) == perm[gsess[g]] # {}

\* check_permission: against the permissions captured at connect time, which
\* are those of the session for good.
Allowed(g, m) == (IF kind[m] = "query" THEN "read" ELSE "write") \in perm[gsess[g]]

GuestSends(g, m) ==
    /\ sender[m] = NoGuest
    /\ GRecv(g, "loop", IF Allowed(g, m) THEN "track" ELSE "deny")
    /\ gframe' = [gframe EXCEPT ![g] = m]
    /\ sender' = [sender EXCEPT ![m] = g]
    /\ UNCHANGED <<vars, tables, gsess, gtask, hostSide, ends, kind, notice,
                   lateGuests, chan>>

\* PermissionDenied, or SessionNotFound when there was no host.
GuestError(g) ==
    /\ \/ GRecv(g, "deny", "loop") /\ SendToGuests({g}, Msg("denied", gframe[g]))
       \/ GRecv(g, "report", "loop") /\ SendToGuests({g}, Msg("nohost", gframe[g]))
    /\ gframe' = [gframe EXCEPT ![g] = NoMsg]
    /\ UNCHANGED <<vars, tables, gsess, gtask, hostSide, ends, history>>

TrackQuery(g) ==
    /\ GRecv(g, "track", "send")
    /\ pending' = [pending EXCEPT ![gframe[g]] = g]
    /\ UNCHANGED <<vars, perm, guests, gsess, gtask, gframe, hostSide, ends, history,
                   chan>>

\* send_to_host: Delivered, Full or Disconnected.
SendToHost(g) ==
    LET n == GuestNotebook(g) IN
    /\ \/ /\ GRecv(g, "send", "loop")
          /\ HostTakes(n)
          /\ Enqueue(n, gframe[g])
          /\ gframe' = [gframe EXCEPT ![g] = NoMsg]
       \/ GRecv(g, "send", "full") /\ HostFull(n) /\ UNCHANGED <<gframe, hchan>>
       \/ GRecv(g, "send", "gone") /\ HostGone(n) /\ UNCHANGED <<gframe, hchan>>
    /\ UNCHANGED <<vars, tables, gsess, gtask, taken, job, ends, history, chan>>

\* resolve_query takes the request back; only a missing host is reported.
Untrack(g) ==
    /\ \/ GRecv(g, "full", "loop") /\ gframe' = [gframe EXCEPT ![g] = NoMsg]
       \/ GRecv(g, "gone", "report") /\ UNCHANGED gframe
    /\ pending' = [pending EXCEPT ![gframe[g]] = NoGuest]
    /\ UNCHANGED <<vars, perm, guests, gsess, gtask, hostSide, ends, history, chan>>

\* The socket closed or went idle, or abort() took effect.
GuestRecvEnds(g) ==
    /\ \/ GRecv(g, "loop", "ended")
       \/ gtask[g] # "running" /\ GRecv(g, grecv[g], "ended") /\ grecv[g] \notin {"off", "ended"}
    /\ gframe' = [gframe EXCEPT ![g] = NoMsg]
    /\ UNCHANGED <<vars, tables, gsess, gtask, hostSide, ends, history, chan>>

SelectGuestRecv(g) == grecv[g] = "ended" /\ SelectGuestSocket(g)

GuestConnects(g) == (\E s \in SessionId : ValidateToken(g, s))
                    \/ GuestAdmit(g) \/ RegisterGuest(g) \/ NotifyConnected(g)

GuestFrame(g) == GuestError(g) \/ TrackQuery(g) \/ SendToHost(g) \/ Untrack(g)

GuestCleanup(g) == UnlistGuest(g) \/ PurgePending(g) \/ NotifyDisconnected(g)

-----------------------------------------------------------------------------

RelayInit ==
    /\ Init
    /\ perm = [s \in SessionId |-> {}]
    /\ guests = [s \in SessionId |-> {}]
    /\ pending = [m \in MsgId |-> NoGuest]
    /\ gsess = [g \in Guest |-> NoSession]
    /\ gtask = [g \in Guest |-> "idle"]
    /\ grecv = [g \in Guest |-> "off"]
    /\ gframe = [g \in Guest |-> NoMsg]
    /\ chan = [g \in Guest |-> <<>>]
    /\ hchan = [c \in Conn |-> <<>>]
    /\ taken = [c \in Conn |-> {}]
    /\ job = [c \in Conn |-> NoJob]
    /\ todo = [e \in Ender |-> {}]
    /\ told = [e \in Ender |-> NoSession]
    /\ kind \in [MsgId -> {"mutation", "query"}]
    /\ sender = [m \in MsgId |-> NoGuest]
    /\ notice = {}
    /\ lateGuests = {}

HostStep(c) ==
    \/ R_Handshake(c)
    \/ \E s \in SessionId : R_CreateSession(c, s) \/ R_EndSession(c, s)
    \/ R_ReplyCreated(c) \/ R_EndSessionDone(c) \/ R_RecvCloses(c) \/ R_RecvAborted(c)
    \/ R_SelectReplaced(c) \/ R_SelectSendFailed(c) \/ R_SelectRecvGone(c)
    \/ R_Unregister(c) \/ R_Invalidate(c) \/ R_EndingDone(c) \/ R_Forget(c)
    \/ HostForward(c) \/ HostFrames(c) \/ RunJob(c) \/ JobAborted(c)

GuestStep(g) ==
    \/ GuestConnects(g) \/ GuestForward(g)
    \/ SelectGuestDropped(g) \/ SelectGuestSocket(g) \/ SelectGuestRecv(g)
    \/ (\E m \in MsgId : GuestSends(g, m)) \/ GuestFrame(g) \/ GuestRecvEnds(g)
    \/ GuestCleanup(g)

RelayNext ==
    \/ \E c \in Conn : HostStep(c)
    \/ \E g \in Guest : GuestStep(g)
    \/ \E e \in Ender : Tell(e) \/ Drop(e)
    \/ \E s \in SessionId : R_Expire(s)
    \/ R_Sweep

RelaySpec == RelayInit /\ [][RelayNext]_allVars

\* As in HostRegistry: tasks are polled, forwarders write what they hold, an
\* aborted task stops.  Peers owe nothing.
RelayFairness ==
    /\ \A c \in Conn :
         /\ WF_allVars(R_ReplyCreated(c) \/ R_EndSessionDone(c) \/ RunJob(c))
         /\ WF_allVars(HostForward(c))
         /\ SF_allVars(task[c] # "running"
                       /\ (R_RecvCloses(c) \/ R_RecvAborted(c) \/ JobAborted(c)))
         /\ WF_allVars(R_SelectReplaced(c) \/ R_SelectRecvGone(c)
                       \/ R_Unregister(c) \/ R_Invalidate(c) \/ R_EndingDone(c) \/ R_Forget(c))
    /\ \A g \in Guest :
         /\ WF_allVars(GuestAdmit(g) \/ RegisterGuest(g) \/ NotifyConnected(g)
                       \/ SelectGuestDropped(g) \/ SelectGuestRecv(g) \/ GuestCleanup(g))
         /\ WF_allVars(GuestForward(g)) /\ WF_allVars(GuestFrame(g))
         /\ SF_allVars(gtask[g] # "running" /\ GuestRecvEnds(g))
    /\ \A e \in Ender : WF_allVars(Tell(e) \/ Drop(e))
    /\ WF_allVars(R_Sweep)

RelayFairSpec == RelaySpec /\ RelayFairness

-----------------------------------------------------------------------------
(* Properties *)

\* The relay implements HostRegistry, so what is proved there holds here: no guest
\* step touches the registry, and no registry step is lost by adding guests.
RegistryImplemented == Spec

\* A Response or an error answer to a request is only ever put on the channel of
\* the guest that sent the request (pending_queries, send_to_guest).
AnswersRoutedToSender ==
    \A g \in Guest : \A i \in DOMAIN chan[g] :
        chan[g][i].type \in {"response", "denied", "nohost"} => sender[chan[g][i].id] = g

\* The read permission is a confidentiality boundary: a guest without it is sent
\* no notebook content except the acknowledgement of its own mutation, although
\* sessions end and guests come and go between the two locks of a broadcast.
BlindGuestsSeeOwnAcksOnly ==
    \A g \in Guest : \A i \in DOMAIN chan[g] :
        LET m == chan[g][i] IN
        m.type \in {"event", "response"} /\ "read" \notin perm[gsess[g]]
        => m.id # NoMsg /\ sender[m.id] = g /\ kind[m.id] = "mutation"

\* What reaches a host was sent by a guest of that host's notebook whose session
\* grants it.
HostGetsPermittedFrames ==
    \A c \in Conn : \A m \in taken[c] :
        /\ sender[m] # NoGuest
        /\ kind[m] = "query" => "read" \in perm[gsess[sender[m]]]
        /\ kind[m] = "mutation" => "write" \in perm[gsess[sender[m]]]
        /\ GuestNotebook(sender[m]) = nb[c]

\* The types of the relay's tables, within their capacities, and what passes
\* through them to a host and back to a guest.
RoutingSound == RelayTypeOK /\ HostGetsPermittedFrames /\ AnswersRoutedToSender

\* A guest that guest_can_read takes for served by the broadcast was on the list
\* the broadcast used, so a mutation's only acknowledgement is never swallowed -
\* whatever expired or ended between the locks.
BroadcastReachedOrigin ==
    [][\A c \in Conn :
         AtStep(c, "check") /\ job'[c] = NoJob /\ recv'[c] = "loop"
         => gsess[job[c].origin] \in job[c].sids]_allVars

\* The guest g loses its registration to disconnect_guests, not to its own cleanup.
Disconnected(g) ==
    Receives(g) /\ g \notin guests'[gsess[g]]

\* end_session_guests tells every guest before it drops it, so a guest can tell a
\* revoked session from a network drop; guests that registered after the session
\* was removed excepted.
TimelyGuestsToldBeforeDropped ==
    [][\A g \in Guest : Disconnected(g) => g \in notice \cup lateGuests]_allVars

\* A guest leaves once its session ended by expiry or with its host, whatever it
\* keeps sending - if it was registered when the session was removed.
EndedGuestsLeave ==
    \A g \in Guest :
        (\E e \in Ender, s \in SessionId : /\ e[2] # "read"
                                           /\ s \in todo[e]
                                           /\ g \in guests[s])
        ~> gtask[g] = "done"

\* "Sweep AND disconnect": no guest goes on with a session that is gone.
RemovedSessionsGuestsLeave ==
    \A g \in Guest :
        (gtask[g] = "running" /\ status[gsess[g]] = "removed") ~> gtask[g] = "done"

=============================================================================
