---------------------------- MODULE HostRegistry ----------------------------
(***************************************************************************)
(* The host half of ironpad's WebSocket relay: which browser connection    *)
(* hosts a notebook, which secret the notebook is bound to, and which      *)
(* agent sessions exist.                                                   *)
(*                                                                         *)
(* The three maps (hosts, notebook_secrets, sessions) sit behind three     *)
(* separate RwLocks, so every lock acquisition of a handler is a step of   *)
(* its own and the steps of different connections interleave.  A host      *)
(* connection runs two tasks that touch the maps: its main task            *)
(* (handle_host: handshake, registration, cleanup) and its read task       *)
(* (handle_host_message).  abort() on the read task is a request: a read   *)
(* task that is running on another worker thread goes on with the frame it *)
(* holds, and with further frames that are ready, until it next yields.    *)
(*                                                                         *)
(* Guests are added by Relay, which extends every action below.            *)
(***************************************************************************)
EXTENDS Naturals, FiniteSets

CONSTANTS
    Conn,         \* host connections; each has its own uuid, never reused
    Notebook,     \* notebook ids
    Secret,       \* host secrets a browser may present
    SessionId,    \* ids create_session may draw (fresh uuids)
    MaxHosts,     \* cap on registered hosts
    NoConn, NoSecret, NoSession

ASSUME NoConnAssumption    == NoConn \notin Conn
ASSUME NoSecretAssumption  == NoSecret \notin Secret
ASSUME NoSessionAssumption == NoSession \notin SessionId
ASSUME MaxHostsAssumption  == MaxHosts \in Nat

VARIABLES
    \* the inputs of each connection, fixed when it arrives
    nb,           \* [Conn -> Notebook]: ?notebook_id= of the upgrade request
    secret,       \* [Conn -> Secret]: the secret its ClaimHost carries
    \* WsState and SessionStore
    hosts,        \* hosts map: the registered connection of a notebook
    secrets,      \* notebook_secrets map: the bound secret
    status,       \* sessions map: where each session id is in its life
    owner,        \* Session.browser_connection_id
    \* the tasks of a connection
    task,         \* main task (handle_host)
    recv,         \* read task
    reply,        \* the session whose SessionCreated the read task still owes
    \* what the peers saw, and history
    holder,       \* the connection a session's token was sent to
    latest,       \* the connection registered last for a notebook
    exposed,      \* connections whose binding was forgotten before their cleanup
                  \* came to invalidate their sessions
    late          \* sessions created after their connection's cleanup took its
                  \* list of sessions to remove

wsVars   == <<hosts, secrets, status, owner>>
taskVars == <<task, recv, reply>>
vars == <<nb, secret, hosts, secrets, status, owner, task, recv, reply,
          holder, latest, exposed, late>>

TaskState == {"idle", "handshake", "claimed", "running", "closing",
              "unregistered", "ending", "forgetHosts", "forgetSessions",
              "forgetRemove", "done"}
RecvState == {"off", "loop", "reply", "ending", "gone"}
SessionStatus == {"unused", "live", "expired", "removed"}

TypeOK ==
    /\ nb \in [Conn -> Notebook]
    /\ secret \in [Conn -> Secret]
    /\ hosts \in [Notebook -> Conn \cup {NoConn}]
    /\ secrets \in [Notebook -> Secret \cup {NoSecret}]
    /\ status \in [SessionId -> SessionStatus]
    /\ owner \in [SessionId -> Conn \cup {NoConn}]
    /\ task \in [Conn -> TaskState]
    /\ recv \in [Conn -> RecvState]
    /\ reply \in [Conn -> SessionId \cup {NoSession}]
    /\ holder \in [SessionId -> Conn \cup {NoConn}]
    /\ latest \in [Notebook -> Conn \cup {NoConn}]
    /\ exposed \in SUBSET Conn
    /\ late \in SUBSET SessionId

-----------------------------------------------------------------------------
(* The maps, as their readers see them *)

Hosted(n) == hosts[n] # NoConn
Present(s) == status[s] \in {"live", "expired"}
SessionNotebook(s) == nb[owner[s]]

\* A claim was accepted for c and c has not been unregistered since: from
\* claim_host on, c counts on the binding to keep other secrets out.
Claimant(c) == task[c] \in {"claimed", "running", "closing"}

\* ... or unregistered, with its sessions not yet invalidated.
Attached(c) == Claimant(c) \/ task[c] = "unregistered"

\* The main task has taken the list of c's sessions (invalidate_by_connection).
PastInvalidate(c) ==
    task[c] \in {"ending", "forgetHosts", "forgetSessions", "forgetRemove", "done"}

Step(c, from, to) ==
    /\ task[c] = from
    /\ task' = [task EXCEPT ![c] = to]

-----------------------------------------------------------------------------
(* handle_host, up to registration *)

\* ws_host_handler: the cap exempts a notebook that is already hosted.
HostSlotAvailable(n) ==
    Hosted(n) \/ Cardinality({m \in Notebook : Hosted(m)}) < MaxHosts

Admit(c) ==
    /\ HostSlotAvailable(nb[c])
    /\ Step(c, "idle", "handshake")
    /\ UNCHANGED <<nb, secret, wsVars, recv, reply, holder, latest, exposed, late>>

Refuse(c) ==
    /\ ~HostSlotAvailable(nb[c])
    /\ Step(c, "idle", "done")
    /\ UNCHANGED <<nb, secret, wsVars, recv, reply, holder, latest, exposed, late>>

\* No ClaimHost within HANDSHAKE_TIMEOUT, a malformed first frame, or a closed
\* socket: nothing was registered, so there is nothing to clean up.
HandshakeFails(c) ==
    /\ Step(c, "handshake", "done")
    /\ UNCHANGED <<nb, secret, wsVars, recv, reply, holder, latest, exposed, late>>

\* Mutation: the bound secret is not compared.
ClaimAcceptedUnchecked(c) ==
    /\ Step(c, "handshake", "claimed")
    /\ secrets' = [secrets EXCEPT ![nb[c]] = secret[c]]
    /\ UNCHANGED <<nb, secret, hosts, status, owner, recv, reply, holder,
                   latest, exposed, late>>

\* claim_host: trust on first use, then the same secret.
ClaimAccepted(c) ==
    /\ secrets[nb[c]] \in {NoSecret, secret[c]}
    /\ Step(c, "handshake", "claimed")
    /\ secrets' = [secrets EXCEPT ![nb[c]] = secret[c]]
    /\ UNCHANGED <<nb, secret, hosts, status, owner, recv, reply, holder,
                   latest, exposed, late>>

ClaimRejected(c) ==
    /\ secrets[nb[c]] \notin {NoSecret, secret[c]}
    /\ Step(c, "handshake", "done")
    /\ UNCHANGED <<nb, secret, wsVars, recv, reply, holder, latest, exposed, late>>

\* register_host replaces an incumbent (dropping its sender), then both socket
\* tasks are spawned.
Register(c) ==
    /\ Step(c, "claimed", "running")
    /\ hosts' = [hosts EXCEPT ![nb[c]] = c]
    /\ latest' = [latest EXCEPT ![nb[c]] = c]
    /\ recv' = [recv EXCEPT ![c] = "loop"]
    /\ UNCHANGED <<nb, secret, secrets, status, owner, reply, holder, exposed, late>>

-----------------------------------------------------------------------------
(* The read task: session control frames *)

CreateSession(c, s) ==
    /\ recv[c] = "loop"
    /\ status[s] = "unused"
    /\ status' = [status EXCEPT ![s] = "live"]
    /\ owner' = [owner EXCEPT ![s] = c]
    /\ recv' = [recv EXCEPT ![c] = "reply"]
    /\ reply' = [reply EXCEPT ![c] = s]
    /\ late' = IF PastInvalidate(c) THEN late \cup {s} ELSE late
    /\ UNCHANGED <<nb, secret, hosts, secrets, task, holder, latest, exposed>>

\* Mutation: the reply goes to a host without regard to the notebook.
ReplyCreatedAnyHost(c) ==
    /\ recv[c] = "reply"
    /\ \E n \in Notebook : holder' = [holder EXCEPT ![reply[c]] = hosts[n]]
    /\ recv' = [recv EXCEPT ![c] = "loop"]
    /\ reply' = [reply EXCEPT ![c] = NoSession]
    /\ UNCHANGED <<nb, secret, wsVars, task, latest, exposed, late>>

\* SessionCreated goes to whichever connection is the notebook's host now;
\* nobody gets it when there is none (or its queue drops it).
ReplyCreated(c) ==
    /\ recv[c] = "reply"
    /\ holder' \in {holder, [holder EXCEPT ![reply[c]] = hosts[nb[c]]]}
    /\ recv' = [recv EXCEPT ![c] = "loop"]
    /\ reply' = [reply EXCEPT ![c] = NoSession]
    /\ UNCHANGED <<nb, secret, wsVars, task, latest, exposed, late>>

\* EndSession names a session id this browser knows; the record goes first, the
\* session's guests are told and dropped after ("ending").
EndSession(c, s) ==
    /\ recv[c] = "loop"
    /\ status[s] # "unused"
    /\ status' = [status EXCEPT ![s] = "removed"]
    /\ recv' = [recv EXCEPT ![c] = "ending"]
    /\ UNCHANGED <<nb, secret, hosts, secrets, owner, task, reply, holder,
                   latest, exposed, late>>

EndSessionDone(c) ==
    /\ recv[c] = "ending"
    /\ recv' = [recv EXCEPT ![c] = "loop"]
    /\ UNCHANGED <<nb, secret, wsVars, task, reply, holder, latest, exposed, late>>

\* The socket closed or went idle while the task waited for a frame.
RecvCloses(c) ==
    /\ recv[c] = "loop"
    /\ recv' = [recv EXCEPT ![c] = "gone"]
    /\ UNCHANGED <<nb, secret, wsVars, task, reply, holder, latest, exposed, late>>

\* abort() took effect at a yield point, with a frame half handled.
RecvAborted(c) ==
    /\ recv[c] \in {"reply", "ending"}
    /\ task[c] # "running"
    /\ recv' = [recv EXCEPT ![c] = "gone"]
    /\ reply' = [reply EXCEPT ![c] = NoSession]
    /\ UNCHANGED <<nb, secret, wsVars, task, holder, latest, exposed, late>>

-----------------------------------------------------------------------------
(* handle_host, from select! on: either socket task ends, then cleanup *)

\* The forwarder drained the channel of a replaced host.
SelectReplaced(c) ==
    /\ hosts[nb[c]] # c
    /\ Step(c, "running", "closing")
    /\ UNCHANGED <<nb, secret, wsVars, recv, reply, holder, latest, exposed, late>>

\* A socket write failed.
SelectSendFailed(c) ==
    /\ Step(c, "running", "closing")
    /\ UNCHANGED <<nb, secret, wsVars, recv, reply, holder, latest, exposed, late>>

SelectRecvGone(c) ==
    /\ recv[c] = "gone"
    /\ Step(c, "running", "closing")
    /\ UNCHANGED <<nb, secret, wsVars, recv, reply, holder, latest, exposed, late>>

\* Mutation: the connection id is not compared.
UnregisterAny(c) ==
    /\ Step(c, "closing", "unregistered")
    /\ hosts' = [hosts EXCEPT ![nb[c]] = NoConn]
    /\ UNCHANGED <<nb, secret, secrets, status, owner, recv, reply, holder,
                   latest, exposed, late>>

\* unregister_host: only its own entry.
Unregister(c) ==
    /\ Step(c, "closing", "unregistered")
    /\ hosts' = IF hosts[nb[c]] = c
                THEN [hosts EXCEPT ![nb[c]] = NoConn] ELSE hosts
    /\ UNCHANGED <<nb, secret, secrets, status, owner, recv, reply, holder,
                   latest, exposed, late>>

\* Mutation: a replaced host's sessions are left to the host that replaced it.
OwnedByIfNotReplaced(c) == {s \in SessionId : Present(s) /\ owner[s] = c /\ ~Hosted(nb[c])}

OwnedBy(c) == {s \in SessionId : Present(s) /\ owner[s] = c}

\* Mutation: a host without sessions skips the rest of the cleanup.
InvalidateOrReturn(c) ==
    /\ Step(c, "unregistered", IF OwnedBy(c) = {} THEN "done" ELSE "ending")
    /\ status' = [s \in SessionId |-> IF s \in OwnedBy(c) THEN "removed" ELSE status[s]]
    /\ UNCHANGED <<nb, secret, hosts, secrets, owner, recv, reply, holder,
                   latest, exposed, late>>

\* invalidate_by_connection.
Invalidate(c) ==
    /\ Step(c, "unregistered", "ending")
    /\ status' = [s \in SessionId |-> IF s \in OwnedBy(c) THEN "removed" ELSE status[s]]
    /\ UNCHANGED <<nb, secret, hosts, secrets, owner, recv, reply, holder,
                   latest, exposed, late>>

\* end_session_guests was called for each removed session.
EndingDone(c) ==
    /\ Step(c, "ending", "forgetHosts")
    /\ UNCHANGED <<nb, secret, wsVars, recv, reply, holder, latest, exposed, late>>

\* forget_secret_if_idle: three locks, one after the other.
ForgetReadHosts(c) ==
    /\ Step(c, "forgetHosts", IF Hosted(nb[c]) THEN "done" ELSE "forgetSessions")
    /\ UNCHANGED <<nb, secret, wsVars, recv, reply, holder, latest, exposed, late>>

HasLiveSession(n) ==
    \E s \in SessionId : status[s] = "live" /\ SessionNotebook(s) = n

ForgetReadSessions(c) ==
    /\ Step(c, "forgetSessions",
            IF HasLiveSession(nb[c]) THEN "done" ELSE "forgetRemove")
    /\ UNCHANGED <<nb, secret, wsVars, recv, reply, holder, latest, exposed, late>>

ForgetRemove(c) ==
    /\ Step(c, "forgetRemove", "done")
    /\ secrets' = [secrets EXCEPT ![nb[c]] = NoSecret]
    /\ exposed' = exposed \cup {d \in Conn : nb[d] = nb[c] /\ Attached(d)}
    /\ UNCHANGED <<nb, secret, hosts, status, owner, recv, reply, holder,
                   latest, late>>

-----------------------------------------------------------------------------
(* Time *)

\* expires_at passes: the record stays until the sweep.
Expire(s) ==
    /\ status[s] = "live"
    /\ status' = [status EXCEPT ![s] = "expired"]
    /\ UNCHANGED <<nb, secret, hosts, secrets, owner, taskVars, holder, latest,
                   exposed, late>>

Expired == {s \in SessionId : status[s] = "expired"}

\* sweep_expired, every five minutes.
Sweep ==
    /\ Expired # {}
    /\ status' = [s \in SessionId |-> IF s \in Expired THEN "removed" ELSE status[s]]
    /\ UNCHANGED <<nb, secret, hosts, secrets, owner, taskVars, holder, latest,
                   exposed, late>>

-----------------------------------------------------------------------------

Init ==
    /\ nb \in [Conn -> Notebook]
    /\ secret \in [Conn -> Secret]
    /\ hosts = [n \in Notebook |-> NoConn]
    /\ secrets = [n \in Notebook |-> NoSecret]
    /\ status = [s \in SessionId |-> "unused"]
    /\ owner = [s \in SessionId |-> NoConn]
    /\ task = [c \in Conn |-> "idle"]
    /\ recv = [c \in Conn |-> "off"]
    /\ reply = [c \in Conn |-> NoSession]
    /\ holder = [s \in SessionId |-> NoConn]
    /\ latest = [n \in Notebook |-> NoConn]
    /\ exposed = {}
    /\ late = {}

Handshake(c) == Admit(c) \/ Refuse(c) \/ HandshakeFails(c) \/ ClaimAccepted(c)
                \/ ClaimRejected(c) \/ Register(c)

ReadTask(c) == \/ \E s \in SessionId : CreateSession(c, s) \/ EndSession(c, s)
               \/ ReplyCreated(c) \/ EndSessionDone(c)
               \/ RecvCloses(c) \/ RecvAborted(c)

Select(c) == SelectReplaced(c) \/ SelectSendFailed(c) \/ SelectRecvGone(c)

Cleanup(c) == Unregister(c) \/ Invalidate(c) \/ EndingDone(c)
              \/ ForgetReadHosts(c) \/ ForgetReadSessions(c) \/ ForgetRemove(c)

Clock == Sweep \/ \E s \in SessionId : Expire(s)

Next == (\E c \in Conn : Handshake(c) \/ ReadTask(c) \/ Select(c) \/ Cleanup(c))
        \/ Clock

Spec == Init /\ [][Next]_vars

\* What the runtime guarantees: a spawned task is polled, so a half-handled
\* frame is finished or dropped, a finished socket task is noticed, and cleanup
\* runs to its end.  Nothing makes a peer speak, hang up or sit idle.
Fairness ==
    /\ \A c \in Conn :
         /\ WF_vars(ReplyCreated(c)) /\ WF_vars(EndSessionDone(c))
         /\ SF_vars(task[c] # "running" /\ (RecvCloses(c) \/ RecvAborted(c)))
         /\ WF_vars(SelectReplaced(c)) /\ WF_vars(SelectRecvGone(c))
         /\ WF_vars(Cleanup(c))
    /\ WF_vars(Sweep)

FairSpec == Spec /\ Fairness

-----------------------------------------------------------------------------
(* Properties *)

\* While a connection's claim stands, the notebook is bound to its secret, so a
\* claim with another secret is rejected (claim_host); the only exception is a
\* claim whose binding a racing forget_secret_if_idle took away.
BoundUnlessExposed ==
    \A c \in Conn : Claimant(c) /\ c \notin exposed => secrets[nb[c]] = secret[c]

\* A host is only ever replaced by a connection that presented the same secret,
\* unless a forget raced with one of the two claims.
EvictionNeedsSecret ==
    [][\A n \in Notebook :
         hosts[n] # NoConn /\ hosts'[n] \notin {NoConn, hosts[n]}
         => \/ secret[hosts'[n]] = secret[hosts[n]]
            \/ {hosts[n], hosts'[n]} \cap exposed # {}]_vars

\* unregister_host: the cleanup of a replaced connection never evicts the host
\* that replaced it.  The connection registered last keeps its entry until its
\* own cleanup unregisters it.
CurrentHostStays ==
    \A n \in Notebook :
        IF latest[n] # NoConn /\ task[latest[n]] \in {"running", "closing"}
        THEN hosts[n] = latest[n]
        ELSE hosts[n] = NoConn

QuietNotebook(n) ==
    /\ \A c \in Conn : nb[c] = n => task[c] \in {"idle", "handshake", "done"}
    /\ \A s \in SessionId : Present(s) => SessionNotebook(s) # n

\* forget_secret_if_idle: whatever the order in which several connections of a
\* notebook clean up, the binding is gone once the last one is, so a fresh claim
\* can take the notebook over.  (Sessions created by an aborted read task after
\* its connection was cleaned up are the exception, see IdleForgotten.)
IdleForgottenUnlessLate ==
    \A n \in Notebook :
        QuietNotebook(n) /\ (\A s \in late : SessionNotebook(s) # n)
        => secrets[n] = NoSecret

\* The token of a live session is only ever sent to a connection that presented
\* the secret of the connection that created it, although SessionCreated goes to
\* whichever connection hosts the notebook by then.
TokenStaysWithSecret ==
    \A s \in SessionId :
        status[s] = "live" /\ s \notin late /\ holder[s] # NoConn
        => \/ secret[holder[s]] = secret[owner[s]]
           \/ {holder[s], owner[s]} \cap exposed # {}

\* A replaced host drains: its channel closes, its tasks end, and the sessions it
\* owns are invalidated, although nobody told its browser.
ReplacedHostsSessionsEnd ==
    \A c \in Conn, s \in SessionId :
        (task[c] = "running" /\ hosts[nb[c]] # c /\ owner[s] = c) ~> ~Present(s)

\* "Forget a notebook's host-secret binding once it is idle - no host connection
\* AND no sessions."
IdleForgotten ==
    \A n \in Notebook : QuietNotebook(n) => secrets[n] = NoSecret

=============================================================================
