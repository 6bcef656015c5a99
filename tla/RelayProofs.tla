---------------------------- MODULE RelayProofs ------------------------------
(***************************************************************************)
(* Theorems about HostRegistry and Relay, for any connections, guests,     *)
(* notebooks, secrets, requests, sessions and capacities.                  *)
(*                                                                         *)
(* The relay implements the registry, so the registry's theorems hold of   *)
(* it; answers go to whoever asked, content to those who may read, and a   *)
(* guest is told before it is dropped.                                     *)
(***************************************************************************)
EXTENDS Relay, TLAPS

-----------------------------------------------------------------------------
(***************************************************************************)
(* The host registry.                                                      *)
(***************************************************************************)

LEMMA InitType == Init => TypeOK
BY DEF Init, TypeOK, TaskState, RecvState, SessionStatus

\* Types are preserved by every step.
LEMMA NextType == ASSUME TypeOK, [Next]_vars PROVE TypeOK'
<1> USE DEF TypeOK, TaskState, RecvState, SessionStatus, wsVars, taskVars, Step
<1>1. ASSUME NEW c \in Conn, Handshake(c) PROVE TypeOK'
  BY <1>1 DEF Handshake, Admit, Refuse, HandshakeFails, ClaimAccepted,
              ClaimRejected, Register
<1>2. ASSUME NEW c \in Conn, NEW s \in SessionId,
             CreateSession(c, s) \/ EndSession(c, s)
      PROVE TypeOK'
  BY <1>2 DEF CreateSession, EndSession
<1>3. ASSUME NEW c \in Conn, ReplyCreated(c) PROVE TypeOK'
  <2>1. hosts[nb[c]] \in Conn \cup {NoConn}
    OBVIOUS
  <2>2. holder' \in [SessionId -> Conn \cup {NoConn}]
    BY <1>3, <2>1 DEF ReplyCreated
  <2>3. QED
    BY <1>3, <2>2 DEF ReplyCreated
<1>4. ASSUME NEW c \in Conn, EndSessionDone(c) \/ RecvCloses(c) \/ RecvAborted(c)
      PROVE TypeOK'
  BY <1>4 DEF EndSessionDone, RecvCloses, RecvAborted
<1>5. ASSUME NEW c \in Conn, Select(c) PROVE TypeOK'
  BY <1>5 DEF Select, SelectReplaced, SelectSendFailed, SelectRecvGone
<1>6. ASSUME NEW c \in Conn, Cleanup(c) PROVE TypeOK'
  BY <1>6 DEF Cleanup, Unregister, Invalidate, EndingDone, ForgetReadHosts,
              ForgetReadSessions, ForgetRemove
<1>7. CASE Clock
  BY <1>7 DEF Clock, Sweep, Expire
<1>8. CASE UNCHANGED vars
  BY <1>8 DEF vars
<1>9. QED
  BY <1>1, <1>2, <1>3, <1>4, <1>5, <1>6, <1>7, <1>8 DEF Next, ReadTask

\* Every variable keeps its type: in particular the registry maps only ever
\* hold connections and secrets that some client presented.
THEOREM TypeCorrect == Spec => []TypeOK
<1>1. TypeOK /\ [Next]_vars => TypeOK'
  BY NextType
<1>2. QED
  BY InitType, <1>1, PTL DEF Spec

-----------------------------------------------------------------------------
(* The inductive invariant *)

\* A connection that is not cleaned up yet still has its binding, unless a
\* forget took it: claim_host's invariant, carried on to the point where the
\* connection's sessions are invalidated.
AttachedBound ==
    \A c \in Conn : Attached(c) /\ c \notin exposed => secrets[nb[c]] = secret[c]

LatestOwn == \A n \in Notebook : latest[n] # NoConn => nb[latest[n]] = n

\* A read task exists only once its connection was registered.
ReadAfterRegister ==
    \A c \in Conn : recv[c] # "off" => task[c] \notin {"idle", "handshake", "claimed"}

ReplyOwn ==
    \A c \in Conn : recv[c] = "reply" =>
        /\ reply[c] \in SessionId
        /\ owner[reply[c]] = c
        /\ status[reply[c]] # "unused"

\* A session that was created in time has an owner that still has to invalidate it.
TimelyOwner ==
    \A s \in SessionId :
        /\ status[s] # "unused" => owner[s] \in Conn
        /\ status[s] = "unused" => holder[s] = NoConn
        /\ s \in late => status[s] # "unused"
        /\ Present(s) /\ s \notin late
             => task[owner[s]] \in {"running", "closing", "unregistered"}

\* Why a notebook is bound: a connection that will run forget_secret_if_idle,
\* or a session that made one skip it.
BindingHasReason ==
    \A n \in Notebook : secrets[n] # NoSecret =>
        \/ \E c \in Conn : nb[c] = n /\ task[c] \notin {"idle", "handshake", "done"}
        \/ \E s \in late : SessionNotebook(s) = n

IInv ==
    /\ TypeOK
    /\ AttachedBound
    /\ LatestOwn
    /\ CurrentHostStays
    /\ ReadAfterRegister
    /\ ReplyOwn
    /\ TimelyOwner
    /\ TokenStaysWithSecret
    /\ BindingHasReason

LEMMA InitIInv == Init => IInv
BY InitType, NoConnAssumption, NoSecretAssumption
   DEF Init, IInv, AttachedBound, Attached, Claimant, LatestOwn, CurrentHostStays,
       ReadAfterRegister, ReplyOwn, TimelyOwner, Present, TokenStaysWithSecret,
       BindingHasReason

\* Every step preserves the invariant.  The conjuncts a step leaves alone follow
\* from its UNCHANGED; those it can disturb have a step of their own.
LEMMA NextIInv == ASSUME IInv, [Next]_vars PROVE IInv'
<1> USE NoConnAssumption, NoSecretAssumption, NoSessionAssumption
<1>t. TypeOK'
  BY NextType DEF IInv
<1> USE DEF IInv, TypeOK, TaskState, RecvState, SessionStatus, wsVars, taskVars, Step,
            AttachedBound, Attached, Claimant, LatestOwn, CurrentHostStays,
            ReadAfterRegister, ReplyOwn, TimelyOwner, Present, TokenStaysWithSecret,
            BindingHasReason, SessionNotebook
\* Steps before registration: no registry entry and no session names c yet.
<1>1. ASSUME NEW c \in Conn, Admit(c) \/ Refuse(c) \/ HandshakeFails(c) \/ ClaimRejected(c)
      PROVE IInv'
  <2>1. CASE Admit(c)
    BY <1>t, <2>1 DEF Admit
  <2>2. CASE Refuse(c)
    BY <1>t, <2>2 DEF Refuse
  <2>3. CASE HandshakeFails(c)
    BY <1>t, <2>3 DEF HandshakeFails
  <2>4. CASE ClaimRejected(c)
    BY <1>t, <2>4 DEF ClaimRejected
  <2>5. QED
    BY <1>1, <2>1, <2>2, <2>3, <2>4
<1>2. ASSUME NEW c \in Conn, ClaimAccepted(c) PROVE IInv'
  <2>1. ASSUME NEW d \in Conn, Attached(d), d \notin exposed, nb[d] = nb[c]
        PROVE secret[d] = secret[c]
    BY <1>2, <2>1 DEF ClaimAccepted
  <2>2. AttachedBound'
    BY <1>2, <2>1 DEF ClaimAccepted
  <2>3. BindingHasReason'
    BY <1>2 DEF ClaimAccepted
  <2>4. QED
    BY <1>t, <1>2, <2>2, <2>3 DEF ClaimAccepted
<1>3. ASSUME NEW c \in Conn, Register(c) PROVE IInv'
  <2>1. /\ LatestOwn'
        /\ CurrentHostStays'
    BY <1>3 DEF Register
  <2>2. ReadAfterRegister'
    BY <1>3 DEF Register
  <2>3. QED
    BY <1>t, <1>3, <2>1, <2>2 DEF Register
\* The read task.
<1>4. ASSUME NEW c \in Conn, NEW s \in SessionId, CreateSession(c, s) PROVE IInv'
  <2>1. task[c] \in {"running", "closing", "unregistered"} \/ PastInvalidate(c)
    BY <1>4 DEF CreateSession, PastInvalidate
  <2>2. TimelyOwner'
    BY <1>4, <2>1 DEF CreateSession, PastInvalidate
  <2>3. BindingHasReason'
    BY <1>4 DEF CreateSession
  <2>4. QED
    BY <1>t, <1>4, <2>2, <2>3 DEF CreateSession
<1>5. ASSUME NEW c \in Conn, NEW s \in SessionId, EndSession(c, s) PROVE IInv'
  BY <1>t, <1>5 DEF EndSession
<1>6. ASSUME NEW c \in Conn, ReplyCreated(c) PROVE IInv'
  <2> DEFINE s == reply[c]
             h == hosts[nb[c]]
  <2>1. /\ s \in SessionId
        /\ owner[s] = c
        /\ status[s] # "unused"
    BY <1>6 DEF ReplyCreated
  \* If the session is live in time and some host is registered, both c and the
  \* host still hold their claims, and they are claims on the same notebook.
  <2>2. ASSUME status[s] = "live", s \notin late, h # NoConn
        PROVE  \/ secret[h] = secret[c]
               \/ {h, c} \cap exposed # {}
    <3>1. Attached(c)
      BY <2>1, <2>2
    <3>2. h \in Conn /\ Attached(h) /\ nb[h] = nb[c]
      BY <2>2
    <3>3. QED
      BY <3>1, <3>2
  <2>3. TokenStaysWithSecret'
    BY <1>6, <2>1, <2>2 DEF ReplyCreated
  <2>4. QED
    BY <1>t, <1>6, <2>1, <2>3 DEF ReplyCreated
<1>7. ASSUME NEW c \in Conn, EndSessionDone(c) \/ RecvCloses(c) \/ RecvAborted(c)
      PROVE IInv'
  <2>1. CASE EndSessionDone(c)
    BY <1>t, <2>1 DEF EndSessionDone
  <2>2. CASE RecvCloses(c)
    BY <1>t, <2>2 DEF RecvCloses
  <2>3. CASE RecvAborted(c)
    BY <1>t, <2>3 DEF RecvAborted
  <2>4. QED
    BY <1>7, <2>1, <2>2, <2>3
\* Select and cleanup.
<1>8. ASSUME NEW c \in Conn, Select(c) PROVE IInv'
  BY <1>t, <1>8 DEF Select, SelectReplaced, SelectSendFailed, SelectRecvGone
<1>9. ASSUME NEW c \in Conn, Unregister(c) PROVE IInv'
  <2>1. hosts[nb[c]] = c \/ latest[nb[c]] # c
    BY <1>9 DEF Unregister
  <2>2. CurrentHostStays'
    BY <1>9, <2>1 DEF Unregister
  <2>3. QED
    BY <1>t, <1>9, <2>2 DEF Unregister
<1>10. ASSUME NEW c \in Conn, Invalidate(c) PROVE IInv'
  BY <1>t, <1>10 DEF Invalidate, OwnedBy
<1>11. ASSUME NEW c \in Conn, EndingDone(c) PROVE IInv'
  BY <1>t, <1>11 DEF EndingDone
\* A forget that stops leaves somebody behind who will forget in its place.
<1>12. ASSUME NEW c \in Conn, ForgetReadHosts(c) PROVE IInv'
  <2>1. CASE Hosted(nb[c])
    <3>1. PICK d \in Conn : nb[d] = nb[c] /\ task[d] \in {"running", "closing"}
      BY <2>1 DEF Hosted
    <3>2. BindingHasReason'
      BY <1>12, <3>1 DEF ForgetReadHosts
    <3>3. QED
      BY <1>t, <1>12, <3>2 DEF ForgetReadHosts
  <2>2. CASE ~Hosted(nb[c])
    BY <1>t, <1>12, <2>2 DEF ForgetReadHosts
  <2>3. QED
    BY <2>1, <2>2
<1>13. ASSUME NEW c \in Conn, ForgetReadSessions(c) PROVE IInv'
  <2>1. CASE HasLiveSession(nb[c])
    <3>1. PICK s \in SessionId : status[s] = "live" /\ nb[owner[s]] = nb[c]
      BY <2>1 DEF HasLiveSession
    <3>2. BindingHasReason'
      BY <1>13, <3>1 DEF ForgetReadSessions
    <3>3. QED
      BY <1>t, <1>13, <3>2 DEF ForgetReadSessions
  <2>2. CASE ~HasLiveSession(nb[c])
    BY <1>t, <1>13, <2>2 DEF ForgetReadSessions
  <2>3. QED
    BY <2>1, <2>2
<1>14. ASSUME NEW c \in Conn, ForgetRemove(c) PROVE IInv'
  <2>1. AttachedBound'
    BY <1>14 DEF ForgetRemove
  <2>2. TokenStaysWithSecret'
    BY <1>14 DEF ForgetRemove
  <2>3. BindingHasReason'
    BY <1>14 DEF ForgetRemove
  <2>4. QED
    BY <1>t, <1>14, <2>1, <2>2, <2>3 DEF ForgetRemove
\* Time.
<1>15. ASSUME NEW s \in SessionId, Expire(s) PROVE IInv'
  BY <1>t, <1>15 DEF Expire
<1>16. CASE Sweep
  BY <1>t, <1>16 DEF Sweep, Expired
<1>17. CASE UNCHANGED vars
  BY <1>t, <1>17 DEF vars
<1>18. QED
  BY <1>1, <1>2, <1>3, <1>4, <1>5, <1>6, <1>7, <1>8, <1>9, <1>10, <1>11, <1>12,
     <1>13, <1>14, <1>15, <1>16, <1>17
     DEF Next, Handshake, ReadTask, Cleanup, Clock

LEMMA Inductive == Spec => []IInv
<1>1. IInv /\ [Next]_vars => IInv'
  BY NextIInv
<1>2. QED
  BY InitIInv, <1>1, PTL DEF Spec

-----------------------------------------------------------------------------
(* What follows from it *)

\* While a connection's claim stands and no forget took its binding, the notebook
\* is bound to its secret: claim_host rejects every other secret.
THEOREM HostSecretSafe == Spec => []BoundUnlessExposed
<1>1. IInv => BoundUnlessExposed
  BY DEF IInv, AttachedBound, Attached, BoundUnlessExposed
<1>2. QED
  BY Inductive, <1>1, PTL

\* The host registered last stays until its own cleanup: unregister_host called
\* by a replaced connection changes nothing.
THEOREM CurrentHostSafe == Spec => []CurrentHostStays
<1>1. IInv => CurrentHostStays
  BY DEF IInv
<1>2. QED
  BY Inductive, <1>1, PTL

\* Only a connection with the incumbent's secret replaces it, unless a forget
\* raced with one of the two claims.
THEOREM EvictionSafe == Spec => EvictionNeedsSecret
<1> DEFINE Evict(n) ==
      hosts[n] # NoConn /\ hosts'[n] \notin {NoConn, hosts[n]}
        => \/ secret[hosts'[n]] = secret[hosts[n]]
           \/ {hosts[n], hosts'[n]} \cap exposed # {}
<1>1. IInv /\ [Next]_vars => [\A n \in Notebook : Evict(n)]_vars
  <2> SUFFICES ASSUME IInv, Next, NEW n \in Notebook,
                      hosts[n] # NoConn, hosts'[n] \notin {NoConn, hosts[n]}
               PROVE  \/ secret[hosts'[n]] = secret[hosts[n]]
                      \/ {hosts[n], hosts'[n]} \cap exposed # {}
    OBVIOUS
  <2> USE NoConnAssumption DEF IInv, TypeOK
  \* Registration is the only step that writes another connection.
  <2>1. PICK c \in Conn : Register(c) /\ nb[c] = n /\ hosts'[n] = c
    <3>1. ASSUME NEW c \in Conn, Register(c) PROVE nb[c] = n /\ hosts'[n] = c
      BY <3>1 DEF Register
    <3>2. ASSUME NEW c \in Conn, Unregister(c) PROVE FALSE
      BY <3>2 DEF Unregister
    <3>3. CASE hosts' = hosts
      BY <3>3
    <3>4. QED
      BY <3>1, <3>2, <3>3
         DEF Next, Handshake, Admit, Refuse, HandshakeFails, ClaimAccepted,
             ClaimRejected, ReadTask, CreateSession, EndSession, ReplyCreated,
             EndSessionDone, RecvCloses, RecvAborted, Select, SelectReplaced,
             SelectSendFailed, SelectRecvGone, Cleanup, Invalidate, EndingDone,
             ForgetReadHosts, ForgetReadSessions, ForgetRemove, Clock, Expire,
             Sweep, wsVars
  <2>2. Claimant(c) /\ Claimant(hosts[n]) /\ hosts[n] \in Conn /\ nb[hosts[n]] = n
    BY <2>1 DEF Register, Step, Claimant, CurrentHostStays, LatestOwn
  <2>3. QED
    BY <2>1, <2>2 DEF AttachedBound, Attached
<1>2. QED
  BY Inductive, <1>1, PTL DEF Spec, EvictionNeedsSecret

\* The token of a live session stays with the secret of the connection that
\* created it, although it is sent to whichever connection hosts the notebook.
THEOREM TokenSafe == Spec => []TokenStaysWithSecret
<1>1. IInv => TokenStaysWithSecret
  BY DEF IInv
<1>2. QED
  BY Inductive, <1>1, PTL

\* However the cleanups of a notebook's connections interleave, its binding is
\* gone once they are over, unless an aborted read task left a session behind.
THEOREM IdleForgottenSafe == Spec => []IdleForgottenUnlessLate
<1>1. IInv => IdleForgottenUnlessLate
  BY DEF IInv, BindingHasReason, IdleForgottenUnlessLate, QuietNotebook
<1>2. QED
  BY Inductive, <1>1, PTL

-----------------------------------------------------------------------------
(***************************************************************************)
(* Who changes what.  Each lemma names the steps that may change a part of *)
(* the state; all the others leave it alone.                               *)
(***************************************************************************)

\* The steps of the registry itself.
RegistryStep ==
    \/ \E c \in Conn : \/ R_Handshake(c) \/ R_ReplyCreated(c) \/ R_EndSessionDone(c)
                       \/ R_RecvCloses(c) \/ R_RecvAborted(c)
                       \/ R_SelectReplaced(c) \/ R_SelectSendFailed(c) \/ R_SelectRecvGone(c)
                       \/ R_Unregister(c) \/ R_Invalidate(c) \/ R_EndingDone(c) \/ R_Forget(c)
                       \/ \E s \in SessionId : R_CreateSession(c, s) \/ R_EndSession(c, s)
    \/ \E s \in SessionId : R_Expire(s)
    \/ R_Sweep

\* What a connection's jobs and its browser do.
JobStep(c) == HostForward(c) \/ HostFrames(c) \/ RunJob(c) \/ JobAborted(c)

\* What ends a session's guests.
EndStep(e) == Tell(e) \/ Drop(e)

LEMMA Steps ==
    RelayNext <=> \/ RegistryStep
                  \/ \E c \in Conn : JobStep(c)
                  \/ \E g \in Guest : GuestStep(g)
                  \/ \E e \in Ender : EndStep(e)
BY DEF RelayNext, RegistryStep, JobStep, EndStep, HostStep

LEMMA RegistrySteps ==
    ASSUME RegistryStep
    PROVE  Next
BY DEF RegistryStep, Next, Handshake, ReadTask, Select, Cleanup, Clock, R_Handshake, R_ReplyCreated,
       R_EndSessionDone, R_RecvCloses, R_RecvAborted, R_SelectReplaced, R_SelectSendFailed, R_SelectRecvGone,
       R_Unregister, R_Invalidate, R_EndingDone, R_Forget, R_CreateSession, R_EndSession, R_Expire, R_Sweep

LEMMA GuestsLeaveRegistry ==
    ASSUME NEW g \in Guest, GuestStep(g)
    PROVE  UNCHANGED vars
BY DEF GuestStep, GuestConnects, ValidateToken, GuestAdmit, RegisterGuest, NotifyConnected, GuestForward,
       SelectGuestDropped, SelectGuestSocket, SelectGuestRecv, GuestSends, GuestFrame, GuestError, TrackQuery,
       SendToHost, Untrack, GuestRecvEnds, GuestCleanup, UnlistGuest, PurgePending, NotifyDisconnected

LEMMA JobsLeaveRegistry ==
    ASSUME NEW c \in Conn, JobStep(c)
    PROVE  UNCHANGED vars \/ JobAborted(c)
BY DEF JobStep, HostForward, HostFrames, HostAcks, HostResponds, HostEdits, StartJob,
       RunJob, JobResolve, JobList, JobCast, JobCheck, JobSend

LEMMA EndsLeaveRegistry ==
    ASSUME NEW e \in Ender, EndStep(e)
    PROVE  UNCHANGED vars
BY DEF EndStep, Tell, Drop

-----------------------------------------------------------------------------
(***************************************************************************)
(* The relay implements the registry.                                      *)
(***************************************************************************)

\* A read task with a frame in hand is in its loop.
JobInLoop == \A c \in Conn : job[c] # NoJob => recv[c] = "loop"

LEMMA AbortCloses ==
    ASSUME JobInLoop, NEW c \in Conn, JobAborted(c)
    PROVE  RecvCloses(c)
BY DEF JobInLoop, JobAborted, RecvCloses

LEMMA Implements ==
    ASSUME JobInLoop, [RelayNext]_allVars
    PROVE  [Next]_vars
<1>1. CASE UNCHANGED allVars
  BY <1>1 DEF allVars
<1>2. CASE RegistryStep
  BY <1>2, RegistrySteps
<1>3. ASSUME NEW c \in Conn, JobStep(c) PROVE [Next]_vars
  BY <1>3, JobsLeaveRegistry, AbortCloses DEF Next, ReadTask
<1>4. ASSUME NEW g \in Guest, GuestStep(g) PROVE [Next]_vars
  BY <1>4, GuestsLeaveRegistry
<1>5. ASSUME NEW e \in Ender, EndStep(e) PROVE [Next]_vars
  BY <1>5, EndsLeaveRegistry
<1>6. QED
  BY <1>1, <1>2, <1>3, <1>4, <1>5, Steps

-----------------------------------------------------------------------------
(***************************************************************************)
(* Types.                                                                  *)
(***************************************************************************)

TablesTyped ==
    /\ perm \in [SessionId -> Perms \cup {{}}]
    /\ guests \in [SessionId -> SUBSET Guest]
    /\ pending \in [MsgId -> Guest \cup {NoGuest}]

GuestsTyped ==
    /\ gsess \in [Guest -> SessionId \cup {NoSession}]
    /\ gtask \in [Guest -> {"idle", "validated", "upgraded", "registered",
                            "running", "closing", "unlisted", "purged", "done"}]
    /\ grecv \in [Guest -> {"off", "loop", "deny", "track", "send", "full",
                            "gone", "report", "ended"}]
    /\ gframe \in [Guest -> MsgId \cup {NoMsg}]

ChanTyped ==
    /\ chan \in [Guest -> Seq(GuestMsg)]
    /\ \A g \in Guest : Len(chan[g]) <= ChanCap

HostTyped ==
    /\ hchan \in [Conn -> Seq(MsgId \cup {NoMsg})]
    /\ \A c \in Conn : Len(hchan[c]) <= ChanCap

JobTyped ==
    /\ taken \in [Conn -> SUBSET MsgId]
    /\ job \in [Conn -> Job]

EndsTyped ==
    /\ todo \in [Ender -> SUBSET SessionId]
    /\ told \in [Ender -> SessionId \cup {NoSession}]

HistoryTyped ==
    /\ kind \in [MsgId -> {"mutation", "query"}]
    /\ sender \in [MsgId -> Guest \cup {NoGuest}]
    /\ notice \in SUBSET Guest
    /\ lateGuests \in SUBSET Guest

LEMMA TypeParts ==
    RelayTypeOK <=> /\ TypeOK /\ TablesTyped /\ GuestsTyped /\ ChanTyped /\ HostTyped
                    /\ JobTyped /\ EndsTyped /\ HistoryTyped
BY DEF RelayTypeOK, TablesTyped, GuestsTyped, ChanTyped, HostTyped, JobTyped, EndsTyped, HistoryTyped

LEMMA TypePartsNext ==
    ASSUME TypeOK', TablesTyped', GuestsTyped', ChanTyped', HostTyped', JobTyped', EndsTyped', HistoryTyped'
    PROVE  RelayTypeOK'
BY DEF RelayTypeOK, TablesTyped, GuestsTyped, ChanTyped, HostTyped, JobTyped, EndsTyped, HistoryTyped

\* What a step leaves alone keeps its type.
LEMMA TypeKept ==
    ASSUME RelayTypeOK
    PROVE  /\ UNCHANGED tables => TablesTyped'
           /\ UNCHANGED guestTasks => GuestsTyped'
           /\ UNCHANGED chan => ChanTyped'
           /\ UNCHANGED hchan => HostTyped'
           /\ UNCHANGED <<taken, job>> => JobTyped'
           /\ UNCHANGED ends => EndsTyped'
           /\ UNCHANGED history => HistoryTyped'
<1>1. UNCHANGED tables => TablesTyped'
  BY TypeParts DEF tables, TablesTyped
<1>2. UNCHANGED guestTasks => GuestsTyped'
  BY TypeParts DEF guestTasks, GuestsTyped
<1>3. UNCHANGED chan => ChanTyped'
  BY TypeParts DEF ChanTyped
<1>4. UNCHANGED hchan => HostTyped'
  BY TypeParts DEF HostTyped
<1>5. UNCHANGED <<taken, job>> => JobTyped'
  BY TypeParts DEF JobTyped
<1>6. UNCHANGED ends => EndsTyped'
  BY TypeParts DEF ends, EndsTyped
<1>7. UNCHANGED history => HistoryTyped'
  BY TypeParts DEF history, HistoryTyped
<1>8. QED
  BY <1>1, <1>2, <1>3, <1>4, <1>5, <1>6, <1>7

\* What is appended to a channel with room keeps its type and its capacity.
LEMMA EnqueueTyped ==
    ASSUME TypeOK, HostTyped, NEW n \in Notebook, NEW m \in MsgId \cup {NoMsg}, HostTakes(n), Enqueue(n, m)
    PROVE  HostTyped'
<1>1. hosts[n] \in Conn
  BY NoConnAssumption DEF HostTakes, Hosted, TypeOK
<1>2. /\ hchan[hosts[n]] \in Seq(MsgId \cup {NoMsg}) /\ Len(hchan[hosts[n]]) < ChanCap
      /\ hchan' = [hchan EXCEPT ![hosts[n]] = Append(hchan[hosts[n]], m)]
  BY <1>1 DEF HostTyped, HostTakes, Enqueue
<1>3. /\ Append(hchan[hosts[n]], m) \in Seq(MsgId \cup {NoMsg})
      /\ Len(Append(hchan[hosts[n]], m)) <= ChanCap
  BY <1>2, GuestCapAssumption
<1>4. QED
  BY <1>1, <1>2, <1>3 DEF HostTyped

LEMMA NotifyTyped ==
    ASSUME TypeOK, HostTyped, NEW n \in Notebook, NotifyHost(n)
    PROVE  HostTyped'
<1>1. CASE HostTakes(n) /\ Enqueue(n, NoMsg)
  BY <1>1, EnqueueTyped
<1>2. CASE hchan' = hchan
  BY <1>2 DEF HostTyped
<1>3. QED
  BY <1>1, <1>2 DEF NotifyHost

LEMMA SendTyped ==
    ASSUME ChanTyped, NEW G, NEW m \in GuestMsg, SendToGuests(G, m)
    PROVE  ChanTyped'
<1>1. ASSUME NEW g \in Guest
      PROVE  chan'[g] \in Seq(GuestMsg) /\ Len(chan'[g]) <= ChanCap
  <2>1. chan[g] \in Seq(GuestMsg) /\ Len(chan[g]) <= ChanCap
    BY DEF ChanTyped
  <2>2. Len(chan[g]) < ChanCap => /\ Append(chan[g], m) \in Seq(GuestMsg)
                                  /\ Len(Append(chan[g], m)) <= ChanCap
    BY <2>1, GuestCapAssumption
  <2>3. chan'[g] = chan[g] \/ (Len(chan[g]) < ChanCap /\ chan'[g] = Append(chan[g], m))
    BY DEF SendToGuests
  <2>4. QED
    BY <2>1, <2>2, <2>3
<1>2. chan' = [g \in Guest |-> chan'[g]]
  BY DEF SendToGuests
<1>3. QED
  BY <1>1, <1>2 DEF ChanTyped

-----------------------------------------------------------------------------
(***************************************************************************)
(* The inductive invariant.                                                *)
(***************************************************************************)

HostOwn == \A n \in Notebook : Hosted(n) => nb[hosts[n]] = n

\* A guest is listed under the session its token was validated for, which exists.
GuestsSound ==
    \A g \in Guest :
        /\ gtask[g] = "idle" => gsess[g] = NoSession
        /\ gsess[g] = NoSession => gtask[g] \in {"idle", "done"} /\ grecv[g] = "off"
        /\ gsess[g] # NoSession => status[gsess[g]] # "unused"
        /\ \A s \in SessionId : g \in guests[s] => gsess[g] = s

\* A read task handles a request of its own guest, past the check one that the
\* guest's session grants.
FramesSound ==
    \A g \in Guest : grecv[g] \notin {"off", "loop", "ended"} =>
        /\ gframe[g] \in MsgId
        /\ sender[gframe[g]] = g
        /\ grecv[g] # "deny" => Allowed(g, gframe[g])

SendersSound == \A m \in MsgId : sender[m] # NoGuest => gsess[sender[m]] # NoSession

PendingSound == \A m \in MsgId : pending[m] \in {NoGuest, sender[m]}

\* The request m was sent by a guest of c's notebook whose session grants it.
ForHost(m, c) ==
    /\ m \in MsgId
    /\ sender[m] # NoGuest
    /\ Allowed(sender[m], m)
    /\ GuestNotebook(sender[m]) = nb[c]

QueuesSound == \A c \in Conn : \A i \in DOMAIN hchan[c] : hchan[c][i] # NoMsg => ForHost(hchan[c][i], c)

TakenSound == \A c \in Conn : \A m \in taken[c] : ForHost(m, c)

\* What the read task of c holds, step by step.  The sessions of a broadcast
\* include the origin's as long as that can be read.
JobFits(j, c) ==
    /\ j.step # "none" => j.type \in {"event", "response"}
    /\ j.id # NoMsg => ForHost(j.id, c)
    /\ j.id # NoMsg /\ j.type = "event" => kind[j.id] = "mutation"
    /\ j.step = "resolve" => j.id # NoMsg
    /\ j.step \in {"list", "cast", "check"} => j.type = "event"
    /\ j.origin # NoGuest => j.id # NoMsg /\ j.origin = sender[j.id]
    /\ j.step \in {"check", "send"} => j.origin # NoGuest
    /\ \A s \in j.sids : status[s] # "unused" /\ "read" \in perm[s]
    /\ /\ j.step \in {"cast", "check"}
       /\ j.origin # NoGuest
       /\ status[gsess[j.origin]] = "live"
       /\ "read" \in perm[gsess[j.origin]]
       => gsess[j.origin] \in j.sids

JobsSound == \A c \in Conn : JobFits(job[c], c)

\* What may be on the channel of the guest g.
MsgFits(m, g) ==
    /\ gsess[g] # NoSession
    /\ m.type \in {"response", "denied", "nohost"} => m.id # NoMsg /\ sender[m.id] = g
    /\ m.type \in {"event", "response"} /\ "read" \notin perm[gsess[g]] =>
          m.id # NoMsg /\ sender[m.id] = g /\ kind[m.id] = "mutation"

ChansSound == \A g \in Guest : \A i \in DOMAIN chan[g] : MsgFits(chan[g][i], g)

\* Only removed sessions are ended; the guests of the one that was told know, or
\* came too late to be told.
EndsSound ==
    \A e \in Ender :
        /\ \A s \in todo[e] : status[s] = "removed"
        /\ told[e] # NoSession => /\ status[told[e]] = "removed"
                                  /\ guests[told[e]] \subseteq notice \cup lateGuests

RInv ==
    /\ IInv /\ RelayTypeOK /\ JobInLoop /\ HostOwn
    /\ GuestsSound /\ FramesSound /\ SendersSound /\ PendingSound
    /\ QueuesSound /\ TakenSound /\ JobsSound /\ ChansSound /\ EndsSound

-----------------------------------------------------------------------------
-----------------------------------------------------------------------------
(***************************************************************************)
(* What never changes once it is there.                                    *)
(***************************************************************************)

Stable ==
    /\ nb' = nb /\ kind' = kind
    /\ \A s \in SessionId : status[s] # "unused" =>
          /\ status'[s] # "unused" /\ perm'[s] = perm[s] /\ owner'[s] = owner[s]
          /\ status'[s] = "live" => status[s] = "live"
          /\ status[s] = "removed" => status'[s] = "removed"
    /\ \A g \in Guest : gsess[g] # NoSession => gsess'[g] = gsess[g]
    /\ \A m \in MsgId : sender[m] # NoGuest => sender'[m] = sender[m]
    /\ notice \subseteq notice' /\ lateGuests \subseteq lateGuests'

\* The records of the session store, under every step of the registry.
LEMMA StoreStable ==
    ASSUME TypeOK, [Next]_vars
    PROVE  /\ nb' = nb
           /\ \A s \in SessionId : status[s] # "unused" =>
                 /\ status'[s] # "unused" /\ owner'[s] = owner[s]
                 /\ status'[s] = "live" => status[s] = "live"
                 /\ status[s] = "removed" => status'[s] = "removed"
<1>1. ASSUME NEW c \in Conn, NEW t \in SessionId, CreateSession(c, t)
      PROVE  /\ nb' = nb
             /\ \A s \in SessionId : status[s] # "unused" => status'[s] = status[s] /\ owner'[s] = owner[s]
  BY <1>1 DEF CreateSession, TypeOK
<1>2. ASSUME nb' = nb, owner' = owner, NEW S,
             status' = [s \in SessionId |-> IF s \in S THEN "removed" ELSE status[s]]
      PROVE  /\ \A s \in SessionId : status[s] # "unused" =>
                   /\ status'[s] # "unused" /\ owner'[s] = owner[s]
                   /\ status'[s] = "live" => status[s] = "live"
                   /\ status[s] = "removed" => status'[s] = "removed"
  BY <1>2
<1>3. ASSUME NEW c \in Conn, Invalidate(c) PROVE nb' = nb /\ owner' = owner
  BY <1>3 DEF Invalidate
<1>4. CASE Sweep
  BY <1>2, <1>4 DEF Sweep
<1>5. ASSUME NEW c \in Conn, NEW t \in SessionId, EndSession(c, t)
      PROVE  /\ nb' = nb /\ owner' = owner
             /\ \A s \in SessionId : status'[s] = status[s] \/ (status'[s] = "removed" /\ status[s] # "unused")
  BY <1>5 DEF EndSession, TypeOK
<1>6. ASSUME NEW t \in SessionId, Expire(t)
      PROVE  /\ nb' = nb /\ owner' = owner
             /\ \A s \in SessionId : status'[s] = status[s] \/ (status'[s] = "expired" /\ status[s] = "live")
  BY <1>6 DEF Expire, TypeOK
<1>7. ASSUME NEW c \in Conn, Invalidate(c)
      PROVE  status' = [s \in SessionId |-> IF s \in OwnedBy(c) THEN "removed" ELSE status[s]]
  BY <1>7 DEF Invalidate
<1>8. CASE nb' = nb /\ owner' = owner /\ status' = status
  BY <1>8
<1>9. QED
  <2>1. CASE \E c \in Conn : \/ Handshake(c) \/ Select(c) \/ ReplyCreated(c) \/ EndSessionDone(c)
                             \/ RecvCloses(c) \/ RecvAborted(c) \/ Unregister(c) \/ EndingDone(c)
                             \/ ForgetReadHosts(c) \/ ForgetReadSessions(c) \/ ForgetRemove(c)
    BY <1>8, <2>1
       DEF Handshake, Admit, Refuse, HandshakeFails, ClaimAccepted, ClaimRejected, Register, ReplyCreated,
           EndSessionDone, RecvCloses, RecvAborted, Select, SelectReplaced, SelectSendFailed, SelectRecvGone,
           Unregister, EndingDone, ForgetReadHosts, ForgetReadSessions, ForgetRemove, wsVars
  <2>2. CASE UNCHANGED vars
    BY <1>8, <2>2 DEF vars, wsVars
  <2>3. ASSUME NEW c \in Conn, Invalidate(c)
        PROVE  \A s \in SessionId : status[s] # "unused" =>
                   /\ status'[s] # "unused" /\ owner'[s] = owner[s]
                   /\ status'[s] = "live" => status[s] = "live"
                   /\ status[s] = "removed" => status'[s] = "removed"
    BY <1>2, <1>3, <1>7, <2>3
  <2>4. ASSUME NEW c \in Conn, NEW t \in SessionId, CreateSession(c, t) \/ EndSession(c, t)
        PROVE  /\ nb' = nb
               /\ \A s \in SessionId : status[s] # "unused" =>
                   /\ status'[s] # "unused" /\ owner'[s] = owner[s]
                   /\ status'[s] = "live" => status[s] = "live"
                   /\ status[s] = "removed" => status'[s] = "removed"
    BY <1>1, <1>5, <2>4
  <2>5. ASSUME NEW t \in SessionId, Expire(t)
        PROVE  /\ nb' = nb
               /\ \A s \in SessionId : status[s] # "unused" =>
                   /\ status'[s] # "unused" /\ owner'[s] = owner[s]
                   /\ status'[s] = "live" => status[s] = "live"
                   /\ status[s] = "removed" => status'[s] = "removed"
    BY <1>6, <2>5
  <2>6. QED
    BY <1>3, <1>4, <2>1, <2>2, <2>3, <2>4, <2>5 DEF Next, ReadTask, Cleanup, Clock

\* Permissions are given when the session is created.
LEMMA PermStable ==
    ASSUME RelayTypeOK, RelayNext
    PROVE  \A s \in SessionId : status[s] # "unused" => perm'[s] = perm[s]
<1>1. perm \in [SessionId -> Perms \cup {{}}]
  BY TypeParts DEF TablesTyped
<1>2. ASSUME NEW c \in Conn, NEW t \in SessionId, R_CreateSession(c, t)
      PROVE  \A s \in SessionId : status[s] # "unused" => perm'[s] = perm[s]
  BY <1>1, <1>2 DEF R_CreateSession, CreateSession
<1>3. ASSUME RegistryStep, ~ \E c \in Conn, t \in SessionId : R_CreateSession(c, t) PROVE perm' = perm
  BY <1>3 DEF RegistryStep, R_Handshake, R_ReplyCreated, R_EndSessionDone, R_RecvCloses, R_RecvAborted,
              R_SelectReplaced, R_SelectSendFailed, R_SelectRecvGone, R_Unregister, R_Invalidate, R_EndingDone,
              R_Forget, R_EndSession, R_Expire, R_Sweep, guestVars, tables
<1>4. ASSUME NEW c \in Conn, JobStep(c) PROVE perm' = perm
  BY <1>4 DEF JobStep, HostForward, HostFrames, HostAcks, HostResponds, HostEdits, StartJob,
              RunJob, JobResolve, JobList, JobCast, JobCheck, JobSend, JobAborted, tables
<1>5. ASSUME NEW g \in Guest, GuestStep(g) PROVE perm' = perm
  BY <1>5 DEF GuestStep, GuestConnects, ValidateToken, GuestAdmit, RegisterGuest, NotifyConnected, GuestForward,
       SelectGuestDropped, SelectGuestSocket, SelectGuestRecv, GuestSends, GuestFrame, GuestError, TrackQuery,
       SendToHost, Untrack, GuestRecvEnds, GuestCleanup, UnlistGuest, PurgePending, NotifyDisconnected, tables
<1>6. ASSUME NEW e \in Ender, EndStep(e) PROVE perm' = perm
  BY <1>6 DEF EndStep, Tell, Drop, tables
<1>7. QED
  BY <1>2, <1>3, <1>4, <1>5, <1>6, Steps

\* So are the guests' sessions, the senders and what was noticed.
LEMMA HistoryStable ==
    ASSUME RelayTypeOK, GuestsSound, RelayNext
    PROVE  /\ kind' = kind
           /\ \A g \in Guest : gsess[g] # NoSession => gsess'[g] = gsess[g]
           /\ \A m \in MsgId : sender[m] # NoGuest => sender'[m] = sender[m]
           /\ notice \subseteq notice' /\ lateGuests \subseteq lateGuests'
<1>0. /\ gsess \in [Guest -> SessionId \cup {NoSession}]
      /\ sender \in [MsgId -> Guest \cup {NoGuest}]
  BY TypeParts DEF GuestsTyped, HistoryTyped
<1>1. CASE UNCHANGED <<gsess, history>>
  BY <1>1 DEF history
<1>2. CASE RegistryStep
  BY <1>1, <1>2 DEF RegistryStep, R_Handshake, R_ReplyCreated, R_EndSessionDone, R_RecvCloses, R_RecvAborted,
              R_SelectReplaced, R_SelectSendFailed, R_SelectRecvGone, R_Unregister, R_Invalidate, R_EndingDone,
              R_Forget, R_CreateSession, R_EndSession, R_Expire, R_Sweep, guestVars, guestTasks
<1>3. ASSUME NEW c \in Conn, JobStep(c) PROVE UNCHANGED <<gsess, history>>
  BY <1>3 DEF JobStep, HostForward, HostFrames, HostAcks, HostResponds, HostEdits, StartJob,
              RunJob, JobResolve, JobList, JobCast, JobCheck, JobSend, JobAborted, guestTasks
<1>4. ASSUME NEW e \in Ender, EndStep(e)
      PROVE  /\ gsess' = gsess /\ kind' = kind /\ sender' = sender
             /\ notice \subseteq notice' /\ lateGuests' = lateGuests
  BY <1>4 DEF EndStep, Tell, Drop, guestTasks, history
<1>5. ASSUME NEW g \in Guest, NEW s \in SessionId, ValidateToken(g, s)
      PROVE  UNCHANGED history /\ \A h \in Guest : gsess[h] # NoSession => gsess'[h] = gsess[h]
  BY <1>0, <1>5 DEF ValidateToken, GStep, GuestsSound
<1>6. ASSUME NEW g \in Guest, RegisterGuest(g)
      PROVE  /\ gsess' = gsess /\ kind' = kind /\ sender' = sender
             /\ notice' = notice /\ lateGuests \subseteq lateGuests'
  BY <1>6 DEF RegisterGuest
<1>7. ASSUME NEW g \in Guest, NEW m \in MsgId, GuestSends(g, m)
      PROVE  /\ gsess' = gsess /\ kind' = kind /\ notice' = notice /\ lateGuests' = lateGuests
             /\ \A k \in MsgId : sender[k] # NoGuest => sender'[k] = sender[k]
  BY <1>0, <1>7 DEF GuestSends
<1>8. ASSUME NEW g \in Guest, GuestStep(g), ~ (\E s \in SessionId : ValidateToken(g, s)), ~ RegisterGuest(g),
             ~ (\E m \in MsgId : GuestSends(g, m))
      PROVE  UNCHANGED <<gsess, history>>
  BY <1>8 DEF GuestStep, GuestConnects, GuestAdmit, NotifyConnected, GuestForward,
       SelectGuestDropped, SelectGuestSocket, SelectGuestRecv, GuestFrame, GuestError, TrackQuery,
       SendToHost, Untrack, GuestRecvEnds, GuestCleanup, UnlistGuest, PurgePending, NotifyDisconnected, guestTasks
<1>9. ASSUME NEW g \in Guest, GuestStep(g)
      PROVE  /\ kind' = kind
             /\ \A h \in Guest : gsess[h] # NoSession => gsess'[h] = gsess[h]
             /\ \A m \in MsgId : sender[m] # NoGuest => sender'[m] = sender[m]
             /\ notice \subseteq notice' /\ lateGuests \subseteq lateGuests'
  BY <1>1, <1>5, <1>6, <1>7, <1>8, <1>9 DEF history
<1>10. QED
  BY <1>1, <1>2, <1>3, <1>4, <1>9, Steps

LEMMA StableStep ==
    ASSUME RInv, RelayNext
    PROVE  Stable
<1>1. [Next]_vars /\ TypeOK /\ RelayTypeOK /\ GuestsSound
  BY Implements, TypeParts DEF RInv
<1>2. QED
  BY <1>1, StoreStable, PermStable, HistoryStable DEF Stable

LEMMA RegistryTyped ==
    ASSUME RelayTypeOK, RegistryStep
    PROVE  RelayTypeOK'
<1>0. TypeOK /\ TablesTyped /\ EndsTyped /\ HostTyped
  BY TypeParts
<1>1. TypeOK'
  BY <1>0, NextType, RegistrySteps
<1>2. ASSUME UNCHANGED guestVars PROVE RelayTypeOK'
  BY <1>1, <1>2, TypeKept, TypePartsNext DEF guestVars, hostSide
<1>3. ASSUME NEW c \in Conn, NEW s \in SessionId, R_CreateSession(c, s) PROVE RelayTypeOK'
  <2>1. TablesTyped'
    BY <1>0, <1>3 DEF R_CreateSession, TablesTyped
  <2>2. QED
    BY <1>1, <1>3, <2>1, TypeKept, TypePartsNext DEF R_CreateSession, hostSide
<1>4. ASSUME NEW c \in Conn, R_ReplyCreated(c) PROVE RelayTypeOK'
  <2>1. nb[c] \in Notebook
    BY <1>0 DEF TypeOK
  <2>2. CASE hchan' = hchan
    BY <1>1, <1>4, <2>2, TypeKept, TypePartsNext DEF R_ReplyCreated
  <2>3. CASE HostTakes(nb[c]) /\ Enqueue(nb[c], NoMsg)
    <3>1. HostTyped'
      BY <1>0, <2>1, <2>3, EnqueueTyped
    <3>2. QED
      BY <1>1, <1>4, <3>1, TypeKept, TypePartsNext DEF R_ReplyCreated
  <2>4. QED
    BY <1>4, <2>2, <2>3 DEF R_ReplyCreated
<1>5. ASSUME EndsTyped', UNCHANGED <<tables, guestTasks, hostSide, history, chan>> PROVE RelayTypeOK'
  BY <1>1, <1>5, TypeKept, TypePartsNext DEF hostSide
<1>6. ASSUME NEW c \in Conn, NEW s \in SessionId, R_EndSession(c, s) PROVE RelayTypeOK'
  <2>1. EndsTyped'
    BY <1>0, <1>6 DEF R_EndSession, EndsTyped
  <2>2. QED
    BY <1>5, <1>6, <2>1 DEF R_EndSession
<1>7. ASSUME NEW c \in Conn, R_RecvAborted(c) \/ R_Invalidate(c) PROVE RelayTypeOK'
  <2>1. EndsTyped'
    BY <1>0, <1>7 DEF R_RecvAborted, R_Invalidate, EndsTyped, OwnedBy
  <2>2. QED
    BY <1>5, <1>7, <2>1 DEF R_RecvAborted, R_Invalidate
<1>8. CASE R_Sweep
  <2>1. EndsTyped'
    BY <1>0, <1>8 DEF R_Sweep, EndsTyped, Expired
  <2>2. QED
    BY <1>5, <1>8, <2>1 DEF R_Sweep
<1>9. QED
  BY <1>2, <1>3, <1>4, <1>6, <1>7, <1>8
     DEF RegistryStep, R_Handshake, R_EndSessionDone, R_RecvCloses, R_SelectReplaced, R_SelectSendFailed,
         R_SelectRecvGone, R_Unregister, R_EndingDone, R_Forget, R_Expire

-----------------------------------------------------------------------------
(***************************************************************************)
(* What a step leaves alone stays sound.                                   *)
(***************************************************************************)

\* The facts about a guest's session.
LEMMA SessionStable ==
    ASSUME RInv, Stable, NEW g \in Guest, gsess[g] # NoSession
    PROVE  /\ gsess'[g] = gsess[g] /\ gsess[g] \in SessionId
           /\ status[gsess[g]] # "unused" /\ status'[gsess[g]] # "unused"
           /\ perm'[gsess[g]] = perm[gsess[g]]
           /\ owner'[gsess[g]] = owner[gsess[g]]
           /\ owner[gsess[g]] \in Conn
           /\ GuestNotebook(g)' = GuestNotebook(g)
           /\ GuestNotebook(g) \in Notebook
<1>1. gsess[g] \in SessionId
  BY TypeParts DEF RInv, GuestsTyped
<1>2. status[gsess[g]] # "unused"
  BY DEF RInv, GuestsSound
<1>3. owner[gsess[g]] \in Conn
  BY <1>1, <1>2 DEF RInv, IInv, TimelyOwner
<1>4. nb[owner[gsess[g]]] \in Notebook
  BY <1>3 DEF RInv, IInv, TypeOK
<1>5. QED
  BY <1>1, <1>2, <1>3, <1>4 DEF Stable, GuestNotebook, SessionNotebook

LEMMA SenderStable ==
    ASSUME RInv, Stable, NEW m \in MsgId, sender[m] # NoGuest
    PROVE  /\ sender'[m] = sender[m] /\ sender[m] \in Guest
           /\ gsess[sender[m]] # NoSession
BY TypeParts DEF RInv, HistoryTyped, SendersSound, Stable

LEMMA AllowedStable ==
    ASSUME RInv, Stable, NEW g \in Guest, gsess[g] # NoSession, NEW m, Allowed(g, m)
    PROVE  Allowed(g, m)'
BY SessionStable DEF Allowed, Stable

LEMMA ForHostStable ==
    ASSUME RInv, Stable, NEW m, NEW c, ForHost(m, c)
    PROVE  ForHost(m, c)'
<1>1. m \in MsgId /\ sender[m] # NoGuest
  BY DEF ForHost
<1>2. /\ sender'[m] = sender[m] /\ sender[m] \in Guest /\ gsess[sender[m]] # NoSession
  BY <1>1, SenderStable
<1>3. Allowed(sender[m], m)'
  BY <1>2, AllowedStable DEF ForHost
<1>4. GuestNotebook(sender[m])' = GuestNotebook(sender[m])
  BY <1>2, SessionStable
<1>5. nb' = nb
  BY DEF Stable
<1>6. QED
  BY <1>1, <1>2, <1>3, <1>4, <1>5, NoGuestAssumption DEF ForHost

LEMMA GuestsKept ==
    ASSUME RInv, Stable, UNCHANGED <<gsess, gtask, grecv>>,
           \A s \in SessionId : guests'[s] \subseteq guests[s]
    PROVE  GuestsSound'
<1>1. ASSUME NEW g \in Guest, gsess[g] # NoSession PROVE status'[gsess[g]] # "unused"
  BY <1>1, SessionStable
<1>2. QED
  BY <1>1 DEF RInv, GuestsSound

LEMMA FramesKept ==
    ASSUME RInv, Stable,
           NEW H, \A g \in Guest : g \notin H => grecv'[g] = grecv[g] /\ gframe'[g] = gframe[g],
           \A g \in Guest : g \in H /\ grecv'[g] \notin {"off", "loop", "ended"} =>
               \E m \in MsgId : /\ gframe'[g] = m /\ sender'[m] = g
                                /\ grecv'[g] # "deny" => Allowed(g, m)'
    PROVE  FramesSound'
<1>1. ASSUME NEW g \in Guest, g \notin H, grecv[g] \notin {"off", "loop", "ended"}
      PROVE  \E m \in MsgId : /\ gframe[g] = m /\ sender'[m] = g
                              /\ grecv[g] # "deny" => Allowed(g, m)'
  <2>1. PICK m \in MsgId : /\ gframe[g] = m /\ sender[m] = g
                           /\ grecv[g] # "deny" => Allowed(g, m)
    BY <1>1 DEF RInv, FramesSound
  <2>2. gsess[g] # NoSession
    BY <1>1 DEF RInv, GuestsSound
  <2>3. sender'[m] = g
    BY <2>1, SenderStable, NoGuestAssumption
  <2>4. grecv[g] # "deny" => Allowed(g, m)'
    BY <2>1, <2>2, AllowedStable
  <2>5. QED
    BY <2>1, <2>3, <2>4
<1>2. ASSUME NEW g \in Guest, grecv'[g] \notin {"off", "loop", "ended"}
      PROVE  \E m \in MsgId : /\ gframe'[g] = m /\ sender'[m] = g
                              /\ grecv'[g] # "deny" => Allowed(g, m)'
  <2>1. CASE g \in H
    BY <1>2, <2>1
  <2>2. CASE g \notin H
    <3>1. grecv'[g] = grecv[g] /\ gframe'[g] = gframe[g]
      BY <2>2
    <3>2. PICK m \in MsgId : /\ gframe[g] = m /\ sender'[m] = g
                             /\ grecv[g] # "deny" => Allowed(g, m)'
      BY <1>1, <1>2, <2>2, <3>1
    <3>3. QED
      BY <3>1, <3>2
  <2>3. QED
    BY <2>1, <2>2
<1>3. QED
  BY <1>2 DEF FramesSound, Allowed

LEMMA FramesSame ==
    ASSUME RInv, Stable, UNCHANGED <<grecv, gframe>>
    PROVE  FramesSound'
<1> DEFINE H == {}
<1>1. \A g \in Guest : g \notin H => grecv'[g] = grecv[g] /\ gframe'[g] = gframe[g]
  OBVIOUS
<1>2. \A g \in Guest : g \in H => FALSE
  OBVIOUS
<1> HIDE DEF H
<1>3. QED
  BY <1>1, <1>2, FramesKept

LEMMA HistoryKept ==
    ASSUME RInv, Stable
    PROVE  /\ sender' = sender => SendersSound'
           /\ pending' = pending => PendingSound'
<1>1. ASSUME sender' = sender, NEW m \in MsgId, sender[m] # NoGuest PROVE gsess'[sender[m]] # NoSession
  <2>1. sender[m] \in Guest /\ gsess[sender[m]] # NoSession
    BY <1>1, SenderStable
  <2>2. QED
    BY <2>1, SessionStable
<1>2. sender' = sender => SendersSound'
  BY <1>1 DEF SendersSound
<1>3. pending' = pending => PendingSound'
  BY DEF RInv, PendingSound, Stable
<1>4. QED
  BY <1>2, <1>3

LEMMA QueuesKept ==
    ASSUME RInv, Stable
    PROVE  /\ hchan' = hchan => QueuesSound'
           /\ taken' = taken => TakenSound'
<1>1. hchan' = hchan => QueuesSound'
  <2> SUFFICES ASSUME hchan' = hchan, NEW c \in Conn, NEW i \in DOMAIN hchan[c], hchan[c][i] # NoMsg
               PROVE  ForHost(hchan[c][i], c)'
    BY DEF QueuesSound
  <2>1. ForHost(hchan[c][i], c)
    BY DEF RInv, QueuesSound
  <2>2. \A m, d : ForHost(m, d) => ForHost(m, d)'
    BY ForHostStable
  <2>3. QED
    BY <2>1, <2>2 DEF ForHost
<1>2. taken' = taken => TakenSound'
  BY ForHostStable DEF RInv, TakenSound
<1>3. QED
  BY <1>1, <1>2

LEMMA JobFitsStable ==
    ASSUME RInv, Stable, NEW j \in Job, NEW c, JobFits(j, c)
    PROVE  JobFits(j, c)'
<1>1. j.id # NoMsg => ForHost(j.id, c)'
  BY ForHostStable DEF JobFits
<1>2. kind' = kind
  BY DEF Stable
<1>3. j.origin # NoGuest => j.id # NoMsg /\ j.origin = sender'[j.id]
  BY SenderStable DEF JobFits, ForHost
<1>4. \A s \in j.sids : status'[s] # "unused" /\ "read" \in perm'[s]
  BY DEF Job, JobFits, Stable
<1>5. ASSUME j.step \in {"cast", "check"}, j.origin # NoGuest,
             status'[gsess'[j.origin]] = "live", "read" \in perm'[gsess'[j.origin]]
      PROVE  gsess'[j.origin] \in j.sids
  <2>1. j.origin \in Guest /\ gsess[j.origin] # NoSession
    BY <1>5, SenderStable DEF JobFits, ForHost
  <2>2. /\ gsess'[j.origin] = gsess[j.origin] /\ gsess[j.origin] \in SessionId
        /\ status[gsess[j.origin]] # "unused" /\ perm'[gsess[j.origin]] = perm[gsess[j.origin]]
    BY <2>1, SessionStable
  <2>3. status[gsess[j.origin]] = "live"
    BY <1>5, <2>2 DEF Stable
  <2>4. QED
    BY <1>5, <2>2, <2>3 DEF JobFits
<1>6. QED
  BY <1>1, <1>2, <1>3, <1>4, <1>5 DEF JobFits

LEMMA JobsKept ==
    ASSUME RInv, Stable, NEW C,
           \A c \in Conn : c \notin C => job'[c] = job[c],
           \A c \in Conn : c \in C => \E j \in Job : job'[c] = j /\ JobFits(j, c)'
    PROVE  JobsSound'
<1>1. ASSUME NEW c \in Conn PROVE \E j \in Job : job'[c] = j /\ JobFits(j, c)'
  <2>1. CASE c \in C
    BY <2>1
  <2>2. CASE c \notin C
    <3>1. PICK j \in Job : job[c] = j /\ JobFits(j, c)
      BY TypeParts DEF RInv, JobTyped, JobsSound
    <3>2. job'[c] = j /\ JobFits(j, c)'
      BY <2>2, <3>1, JobFitsStable
    <3>3. QED
      BY <3>2
  <2>3. QED
    BY <2>1, <2>2
<1>2. QED
  BY <1>1 DEF JobsSound, JobFits, ForHost

LEMMA JobsSame ==
    ASSUME RInv, Stable, job' = job
    PROVE  JobsSound'
<1> DEFINE C == {}
<1>1. \A c \in Conn : c \notin C => job'[c] = job[c]
  OBVIOUS
<1>2. \A c \in Conn : c \in C => FALSE
  OBVIOUS
<1> HIDE DEF C
<1>3. QED
  BY <1>1, <1>2, JobsKept

LEMMA MsgFitsStable ==
    ASSUME RInv, Stable, NEW m \in GuestMsg, NEW g \in Guest, MsgFits(m, g)
    PROVE  MsgFits(m, g)'
<1>1. /\ gsess[g] # NoSession /\ gsess'[g] = gsess[g] /\ perm'[gsess[g]] = perm[gsess[g]]
  BY SessionStable DEF MsgFits
<1>2. ASSUME m.id # NoMsg, sender[m.id] = g PROVE sender'[m.id] = g
  BY <1>2, SenderStable, NoGuestAssumption DEF GuestMsg
<1>3. QED
  BY <1>1, <1>2 DEF MsgFits, Stable

\* Every frame that is left was there before, or is the one that was sent.
LEMMA ChansKept ==
    ASSUME RInv, Stable,
           \A g \in Guest : \A i \in DOMAIN chan'[g] :
               \/ \E k \in DOMAIN chan[g] : chan'[g][i] = chan[g][k]
               \/ \E m \in GuestMsg : chan'[g][i] = m /\ MsgFits(m, g)'
    PROVE  ChansSound'
<1>1. ASSUME NEW g \in Guest, NEW i \in DOMAIN chan'[g]
      PROVE  \E m \in GuestMsg : chan'[g][i] = m /\ MsgFits(m, g)'
  <2>1. ASSUME NEW k \in DOMAIN chan[g] PROVE \E m \in GuestMsg : chan[g][k] = m /\ MsgFits(m, g)'
    <3>1. PICK m \in GuestMsg : chan[g][k] = m /\ MsgFits(m, g)
      <4>1. chan[g] \in Seq(GuestMsg)
        BY TypeParts DEF RInv, ChanTyped
      <4>2. chan[g][k] \in GuestMsg
        BY <4>1
      <4>3. QED
        BY <4>2 DEF RInv, ChansSound
    <3>2. QED
      BY <3>1, MsgFitsStable
  <2>2. QED
    BY <2>1
<1>2. QED
  BY <1>1 DEF ChansSound, MsgFits

LEMMA ForwardSound ==
    ASSUME RInv, Stable, \A g \in Guest : chan'[g] = chan[g] \/ chan'[g] = <<>> \/ chan'[g] = Tail(chan[g])
    PROVE  ChansSound'
<1>1. ASSUME NEW g \in Guest, NEW i \in DOMAIN chan'[g]
      PROVE  \E k \in DOMAIN chan[g] : chan'[g][i] = chan[g][k]
  <2>1. chan[g] \in Seq(GuestMsg)
    BY TypeParts DEF RInv, ChanTyped
  <2>2. CASE chan'[g] = chan[g]
    BY <1>1, <2>2
  <2>3. CASE chan'[g] = <<>>
    BY <1>1, <2>3
  <2>4. CASE chan'[g] = Tail(chan[g]) /\ chan[g] # <<>>
    <3>1. i \in Nat /\ i + 1 \in DOMAIN chan[g] /\ chan'[g][i] = chan[g][i + 1]
      BY <1>1, <2>1, <2>4
    <3>2. QED
      BY <3>1
  <2>5. CASE chan'[g] = Tail(chan[g]) /\ chan[g] = <<>>
    BY <1>1, <2>1, <2>5
  <2>6. QED
    BY <2>2, <2>3, <2>4, <2>5
<1>2. QED
  BY <1>1, ChansKept

LEMMA SendSound ==
    ASSUME RInv, Stable, NEW G, NEW m \in GuestMsg, SendToGuests(G, m),
           \A g \in Guest : g \in G /\ gsess[g] # NoSession => MsgFits(m, g)
    PROVE  ChansSound'
<1>1. ASSUME NEW g \in Guest, NEW i \in DOMAIN chan'[g]
      PROVE  \/ \E k \in DOMAIN chan[g] : chan'[g][i] = chan[g][k]
             \/ \E n \in GuestMsg : chan'[g][i] = n /\ MsgFits(n, g)'
  <2>1. chan[g] \in Seq(GuestMsg)
    BY TypeParts DEF RInv, ChanTyped
  <2>2. CASE chan'[g] = chan[g]
    BY <1>1, <2>2
  <2>3. CASE chan'[g] = Append(chan[g], m) /\ g \in G /\ Receives(g)
    <3>1. MsgFits(m, g)'
      BY <2>3, MsgFitsStable DEF Receives, Listed
    <3>2. \/ i \in DOMAIN chan[g] /\ chan'[g][i] = chan[g][i]
          \/ chan'[g][i] = m
      BY <1>1, <2>1, <2>3
    <3>3. QED
      BY <3>1, <3>2
  <2>4. QED
    BY <2>2, <2>3 DEF SendToGuests
<1>2. QED
  BY <1>1, ChansKept

LEMMA EndsKept ==
    ASSUME RInv, Stable, UNCHANGED ends, \A s \in SessionId : guests'[s] \subseteq guests[s]
    PROVE  EndsSound'
<1>1. ASSUME NEW e \in Ender, told[e] # NoSession
      PROVE  status'[told[e]] = "removed" /\ guests'[told[e]] \subseteq notice' \cup lateGuests'
  <2>1. told[e] \in SessionId
    BY <1>1, TypeParts DEF RInv, EndsTyped
  <2>2. QED
    BY <1>1, <2>1 DEF RInv, EndsSound, Stable
<1>2. ASSUME NEW e \in Ender, NEW s \in todo[e] PROVE status'[s] = "removed"
  <2>1. s \in SessionId
    BY TypeParts DEF RInv, EndsTyped
  <2>2. QED
    BY <2>1 DEF RInv, EndsSound, Stable
<1>3. QED
  BY <1>1, <1>2 DEF EndsSound, ends

LEMMA HostOwnNext ==
    ASSUME TypeOK, HostOwn, [Next]_vars
    PROVE  HostOwn'
<1>0. nb' = nb
  BY StoreStable
<1>1. ASSUME NEW c \in Conn, Register(c) PROVE HostOwn'
  BY <1>0, <1>1 DEF Register, HostOwn, Hosted, TypeOK
<1>2. ASSUME NEW c \in Conn, Unregister(c) PROVE HostOwn'
  BY <1>0, <1>2 DEF Unregister, HostOwn, Hosted, TypeOK
<1>3. CASE hosts' = hosts
  BY <1>0, <1>3 DEF HostOwn, Hosted
<1>4. QED
  BY <1>1, <1>2, <1>3
     DEF Next, Handshake, Admit, Refuse, HandshakeFails, ClaimAccepted, ClaimRejected, ReadTask, CreateSession,
         EndSession, ReplyCreated, EndSessionDone, RecvCloses, RecvAborted, Select, SelectReplaced,
         SelectSendFailed, SelectRecvGone, Cleanup, Invalidate, EndingDone, ForgetReadHosts,
         ForgetReadSessions, ForgetRemove, Clock, Expire, Sweep, wsVars, vars

\* A frame for the host goes to a connection of the notebook.
LEMMA EnqueueSound ==
    ASSUME RInv, Stable, NEW n \in Notebook, NEW m \in MsgId \cup {NoMsg}, HostTakes(n), Enqueue(n, m),
           \A c \in Conn : m # NoMsg /\ nb[c] = n => ForHost(m, c)
    PROVE  QueuesSound'
<1> PICK h \in Conn : hosts[n] = h
  BY DEF HostTakes, Hosted, RInv, IInv, TypeOK
<1>1. hosts[n] \in Conn /\ nb[hosts[n]] = n
  BY NoConnAssumption DEF HostTakes, RInv, HostOwn
<1>2. hchan \in [Conn -> Seq(MsgId \cup {NoMsg})]
  BY TypeParts DEF RInv, HostTyped
<1>3. ASSUME NEW c \in Conn, NEW i \in DOMAIN hchan'[c], hchan'[c][i] # NoMsg
      PROVE  \E k \in MsgId : hchan'[c][i] = k /\ ForHost(k, c)'
  <2>1. hchan[c] \in Seq(MsgId \cup {NoMsg})
    BY <1>2
  <2>2. ASSUME i \in DOMAIN hchan[c], hchan'[c][i] = hchan[c][i]
        PROVE  \E k \in MsgId : hchan'[c][i] = k /\ ForHost(k, c)'
    <3>1. PICK k \in MsgId : hchan[c][i] = k /\ ForHost(k, c)
      BY <1>3, <2>2 DEF RInv, QueuesSound, ForHost
    <3>2. QED
      BY <2>2, <3>1, ForHostStable
  <2>3. CASE c # h
    <3>1. hchan'[c] = hchan[c]
      BY <1>2, <2>3 DEF Enqueue
    <3>2. QED
      BY <1>3, <2>2, <3>1
  <2>4. CASE c = h
    <3>1. hchan'[c] = Append(hchan[c], m)
      BY <1>2, <2>4 DEF Enqueue
    <3>2. \/ i \in DOMAIN hchan[c] /\ hchan'[c][i] = hchan[c][i]
          \/ hchan'[c][i] = m
      BY <1>3, <2>1, <3>1
    <3>3. CASE hchan'[c][i] = m
      <4>1. m \in MsgId /\ m # NoMsg /\ nb[c] = n
        BY <1>1, <1>3, <2>4, <3>3
      <4>2. ForHost(m, c)'
        BY <4>1, ForHostStable
      <4>3. QED
        BY <3>3, <4>1, <4>2
    <3>4. QED
      BY <2>2, <3>2, <3>3
  <2>5. QED
    BY <2>3, <2>4
<1>4. QED
  BY <1>3 DEF QueuesSound, ForHost

LEMMA NotifySound ==
    ASSUME RInv, Stable, NEW n \in Notebook, NotifyHost(n)
    PROVE  QueuesSound'
<1>1. CASE HostTakes(n) /\ Enqueue(n, NoMsg)
  BY <1>1, EnqueueSound
<1>2. CASE hchan' = hchan
  BY <1>2, QueuesKept
<1>3. QED
  BY <1>1, <1>2 DEF NotifyHost

-----------------------------------------------------------------------------
(***************************************************************************)
(* Every step preserves the invariant.                                     *)
(***************************************************************************)

\* What holds after any step.
LEMMA AfterStep ==
    ASSUME RInv, RelayNext
    PROVE  Stable /\ IInv' /\ TypeOK' /\ HostOwn'
<1>1. [Next]_vars
  BY Implements DEF RInv
<1>2. QED
  BY <1>1, StableStep, NextIInv, HostOwnNext DEF RInv, IInv

LEMMA RegistryFrame ==
    ASSUME RegistryStep
    PROVE  UNCHANGED <<guests, pending, guestTasks, taken, job, history, chan>>
BY DEF RegistryStep, R_Handshake, R_ReplyCreated, R_EndSessionDone, R_RecvCloses, R_RecvAborted,
       R_SelectReplaced, R_SelectSendFailed, R_SelectRecvGone, R_Unregister, R_Invalidate, R_EndingDone,
       R_Forget, R_CreateSession, R_EndSession, R_Expire, R_Sweep, guestVars, tables, hostSide

\* A read task that leaves its loop, or comes back to it, has no frame in hand.
LEMMA RegistryJobs ==
    ASSUME RInv, RegistryStep
    PROVE  JobInLoop'
<1>0. job' = job
  BY RegistryFrame
<1>t. recv \in [Conn -> RecvState]
  BY DEF RInv, IInv, TypeOK
<1>1. ASSUME NEW c \in Conn, R_Handshake(c) PROVE JobInLoop'
  BY <1>0, <1>t, <1>1 DEF R_Handshake, Handshake, Admit, Refuse, HandshakeFails, ClaimAccepted, ClaimRejected,
                          Register, RInv, JobInLoop
<1>2. ASSUME NEW c \in Conn, NEW s \in SessionId, R_CreateSession(c, s) \/ R_EndSession(c, s) PROVE JobInLoop'
  BY <1>0, <1>t, <1>2 DEF R_CreateSession, R_EndSession, CreateSession, EndSession, BetweenFrames, RInv, JobInLoop
<1>3. ASSUME NEW c \in Conn, R_ReplyCreated(c) \/ R_EndSessionDone(c) \/ R_RecvCloses(c) \/ R_RecvAborted(c)
      PROVE  JobInLoop'
  BY <1>0, <1>t, <1>3 DEF R_ReplyCreated, R_EndSessionDone, R_RecvCloses, R_RecvAborted, ReplyCreated,
                          EndSessionDone, RecvCloses, RecvAborted, BetweenFrames, RInv, JobInLoop
<1>4. CASE recv' = recv
  BY <1>0, <1>4 DEF RInv, JobInLoop
<1>5. QED
  BY <1>1, <1>2, <1>3, <1>4
     DEF RegistryStep, R_SelectReplaced, R_SelectSendFailed, R_SelectRecvGone, R_Unregister, R_Invalidate,
         R_EndingDone, R_Forget, R_Expire, R_Sweep, SelectReplaced, SelectSendFailed, SelectRecvGone,
         Unregister, Invalidate, EndingDone, ForgetReadHosts, ForgetReadSessions, ForgetRemove, Expire, Sweep,
         taskVars

\* Whoever ends sessions ends removed ones.
LEMMA RegistryEnds ==
    ASSUME RInv, Stable, RegistryStep
    PROVE  EndsSound'
<1>0. guests' = guests /\ notice' = notice /\ lateGuests' = lateGuests
  BY RegistryFrame DEF history
<1>1. CASE UNCHANGED ends
  BY <1>0, <1>1, EndsKept
<1>t. /\ status \in [SessionId -> SessionStatus]
      /\ todo \in [Ender -> SUBSET SessionId]
      /\ told \in [Ender -> SessionId \cup {NoSession}]
  BY TypeParts DEF RInv, IInv, TypeOK, EndsTyped
<1>2. ASSUME NEW f, NEW S, todo' = [todo EXCEPT ![f] = S], \A s \in S : status'[s] = "removed",
             told' = told \/ told' = [told EXCEPT ![f] = NoSession]
      PROVE  EndsSound'
  <2>1. ASSUME NEW e \in Ender, NEW s \in todo'[e] PROVE status'[s] = "removed"
    <3>1. s \in S \/ s \in todo[e]
      BY <1>2, <1>t, <2>1
    <3>2. CASE s \in todo[e]
      BY <1>t, <3>2 DEF RInv, EndsSound, Stable
    <3>3. QED
      BY <1>2, <3>1, <3>2
  <2>2. ASSUME NEW e \in Ender, told'[e] # NoSession
        PROVE  status'[told'[e]] = "removed" /\ guests'[told'[e]] \subseteq notice' \cup lateGuests'
    <3>1. told'[e] = told[e] /\ told[e] \in SessionId
      BY <1>2, <1>t, <2>2
    <3>2. QED
      BY <1>0, <2>2, <3>1 DEF RInv, EndsSound, Stable
  <2>3. QED
    BY <2>1, <2>2 DEF EndsSound
<1>3. ASSUME NEW c \in Conn, NEW s \in SessionId, R_EndSession(c, s) PROVE EndsSound'
  <2>1. status'[s] = "removed"
    BY <1>3, <1>t DEF R_EndSession, EndSession
  <2>2. QED
    BY <1>2, <1>3, <2>1 DEF R_EndSession
<1>4. ASSUME NEW c \in Conn, R_RecvAborted(c) PROVE EndsSound'
  <2> DEFINE S == {}
  <2>1. \A s \in S : status'[s] = "removed"
    OBVIOUS
  <2>2. todo' = [todo EXCEPT ![Read(c)] = S] /\ told' = [told EXCEPT ![Read(c)] = NoSession]
    BY <1>4 DEF R_RecvAborted
  <2> HIDE DEF S
  <2>3. QED
    BY <1>2, <2>1, <2>2
<1>5. ASSUME NEW c \in Conn, R_Invalidate(c) PROVE EndsSound'
  <2>1. \A s \in OwnedBy(c) : status'[s] = "removed"
    BY <1>5, <1>t DEF R_Invalidate, Invalidate, OwnedBy
  <2>2. QED
    BY <1>2, <1>5, <2>1 DEF R_Invalidate
<1>6. CASE R_Sweep
  <2>1. \A s \in Expired : status'[s] = "removed"
    BY <1>6, <1>t DEF R_Sweep, Sweep, Expired
  <2>2. QED
    BY <1>2, <1>6, <2>1 DEF R_Sweep
<1>7. QED
  BY <1>1, <1>3, <1>4, <1>5, <1>6
     DEF RegistryStep, R_Handshake, R_ReplyCreated, R_EndSessionDone, R_RecvCloses,
       R_SelectReplaced, R_SelectSendFailed, R_SelectRecvGone, R_Unregister, R_EndingDone,
       R_Forget, R_CreateSession, R_Expire, guestVars

LEMMA RegistryQueues ==
    ASSUME RInv, Stable, RegistryStep
    PROVE  QueuesSound'
<1>1. CASE hchan' = hchan
  BY <1>1, QueuesKept
<1>2. ASSUME NEW c \in Conn, R_ReplyCreated(c) PROVE QueuesSound'
  <2>1. nb[c] \in Notebook
    BY DEF RInv, IInv, TypeOK
  <2>2. QED
    BY <1>1, <1>2, <2>1, EnqueueSound DEF R_ReplyCreated
<1>3. QED
  BY <1>1, <1>2
     DEF RegistryStep, R_Handshake, R_EndSessionDone, R_RecvCloses, R_RecvAborted,
       R_SelectReplaced, R_SelectSendFailed, R_SelectRecvGone, R_Unregister, R_Invalidate, R_EndingDone,
       R_Forget, R_CreateSession, R_EndSession, R_Expire, R_Sweep, guestVars, hostSide

LEMMA RegistryInv ==
    ASSUME RInv, RegistryStep
    PROVE  RInv'
<1>1. RelayNext
  BY Steps
<1>2. Stable /\ IInv' /\ HostOwn'
  BY <1>1, AfterStep
<1>3. RelayTypeOK'
  BY RegistryTyped DEF RInv
<1>4. UNCHANGED <<guests, pending, gsess, gtask, grecv, gframe, taken, job, sender, chan>>
  BY RegistryFrame DEF guestTasks, history
<1>5. GuestsSound'
  BY <1>2, <1>4, GuestsKept
<1>6. FramesSound'
  BY <1>2, <1>4, FramesSame
<1>7. SendersSound' /\ PendingSound' /\ TakenSound'
  BY <1>2, <1>4, HistoryKept, QueuesKept
<1>8. JobsSound'
  BY <1>2, <1>4, JobsSame
<1>9. ChansSound'
  BY <1>2, <1>4, ForwardSound
<1>10. QED
  BY <1>2, <1>3, <1>5, <1>6, <1>7, <1>8, <1>9, RegistryJobs, RegistryEnds, RegistryQueues DEF RInv

-----------------------------------------------------------------------------
(* The jobs of a host's read task *)

LEMMA JobFrame ==
    ASSUME NEW c \in Conn, JobStep(c)
    PROVE  UNCHANGED <<perm, guests, guestTasks, ends, history>>
BY DEF JobStep, HostForward, HostFrames, HostAcks, HostResponds, HostEdits, StartJob,
       RunJob, JobResolve, JobList, JobCast, JobCheck, JobSend, JobAborted, tables

LEMMA JobDone ==
    ASSUME RInv, NEW c \in Conn, JobStep(c), TablesTyped', ChanTyped', HostTyped', JobTyped',
           PendingSound', QueuesSound', TakenSound', JobsSound', JobInLoop', ChansSound'
    PROVE  RInv'
<1>1. Stable /\ IInv' /\ TypeOK' /\ HostOwn'
  BY Steps, AfterStep
<1>2. UNCHANGED <<perm, guests, guestTasks, ends, history>>
  BY JobFrame
<1>3. RelayTypeOK'
  BY <1>1, <1>2, TypeKept, TypePartsNext DEF RInv
<1>4. GuestsSound' /\ EndsSound'
  BY <1>1, <1>2, GuestsKept, EndsKept DEF guestTasks
<1>5. FramesSound' /\ SendersSound'
  BY <1>1, <1>2, FramesSame, HistoryKept DEF guestTasks, history
<1>6. QED
  BY <1>1, <1>3, <1>4, <1>5 DEF RInv

\* The job of c becomes j.
LEMMA JobSet ==
    ASSUME RInv, Stable, NEW c \in Conn, NEW j \in Job, job' = [job EXCEPT ![c] = j], JobFits(j, c),
           taken' \in [Conn -> SUBSET MsgId],
           \A d \in Conn : d # c => recv'[d] = recv[d],
           j # NoJob => recv'[c] = "loop"
    PROVE  JobTyped' /\ JobsSound' /\ JobInLoop'
<1>0. job \in [Conn -> Job]
  BY TypeParts DEF RInv, JobTyped
<1>1. JobTyped'
  BY <1>0 DEF JobTyped
<1>2. JobFits(j, c)'
  BY JobFitsStable
<1>3. JobsSound'
  <2> DEFINE C == {c}
  <2>1. \A d \in Conn : d \notin C => job'[d] = job[d]
    BY <1>0
  <2>2. \A d \in Conn : d \in C => \E k \in Job : job'[d] = k /\ JobFits(k, d)'
    BY <1>0, <1>2
  <2> HIDE DEF C
  <2>3. QED
    BY <2>1, <2>2, JobsKept
<1>4. JobInLoop'
  BY <1>0 DEF RInv, JobInLoop
<1>5. QED
  BY <1>1, <1>3, <1>4

LEMMA NoJobFits == ASSUME NEW c PROVE NoJob \in Job /\ JobFits(NoJob, c)
BY DEF NoJob, Job, JobFits

\* A job in hand is handled in the loop.
LEMMA JobAtStep ==
    ASSUME RInv, NEW c \in Conn, NEW step, step # "none", AtStep(c, step)
    PROVE  \E i \in Job : /\ job[c] = i /\ JobFits(i, c) /\ i.step = step /\ recv[c] = "loop"
                          /\ i.type \in {"event", "response"}
<1>1. PICK i \in Job : job[c] = i /\ JobFits(i, c)
  BY TypeParts DEF RInv, JobTyped, JobsSound
<1>2. i.step = step /\ i # NoJob
  BY <1>1 DEF AtStep, NoJob
<1>3. QED
  BY <1>1, <1>2 DEF RInv, JobInLoop, JobFits

LEMMA HostForwardInv ==
    ASSUME RInv, NEW c \in Conn, HostForward(c)
    PROVE  RInv'
<1>0. JobStep(c) /\ Stable
  BY Steps, AfterStep DEF JobStep
<1>1. /\ hchan \in [Conn -> Seq(MsgId \cup {NoMsg})] /\ hchan[c] \in Seq(MsgId \cup {NoMsg})
      /\ Len(hchan[c]) <= ChanCap
      /\ taken \in [Conn -> SUBSET MsgId] /\ job \in [Conn -> Job]
      /\ \A d \in Conn : Len(hchan[d]) <= ChanCap
  BY TypeParts DEF RInv, HostTyped, JobTyped
<1>2. /\ hchan[c] # <<>> /\ hchan' = [hchan EXCEPT ![c] = Tail(hchan[c])]
      /\ taken' = [taken EXCEPT ![c] = taken[c] \cup ({Head(hchan[c])} \ {NoMsg})]
      /\ recv' = recv /\ UNCHANGED <<tables, job, chan, pending>>
  BY DEF HostForward, vars, taskVars, tables
<1>3. /\ Head(hchan[c]) \in MsgId \cup {NoMsg} /\ Tail(hchan[c]) \in Seq(MsgId \cup {NoMsg})
      /\ Len(Tail(hchan[c])) <= ChanCap
  BY <1>1, <1>2, GuestCapAssumption
<1>4. HostTyped'
  BY <1>1, <1>2, <1>3 DEF HostTyped
<1>5. JobTyped'
  BY <1>1, <1>2, <1>3 DEF JobTyped
<1>6. TablesTyped' /\ ChanTyped'
  BY <1>2, TypeKept DEF RInv
<1>7. PendingSound' /\ JobsSound' /\ ChansSound'
  BY <1>0, <1>2, HistoryKept, JobsSame, ForwardSound
<1>8. JobInLoop'
  BY <1>2 DEF RInv, JobInLoop
<1>9. QueuesSound'
  <2>1. ASSUME NEW d \in Conn, NEW k \in DOMAIN hchan'[d], hchan'[d][k] # NoMsg
        PROVE  \E m \in MsgId : hchan'[d][k] = m /\ ForHost(m, d)'
    <3>1. \E l \in DOMAIN hchan[d] : hchan'[d][k] = hchan[d][l]
      <4>1. CASE d = c
        <5>1. k \in Nat /\ k + 1 \in DOMAIN hchan[c] /\ hchan'[c][k] = hchan[c][k + 1]
          BY <1>1, <1>2, <2>1, <4>1
        <5>2. QED
          BY <4>1, <5>1
      <4>2. CASE d # c
        <5>1. hchan'[d] = hchan[d]
          BY <1>1, <1>2, <4>2
        <5>2. QED
          BY <2>1, <5>1
      <4>3. QED
        BY <4>1, <4>2
    <3>2. PICK m \in MsgId : hchan'[d][k] = m /\ ForHost(m, d)
      BY <2>1, <3>1 DEF RInv, QueuesSound, ForHost
    <3>3. QED
      BY <1>0, <3>2, ForHostStable
  <2>2. QED
    BY <2>1 DEF QueuesSound, ForHost
<1>10. TakenSound'
  <2>1. ASSUME NEW d \in Conn, NEW m \in taken'[d] PROVE ForHost(m, d)'
    <3>1. CASE m \in taken[d]
      <4>1. ForHost(m, d)
        BY <3>1 DEF RInv, TakenSound
      <4>2. QED
        BY <1>0, <4>1, ForHostStable
    <3>2. CASE m \notin taken[d]
      <4>1. d = c /\ m = Head(hchan[c]) /\ m # NoMsg
        BY <1>1, <1>2, <2>1, <3>2
      <4>2. m = hchan[c][1] /\ 1 \in DOMAIN hchan[c]
        BY <1>1, <1>2, <4>1
      <4>3. ForHost(m, d)
        BY <4>1, <4>2 DEF RInv, QueuesSound
      <4>4. QED
        BY <1>0, <4>3, ForHostStable
    <3>3. QED
      BY <3>1, <3>2
  <2>2. QED
    BY <2>1 DEF TakenSound
<1>11. QED
  BY <1>0, <1>4, <1>5, <1>6, <1>7, <1>8, <1>9, <1>10, JobDone

LEMMA StartJobInv ==
    ASSUME RInv, NEW c \in Conn, JobStep(c), NEW type \in {"event", "response"}, NEW step \in {"resolve", "list"},
           NEW id \in MsgId \cup {NoMsg}, StartJob(c, type, step, id),
           id # NoMsg => ForHost(id, c),
           id # NoMsg /\ type = "event" => kind[id] = "mutation",
           IF id = NoMsg THEN step = "list" /\ type = "event" ELSE step = "resolve"
    PROVE  RInv'
<1>0. Stable
  BY Steps, AfterStep
<1>1. /\ taken \in [Conn -> SUBSET MsgId] /\ job \in [Conn -> Job]
  BY TypeParts DEF RInv, JobTyped
<1>2. /\ recv[c] = "loop" /\ recv' = recv /\ taken' = [taken EXCEPT ![c] = taken[c] \ {id}]
      /\ UNCHANGED <<tables, hchan, chan, pending>>
  BY DEF StartJob, vars, taskVars, tables
<1>3. PICK j \in Job : /\ job' = [job EXCEPT ![c] = j]
                       /\ j.type = type /\ j.step = step /\ j.id = id /\ j.origin = NoGuest /\ j.sids = {}
  <2> DEFINE k == [NoJob EXCEPT !.type = type, !.step = step, !.id = id]
  <2>1. k \in Job /\ k.type = type /\ k.step = step /\ k.id = id /\ k.origin = NoGuest /\ k.sids = {}
    BY DEF NoJob, Job
  <2>2. job' = [job EXCEPT ![c] = k]
    BY DEF StartJob
  <2> HIDE DEF k
  <2>3. QED
    BY <2>1, <2>2
<1>4. JobFits(j, c)
  BY <1>3 DEF JobFits
<1>5. taken' \in [Conn -> SUBSET MsgId]
  BY <1>1, <1>2
<1>6. JobTyped' /\ JobsSound' /\ JobInLoop'
  BY <1>0, <1>2, <1>3, <1>4, <1>5, JobSet
<1>7. TablesTyped' /\ ChanTyped' /\ HostTyped'
  BY <1>2, TypeKept DEF RInv
<1>8. PendingSound' /\ ChansSound' /\ QueuesSound'
  BY <1>0, <1>2, HistoryKept, QueuesKept, ForwardSound
<1>9. TakenSound'
  <2>1. ASSUME NEW d \in Conn, NEW m \in taken'[d] PROVE ForHost(m, d)'
    <3>1. m \in taken[d]
      BY <1>1, <1>2, <2>1
    <3>2. QED
      BY <1>0, <3>1, ForHostStable DEF RInv, TakenSound
  <2>2. QED
    BY <2>1 DEF TakenSound
<1>10. QED
  BY <1>6, <1>7, <1>8, <1>9, JobDone

LEMMA HostFramesInv ==
    ASSUME RInv, NEW c \in Conn, HostFrames(c)
    PROVE  RInv'
<1>0. JobStep(c)
  BY DEF JobStep
<1>t. ASSUME NEW m \in taken[c] PROVE m \in MsgId /\ m # NoMsg /\ ForHost(m, c)
  BY NoMsgAssumption DEF RInv, TakenSound, ForHost
<1>1. ASSUME NEW m \in taken[c], kind[m] = "mutation", StartJob(c, "event", "resolve", m) PROVE RInv'
  BY <1>0, <1>t, <1>1, StartJobInv
<1>2. ASSUME NEW m \in taken[c], StartJob(c, "response", "resolve", m) PROVE RInv'
  BY <1>0, <1>t, <1>2, StartJobInv
<1>3. CASE HostEdits(c)
  BY <1>0, <1>3, StartJobInv DEF HostEdits
<1>4. QED
  BY <1>1, <1>2, <1>3 DEF HostFrames, HostAcks, HostResponds

\* A step of a job that takes nothing from the browser and sends nothing to it.
LEMMA RunDone ==
    ASSUME RInv, NEW c \in Conn, JobStep(c), TablesTyped', ChanTyped', PendingSound', ChansSound',
           UNCHANGED <<hchan, taken>>,
           NEW j \in Job, job' = [job EXCEPT ![c] = j], JobFits(j, c),
           \A d \in Conn : d # c => recv'[d] = recv[d],
           j # NoJob => recv'[c] = "loop"
    PROVE  RInv'
<1>1. Stable
  BY Steps, AfterStep
<1>2. taken' \in [Conn -> SUBSET MsgId]
  BY TypeParts DEF RInv, JobTyped
<1>3. JobTyped' /\ JobsSound' /\ JobInLoop'
  BY <1>1, <1>2, JobSet
<1>4. HostTyped' /\ QueuesSound' /\ TakenSound'
  BY <1>1, TypeKept, QueuesKept DEF RInv
<1>5. QED
  BY <1>3, <1>4, JobDone

LEMMA JobResolveInv ==
    ASSUME RInv, NEW c \in Conn, JobResolve(c)
    PROVE  RInv'
<1>0. JobStep(c) /\ Stable
  BY Steps, AfterStep DEF JobStep, RunJob
<1>1. PICK i \in Job : /\ job[c] = i /\ JobFits(i, c) /\ i.step = "resolve" /\ recv[c] = "loop"
                       /\ i.type \in {"event", "response"}
  BY JobAtStep DEF JobResolve
<1>2. i.id \in MsgId /\ i.id # NoMsg
  BY <1>1, NoMsgAssumption DEF JobFits, ForHost
<1>3. PICK o \in Guest \cup {NoGuest} : o = pending[i.id] /\ o \in {NoGuest, sender[i.id]}
  BY <1>2, TypeParts DEF RInv, TablesTyped, PendingSound
<1>4. /\ pending' = [pending EXCEPT ![i.id] = NoGuest]
      /\ recv' = recv /\ UNCHANGED <<perm, guests, hchan, taken, chan>>
  BY <1>1 DEF JobResolve, vars, taskVars
<1>5. PICK j \in Job : job' = [job EXCEPT ![c] = j] /\ JobFits(j, c)
  <2> DEFINE k == IF i.type = "event" THEN [i EXCEPT !.step = "list", !.origin = o]
                  ELSE IF o = NoGuest THEN NoJob
                  ELSE [i EXCEPT !.step = "send", !.origin = o]
  <2>1. job' = [job EXCEPT ![c] = k]
    BY <1>1, <1>3 DEF JobResolve
  <2>2. CASE i.type = "event"
    <3>1. /\ k \in Job /\ k.type = i.type /\ k.step = "list" /\ k.id = i.id /\ k.origin = o /\ k.sids = i.sids
      BY <2>2 DEF Job
    <3> HIDE DEF k
    <3>2. JobFits(k, c)
      BY <1>1, <1>2, <1>3, <2>2, <3>1 DEF JobFits
    <3>3. QED
      BY <2>1, <3>1, <3>2
  <2>3. CASE i.type # "event" /\ o = NoGuest
    <3>1. k = NoJob
      BY <2>3
    <3>2. QED
      BY <2>1, <3>1, NoJobFits
  <2>4. CASE i.type # "event" /\ o # NoGuest
    <3>1. /\ k \in Job /\ k.type = i.type /\ k.step = "send" /\ k.id = i.id /\ k.origin = o /\ k.sids = i.sids
      BY <2>4 DEF Job
    <3> HIDE DEF k
    <3>2. JobFits(k, c)
      BY <1>1, <1>2, <1>3, <2>4, <3>1 DEF JobFits
    <3>3. QED
      BY <2>1, <3>1, <3>2
  <2>5. QED
    BY <2>2, <2>3, <2>4
<1>6. TablesTyped'
  BY <1>2, <1>4, TypeParts DEF RInv, TablesTyped
<1>7. PendingSound'
  <2>1. pending \in [MsgId -> Guest \cup {NoGuest}]
    BY TypeParts DEF RInv, TablesTyped
  <2>2. sender' = sender
    BY DEF JobResolve, history
  <2>3. QED
    BY <1>4, <2>1, <2>2 DEF RInv, PendingSound
<1>8. ChanTyped' /\ ChansSound'
  BY <1>0, <1>4, TypeKept, ForwardSound DEF RInv
<1>9. QED
  BY <1>0, <1>1, <1>4, <1>5, <1>6, <1>7, <1>8, RunDone

\* The steps that leave the pending requests alone.
LEMMA RunPending ==
    ASSUME RInv, NEW c \in Conn, JobStep(c), UNCHANGED tables
    PROVE  TablesTyped' /\ PendingSound'
<1>1. Stable
  BY Steps, AfterStep
<1>2. QED
  BY <1>1, TypeKept, HistoryKept DEF RInv, tables

LEMMA JobListInv ==
    ASSUME RInv, NEW c \in Conn, JobList(c)
    PROVE  RInv'
<1>0. JobStep(c) /\ Stable
  BY Steps, AfterStep DEF JobStep, RunJob
<1>1. PICK i \in Job : /\ job[c] = i /\ JobFits(i, c) /\ i.step = "list" /\ recv[c] = "loop"
                       /\ i.type \in {"event", "response"}
  BY JobAtStep DEF JobList
<1>4. recv' = recv /\ UNCHANGED <<tables, hchan, taken, chan>>
  BY DEF JobList, vars, taskVars
<1>2. \A s \in Readable(nb[c]) : s \in SessionId /\ status[s] # "unused" /\ "read" \in perm[s]
  BY DEF Readable
\* The origin is a guest of this notebook.
<1>3. ASSUME i.origin # NoGuest, status[gsess[i.origin]] = "live", "read" \in perm[gsess[i.origin]]
      PROVE  gsess[i.origin] \in Readable(nb[c])
  <2>1. i.origin \in Guest /\ gsess[i.origin] # NoSession /\ GuestNotebook(i.origin) = nb[c]
    BY <1>0, <1>1, <1>3, SenderStable DEF JobFits, ForHost
  <2>2. gsess[i.origin] \in SessionId
    BY <1>0, <2>1, SessionStable
  <2>3. QED
    BY <1>3, <2>1, <2>2 DEF Readable, GuestNotebook
<1>5. PICK j \in Job : job' = [job EXCEPT ![c] = j] /\ JobFits(j, c)
  <2> DEFINE k == [i EXCEPT !.step = "cast", !.sids = Readable(nb[c])]
  <2>1. job' = [job EXCEPT ![c] = k]
    <3>1. job \in [Conn -> Job]
      BY TypeParts DEF RInv, JobTyped
    <3>2. QED
      BY <1>1, <3>1 DEF JobList
  <2>2. /\ k \in Job /\ k.type = i.type /\ k.step = "cast" /\ k.id = i.id /\ k.origin = i.origin
        /\ k.sids = Readable(nb[c])
    BY <1>2 DEF Job
  <2> HIDE DEF k
  <2>3. JobFits(k, c)
    BY <1>1, <1>2, <1>3, <2>2 DEF JobFits
  <2>4. QED
    BY <2>1, <2>2, <2>3
<1>6. ChanTyped' /\ ChansSound'
  BY <1>0, <1>4, TypeKept, ForwardSound DEF RInv
<1>9. QED
  BY <1>0, <1>1, <1>4, <1>5, <1>6, RunPending, RunDone

LEMMA JobCastInv ==
    ASSUME RInv, NEW c \in Conn, JobCast(c)
    PROVE  RInv'
<1>0. JobStep(c) /\ Stable
  BY Steps, AfterStep DEF JobStep, RunJob
<1>1. PICK i \in Job : /\ job[c] = i /\ JobFits(i, c) /\ i.step = "cast" /\ recv[c] = "loop"
                       /\ i.type \in {"event", "response"}
  BY JobAtStep DEF JobCast
<1>4. recv' = recv /\ UNCHANGED <<tables, hchan, taken>>
  BY DEF JobCast, vars, taskVars
<1>2. PICK m \in GuestMsg : /\ SendToGuests(UNION {guests[s] : s \in i.sids}, m)
                            /\ m.type = "event" /\ m.id = i.id
  <2> DEFINE k == Msg("event", i.id)
  <2>1. k \in GuestMsg /\ k.type = "event" /\ k.id = i.id
    BY DEF Msg, GuestMsg, Job
  <2>2. SendToGuests(UNION {guests[s] : s \in i.sids}, k)
    BY <1>1 DEF JobCast
  <2> HIDE DEF k
  <2>3. QED
    BY <2>1, <2>2
\* Whoever is on a list of a readable session may read.
<1>3. ASSUME NEW g \in Guest, g \in UNION {guests[s] : s \in i.sids} PROVE MsgFits(m, g)
  <2>1. PICK s \in i.sids : g \in guests[s]
    BY <1>3
  <2>2. s \in SessionId
    BY <2>1 DEF Job
  <2>3. gsess[g] = s /\ "read" \in perm[s] /\ s # NoSession
    BY <1>1, <2>1, <2>2, NoSessionAssumption DEF RInv, GuestsSound, JobFits
  <2>4. QED
    BY <1>2, <2>3 DEF MsgFits
<1>5. PICK j \in Job : job' = [job EXCEPT ![c] = j] /\ JobFits(j, c)
  <2> DEFINE k == IF i.origin = NoGuest THEN NoJob ELSE [i EXCEPT !.step = "check"]
  <2>1. job' = [job EXCEPT ![c] = k]
    BY <1>1 DEF JobCast
  <2>2. CASE i.origin = NoGuest
    BY <2>1, <2>2, NoJobFits
  <2>3. CASE i.origin # NoGuest
    <3>1. /\ k \in Job /\ k.type = i.type /\ k.step = "check" /\ k.id = i.id /\ k.origin = i.origin
          /\ k.sids = i.sids
      BY <2>3 DEF Job
    <3> HIDE DEF k
    <3>2. JobFits(k, c)
      BY <1>1, <2>3, <3>1 DEF JobFits
    <3>3. QED
      BY <2>1, <3>1, <3>2
  <2>4. QED
    BY <2>2, <2>3
<1>6. ChanTyped' /\ ChansSound'
  BY <1>0, <1>2, <1>3, SendTyped, SendSound, TypeParts DEF RInv
<1>9. QED
  BY <1>0, <1>1, <1>4, <1>5, <1>6, RunPending, RunDone

LEMMA JobCheckInv ==
    ASSUME RInv, NEW c \in Conn, JobCheck(c)
    PROVE  RInv'
<1>0. JobStep(c) /\ Stable
  BY Steps, AfterStep DEF JobStep, RunJob
<1>1. PICK i \in Job : /\ job[c] = i /\ JobFits(i, c) /\ i.step = "check" /\ recv[c] = "loop"
                       /\ i.type \in {"event", "response"}
  BY JobAtStep DEF JobCheck
<1>4. recv' = recv /\ UNCHANGED <<tables, hchan, taken, chan>>
  BY DEF JobCheck, vars, taskVars
<1>5. PICK j \in Job : job' = [job EXCEPT ![c] = j] /\ JobFits(j, c)
  <2> DEFINE k == IF CanRead(i.origin) THEN NoJob ELSE [i EXCEPT !.step = "send"]
  <2>1. job' = [job EXCEPT ![c] = k]
    BY <1>1 DEF JobCheck
  <2>2. CASE CanRead(i.origin)
    BY <2>1, <2>2, NoJobFits
  <2>3. CASE ~ CanRead(i.origin)
    <3>1. /\ k \in Job /\ k.type = i.type /\ k.step = "send" /\ k.id = i.id /\ k.origin = i.origin
          /\ k.sids = i.sids
      BY <2>3 DEF Job
    <3> HIDE DEF k
    <3>2. JobFits(k, c)
      BY <1>1, <3>1 DEF JobFits
    <3>3. QED
      BY <2>1, <3>1, <3>2
  <2>4. QED
    BY <2>2, <2>3
<1>6. ChanTyped' /\ ChansSound'
  BY <1>0, <1>4, TypeKept, ForwardSound DEF RInv
<1>9. QED
  BY <1>0, <1>1, <1>4, <1>5, <1>6, RunPending, RunDone

LEMMA JobSendInv ==
    ASSUME RInv, NEW c \in Conn, JobSend(c)
    PROVE  RInv'
<1>0. JobStep(c) /\ Stable
  BY Steps, AfterStep DEF JobStep, RunJob
<1>1. PICK i \in Job : /\ job[c] = i /\ JobFits(i, c) /\ i.step = "send" /\ recv[c] = "loop"
                       /\ i.type \in {"event", "response"}
  BY JobAtStep DEF JobSend
<1>4. recv' = recv /\ UNCHANGED <<tables, hchan, taken>>
  BY DEF JobSend, vars, taskVars
<1>2. PICK m \in GuestMsg : SendToGuests({i.origin}, m) /\ m.type = i.type /\ m.id = i.id
  <2> DEFINE k == Msg(i.type, i.id)
  <2>1. k \in GuestMsg /\ k.type = i.type /\ k.id = i.id
    BY <1>1 DEF Msg, GuestMsg, Job
  <2>2. SendToGuests({i.origin}, k)
    BY <1>1 DEF JobSend
  <2> HIDE DEF k
  <2>3. QED
    BY <2>1, <2>2
\* The answer goes to the sender; one that may not read sent a mutation.
<1>3. ASSUME gsess[i.origin] # NoSession PROVE MsgFits(m, i.origin)
  <2>1. i.id # NoMsg /\ sender[i.id] = i.origin /\ Allowed(i.origin, i.id) /\ i.id \in MsgId
    BY <1>1 DEF JobFits, ForHost
  <2>2. kind[i.id] \in {"mutation", "query"}
    BY <2>1, TypeParts DEF RInv, HistoryTyped
  <2>3. QED
    BY <1>2, <1>3, <2>1, <2>2 DEF MsgFits, Allowed
<1>5. job' = [job EXCEPT ![c] = NoJob]
  BY DEF JobSend
<1>6. ChanTyped' /\ ChansSound'
  BY <1>0, <1>2, <1>3, SendTyped, SendSound, TypeParts DEF RInv
<1>9. QED
  BY <1>0, <1>1, <1>4, <1>5, <1>6, NoJobFits, RunPending, RunDone

LEMMA JobAbortedInv ==
    ASSUME RInv, NEW c \in Conn, JobAborted(c)
    PROVE  RInv'
<1>0. JobStep(c) /\ Stable
  BY Steps, AfterStep DEF JobStep
<1>1. /\ job' = [job EXCEPT ![c] = NoJob] /\ recv' = [recv EXCEPT ![c] = "gone"]
      /\ UNCHANGED <<tables, hchan, taken, chan>>
  BY DEF JobAborted
<1>2. \A d \in Conn : d # c => recv'[d] = recv[d]
  BY <1>1 DEF RInv, IInv, TypeOK
<1>3. ChanTyped' /\ ChansSound'
  BY <1>0, <1>1, TypeKept, ForwardSound DEF RInv
<1>4. QED
  BY <1>0, <1>1, <1>2, <1>3, NoJobFits, RunPending, RunDone

LEMMA JobInv ==
    ASSUME RInv, NEW c \in Conn, JobStep(c)
    PROVE  RInv'
BY HostForwardInv, HostFramesInv, JobResolveInv, JobListInv, JobCastInv, JobCheckInv, JobSendInv, JobAbortedInv
   DEF JobStep, RunJob

-----------------------------------------------------------------------------
(* The end of a session's guests *)

LEMMA EndInv ==
    ASSUME RInv, NEW e \in Ender, EndStep(e)
    PROVE  RInv'
<1>1. Stable /\ IInv' /\ TypeOK' /\ HostOwn'
  BY Steps, AfterStep
<1>2. UNCHANGED <<perm, pending, gsess, gtask, grecv, gframe, hchan, taken, job, recv, kind, sender, lateGuests>>
  BY DEF EndStep, Tell, Drop, vars, taskVars, tables, guestTasks, hostSide, history
<1>3. FramesSound' /\ SendersSound' /\ PendingSound' /\ QueuesSound' /\ TakenSound' /\ JobsSound'
  BY <1>1, <1>2, FramesSame, HistoryKept, QueuesKept, JobsSame
<1>4. JobInLoop'
  BY <1>2 DEF RInv, JobInLoop
<1>5. GuestsTyped' /\ HostTyped' /\ JobTyped'
  BY <1>2, TypeKept DEF RInv, guestTasks
<1>t. /\ guests \in [SessionId -> SUBSET Guest] /\ perm \in [SessionId -> Perms \cup {{}}]
      /\ pending \in [MsgId -> Guest \cup {NoGuest}]
      /\ todo \in [Ender -> SUBSET SessionId] /\ told \in [Ender -> SessionId \cup {NoSession}]
      /\ notice \in SUBSET Guest /\ HistoryTyped /\ ChanTyped
  BY TypeParts DEF RInv, TablesTyped, EndsTyped, HistoryTyped
<1>s. \A f \in Ender : \A s \in todo[f] : s \in SessionId /\ status[s] = "removed" /\ status'[s] = "removed"
  BY <1>1, <1>t DEF RInv, EndsSound, Stable
<1>6. CASE Tell(e)
  <2>1. PICK s \in todo[e] : /\ told' = [told EXCEPT ![e] = s]
                             /\ SendToGuests(guests[s], Msg("ended", NoMsg))
                             /\ notice' = notice \cup guests[s]
    BY <1>6 DEF Tell
  <2>2. UNCHANGED <<guests, todo>>
    BY <1>6 DEF Tell, tables
  <2>3. PICK m \in GuestMsg : SendToGuests(guests[s], m) /\ m.type = "ended"
    <3>1. Msg("ended", NoMsg) \in GuestMsg /\ Msg("ended", NoMsg).type = "ended"
      BY DEF Msg, GuestMsg
    <3>2. QED
      BY <2>1, <3>1
  <2>4. \A g \in Guest : gsess[g] # NoSession => MsgFits(m, g)
    BY <2>3 DEF MsgFits
  <2>5. ChanTyped' /\ ChansSound'
    BY <1>1, <1>t, <2>3, <2>4, SendTyped, SendSound
  <2>6. GuestsSound'
    BY <1>1, <1>2, <2>2, GuestsKept
  <2>7. TablesTyped' /\ EndsTyped' /\ HistoryTyped'
    BY <1>2, <1>t, <2>1, <2>2 DEF TablesTyped, EndsTyped, HistoryTyped
  <2>8. EndsSound'
    <3>1. ASSUME NEW f \in Ender, told'[f] # NoSession
          PROVE  status'[told'[f]] = "removed" /\ guests'[told'[f]] \subseteq notice' \cup lateGuests'
      <4>1. CASE f = e
        BY <1>s, <1>t, <2>1, <2>2, <4>1
      <4>2. CASE f # e
        <5>1. told'[f] = told[f] /\ told[f] \in SessionId
          BY <1>t, <2>1, <3>1, <4>2
        <5>2. status[told[f]] = "removed" /\ guests[told[f]] \subseteq notice \cup lateGuests
          BY <3>1, <5>1 DEF RInv, EndsSound
        <5>3. QED
          BY <1>1, <1>2, <2>1, <2>2, <5>1, <5>2 DEF Stable
      <4>3. QED
        BY <4>1, <4>2
    <3>2. QED
      BY <1>s, <2>2, <3>1 DEF EndsSound
  <2>9. RelayTypeOK'
    BY <1>1, <1>5, <2>5, <2>7, TypePartsNext
  <2>10. QED
    BY <1>1, <1>3, <1>4, <2>5, <2>6, <2>8, <2>9 DEF RInv
<1>7. CASE Drop(e)
  <2>1. /\ guests' = [guests EXCEPT ![told[e]] = {}] /\ todo' = [todo EXCEPT ![e] = todo[e] \ {told[e]}]
        /\ told' = [told EXCEPT ![e] = NoSession] /\ notice' = notice /\ chan' = chan
    BY <1>7 DEF Drop, history
  <2>2. \A s \in SessionId : guests'[s] \subseteq guests[s]
    BY <1>t, <2>1
  <2>3. GuestsSound' /\ ChansSound' /\ ChanTyped'
    BY <1>1, <1>2, <2>1, <2>2, GuestsKept, ForwardSound, TypeKept DEF RInv
  <2>4. TablesTyped' /\ EndsTyped' /\ HistoryTyped'
    BY <1>2, <1>t, <2>1 DEF TablesTyped, EndsTyped, HistoryTyped
  <2>5. EndsSound'
    <3>1. ASSUME NEW f \in Ender, told'[f] # NoSession
          PROVE  status'[told'[f]] = "removed" /\ guests'[told'[f]] \subseteq notice' \cup lateGuests'
      <4>1. told'[f] = told[f] /\ told[f] \in SessionId
        BY <1>t, <2>1, <3>1
      <4>2. status[told[f]] = "removed" /\ guests[told[f]] \subseteq notice \cup lateGuests
        BY <3>1, <4>1 DEF RInv, EndsSound
      <4>3. QED
        BY <1>1, <1>2, <2>1, <2>2, <4>1, <4>2 DEF Stable
    <3>2. \A f \in Ender : todo'[f] \subseteq todo[f]
      BY <1>t, <2>1
    <3>3. QED
      BY <1>s, <3>1, <3>2 DEF EndsSound
  <2>6. RelayTypeOK'
    BY <1>1, <1>5, <2>3, <2>4, TypePartsNext
  <2>7. QED
    BY <1>1, <1>3, <1>4, <2>3, <2>5, <2>6 DEF RInv
<1>8. QED
  BY <1>6, <1>7 DEF EndStep

-----------------------------------------------------------------------------
(* Guest connections *)

\* No guest touches the hosts' read tasks or the sessions that are ended.
LEMMA GuestDone ==
    ASSUME RInv, NEW g \in Guest, GuestStep(g),
           TablesTyped', GuestsTyped', ChanTyped', HostTyped', HistoryTyped',
           GuestsSound', FramesSound', SendersSound', PendingSound', QueuesSound', ChansSound', EndsSound'
    PROVE  RInv'
<1>1. Stable /\ IInv' /\ TypeOK' /\ HostOwn'
  BY Steps, AfterStep
<1>2. UNCHANGED <<recv, taken, job, todo, told>>
  BY DEF GuestStep, GuestConnects, ValidateToken, GuestAdmit, RegisterGuest, NotifyConnected, GuestForward,
       SelectGuestDropped, SelectGuestSocket, SelectGuestRecv, GuestSends, GuestFrame, GuestError, TrackQuery,
       SendToHost, Untrack, GuestRecvEnds, GuestCleanup, UnlistGuest, PurgePending, NotifyDisconnected,
       vars, taskVars, hostSide, ends
<1>3. RelayTypeOK'
  BY <1>1, <1>2, TypeKept, TypePartsNext DEF RInv, ends
<1>4. TakenSound' /\ JobsSound'
  BY <1>1, <1>2, QueuesKept, JobsSame
<1>5. JobInLoop'
  BY <1>2 DEF RInv, JobInLoop
<1>6. QED
  BY <1>1, <1>3, <1>4, <1>5 DEF RInv

\* The tasks of g move on.
LEMMA GuestsMove ==
    ASSUME RInv, Stable, NEW g \in Guest, gsess' = gsess,
           \A h \in Guest : h # g => gtask'[h] = gtask[h] /\ grecv'[h] = grecv[h],
           gsess[g] = NoSession => gtask'[g] = "done" /\ grecv'[g] = "off",
           gtask'[g] # "idle",
           \A s \in SessionId : \A h \in guests'[s] : h \in guests[s] \/ (h = g /\ gsess[g] = s)
    PROVE  GuestsSound'
<1>1. ASSUME NEW h \in Guest, gsess[h] # NoSession PROVE status'[gsess[h]] # "unused"
  BY <1>1, SessionStable
<1>2. QED
  BY <1>1 DEF RInv, GuestsSound

\* What the steps of the main task leave alone.
LEMMA MainKept ==
    ASSUME RInv, Stable
    PROVE  /\ UNCHANGED <<grecv, gframe>> => FramesSound'
           /\ UNCHANGED <<perm, guests, pending>> => TablesTyped'
           /\ UNCHANGED <<kind, sender, notice, lateGuests>> => HistoryTyped'
           /\ sender' = sender => SendersSound'
           /\ pending' = pending => PendingSound'
           /\ hchan' = hchan => HostTyped' /\ QueuesSound'
           /\ chan' = chan => ChanTyped' /\ ChansSound'
           /\ UNCHANGED <<todo, told, guests>> => EndsSound'
           /\ UNCHANGED <<gsess, gtask, grecv, gframe>> => GuestsTyped'
<1>1. UNCHANGED <<todo, told, guests>> => EndsSound'
  BY EndsKept DEF ends
<1>2. QED
  BY <1>1, FramesSame, HistoryKept, QueuesKept, ForwardSound, TypeKept DEF RInv, tables, history, guestTasks

LEMMA GuestTypes ==
    ASSUME RInv
    PROVE  /\ gsess \in [Guest -> SessionId \cup {NoSession}]
           /\ gtask \in [Guest -> {"idle", "validated", "upgraded", "registered",
                                   "running", "closing", "unlisted", "purged", "done"}]
           /\ grecv \in [Guest -> {"off", "loop", "deny", "track", "send", "full",
                                   "gone", "report", "ended"}]
           /\ gframe \in [Guest -> MsgId \cup {NoMsg}]
           /\ perm \in [SessionId -> Perms \cup {{}}]
           /\ guests \in [SessionId -> SUBSET Guest]
           /\ pending \in [MsgId -> Guest \cup {NoGuest}]
           /\ sender \in [MsgId -> Guest \cup {NoGuest}]
           /\ lateGuests \in SUBSET Guest
           /\ ChanTyped /\ HostTyped /\ TypeOK
BY TypeParts DEF RInv, GuestsTyped, TablesTyped, HistoryTyped

LEMMA ConnectsInv ==
    ASSUME RInv, NEW g \in Guest, GuestConnects(g)
    PROVE  RInv'
<1>0. GuestStep(g) /\ Stable
  BY Steps, AfterStep DEF GuestStep
<1>1. ASSUME NEW s \in SessionId, ValidateToken(g, s) PROVE RInv'
  <2>1. /\ gtask[g] = "idle" /\ gsess[g] = NoSession /\ grecv[g] = "off"
        /\ UNCHANGED <<tables, perm, guests, pending, grecv, gframe, hchan, chan, todo, told, history,
                       kind, sender, notice, lateGuests>>
    BY <1>1 DEF RInv, GuestsSound, ValidateToken, GStep, tables, hostSide, ends, history
  <2>2. \/ /\ status[s] = "live" /\ gtask' = [gtask EXCEPT ![g] = "validated"] /\ gsess' = [gsess EXCEPT ![g] = s]
        \/ gtask' = [gtask EXCEPT ![g] = "done"] /\ gsess' = gsess
    BY <1>1 DEF ValidateToken, GStep
  <2>3. GuestsTyped'
    BY <2>1, <2>2, GuestTypes DEF GuestsTyped
  <2>4. CASE gtask' = [gtask EXCEPT ![g] = "done"] /\ gsess' = gsess
    <3>1. GuestsSound'
      BY <1>0, <2>1, <2>4, GuestTypes, GuestsMove
    <3>2. QED
      BY <1>0, <2>1, <2>3, <3>1, MainKept, GuestDone
  <2>5. CASE /\ status[s] = "live" /\ gtask' = [gtask EXCEPT ![g] = "validated"] /\ gsess' = [gsess EXCEPT ![g] = s]
    <3>1. \A t \in SessionId : g \notin guests[t]
      BY <2>1, NoSessionAssumption DEF RInv, GuestsSound
    <3>2. \A h \in Guest : gsess[h] # NoSession => status'[gsess[h]] # "unused"
      BY <1>0, SessionStable
    <3>3. status'[s] # "unused" /\ s # NoSession
      BY <1>0, <2>5, NoSessionAssumption DEF Stable
    <3>4. GuestsSound'
      BY <2>1, <2>5, <3>1, <3>2, <3>3, GuestTypes DEF RInv, GuestsSound
    <3>5. QED
      BY <1>0, <2>1, <2>3, <3>4, MainKept, GuestDone
  <2>6. QED
    BY <2>2, <2>4, <2>5
<1>2. CASE GuestAdmit(g)
  <2>1. PICK t \in {"upgraded", "done"} : gtask' = [gtask EXCEPT ![g] = t]
    BY <1>2 DEF GuestAdmit, GStep
  <2>2. /\ gtask[g] = "validated" /\ gsess[g] # NoSession
        /\ UNCHANGED <<perm, guests, pending, gsess, grecv, gframe, hchan, chan, todo, told,
                       kind, sender, notice, lateGuests>>
    BY <1>2 DEF GuestAdmit, GStep, RInv, GuestsSound, tables, hostSide, ends, history
  <2>3. GuestsTyped'
    BY <2>1, <2>2, GuestTypes DEF GuestsTyped
  <2>4. GuestsSound'
    BY <1>0, <2>1, <2>2, GuestTypes, GuestsMove
  <2>5. QED
    BY <1>0, <2>2, <2>3, <2>4, MainKept, GuestDone
<1>3. CASE RegisterGuest(g)
  <2>1. /\ gtask[g] = "upgraded" /\ gsess[g] # NoSession /\ gtask' = [gtask EXCEPT ![g] = "registered"]
        /\ guests' = [guests EXCEPT ![gsess[g]] = guests[gsess[g]] \cup {g}]
        /\ lateGuests' = IF Present(gsess[g]) THEN lateGuests ELSE lateGuests \cup {g}
        /\ UNCHANGED <<perm, pending, gsess, grecv, gframe, hchan, chan, todo, told, kind, sender, notice, status>>
    BY <1>3 DEF RegisterGuest, GStep, RInv, GuestsSound, hostSide, ends, vars, wsVars
  <2>2. gsess[g] \in SessionId
    BY <2>1, GuestTypes
  <2>3. GuestsTyped' /\ TablesTyped'
    BY <2>1, GuestTypes DEF GuestsTyped, TablesTyped
  <2>4. HistoryTyped'
    BY <2>1, TypeParts DEF RInv, HistoryTyped
  <2>5. GuestsSound'
    <3>1. \A s \in SessionId : \A h \in guests'[s] : h \in guests[s] \/ (h = g /\ gsess[g] = s)
      BY <2>1, GuestTypes
    <3>2. QED
      BY <1>0, <2>1, <3>1, GuestTypes, GuestsMove
  <2>6. EndsSound'
    <3>1. ASSUME NEW e \in Ender, told[e] # NoSession
          PROVE  status[told[e]] = "removed" /\ guests'[told[e]] \subseteq notice \cup lateGuests'
      <4>1. /\ status[told[e]] = "removed" /\ guests[told[e]] \subseteq notice \cup lateGuests
            /\ told[e] \in SessionId
        BY <3>1, TypeParts DEF RInv, EndsSound, EndsTyped
      <4>2. CASE told[e] = gsess[g]
        <5>1. lateGuests' = lateGuests \cup {g}
          BY <2>1, <4>1, <4>2 DEF Present
        <5>2. guests'[told[e]] = guests[told[e]] \cup {g}
          BY <2>1, <2>2, <4>2, GuestTypes
        <5>3. QED
          BY <4>1, <5>1, <5>2
      <4>3. CASE told[e] # gsess[g]
        <5>1. guests'[told[e]] = guests[told[e]]
          BY <2>1, <4>1, <4>3, GuestTypes
        <5>2. QED
          BY <2>1, <4>1, <5>1
      <4>4. QED
        BY <4>2, <4>3
    <3>2. QED
      BY <2>1, <3>1 DEF RInv, EndsSound
  <2>7. QED
    BY <1>0, <2>1, <2>3, <2>4, <2>5, <2>6, MainKept, GuestDone
<1>4. CASE NotifyConnected(g)
  <2>1. /\ gtask[g] = "registered" /\ gsess[g] # NoSession /\ gtask' = [gtask EXCEPT ![g] = "running"]
        /\ grecv' = [grecv EXCEPT ![g] = "loop"] /\ NotifyHost(GuestNotebook(g))
        /\ UNCHANGED <<perm, guests, pending, gsess, gframe, chan, todo, told, kind, sender, notice, lateGuests>>
    BY <1>4 DEF NotifyConnected, GStep, RInv, GuestsSound, tables, ends, history
  <2>2. PICK n \in Notebook : n = GuestNotebook(g)
    BY <1>0, <2>1, SessionStable
  <2>3. HostTyped' /\ QueuesSound'
    BY <1>0, <2>1, <2>2, GuestTypes, NotifyTyped, NotifySound
  <2>4. GuestsTyped'
    BY <2>1, GuestTypes DEF GuestsTyped
  <2>5. GuestsSound'
    BY <1>0, <2>1, GuestTypes, GuestsMove
  <2>6. FramesSound'
    <3> DEFINE H == {g}
    <3>1. \A h \in Guest : h \notin H => grecv'[h] = grecv[h] /\ gframe'[h] = gframe[h]
      BY <2>1, GuestTypes
    <3>2. \A h \in Guest : h \in H => grecv'[h] = "loop"
      BY <2>1, GuestTypes
    <3> HIDE DEF H
    <3>3. QED
      BY <1>0, <3>1, <3>2, FramesKept
  <2>7. QED
    BY <1>0, <2>1, <2>3, <2>4, <2>5, <2>6, MainKept, GuestDone
<1>5. QED
  BY <1>1, <1>2, <1>3, <1>4 DEF GuestConnects

LEMMA SelectInv ==
    ASSUME RInv, NEW g \in Guest,
           GuestForward(g) \/ SelectGuestDropped(g) \/ SelectGuestSocket(g) \/ SelectGuestRecv(g)
    PROVE  RInv'
<1>0. GuestStep(g) /\ Stable
  BY Steps, AfterStep DEF GuestStep
<1>1. /\ gtask[g] = "running" /\ gsess[g] # NoSession
      /\ UNCHANGED <<perm, guests, pending, gsess, grecv, gframe, hchan, todo, told, kind, sender, notice, lateGuests>>
      /\ gtask' = gtask \/ gtask' = [gtask EXCEPT ![g] = "closing"]
      /\ \/ chan' = chan
         \/ chan' = [chan EXCEPT ![g] = <<>>]
         \/ chan[g] # <<>> /\ chan' = [chan EXCEPT ![g] = Tail(chan[g])]
  BY DEF GuestForward, SelectGuestDropped, SelectGuestSocket, SelectGuestRecv, GStep, RInv, GuestsSound,
         tables, guestTasks, hostSide, ends, history
<1>2. GuestsTyped'
  BY <1>1, GuestTypes DEF GuestsTyped
<1>3. GuestsSound'
  BY <1>0, <1>1, GuestTypes, GuestsMove
<1>4. /\ chan \in [Guest -> Seq(GuestMsg)] /\ chan[g] \in Seq(GuestMsg)
      /\ \A h \in Guest : Len(chan[h]) <= ChanCap
  BY GuestTypes DEF ChanTyped
<1>5. <<>> \in Seq(GuestMsg) /\ Len(<<>>) <= ChanCap
  BY GuestCapAssumption
<1>6. chan[g] # <<>> => Tail(chan[g]) \in Seq(GuestMsg) /\ Len(Tail(chan[g])) <= ChanCap
  BY <1>4, GuestCapAssumption
<1>7. ChanTyped'
  BY <1>1, <1>4, <1>5, <1>6 DEF ChanTyped
<1>8. \A h \in Guest : chan'[h] = chan[h] \/ chan'[h] = <<>> \/ chan'[h] = Tail(chan[h])
  BY <1>1, <1>4
<1>9. ChansSound'
  BY <1>0, <1>8, ForwardSound
<1>10. QED
  BY <1>0, <1>1, <1>2, <1>3, <1>7, <1>9, MainKept, GuestDone

LEMMA CleanupInv ==
    ASSUME RInv, NEW g \in Guest, GuestCleanup(g)
    PROVE  RInv'
<1>0. GuestStep(g) /\ Stable
  BY Steps, AfterStep DEF GuestStep
<1>1. /\ gtask[g] \in {"closing", "unlisted", "purged"} /\ gsess[g] # NoSession
      /\ UNCHANGED <<perm, gsess, grecv, gframe, chan, todo, told, kind, sender, notice, lateGuests>>
      /\ \E t \in {"unlisted", "purged", "done"} : gtask' = [gtask EXCEPT ![g] = t]
  BY DEF GuestCleanup, UnlistGuest, PurgePending, NotifyDisconnected, GStep, RInv, GuestsSound,
         tables, hostSide, ends, history
<1>2. GuestsTyped'
  BY <1>1, GuestTypes DEF GuestsTyped
<1>3. CASE UnlistGuest(g)
  <2>1. /\ guests' = [guests EXCEPT ![gsess[g]] = guests[gsess[g]] \ {g}]
        /\ UNCHANGED <<pending, hchan>>
    BY <1>3 DEF UnlistGuest, hostSide
  <2>2. \A s \in SessionId : guests'[s] \subseteq guests[s]
    BY <2>1, GuestTypes
  <2>3. GuestsSound'
    BY <1>0, <1>1, <2>2, GuestTypes, GuestsMove
  <2>4. EndsSound'
    BY <1>0, <1>1, <2>2, EndsKept DEF ends
  <2>5. TablesTyped'
    BY <1>1, <2>1, GuestTypes DEF TablesTyped
  <2>6. QED
    BY <1>0, <1>1, <1>2, <2>1, <2>3, <2>4, <2>5, MainKept, GuestDone
<1>4. CASE PurgePending(g)
  <2>1. /\ pending' = [m \in MsgId |-> IF pending[m] = g THEN NoGuest ELSE pending[m]]
        /\ UNCHANGED <<guests, hchan>>
    BY <1>4 DEF PurgePending, hostSide
  <2>2. GuestsSound'
    BY <1>0, <1>1, <2>1, GuestTypes, GuestsMove
  <2>3. TablesTyped'
    BY <1>1, <2>1, GuestTypes DEF TablesTyped
  <2>4. PendingSound'
    BY <1>1, <2>1 DEF RInv, PendingSound
  <2>5. QED
    BY <1>0, <1>1, <1>2, <2>1, <2>2, <2>3, <2>4, MainKept, GuestDone
<1>5. CASE NotifyDisconnected(g)
  <2>1. NotifyHost(GuestNotebook(g)) /\ UNCHANGED <<guests, pending>>
    BY <1>5 DEF NotifyDisconnected, tables
  <2>2. PICK n \in Notebook : n = GuestNotebook(g)
    BY <1>0, <1>1, SessionStable
  <2>3. HostTyped' /\ QueuesSound'
    BY <1>0, <2>1, <2>2, GuestTypes, NotifyTyped, NotifySound
  <2>4. GuestsSound'
    BY <1>0, <1>1, <2>1, GuestTypes, GuestsMove
  <2>5. QED
    BY <1>0, <1>1, <1>2, <2>1, <2>3, <2>4, MainKept, GuestDone
<1>6. QED
  BY <1>3, <1>4, <1>5 DEF GuestCleanup

\* The read task of g moves on, with the request m or without one.
LEMMA RecvMoves ==
    ASSUME RInv, Stable, NEW g \in Guest, grecv[g] # "off", UNCHANGED <<gsess, gtask, guests>>,
           NEW to \in {"loop", "deny", "track", "send", "full", "gone", "report", "ended"},
           NEW m \in MsgId \cup {NoMsg},
           grecv' = [grecv EXCEPT ![g] = to], gframe' = [gframe EXCEPT ![g] = m],
           to \notin {"loop", "ended"} => /\ m \in MsgId /\ sender'[m] = g
                                          /\ to # "deny" => Allowed(g, m)
    PROVE  GuestsTyped' /\ GuestsSound' /\ FramesSound'
<1>1. gsess[g] # NoSession /\ gtask[g] # "idle"
  BY DEF RInv, GuestsSound
<1>2. GuestsTyped'
  BY GuestTypes DEF GuestsTyped
<1>3. GuestsSound'
  BY <1>1, GuestTypes, GuestsMove
<1>4. FramesSound'
  <2> DEFINE H == {g}
  <2>1. \A h \in Guest : h \notin H => grecv'[h] = grecv[h] /\ gframe'[h] = gframe[h]
    BY GuestTypes
  <2>2. to \notin {"loop", "ended"} => m \in MsgId /\ sender'[m] = g /\ (to # "deny" => Allowed(g, m)')
    <3>1. Allowed(g, m) => Allowed(g, m)'
      BY <1>1, AllowedStable
    <3>2. QED
      BY <3>1
  <2>3. grecv'[g] = to /\ gframe'[g] = m
    BY GuestTypes
  <2>4. ASSUME NEW h \in Guest, h \in H, grecv'[h] \notin {"off", "loop", "ended"}
        PROVE  \E k \in MsgId : /\ gframe'[h] = k /\ sender'[k] = h
                                /\ grecv'[h] # "deny" => Allowed(h, k)'
    <3>1. h = g
      BY <2>4
    <3>2. /\ gframe'[g] = m /\ sender'[m] = g
          /\ grecv'[g] # "deny" => Allowed(g, m)'
      BY <2>2, <2>3, <2>4, <3>1
    <3>3. m \in MsgId
      BY <2>2, <2>3, <2>4, <3>1
    <3>4. QED
      BY <3>1, <3>2, <3>3 DEF Allowed
  <2> HIDE DEF H
  <2>5. QED
    BY <2>1, <2>4, FramesKept
<1>5. QED
  BY <1>2, <1>3, <1>4

\* The request in hand.
LEMMA FrameInHand ==
    ASSUME RInv, Stable, NEW g \in Guest, grecv[g] \notin {"off", "loop", "ended"}
    PROVE  \E m \in MsgId : /\ gframe[g] = m /\ sender[m] = g /\ sender'[m] = g /\ m # NoMsg
                            /\ gsess[g] # NoSession
                            /\ gframe = [gframe EXCEPT ![g] = m]
                            /\ grecv[g] # "deny" => Allowed(g, m)
<1>1. PICK m \in MsgId : gframe[g] = m /\ sender[m] = g /\ (grecv[g] # "deny" => Allowed(g, m))
  BY DEF RInv, FramesSound
<1>2. gsess[g] # NoSession
  BY DEF RInv, GuestsSound
<1>3. sender'[m] = g
  BY <1>1, SenderStable, NoGuestAssumption
<1>4. gframe = [gframe EXCEPT ![g] = m]
  BY <1>1, GuestTypes
<1>5. QED
  BY <1>1, <1>2, <1>3, <1>4, NoMsgAssumption

LEMMA SendsInv ==
    ASSUME RInv, NEW g \in Guest, NEW m \in MsgId, GuestSends(g, m)
    PROVE  RInv'
<1>0. GuestStep(g) /\ Stable
  BY Steps, AfterStep DEF GuestStep
<1>1. /\ grecv[g] = "loop" /\ gframe' = [gframe EXCEPT ![g] = m] /\ sender' = [sender EXCEPT ![m] = g]
      /\ UNCHANGED <<perm, guests, pending, gsess, gtask, hchan, chan, todo, told, kind, notice, lateGuests>>
  BY DEF GuestSends, GRecv, tables, hostSide, ends
<1>2. PICK to \in {"track", "deny"} : grecv' = [grecv EXCEPT ![g] = to] /\ (to = "track" => Allowed(g, m))
  BY DEF GuestSends, GRecv
<1>3. sender'[m] = g
  BY <1>1, GuestTypes
<1>4. GuestsTyped' /\ GuestsSound' /\ FramesSound'
  BY <1>0, <1>1, <1>2, <1>3, RecvMoves
<1>5. HistoryTyped'
  BY <1>1, TypeParts DEF RInv, HistoryTyped
<1>6. SendersSound'
  <2>1. gsess[g] # NoSession
    BY <1>1 DEF RInv, GuestsSound
  <2>2. QED
    BY <1>1, <2>1, GuestTypes DEF RInv, SendersSound
<1>7. QED
  BY <1>0, <1>1, <1>4, <1>5, <1>6, MainKept, GuestDone

LEMMA ErrorInv ==
    ASSUME RInv, NEW g \in Guest, GuestError(g)
    PROVE  RInv'
<1>0. GuestStep(g) /\ Stable
  BY Steps, AfterStep DEF GuestStep, GuestFrame
<1>1. /\ grecv[g] \in {"deny", "report"} /\ grecv' = [grecv EXCEPT ![g] = "loop"]
      /\ gframe' = [gframe EXCEPT ![g] = NoMsg]
      /\ UNCHANGED <<perm, guests, pending, gsess, gtask, hchan, todo, told, kind, sender, notice, lateGuests>>
  BY DEF GuestError, GRecv, tables, hostSide, ends, history
<1>2. GuestsTyped' /\ GuestsSound' /\ FramesSound'
  BY <1>0, <1>1, RecvMoves
<1>3. PICK k \in MsgId : gframe[g] = k /\ sender[k] = g /\ k # NoMsg
  BY <1>0, <1>1, FrameInHand
<1>4. PICK m \in GuestMsg : SendToGuests({g}, m) /\ m.type \in {"denied", "nohost"} /\ m.id = k
  <2>1. ASSUME NEW type \in {"denied", "nohost"}
        PROVE  Msg(type, k) \in GuestMsg /\ Msg(type, k).type = type /\ Msg(type, k).id = k
    BY DEF Msg, GuestMsg
  <2>2. \E type \in {"denied", "nohost"} : SendToGuests({g}, Msg(type, k))
    BY <1>3 DEF GuestError
  <2>3. QED
    BY <2>1, <2>2
<1>5. gsess[g] # NoSession => MsgFits(m, g)
  BY <1>3, <1>4 DEF MsgFits
<1>6. ChanTyped' /\ ChansSound'
  BY <1>0, <1>4, <1>5, GuestTypes, SendTyped, SendSound
<1>7. QED
  BY <1>0, <1>1, <1>2, <1>6, MainKept, GuestDone

LEMMA TrackInv ==
    ASSUME RInv, NEW g \in Guest, TrackQuery(g) \/ Untrack(g)
    PROVE  RInv'
<1>0. GuestStep(g) /\ Stable
  BY Steps, AfterStep DEF GuestStep, GuestFrame
<1>1. /\ grecv[g] \in {"track", "full", "gone"}
      /\ UNCHANGED <<perm, guests, gsess, gtask, hchan, chan, todo, told, kind, sender, notice, lateGuests>>
  BY DEF TrackQuery, Untrack, GRecv, hostSide, ends, history
<1>2. PICK k \in MsgId : /\ gframe[g] = k /\ sender[k] = g /\ sender'[k] = g /\ k # NoMsg
                         /\ gframe = [gframe EXCEPT ![g] = k] /\ Allowed(g, k)
  BY <1>0, <1>1, FrameInHand
<1>3. PICK to \in {"send", "loop", "report"} :
         /\ grecv' = [grecv EXCEPT ![g] = to]
         /\ \/ gframe' = [gframe EXCEPT ![g] = k]
            \/ to = "loop" /\ gframe' = [gframe EXCEPT ![g] = NoMsg]
  BY <1>2 DEF TrackQuery, Untrack, GRecv
<1>4. GuestsTyped' /\ GuestsSound' /\ FramesSound'
  <2>1. CASE gframe' = [gframe EXCEPT ![g] = k]
    BY <1>0, <1>1, <1>2, <1>3, <2>1, RecvMoves
  <2>2. CASE to = "loop" /\ gframe' = [gframe EXCEPT ![g] = NoMsg]
    BY <1>0, <1>1, <1>3, <2>2, RecvMoves
  <2>3. QED
    BY <1>3, <2>1, <2>2
<1>5. PICK o \in {g, NoGuest} : pending' = [pending EXCEPT ![k] = o]
  BY <1>2 DEF TrackQuery, Untrack
<1>6. TablesTyped'
  BY <1>1, <1>5, GuestTypes DEF TablesTyped
<1>7. PendingSound'
  BY <1>1, <1>2, <1>5, GuestTypes DEF RInv, PendingSound
<1>8. QED
  BY <1>0, <1>1, <1>4, <1>6, <1>7, MainKept, GuestDone

LEMMA ToHostInv ==
    ASSUME RInv, NEW g \in Guest, SendToHost(g)
    PROVE  RInv'
<1>0. GuestStep(g) /\ Stable
  BY Steps, AfterStep DEF GuestStep, GuestFrame
<1>1. /\ grecv[g] = "send"
      /\ UNCHANGED <<perm, guests, pending, gsess, gtask, chan, todo, told, kind, sender, notice, lateGuests>>
  BY DEF SendToHost, GRecv, tables, ends, history
<1>2. PICK k \in MsgId : /\ gframe[g] = k /\ sender[k] = g /\ sender'[k] = g /\ k # NoMsg
                         /\ gsess[g] # NoSession
                         /\ gframe = [gframe EXCEPT ![g] = k] /\ Allowed(g, k)
  BY <1>0, <1>1, FrameInHand
<1>3. PICK n \in Notebook : n = GuestNotebook(g)
  BY <1>0, <1>2, SessionStable
<1>4. CASE /\ HostTakes(n) /\ Enqueue(n, k)
           /\ grecv' = [grecv EXCEPT ![g] = "loop"] /\ gframe' = [gframe EXCEPT ![g] = NoMsg]
  <2>1. GuestsTyped' /\ GuestsSound' /\ FramesSound'
    BY <1>0, <1>1, <1>4, RecvMoves
  <2>2. \A c \in Conn : nb[c] = n => ForHost(k, c)
    BY <1>2, <1>3, NoGuestAssumption DEF ForHost
  <2>3. QueuesSound'
    BY <1>0, <1>4, <2>2, EnqueueSound
  <2>4. HostTyped'
    BY <1>4, GuestTypes, EnqueueTyped
  <2>5. QED
    BY <1>0, <1>1, <2>1, <2>3, <2>4, MainKept, GuestDone
<1>5. ASSUME NEW to \in {"full", "gone"}, grecv' = [grecv EXCEPT ![g] = to], UNCHANGED <<gframe, hchan>> PROVE RInv'
  <2>1. GuestsTyped' /\ GuestsSound' /\ FramesSound'
    BY <1>0, <1>1, <1>2, <1>5, RecvMoves
  <2>2. QED
    BY <1>0, <1>1, <1>5, <2>1, MainKept, GuestDone
<1>6. QED
  BY <1>2, <1>3, <1>4, <1>5 DEF SendToHost, GRecv

LEMMA RecvEndsInv ==
    ASSUME RInv, NEW g \in Guest, GuestRecvEnds(g)
    PROVE  RInv'
<1>0. GuestStep(g) /\ Stable
  BY Steps, AfterStep DEF GuestStep
<1>1. /\ grecv[g] # "off" /\ grecv' = [grecv EXCEPT ![g] = "ended"] /\ gframe' = [gframe EXCEPT ![g] = NoMsg]
      /\ UNCHANGED <<perm, guests, pending, gsess, gtask, hchan, chan, todo, told, kind, sender, notice, lateGuests>>
  BY DEF GuestRecvEnds, GRecv, tables, hostSide, ends, history
<1>2. GuestsTyped' /\ GuestsSound' /\ FramesSound'
  BY <1>0, <1>1, RecvMoves
<1>3. QED
  BY <1>0, <1>1, <1>2, MainKept, GuestDone

LEMMA GuestInv ==
    ASSUME RInv, NEW g \in Guest, GuestStep(g)
    PROVE  RInv'
BY ConnectsInv, SelectInv, CleanupInv, SendsInv, ErrorInv, TrackInv, ToHostInv, RecvEndsInv DEF GuestStep, GuestFrame

LEMMA NextRInv ==
    ASSUME RInv, [RelayNext]_allVars
    PROVE  RInv'
<1>1. CASE UNCHANGED allVars
  <2>1. UNCHANGED <<vars, perm, guests, pending, gsess, gtask, grecv, gframe, chan, hchan, taken, job, todo, told,
                    kind, sender, notice, lateGuests>>
    BY <1>1 DEF allVars, guestVars, tables, guestTasks, hostSide, ends, history
  <2>2. Stable
    BY <2>1 DEF Stable, vars, wsVars
  <2>3. IInv' /\ TypeOK' /\ HostOwn' /\ JobInLoop'
    <3>1. IInv'
      BY <2>1, NextIInv DEF RInv
    <3>2. QED
      BY <2>1, <3>1, HostOwnNext DEF RInv, IInv, JobInLoop, vars, taskVars
  <2>4. RelayTypeOK'
    BY <2>1, <2>3, TypeKept, TypePartsNext DEF RInv, tables, guestTasks, ends, history
  <2>5. GuestsSound'
    BY <2>1, <2>2, GuestsKept
  <2>6. QED
    BY <2>1, <2>2, <2>3, <2>4, <2>5, MainKept, QueuesKept, JobsSame DEF RInv
<1>2. CASE RegistryStep
  BY <1>2, RegistryInv
<1>3. ASSUME NEW c \in Conn, JobStep(c) PROVE RInv'
  BY <1>3, JobInv
<1>4. ASSUME NEW g \in Guest, GuestStep(g) PROVE RInv'
  BY <1>4, GuestInv
<1>5. ASSUME NEW e \in Ender, EndStep(e) PROVE RInv'
  BY <1>5, EndInv
<1>6. QED
  BY <1>1, <1>2, <1>3, <1>4, <1>5, Steps

LEMMA InitRInv == RelayInit => RInv
<1> SUFFICES ASSUME RelayInit PROVE RInv
  OBVIOUS
<1> USE DEF RelayInit
<1>1. IInv /\ TypeOK
  BY InitIInv DEF IInv
<1>2. NoJob \in Job /\ \A c : JobFits(NoJob, c)
  BY NoJobFits
<1>3. /\ TablesTyped /\ GuestsTyped /\ EndsTyped /\ HistoryTyped
  BY DEF TablesTyped, GuestsTyped, EndsTyped, HistoryTyped
<1>4. ChanTyped /\ HostTyped
  <2>1. \A S : <<>> \in Seq(S) /\ Len(<<>>) <= ChanCap
    BY GuestCapAssumption
  <2>2. QED
    BY <2>1 DEF ChanTyped, HostTyped
<1>5. JobTyped
  BY <1>2 DEF JobTyped
<1>6. JobInLoop /\ HostOwn
  BY DEF JobInLoop, HostOwn, Hosted, Init
<1>7. GuestsSound /\ FramesSound /\ SendersSound /\ PendingSound /\ TakenSound /\ EndsSound
  BY DEF GuestsSound, FramesSound, SendersSound, PendingSound, TakenSound, EndsSound
<1>8. QueuesSound /\ ChansSound
  BY DEF QueuesSound, ChansSound
<1>9. JobsSound
  BY <1>2 DEF JobsSound
<1>10. QED
  BY <1>1, <1>3, <1>4, <1>5, <1>6, <1>7, <1>8, <1>9, TypeParts DEF RInv

LEMMA RelayInductive == RelaySpec => []RInv
<1>1. RInv /\ [RelayNext]_allVars => RInv'
  BY NextRInv
<1>2. QED
  BY InitRInv, <1>1, PTL DEF RelaySpec

-----------------------------------------------------------------------------
(* What follows from it *)

\* The relay implements the registry: guests, their requests and the answers add
\* nothing to what can happen to hosts, secrets and sessions.
THEOREM RegistryKept == RelaySpec => RegistryImplemented
<1>1. RelayInit => Init
  BY DEF RelayInit
<1>2. RInv /\ [RelayNext]_allVars => [Next]_vars
  BY Implements DEF RInv
<1>3. QED
  BY RelayInductive, <1>1, <1>2, PTL DEF RelaySpec, RegistryImplemented, Spec

\* Answers go to the guest that asked, hosts see permitted requests of their own
\* notebook's guests, and no table or queue outgrows its type.
THEOREM RoutingSafe == RelaySpec => []RoutingSound
<1>1. RInv => RoutingSound
  <2> SUFFICES ASSUME RInv PROVE RoutingSound
    OBVIOUS
  <2>1. HostGetsPermittedFrames
    <3>1. ASSUME NEW c \in Conn, NEW m \in taken[c]
          PROVE  m \in MsgId /\ sender[m] # NoGuest /\ Allowed(sender[m], m) /\ GuestNotebook(sender[m]) = nb[c]
      BY DEF RInv, TakenSound, ForHost
    <3>2. QED
      BY <3>1 DEF HostGetsPermittedFrames, Allowed
  <2>2. AnswersRoutedToSender
    BY DEF RInv, ChansSound, MsgFits, AnswersRoutedToSender
  <2>3. QED
    BY <2>1, <2>2 DEF RInv, RoutingSound
<1>2. QED
  BY RelayInductive, <1>1, PTL

\* A guest without the read permission is sent no content of the notebook but the
\* acknowledgement of its own mutation.
THEOREM BlindGuestsSafe == RelaySpec => []BlindGuestsSeeOwnAcksOnly
<1>1. RInv => BlindGuestsSeeOwnAcksOnly
  BY DEF RInv, ChansSound, MsgFits, BlindGuestsSeeOwnAcksOnly
<1>2. QED
  BY RelayInductive, <1>1, PTL

\* A guest is told that its session ended before it is dropped from the list,
\* unless it registered after the session was removed.
THEOREM ToldSafe == RelaySpec => TimelyGuestsToldBeforeDropped
<1>1. RInv /\ [RelayNext]_allVars => [\A g \in Guest : Disconnected(g) => g \in notice \cup lateGuests]_allVars
  <2> SUFFICES ASSUME RInv, RelayNext, NEW g \in Guest, Disconnected(g)
               PROVE  g \in notice \cup lateGuests
    OBVIOUS
  <2>1. /\ gsess[g] \in SessionId /\ g \in guests[gsess[g]] /\ gtask[g] \in {"registered", "running"}
        /\ g \notin guests'[gsess[g]]
    BY GuestTypes DEF Disconnected, Receives, Listed
  <2>2. guests' # guests
    BY <2>1
  <2>3. ASSUME NEW h \in Guest, GuestStep(h) PROVE FALSE
    <3>1. CASE RegisterGuest(h)
      <4>1. guests' = [guests EXCEPT ![gsess[h]] = guests[gsess[h]] \cup {h}]
        BY <3>1 DEF RegisterGuest
      <4>2. QED
        BY <2>1, <4>1, GuestTypes
    <3>2. CASE UnlistGuest(h)
      <4>1. guests' = [guests EXCEPT ![gsess[h]] = guests[gsess[h]] \ {h}] /\ gtask[h] = "closing"
        BY <3>2 DEF UnlistGuest, GStep
      <4>2. h # g
        BY <2>1, <4>1
      <4>3. QED
        BY <2>1, <4>1, <4>2, GuestTypes
    <3>3. QED
      BY <2>2, <2>3, <3>1, <3>2
         DEF GuestStep, GuestConnects, ValidateToken, GuestAdmit, NotifyConnected, GuestForward,
             SelectGuestDropped, SelectGuestSocket, SelectGuestRecv, GuestSends, GuestFrame, GuestError, TrackQuery,
             SendToHost, Untrack, GuestRecvEnds, GuestCleanup, PurgePending, NotifyDisconnected, tables
  <2>4. ASSUME NEW e \in Ender, EndStep(e) PROVE g \in notice \cup lateGuests
    <3>1. Drop(e)
      BY <2>2, <2>4 DEF EndStep, Tell, tables
    <3>2. told[e] # NoSession /\ guests' = [guests EXCEPT ![told[e]] = {}]
      BY <3>1 DEF Drop
    <3>3. told[e] = gsess[g]
      BY <2>1, <3>2, GuestTypes
    <3>4. QED
      BY <2>1, <3>2, <3>3 DEF RInv, EndsSound
  <2>5. ~ RegistryStep /\ ~ (\E c \in Conn : JobStep(c))
    BY <2>2, RegistryFrame, JobFrame
  <2>6. QED
    BY <2>3, <2>4, <2>5, Steps
<1>2. QED
  BY RelayInductive, <1>1, PTL DEF RelaySpec, TimelyGuestsToldBeforeDropped

\* A mutation whose own Event is not sent because the broadcast served its guest
\* was broadcast to that guest's session.
THEOREM BroadcastSafe == RelaySpec => BroadcastReachedOrigin
<1>1. RInv /\ [RelayNext]_allVars =>
        [\A c \in Conn : AtStep(c, "check") /\ job'[c] = NoJob /\ recv'[c] = "loop"
                         => gsess[job[c].origin] \in job[c].sids]_allVars
  <2> SUFFICES ASSUME RInv, RelayNext, NEW c \in Conn, AtStep(c, "check"), job'[c] = NoJob, recv'[c] = "loop"
               PROVE  gsess[job[c].origin] \in job[c].sids
    OBVIOUS
  <2>1. PICK i \in Job : job[c] = i /\ JobFits(i, c) /\ i.step = "check"
    BY JobAtStep
  <2>2. i # NoJob /\ i.origin # NoGuest
    BY <2>1 DEF NoJob, JobFits
  <2>3. job' # job
    BY <2>1, <2>2
  <2>4. job \in [Conn -> Job] /\ recv \in [Conn -> RecvState]
    BY TypeParts DEF RInv, IInv, TypeOK, JobTyped
  <2>5. ASSUME NEW d \in Conn, JobStep(d) PROVE gsess[i.origin] \in i.sids
    <3>1. d = c
      <4>1. \E x : job' = [job EXCEPT ![d] = x]
        BY <2>3, <2>5 DEF JobStep, HostForward, HostFrames, HostAcks, HostResponds, HostEdits, StartJob,
                          RunJob, JobResolve, JobCast, JobCheck, JobSend, JobAborted, JobList
      <4>2. QED
        BY <2>1, <2>2, <2>4, <4>1
    <3>2. ~ JobAborted(c)
      BY <2>4 DEF JobAborted
    <3>3. ~ HostFrames(c) /\ ~ HostForward(c)
      BY <2>1, <2>2, <2>3 DEF HostFrames, HostAcks, HostResponds, HostEdits, StartJob, BetweenFrames, HostForward
    <3>4. JobCheck(c)
      BY <2>1, <2>5, <3>1, <3>2, <3>3 DEF JobStep, RunJob, JobResolve, JobCast, JobList, JobSend, AtStep
    <3>5. CanRead(i.origin)
      <4>1. job' = [job EXCEPT ![c] = IF CanRead(i.origin) THEN NoJob ELSE [i EXCEPT !.step = "send"]]
        BY <2>1, <3>4 DEF JobCheck
      <4>2. [i EXCEPT !.step = "send"] # NoJob
        BY DEF Job, NoJob
      <4>3. QED
        BY <2>4, <4>1, <4>2
    <3>6. QED
      BY <2>1, <2>2, <3>5 DEF CanRead, JobFits
  <2>6. ASSUME NEW g \in Guest, GuestStep(g) PROVE FALSE
    BY <2>3, <2>6 DEF GuestStep, GuestConnects, ValidateToken, GuestAdmit, RegisterGuest, NotifyConnected, GuestForward,
       SelectGuestDropped, SelectGuestSocket, SelectGuestRecv, GuestSends, GuestFrame, GuestError, TrackQuery,
       SendToHost, Untrack, GuestRecvEnds, GuestCleanup, UnlistGuest, PurgePending, NotifyDisconnected, hostSide
  <2>7. ASSUME NEW e \in Ender, EndStep(e) PROVE FALSE
    BY <2>3, <2>7 DEF EndStep, Tell, Drop, hostSide
  <2>8. ~ RegistryStep
    BY <2>3, RegistryFrame
  <2>9. QED
    BY <2>1, <2>5, <2>6, <2>7, <2>8, Steps
<1>2. QED
  BY RelayInductive, <1>1, PTL DEF RelaySpec, BroadcastReachedOrigin

\* What is proved of the registry alone holds with its guests.
COROLLARY RegistrySafe ==
    RelaySpec => [](BoundUnlessExposed /\ CurrentHostStays /\ TokenStaysWithSecret /\ IdleForgottenUnlessLate)
BY RegistryKept, HostSecretSafe, CurrentHostSafe, TokenSafe, IdleForgottenSafe, PTL DEF RegistryImplemented

=============================================================================
