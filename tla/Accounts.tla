------------------------------ MODULE Accounts -------------------------------
(***************************************************************************)
(* Accounts: who is signed in, and what that lets them see and do.  The    *)
(* session rows and cookies of crates/ironpad-app/src/auth.rs, db.rs and   *)
(* ironpad-server/src/auth.rs, and the acts on one shared notebook of      *)
(* server_fns.rs: create, save, push, unpublish, delete, set private,      *)
(* grant, revoke, read.                                                    *)
(*                                                                         *)
(* A call is an HTTP request.  Each of its database statements is a step,  *)
(* so calls interleave between them; its answer may arrive late, or never. *)
(* The session is looked up first, and what it says is not looked at again.*)
(*                                                                         *)
(* Every person has one browser.  Time is counted in the interval after    *)
(* which a session is renewed or in parts of it.                           *)
(***************************************************************************)
EXTENDS Naturals

CONSTANTS
    User,        \* people; each has signed in when a token was minted for it
    Owner,       \* the one who saves the notebook to the account
    Token,       \* session tokens, in the order of minting none is reused
    Call,        \* bound: requests under way at a time
    Ttl,         \* SESSION_TTL_SECS
    RenewAfter,  \* SESSION_RENEW_AFTER_SECS
    MaxTime,     \* bound: the clock
    MaxPushes,   \* bound: versions published
    Nothing

ASSUME OwnerAssumption == Owner \in User /\ Nothing \notin User \union Token
ASSUME TimeAssumption  == /\ {Ttl, RenewAfter, MaxTime, MaxPushes} \subseteq Nat
                          /\ RenewAfter < Ttl

VARIABLES
    now,
    tokenOf,   \* session.user; kept when the row is gone
    expires,   \* session.expires_at, 0 for no row
    cookie,    \* a browser's session cookie: its token and when it expires
    there,     \* the notebook has a row, and its OWNER grant
    pub,       \* notebook_json: the number of the version, 0 for none
    draft,     \* draft_json is there
    private,   \* private
    readers,   \* READ grants
    call,
    \* bounds
    made, pushes,
    \* history, read by no guard
    visit,     \* when a call that was answered was sent with a token
    slipped,   \* tokens whose renewal failed, or whose renewed cookie was lost
    saw        \* what was the case at some time of a read, up to its answer

sessions == <<tokenOf, expires>>
share    == <<there, pub, draft, private, readers>>
bounds   == <<made, pushes>>
history  == <<visit, slipped>>
vars     == <<now, sessions, cookie, share, call, bounds, history, saw>>

NoCookie == [token |-> Nothing, until |-> 0]
NoCall   == [op |-> "none", at |-> "none", by |-> Nothing, token |-> Nothing, sent |-> 0,
             arg |-> Nothing, viewer |-> Nothing, renewed |-> FALSE,
             pub |-> 0, said |-> "none"]

OwnerActs == {"save", "push", "unpublish", "discard", "delete", "hide", "show", "grant", "revoke"}

At(c, at)  == call[c].at = at
Runs(c, f) == call' = [call EXCEPT ![c] = f]
Goes(c, at) == Runs(c, [call[c] EXCEPT !.at = at])

Alive(t) == expires[t] # 0

----------------------------------------------------------------------------
\* user_can_read_share: an OWNER or a READ grant; the former comes and goes with
\* the row.
HoldsGrant(u) == (there /\ u = Owner) \/ u \in readers

\* What is the case for a reader with token t.
Facts ==
    [t \in Token \union {Nothing} |->
        {IF private THEN "private" ELSE "public",
         IF t # Nothing /\ HoldsGrant(tokenOf[t]) THEN "granted" ELSE "ungranted",
         IF t # Nothing /\ Alive(t) THEN "in" ELSE "out"}]

NothingSeen == [pubs |-> {}, facts |-> {}]

Witness ==
    saw' = [c \in Call |->
              IF call'[c].op # "view" THEN NothingSeen
              ELSE IF call[c].at = "answer" THEN saw[c]
              ELSE [pubs |-> saw[c].pubs \union {pub'},
                    facts |-> saw[c].facts \union Facts'[call'[c].token]]]

----------------------------------------------------------------------------
Init ==
    /\ now = 0
    /\ tokenOf = [t \in Token |-> Nothing]
    /\ expires = [t \in Token |-> 0]
    /\ cookie = [u \in User |-> NoCookie]
    /\ there = FALSE /\ pub = 0 /\ draft = FALSE /\ private = FALSE /\ readers = {}
    /\ call = [c \in Call |-> NoCall]
    /\ made = FALSE /\ pushes = 0
    /\ visit = [t \in Token |-> 0]
    /\ slipped = {}
    /\ saw = [c \in Call |-> NothingSeen]

\* Browsers forget a cookie whose Max-Age is over.  A session is looked up and
\* renewed within one instant.
Tick ==
    /\ now < MaxTime
    /\ \A c \in Call : ~At(c, "renew")
    /\ now' = now + 1
    /\ cookie' = [u \in User |-> IF cookie[u].until > now + 1 THEN cookie[u] ELSE NoCookie]
    /\ UNCHANGED <<sessions, share, call, bounds, history>> /\ Witness

----------------------------------------------------------------------------
\* Requests, and the session each is resolved with.

\* A browser sends a request, with its cookie.
Send(c, u, op, arg, at) ==
    /\ At(c, "none")
    /\ Runs(c, [op |-> op, at |-> at, by |-> u, token |-> cookie[u].token, sent |-> now,
                arg |-> arg, viewer |-> Nothing, renewed |-> FALSE, pub |-> 0, said |-> "none"])
    /\ UNCHANGED <<now, sessions, cookie, share, bounds, history>> /\ Witness

Ask(c, u)    == \E op \in {"info", "view", "share"} : Send(c, u, op, Nothing, "lookup")
Act(c, u)    == \E op \in OwnerActs \ {"grant", "revoke"} : Send(c, u, op, Nothing, "lookup")
Invite(c, u) == \E op \in {"grant", "revoke"}, v \in User : Send(c, u, op, v, "lookup")
Login(c, u)  == Send(c, u, "login", Nothing, "mint")
Logout(c, u) == Send(c, u, "logout", Nothing, "forget")

\* Where a call goes once it knows who is calling; require_login.
After(op, viewer) ==
    IF op = "view" THEN "row"
    ELSE IF viewer = Nothing \/ op = "info" THEN "answer"
    ELSE IF op = "share" THEN "create"
    ELSE "gate"

Resolved(c, viewer, renewed) ==
    Runs(c, [call[c] EXCEPT !.at = After(call[c].op, viewer), !.viewer = viewer, !.renewed = renewed])

Young(t) == expires[t] >= now + (Ttl - RenewAfter)

\* session_user: the row is read.  An expired one is deleted; a second
\* statement, but no other call can make anything of such a row.
Lookup(c) ==
    LET t == call[c].token IN
    /\ At(c, "lookup")
    /\ \/ /\ t = Nothing \/ (t # Nothing /\ ~Alive(t))
          /\ Resolved(c, Nothing, FALSE) /\ UNCHANGED expires
       \/ /\ t # Nothing /\ Alive(t) /\ expires[t] <= now
          /\ Resolved(c, Nothing, FALSE) /\ expires' = [expires EXCEPT ![t] = 0]
       \/ /\ t # Nothing /\ expires[t] > now /\ Young(t)
          /\ Resolved(c, tokenOf[t], FALSE) /\ UNCHANGED expires
       \/ /\ t # Nothing /\ expires[t] > now /\ ~Young(t)
          /\ Goes(c, "renew") /\ UNCHANGED expires
    /\ UNCHANGED <<now, tokenOf, cookie, share, bounds, history>> /\ Witness

\* Mutation: the renewal creates the row.
Upserted(t) == expires' = [expires EXCEPT ![t] = now + Ttl]

\* UPDATE: nothing where there is no row.
Updated(t) == expires' = [expires EXCEPT ![t] = IF Alive(t) THEN now + Ttl ELSE 0]

\* The expiry slides; the session is valid whether or not that succeeds.
Renew(c) ==
    LET t == call[c].token IN
    /\ At(c, "renew")
    /\ \/ Updated(t) /\ Resolved(c, tokenOf[t], TRUE) /\ UNCHANGED slipped
       \/ UNCHANGED expires /\ Resolved(c, tokenOf[t], FALSE) /\ slipped' = slipped \union {t}
    /\ UNCHANGED <<now, tokenOf, cookie, share, bounds, visit>> /\ Witness

\* finish_login: create_session for the one who signed in.
Mint(c) ==
    /\ At(c, "mint")
    /\ \E t \in Token :
         /\ tokenOf[t] = Nothing
         /\ tokenOf' = [tokenOf EXCEPT ![t] = call[c].by]
         /\ expires' = [expires EXCEPT ![t] = now + Ttl]
         /\ Runs(c, [call[c] EXCEPT !.at = "answer", !.token = t, !.viewer = call[c].by, !.renewed = TRUE])
    /\ UNCHANGED <<now, cookie, share, bounds, history>> /\ Witness

\* logout: delete_session; a failure is logged only.
Forget(c) ==
    /\ At(c, "forget")
    /\ \/ expires' = [t \in Token |-> IF t = call[c].token THEN 0 ELSE expires[t]]
       \/ UNCHANGED expires
    /\ Goes(c, "answer")
    /\ UNCHANGED <<now, tokenOf, cookie, share, bounds, history>> /\ Witness

\* revoke_user_sessions, by the administrator.
Revoke(u) ==
    /\ expires' = [t \in Token |-> IF tokenOf[t] = u THEN 0 ELSE expires[t]]
    /\ UNCHANGED <<now, tokenOf, cookie, share, call, bounds, history>> /\ Witness

----------------------------------------------------------------------------
\* Answers.

\* Mutation: the cookie is not set again when the session is renewed.
OnlyAtLogin(c) == call[c].op = "login"

\* refresh_session_cookie
SetsCookie(c) == call[c].renewed

Latest(a, b) == IF a > b THEN a ELSE b

Arrive(c) ==
    LET u == call[c].by  t == call[c].token IN
    /\ At(c, "answer")
    /\ Runs(c, NoCall)
    /\ cookie' = [cookie EXCEPT ![u] = IF call[c].op = "logout" THEN NoCookie
                                       ELSE IF SetsCookie(c) THEN [token |-> t, until |-> now + Ttl]
                                       ELSE @]
    /\ visit' = [s \in Token |-> IF s = t /\ call[c].viewer # Nothing
                                 THEN Latest(visit[s], call[c].sent) ELSE visit[s]]
    /\ UNCHANGED <<now, sessions, share, bounds, slipped>> /\ Witness

\* The connection breaks; what the call has done stays done.
AnswerLost(c) ==
    /\ At(c, "answer")
    /\ Runs(c, NoCall)
    /\ slipped' = IF call[c].renewed THEN slipped \union {call[c].token} ELSE slipped
    /\ UNCHANGED <<now, sessions, cookie, share, bounds, visit>> /\ Witness

\* The server restarts: calls are cut off, and expired sessions swept.
Restart ==
    /\ call' = [c \in Call |-> NoCall]
    /\ expires' = [t \in Token |-> IF expires[t] < now THEN 0 ELSE expires[t]]
    /\ slipped' = slipped \union {call[c].token : c \in {d \in Call : call[d].renewed}}
    /\ UNCHANGED <<now, tokenOf, cookie, share, bounds, visit>> /\ Witness

----------------------------------------------------------------------------
\* Reading: mutable_access_core and mutable_manifest_access_core.

Says(c, said) == Runs(c, [call[c] EXCEPT !.at = "answer", !.said = said])

\* Mutation: the privacy gate comes before the published copy is looked for.
PrivacyFirst(c) ==
    IF ~there THEN Says(c, "missing")
    ELSE IF private THEN Runs(c, [call[c] EXCEPT !.at = "check", !.pub = pub])
    ELSE IF pub = 0 THEN Says(c, "missing")
    ELSE Runs(c, [call[c] EXCEPT !.at = "answer", !.said = "found", !.pub = pub])

\* published_copy before the privacy gate; anonymous readers are not looked up.
RowSays(c) ==
    IF ~there \/ pub = 0 THEN Says(c, "missing")
    ELSE IF ~private THEN Runs(c, [call[c] EXCEPT !.at = "answer", !.said = "found", !.pub = pub])
    ELSE IF call[c].viewer = Nothing THEN Says(c, "private")
    ELSE Runs(c, [call[c] EXCEPT !.at = "check", !.pub = pub])

ReadRow(c) ==
    /\ At(c, "row")
    /\ RowSays(c)
    /\ UNCHANGED <<now, sessions, cookie, share, bounds, history>> /\ Witness

\* user_can_read_share, in a statement of its own.
CheckReader(c) ==
    /\ At(c, "check")
    /\ Says(c, IF HoldsGrant(call[c].viewer) THEN "found" ELSE "private")
    /\ UNCHANGED <<now, sessions, cookie, share, bounds, history>> /\ Witness

----------------------------------------------------------------------------
\* Owner acts: ensure_share_owner, then the statement of the act.

Gate(c) ==
    /\ At(c, "gate")
    /\ Goes(c, IF there /\ call[c].viewer = Owner
               THEN IF call[c].op \in {"push", "share"} THEN "read" ELSE "write"
               ELSE IF call[c].op = "share" THEN "undo" ELSE "answer")
    /\ UNCHANGED <<now, sessions, cookie, share, bounds, history>> /\ Witness

\* push_mutable_core: nothing to push.  A failed push of a notebook that is
\* being created is followed by the rollback.
PushRead(c) ==
    /\ At(c, "read")
    /\ Goes(c, IF there /\ (pub = 0 \/ draft) THEN "write"
               ELSE IF ~there /\ call[c].op = "share" THEN "undo" ELSE "answer")
    /\ UNCHANGED <<now, sessions, cookie, share, bounds, history>> /\ Witness

Wrote(c, op) == At(c, "write") /\ call[c].op = op /\ Goes(c, "answer")

\* save_draft
Saved(c) ==
    /\ Wrote(c, "save")
    /\ draft' = there
    /\ UNCHANGED <<now, sessions, cookie, there, pub, private, readers, bounds, history>> /\ Witness

\* promote_draft
Pushed(c) ==
    /\ Wrote(c, "push") \/ Wrote(c, "share")
    /\ IF there /\ draft THEN pushes < MaxPushes /\ pub' = pushes + 1 /\ pushes' = pushes + 1
                         ELSE UNCHANGED <<pub, pushes>>
    /\ draft' = FALSE
    /\ UNCHANGED <<now, sessions, cookie, there, private, readers, made, history>> /\ Witness

\* discard_draft, where there is a copy to return to.
Discarded(c) ==
    /\ Wrote(c, "discard")
    /\ draft' = (draft /\ pub = 0)
    /\ UNCHANGED <<now, sessions, cookie, there, pub, private, readers, bounds, history>> /\ Witness

\* unpublish_share: the copy moves to the draft slot, the flag stays.
Unpublished(c) ==
    /\ Wrote(c, "unpublish")
    /\ draft' = there
    /\ pub' = 0
    /\ UNCHANGED <<now, sessions, cookie, there, private, readers, bounds, history>> /\ Witness

\* delete_mutable_share: the row and every grant on it.
Cleared == there' = FALSE /\ pub' = 0 /\ draft' = FALSE /\ private' = FALSE /\ readers' = {}

Deleted(c) ==
    /\ Wrote(c, "delete")
    /\ Cleared
    /\ UNCHANGED <<now, sessions, cookie, bounds, history>> /\ Witness

\* set_share_private
Hidden(c) ==
    /\ Wrote(c, "hide") \/ Wrote(c, "show")
    /\ private' = (there /\ call[c].op = "hide")
    /\ UNCHANGED <<now, sessions, cookie, there, pub, draft, readers, bounds, history>> /\ Witness

Known(u) == \E t \in Token : tokenOf[t] = u

\* grant_read, for somebody who has signed in and is not the owner.  Grants
\* have a table of their own: the row need not be there.
Granted(c) ==
    /\ Wrote(c, "grant")
    /\ readers' = readers \union {u \in User \ {Owner} : u = call[c].arg /\ Known(u)}
    /\ UNCHANGED <<now, sessions, cookie, there, pub, draft, private, bounds, history>> /\ Witness

\* revoke_read
Ungranted(c) ==
    /\ Wrote(c, "revoke")
    /\ readers' = readers \ {call[c].arg}
    /\ UNCHANGED <<now, sessions, cookie, there, pub, draft, private, bounds, history>> /\ Witness

----------------------------------------------------------------------------
\* create_mutable_share_core: save to the account, push, and undo both when
\* the push fails.

\* create_account_notebook: one transaction; the id is new.
Created(c) ==
    /\ At(c, "create")
    /\ IF call[c].viewer = Owner /\ ~made
       THEN there' = TRUE /\ draft' = TRUE /\ made' = TRUE /\ Goes(c, "gate")
       ELSE UNCHANGED <<there, draft, made>> /\ Goes(c, "answer")
    /\ UNCHANGED <<now, sessions, cookie, pub, private, readers, pushes, history>> /\ Witness

PushFails(c) ==
    /\ At(c, "write") /\ call[c].op = "share"
    /\ Goes(c, "undo")
    /\ UNCHANGED <<now, sessions, cookie, share, bounds, history>> /\ Witness

RolledBack(c) ==
    /\ At(c, "undo")
    /\ Goes(c, "answer")
    /\ Cleared
    /\ UNCHANGED <<now, sessions, cookie, bounds, history>> /\ Witness

----------------------------------------------------------------------------
Browser(c, u) == Ask(c, u) \/ Act(c, u) \/ Invite(c, u) \/ Login(c, u) \/ Logout(c, u)

Session(c) == Lookup(c) \/ Renew(c) \/ Mint(c) \/ Forget(c)

OwnerWrites(c) == \/ Saved(c) \/ Pushed(c) \/ Discarded(c) \/ Unpublished(c) \/ Deleted(c)
                  \/ Hidden(c) \/ Granted(c) \/ Ungranted(c)
                  \/ Created(c) \/ PushFails(c) \/ RolledBack(c)

Next ==
    \/ Tick \/ Restart
    \/ \E u \in User : Revoke(u) \/ \E c \in Call : Browser(c, u)
    \/ \E c \in Call : \/ Session(c) \/ ReadRow(c) \/ CheckReader(c)
                       \/ Gate(c) \/ PushRead(c) \/ OwnerWrites(c)
                       \/ Arrive(c) \/ AnswerLost(c)

Spec == Init /\ [][Next]_vars

----------------------------------------------------------------------------
Ops == {"none", "info", "login", "logout", "view", "share"} \union OwnerActs

Places  == {"none", "lookup", "renew", "mint", "forget", "create", "gate", "read", "write",
            "undo", "row", "check", "answer"}
Request == [op : Ops, at : Places, by : User \union {Nothing}, token : Token \union {Nothing},
            sent : 0..MaxTime, arg : User \union {Nothing}, viewer : User \union {Nothing},
            renewed : BOOLEAN, pub : 0..MaxPushes,
            said : {"none", "found", "private", "missing"}]

TypeOK ==
    /\ now \in 0..MaxTime
    /\ tokenOf \in [Token -> User \union {Nothing}]
    /\ expires \in [Token -> 0..(MaxTime + Ttl)]
    /\ cookie \in [User -> [token : Token \union {Nothing}, until : 0..(MaxTime + Ttl)]]
    /\ there \in BOOLEAN /\ draft \in BOOLEAN /\ private \in BOOLEAN
    /\ pub \in 0..MaxPushes /\ readers \subseteq User
    /\ call \in [Call -> Request]
    /\ made \in BOOLEAN /\ pushes \in 0..MaxPushes
    /\ visit \in [Token -> 0..MaxTime] /\ slipped \subseteq Token \union {Nothing}

\* What a reader is told was true while it asked, piece by piece: the version
\* it is served was the published one at some time of the call, and at some
\* time of the call it was public or the reader held a grant; "private" only of
\* a published, private notebook; an unpublished one reads as missing, whatever
\* its privacy flag says (server_fns.rs, mutable_access_core).
AnswersTrue ==
    \A c \in Call : (At(c, "answer") /\ call[c].op = "view") =>
        LET k == call[c]  pubs == saw[c].pubs  facts == saw[c].facts IN
        /\ IF k.viewer = Nothing THEN "out" \in facts
           ELSE "in" \in facts /\ k.viewer = tokenOf[k.token]
        /\ k.said = "found" => /\ k.pub \in pubs \ {0}
                               /\ "public" \in facts \/ (k.viewer # Nothing /\ "granted" \in facts)
        /\ k.said = "private" => /\ pubs # {0} /\ "private" \in facts
                                 /\ k.viewer = Nothing \/ "ungranted" \in facts
        /\ k.said = "missing" => 0 \in pubs

\* What has ended stays ended, whoever still has a call under way: a session
\* that was signed out, revoked or expired resolves nobody again, and a deleted
\* notebook has no row again (db.rs: the late statements are UPDATEs).
EndedStaysEnded ==
    [][/\ \A t \in Token : (tokenOf[t] # Nothing /\ ~Alive(t)) => ~Alive(t)'
       /\ (made /\ ~there) => ~there']_vars

\* "Sliding" holds for the visitor: whoever comes back within the lifetime less
\* one renewal interval of the last visit finds both the cookie and the row,
\* although the calls of a page share one renewal and answer in any order; not
\* if the renewal failed or its answer was lost (auth.rs, current_user).
ActiveStaysSignedIn ==
    \A u \in User :
        LET t == cookie[u].token IN
        (t # Nothing /\ Alive(t) /\ t \notin slipped /\ \A c \in Call : call[c].token # t)
            => /\ cookie[u].until >= visit[t] + (Ttl - RenewAfter)
               /\ expires[t] >= visit[t] + (Ttl - RenewAfter)

\* The sessions: their types, and that.
SessionsSound == TypeOK /\ ActiveStaysSignedIn

----------------------------------------------------------------------------
\* What comments of the code say, and the program does not do.

\* The rollback is "safe by construction": the id "has never been returned to
\* anyone, so the only content it can hold is the upload".  The listing of the
\* account shows the notebook meanwhile, and a save of it passes the gate.
UploadIsAlone ==
    \A c, d \in Call :
        (call[c].op = "share" /\ call[c].at \in {"gate", "read", "write", "undo"})
            => ~(call[d].op = "save" /\ At(d, "write"))

\* "Delete a share and every grant on it": a grant that passed the gate before
\* is written after.
GrantsHaveTheirNotebook == readers # {} => there

=============================================================================
