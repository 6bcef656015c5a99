--------------------------- MODULE AccountsProofs ---------------------------
(***************************************************************************)
(* Theorems about Accounts, for any people, tokens and calls, any lifetime *)
(* of a session, and any time.                                             *)
(*                                                                         *)
(* An active visitor stays signed in, what has ended stays ended, and what *)
(* a reader is told was the case while it asked.                           *)
(***************************************************************************)
EXTENDS Accounts, TLAPS

-----------------------------------------------------------------------------
(***************************************************************************)
(* Types.                                                                  *)
(***************************************************************************)

\* The constants are numbers, and nobody is called Nothing.
LEMMA Numbers ==
    /\ Ttl \in Nat /\ RenewAfter \in Nat /\ MaxTime \in Nat /\ MaxPushes \in Nat
    /\ Ttl - RenewAfter \in Nat /\ Ttl - RenewAfter <= Ttl
    /\ Nothing \notin User /\ Nothing \notin Token
BY TimeAssumption, OwnerAssumption

\* A call that is not there is a call.
LEMMA NoCallTyped == NoCall \in Request
BY Numbers DEF NoCall, Request, Ops, Places

\* A step of one call leaves the others alone.
LEMMA RunsTyped ==
    ASSUME TypeOK, NEW c \in Call, NEW f \in Request, Runs(c, f)
    PROVE  /\ call' \in [Call -> Request]
           /\ call'[c] = f
           /\ \A d \in Call \ {c} : call'[d] = call[d]
BY DEF TypeOK, Runs

\* Where a call has not been told who is calling.
Early == {"none", "lookup", "renew", "mint", "forget"}

\* A call that works on: who calls, with what and since when stays the same.
Works(c) ==
    /\ call' \in [Call -> Request]
    /\ \A d \in Call \ {c} : call'[d] = call[d]
    /\ call[c].at \notin Early /\ call'[c].at \notin Early
    /\ call'[c].token = call[c].token /\ call'[c].by = call[c].by
    /\ call'[c].sent = call[c].sent /\ call'[c].viewer = call[c].viewer
    /\ call'[c].renewed = call[c].renewed /\ call'[c].op = call[c].op

\* A call that only goes on to another place works on.
LEMMA GoesWorks ==
    ASSUME TypeOK, NEW c \in Call, NEW at \in Places \ Early, Goes(c, at),
           call[c].at \notin Early
    PROVE  Works(c) /\ call'[c] = [call[c] EXCEPT !.at = at]
<1>1. [call[c] EXCEPT !.at = at] \in Request
  BY DEF TypeOK, Request
<1>2. Runs(c, [call[c] EXCEPT !.at = at])
  BY DEF Goes
<1>3. call[c] \in Request
  BY DEF TypeOK
<1>4. call'[c] = [call[c] EXCEPT !.at = at] /\ call' \in [Call -> Request]
      /\ \A d \in Call \ {c} : call'[d] = call[d]
  BY <1>1, <1>2, RunsTyped
<1>5. QED
  BY <1>3, <1>4 DEF Works, Request

\* So does one that answers.
LEMMA SaysWorks ==
    ASSUME TypeOK, NEW c \in Call, NEW said \in {"found", "private", "missing"}, Says(c, said),
           call[c].at \notin Early
    PROVE  Works(c) /\ call'[c] = [call[c] EXCEPT !.at = "answer", !.said = said]
<1>0. "answer" \in Places
  BY DEF Places
<1>1. [call[c] EXCEPT !.at = "answer", !.said = said] \in Request
  BY <1>0 DEF TypeOK, Request
<1>2. Runs(c, [call[c] EXCEPT !.at = "answer", !.said = said])
  BY DEF Says
<1>3. call[c] \in Request
  BY DEF TypeOK
<1>4. call'[c] = [call[c] EXCEPT !.at = "answer", !.said = said] /\ call' \in [Call -> Request]
      /\ \A d \in Call \ {c} : call'[d] = call[d]
  BY <1>1, <1>2, RunsTyped
<1>5. QED
  BY <1>3, <1>4 DEF Works, Request, Early

\* The types of the notebook's row and of the bounds.
ShareTyped ==
    /\ there \in BOOLEAN /\ draft \in BOOLEAN /\ private \in BOOLEAN
    /\ pub \in 0..MaxPushes /\ readers \subseteq User
    /\ made \in BOOLEAN /\ pushes \in 0..MaxPushes

\* The steps of a reader change no row.
LEMMA ReadersWork ==
    ASSUME TypeOK, NEW c \in Call, ReadRow(c) \/ CheckReader(c)
    PROVE  Works(c) /\ UNCHANGED <<now, sessions, cookie, history, share, bounds>>
<1>1. CASE CheckReader(c)
  <2>1. Says(c, IF HoldsGrant(call[c].viewer) THEN "found" ELSE "private")
        /\ call[c].at \notin Early
    BY <1>1 DEF CheckReader, At, Early
  <2>2. Works(c)
    BY <2>1, SaysWorks
  <2>3. QED
    BY <1>1, <2>2 DEF CheckReader
<1>2. CASE ReadRow(c)
  <2>1. call[c].at = "row" /\ call[c].at \notin Early /\ RowSays(c)
        /\ UNCHANGED <<now, sessions, cookie, history, share, bounds>>
    BY <1>2 DEF ReadRow, At, Early
  <2>2. CASE Says(c, "missing") \/ Says(c, "private")
    BY <2>1, <2>2, SaysWorks
  <2>3. call[c] \in Request /\ pub \in 0..MaxPushes
    BY DEF TypeOK
  <2>4. CASE Runs(c, [call[c] EXCEPT !.at = "answer", !.said = "found", !.pub = pub])
    <3> DEFINE f == [call[c] EXCEPT !.at = "answer", !.said = "found", !.pub = pub]
    <3>1. "answer" \in Places
      BY DEF Places
    <3>2. f \in Request
      BY <2>3, <3>1 DEF Request
    <3>3. f.at = "answer" /\ f.token = call[c].token /\ f.by = call[c].by
          /\ f.sent = call[c].sent /\ f.viewer = call[c].viewer
          /\ f.renewed = call[c].renewed /\ f.op = call[c].op
      BY <2>3 DEF Request
    <3> HIDE DEF f
    <3>4. call'[c] = f /\ call' \in [Call -> Request] /\ \A d \in Call \ {c} : call'[d] = call[d]
      BY <2>4, <3>2, RunsTyped DEF f
    <3>5. Works(c)
      BY <2>1, <3>3, <3>4 DEF Works, Early
    <3>6. QED
      BY <2>1, <3>5
  <2>5. CASE Runs(c, [call[c] EXCEPT !.at = "check", !.pub = pub])
    <3> DEFINE f == [call[c] EXCEPT !.at = "check", !.pub = pub]
    <3>1. "check" \in Places
      BY DEF Places
    <3>2. f \in Request
      BY <2>3, <3>1 DEF Request
    <3>3. f.at = "check" /\ f.token = call[c].token /\ f.by = call[c].by
          /\ f.sent = call[c].sent /\ f.viewer = call[c].viewer
          /\ f.renewed = call[c].renewed /\ f.op = call[c].op
      BY <2>3 DEF Request
    <3> HIDE DEF f
    <3>4. call'[c] = f /\ call' \in [Call -> Request] /\ \A d \in Call \ {c} : call'[d] = call[d]
      BY <2>5, <3>2, RunsTyped DEF f
    <3>5. Works(c)
      BY <2>1, <3>3, <3>4 DEF Works, Early
    <3>6. QED
      BY <2>1, <3>5
  <2>6. QED
    BY <2>1, <2>2, <2>4, <2>5 DEF RowSays
<1>3. QED
  BY <1>1, <1>2

\* The acts of an owner change the notebook, and no session.
LEMMA OwnersWork ==
    ASSUME TypeOK, NEW c \in Call, Gate(c) \/ PushRead(c) \/ OwnerWrites(c)
    PROVE  Works(c) /\ UNCHANGED <<now, sessions, cookie, history>> /\ ShareTyped'
<1>1. ASSUME NEW at \in {"answer", "read", "write", "undo", "gate"}, Goes(c, at),
             call[c].at \in {"create", "gate", "read", "write", "undo"}
      PROVE  Works(c)
  BY <1>1, GoesWorks DEF Places, Early
<1>2. ShareTyped
  BY DEF TypeOK, ShareTyped
<1>3. CASE Gate(c)
  <2>1. \E at \in {"answer", "read", "write", "undo", "gate"} : Goes(c, at)
    BY <1>3 DEF Gate
  <2>2. QED
    BY <1>1, <1>2, <1>3, <2>1 DEF Gate, At, ShareTyped, share, bounds
<1>4. CASE PushRead(c)
  <2>1. \E at \in {"answer", "read", "write", "undo", "gate"} : Goes(c, at)
    BY <1>4 DEF PushRead
  <2>2. QED
    BY <1>1, <1>2, <1>4, <2>1 DEF PushRead, At, ShareTyped, share, bounds
<1>5. ASSUME NEW op, Wrote(c, op) PROVE Works(c)
  BY <1>1, <1>5 DEF Wrote, At
<1>6. CASE Saved(c) \/ Discarded(c) \/ Unpublished(c) \/ Hidden(c) \/ Deleted(c)
  <2>1. Works(c) /\ UNCHANGED <<now, sessions, cookie, history>>
    BY <1>5, <1>6 DEF Saved, Discarded, Unpublished, Hidden, Deleted
  <2>2. /\ there' \in BOOLEAN /\ draft' \in BOOLEAN /\ private' \in BOOLEAN
        /\ made' \in BOOLEAN
    BY <1>2, <1>6, Zenon
       DEF Saved, Discarded, Unpublished, Hidden, Deleted, Cleared, ShareTyped, bounds
  <2>3. /\ pub' \in 0..MaxPushes /\ readers' \subseteq User /\ pushes' \in 0..MaxPushes
    BY <1>2, <1>6, Numbers, SMT
       DEF Saved, Discarded, Unpublished, Hidden, Deleted, Cleared, ShareTyped, bounds
  <2>4. QED
    BY <2>1, <2>2, <2>3 DEF ShareTyped
<1>7. CASE Granted(c) \/ Ungranted(c)
  BY <1>2, <1>5, <1>7 DEF Granted, Ungranted, ShareTyped, bounds
<1>8. CASE Pushed(c)
  <2>1. Works(c) /\ UNCHANGED <<now, sessions, cookie, history, there, private, readers, made>>
    BY <1>5, <1>8 DEF Pushed
  <2>2. draft' = FALSE
    BY <1>8 DEF Pushed
  <2>3. pub' \in 0..MaxPushes /\ pushes' \in 0..MaxPushes
    BY <1>2, <1>8, Numbers DEF Pushed, ShareTyped
  <2>4. QED
    BY <1>2, <2>1, <2>2, <2>3 DEF ShareTyped
<1>9. CASE Created(c)
  BY <1>1, <1>2, <1>9 DEF Created, At, ShareTyped
<1>10. CASE PushFails(c) \/ RolledBack(c)
  <2>1. Works(c) /\ UNCHANGED <<now, sessions, cookie, history, bounds>>
    BY <1>1, <1>10 DEF PushFails, RolledBack, At
  <2>2. Cleared \/ UNCHANGED share
    BY <1>10 DEF PushFails, RolledBack
  <2>3. CASE Cleared
    <3>1. pub' \in 0..MaxPushes /\ pushes' \in 0..MaxPushes
      BY <1>2, <2>1, <2>3, Numbers DEF Cleared, bounds, ShareTyped
    <3>2. made' \in BOOLEAN
      BY <1>2, <2>1 DEF bounds, ShareTyped
    <3>3. QED
      BY <2>1, <2>3, <3>1, <3>2 DEF Cleared, ShareTyped
  <2>4. CASE UNCHANGED share
    BY <1>2, <2>1, <2>4 DEF share, bounds, ShareTyped
  <2>5. QED
    BY <2>2, <2>3, <2>4
<1>11. QED
  BY <1>3, <1>4, <1>6, <1>7, <1>8, <1>9, <1>10 DEF OwnerWrites

\* A call that begins: nobody has been told yet who is calling.
Begins(c, u) ==
    /\ call' \in [Call -> Request]
    /\ \A d \in Call \ {c} : call'[d] = call[d]
    /\ call[c].at = "none" /\ call'[c].at \in Early \ {"none", "renew"}
    /\ call'[c].token = cookie[u].token /\ call'[c].by = u /\ call'[c].sent = now
    /\ call'[c].viewer = Nothing /\ call'[c].renewed = FALSE
    /\ call'[c].op = "view" => call'[c].at = "lookup"

\* What a browser sends is a call that begins.
LEMMA BrowserBegins ==
    ASSUME TypeOK, NEW c \in Call, NEW u \in User, Browser(c, u)
    PROVE  Begins(c, u) /\ UNCHANGED <<now, sessions, cookie, history, share, bounds>>
<1>1. ASSUME NEW op \in Ops, NEW arg \in User \union {Nothing}, NEW at \in {"lookup", "mint", "forget"},
             op = "view" => at = "lookup", Send(c, u, op, arg, at)
      PROVE  Begins(c, u) /\ UNCHANGED <<now, sessions, cookie, history, share, bounds>>
  <2> DEFINE f == [op |-> op, at |-> at, by |-> u, token |-> cookie[u].token, sent |-> now,
                   arg |-> arg, viewer |-> Nothing, renewed |-> FALSE, pub |-> 0, said |-> "none"]
  <2>1. at \in Places /\ at \in Early \ {"none"}
    BY DEF Places, Early
  <2>2. cookie[u].token \in Token \union {Nothing} /\ now \in 0..MaxTime
    BY DEF TypeOK
  <2>3. f \in Request
    BY <2>1, <2>2, Numbers DEF Request
  <2>4. /\ f.op = op /\ f.at = at /\ f.by = u /\ f.token = cookie[u].token /\ f.sent = now
        /\ f.viewer = Nothing /\ f.renewed = FALSE
    OBVIOUS
  <2>5. Runs(c, f)
    BY <1>1 DEF Send
  <2> HIDE DEF f
  <2>6. call'[c] = f /\ call' \in [Call -> Request] /\ \A d \in Call \ {c} : call'[d] = call[d]
    BY <2>3, <2>5, RunsTyped
  <2>7. QED
    BY <1>1, <2>1, <2>4, <2>6 DEF Begins, Send, At
<1>2. CASE Ask(c, u)
  BY <1>1, <1>2 DEF Ask, Ops
<1>3. CASE Act(c, u)
  BY <1>1, <1>3 DEF Act, Ops, OwnerActs
<1>4. CASE Invite(c, u)
  BY <1>1, <1>4 DEF Invite, Ops, OwnerActs
<1>5. CASE Login(c, u) \/ Logout(c, u)
  BY <1>1, <1>5 DEF Login, Logout, Ops
<1>6. QED
  BY <1>2, <1>3, <1>4, <1>5 DEF Browser

\* A call that is told who is calling.
Learns(c, viewer, renewed) ==
    /\ call' \in [Call -> Request]
    /\ \A d \in Call \ {c} : call'[d] = call[d]
    /\ call'[c].at = After(call[c].op, viewer) /\ call'[c].at \notin Early
    /\ call'[c].token = call[c].token /\ call'[c].by = call[c].by
    /\ call'[c].sent = call[c].sent /\ call'[c].op = call[c].op
    /\ call'[c].viewer = viewer /\ call'[c].renewed = renewed

\* A call whose session is resolved is told who is calling.
LEMMA ResolvedLearns ==
    ASSUME TypeOK, NEW c \in Call, NEW viewer \in User \union {Nothing}, NEW renewed \in BOOLEAN,
           Resolved(c, viewer, renewed)
    PROVE  Learns(c, viewer, renewed)
<1> DEFINE at == After(call[c].op, viewer)
           f  == [call[c] EXCEPT !.at = at, !.viewer = viewer, !.renewed = renewed]
<1>1. at \in Places /\ at \notin Early
  BY DEF After, Places, Early
<1> HIDE DEF at
<1>2. call[c] \in Request
  BY DEF TypeOK
<1>3. f \in Request
  BY <1>1, <1>2 DEF Request
<1>4. /\ f.at = at /\ f.token = call[c].token /\ f.by = call[c].by /\ f.sent = call[c].sent
      /\ f.op = call[c].op /\ f.viewer = viewer /\ f.renewed = renewed
  BY <1>2 DEF Request
<1> HIDE DEF f
<1>5. call'[c] = f /\ call' \in [Call -> Request] /\ \A d \in Call \ {c} : call'[d] = call[d]
  BY <1>3, RunsTyped DEF Resolved, f, at
<1>6. QED
  BY <1>1, <1>4, <1>5 DEF Learns, at

\* The lookup of a session: the outcomes.
LEMMA LookupLearns ==
    ASSUME TypeOK, NEW c \in Call, Lookup(c)
    PROVE  LET t == call[c].token IN
           /\ call[c].at = "lookup"
           /\ UNCHANGED <<now, tokenOf, cookie, history, share, bounds>>
           /\ \/ /\ Learns(c, Nothing, FALSE)
                 /\ expires' \in [Token -> 0..(MaxTime + Ttl)]
                 /\ \A s \in Token : expires'[s] = expires[s] \/ expires'[s] = 0
                 /\ t # Nothing => expires'[t] = 0
              \/ /\ Learns(c, tokenOf[t], FALSE) /\ t # Nothing /\ Alive(t) /\ Young(t)
                 /\ UNCHANGED expires
              \/ /\ Goes(c, "renew") /\ t # Nothing /\ Alive(t)
                 /\ UNCHANGED expires
<1> DEFINE t == call[c].token
<1>1. /\ At(c, "lookup") /\ UNCHANGED <<now, tokenOf, cookie, history, share, bounds>>
      /\ t \in Token \union {Nothing} /\ expires \in [Token -> 0..(MaxTime + Ttl)]
      /\ tokenOf \in [Token -> User \union {Nothing}] /\ now \in Nat
  BY Numbers DEF Lookup, TypeOK, Request
<1>2. CASE (t = Nothing \/ (t # Nothing /\ ~Alive(t))) /\ Resolved(c, Nothing, FALSE) /\ UNCHANGED expires
  <2>1. Learns(c, Nothing, FALSE)
    BY <1>2, ResolvedLearns
  <2>2. QED
    BY <1>1, <1>2, <2>1 DEF At, Alive
<1>3. CASE t # Nothing /\ Alive(t) /\ expires[t] <= now
           /\ Resolved(c, Nothing, FALSE) /\ expires' = [expires EXCEPT ![t] = 0]
  <2>1. 0 \in 0..(MaxTime + Ttl)
    BY Numbers
  <2>2. Learns(c, Nothing, FALSE)
    BY <1>3, ResolvedLearns
  <2>3. QED
    BY <1>1, <1>3, <2>1, <2>2 DEF At, Alive
<1>4. CASE t # Nothing /\ expires[t] > now /\ Young(t) /\ Resolved(c, tokenOf[t], FALSE) /\ UNCHANGED expires
  <2>1. Alive(t) /\ tokenOf[t] \in User \union {Nothing}
    BY <1>1, <1>4 DEF Alive
  <2>2. Learns(c, tokenOf[t], FALSE)
    BY <1>4, <2>1, ResolvedLearns
  <2>3. QED
    BY <1>1, <1>4, <2>1, <2>2 DEF At
<1>5. CASE t # Nothing /\ expires[t] > now /\ ~Young(t) /\ Goes(c, "renew") /\ UNCHANGED expires
  <2>1. Alive(t)
    BY <1>1, <1>5 DEF Alive
  <2>2. QED
    BY <1>1, <1>5, <2>1 DEF At
<1>6. QED
  BY <1>2, <1>3, <1>4, <1>5 DEF Lookup

\* A renewal: it succeeds where the row is still there, or it fails.
LEMMA RenewLearns ==
    ASSUME TypeOK, NEW c \in Call, Renew(c), call[c].token # Nothing
    PROVE  LET t == call[c].token IN
           /\ call[c].at = "renew" /\ t \in Token
           /\ UNCHANGED <<now, tokenOf, cookie, visit, share, bounds>>
           /\ expires' \in [Token -> 0..(MaxTime + Ttl)]
           /\ \A s \in Token \ {t} : expires'[s] = expires[s]
           /\ \/ /\ Learns(c, tokenOf[t], TRUE) /\ slipped' = slipped
                 /\ expires'[t] = IF Alive(t) THEN now + Ttl ELSE 0
              \/ /\ Learns(c, tokenOf[t], FALSE) /\ slipped' = slipped \union {t}
                 /\ expires'[t] = expires[t]
<1> DEFINE t == call[c].token
<1>1. /\ At(c, "renew") /\ UNCHANGED <<now, tokenOf, cookie, visit, share, bounds>>
      /\ t \in Token /\ expires \in [Token -> 0..(MaxTime + Ttl)]
      /\ tokenOf[t] \in User \union {Nothing} /\ now \in 0..MaxTime
  BY DEF Renew, TypeOK, Request
<1>2. CASE Updated(t) /\ Resolved(c, tokenOf[t], TRUE) /\ UNCHANGED slipped
  <2>1. Learns(c, tokenOf[t], TRUE)
    BY <1>1, <1>2, ResolvedLearns
  <2>2. /\ now + Ttl \in 0..(MaxTime + Ttl) /\ 0 \in 0..(MaxTime + Ttl)
    BY <1>1, Numbers
  <2>3. QED
    BY <1>1, <1>2, <2>1, <2>2 DEF At, Updated
<1>3. CASE UNCHANGED expires /\ Resolved(c, tokenOf[t], FALSE) /\ slipped' = slipped \union {t}
  <2>1. Learns(c, tokenOf[t], FALSE)
    BY <1>1, <1>3, ResolvedLearns
  <2>2. QED
    BY <1>1, <1>3, <2>1 DEF At
<1>4. QED
  BY <1>2, <1>3 DEF Renew

\* A sign-in makes a session of a token that was nobody's.
LEMMA MintMakes ==
    ASSUME TypeOK, NEW c \in Call, Mint(c)
    PROVE  \E t \in Token :
              /\ call[c].at = "mint" /\ tokenOf[t] = Nothing
              /\ UNCHANGED <<now, cookie, history, share, bounds>>
              /\ tokenOf' = [tokenOf EXCEPT ![t] = call[c].by]
              /\ expires' = [expires EXCEPT ![t] = now + Ttl]
              /\ call' \in [Call -> Request] /\ \A d \in Call \ {c} : call'[d] = call[d]
              /\ call'[c].at = "answer" /\ call'[c].token = t /\ call'[c].viewer = call[c].by
              /\ call'[c].by = call[c].by /\ call'[c].sent = call[c].sent
              /\ call'[c].renewed = TRUE /\ call'[c].op = call[c].op
<1>1. PICK t \in Token :
         /\ tokenOf[t] = Nothing
         /\ tokenOf' = [tokenOf EXCEPT ![t] = call[c].by]
         /\ expires' = [expires EXCEPT ![t] = now + Ttl]
         /\ Runs(c, [call[c] EXCEPT !.at = "answer", !.token = t, !.viewer = call[c].by, !.renewed = TRUE])
  BY DEF Mint
<1> DEFINE f == [call[c] EXCEPT !.at = "answer", !.token = t, !.viewer = call[c].by, !.renewed = TRUE]
<1>2. call[c] \in Request /\ "answer" \in Places
  BY DEF TypeOK, Places
<1>3. f \in Request
  BY <1>2 DEF Request
<1>4. /\ f.at = "answer" /\ f.token = t /\ f.viewer = call[c].by /\ f.by = call[c].by
      /\ f.sent = call[c].sent /\ f.renewed = TRUE /\ f.op = call[c].op
  BY <1>2 DEF Request
<1>5. Runs(c, f)
  BY <1>1
<1> HIDE DEF f
<1>6. call'[c] = f /\ call' \in [Call -> Request] /\ \A d \in Call \ {c} : call'[d] = call[d]
  BY <1>3, <1>5, RunsTyped
<1>7. QED
  BY <1>1, <1>4, <1>6 DEF Mint, At

\* A sign-out ends a row, or fails to.
LEMMA ForgetEnds ==
    ASSUME TypeOK, NEW c \in Call, Forget(c)
    PROVE  /\ call[c].at = "forget"
           /\ UNCHANGED <<now, tokenOf, cookie, history, share, bounds>>
           /\ expires' \in [Token -> 0..(MaxTime + Ttl)]
           /\ \A s \in Token : expires'[s] = expires[s] \/ expires'[s] = 0
           /\ call' \in [Call -> Request] /\ \A d \in Call \ {c} : call'[d] = call[d]
           /\ call'[c] = [call[c] EXCEPT !.at = "answer"]
<1>1. "answer" \in Places /\ call[c] \in Request /\ 0 \in 0..(MaxTime + Ttl)
      /\ expires \in [Token -> 0..(MaxTime + Ttl)]
  BY Numbers DEF Places, TypeOK
<1>2. [call[c] EXCEPT !.at = "answer"] \in Request
  BY <1>1 DEF Request
<1>3. call'[c] = [call[c] EXCEPT !.at = "answer"] /\ call' \in [Call -> Request]
      /\ \A d \in Call \ {c} : call'[d] = call[d]
  BY <1>2, RunsTyped DEF Forget, Goes
<1>4. /\ expires' \in [Token -> 0..(MaxTime + Ttl)]
      /\ \A s \in Token : expires'[s] = expires[s] \/ expires'[s] = 0
  BY <1>1 DEF Forget
<1>5. QED
  BY <1>3, <1>4 DEF Forget, At

\* A call that is over.
Ends(c) ==
    /\ call' \in [Call -> Request]
    /\ \A d \in Call \ {c} : call'[d] = call[d]
    /\ call'[c] = NoCall

\* An answer, arrived or lost, is the end of the call.
LEMMA AnswerEnds ==
    ASSUME TypeOK, NEW c \in Call, Arrive(c) \/ AnswerLost(c)
    PROVE  Ends(c)
BY NoCallTyped, RunsTyped DEF Arrive, AnswerLost, Ends

\* Cookie and visit keep their types when an answer arrives.
LEMMA ArriveTyped ==
    ASSUME TypeOK, NEW c \in Call, Arrive(c)
    PROVE  /\ cookie' \in [User -> [token : Token \union {Nothing}, until : 0..(MaxTime + Ttl)]]
           /\ visit' \in [Token -> 0..MaxTime]
<1>1. call[c] \in Request /\ now \in 0..MaxTime /\ visit \in [Token -> 0..MaxTime]
      /\ cookie \in [User -> [token : Token \union {Nothing}, until : 0..(MaxTime + Ttl)]]
  BY DEF TypeOK
<1>2. call[c].sent \in 0..MaxTime /\ call[c].token \in Token \union {Nothing}
  BY <1>1 DEF Request
<1>3. visit' \in [Token -> 0..MaxTime]
  BY <1>1, <1>2 DEF Arrive, Latest
<1>4. now + Ttl \in 0..(MaxTime + Ttl) /\ 0 \in 0..(MaxTime + Ttl)
  BY <1>1, Numbers
<1>5. NoCookie \in [token : Token \union {Nothing}, until : 0..(MaxTime + Ttl)]
  BY <1>4 DEF NoCookie
<1>6. [token |-> call[c].token, until |-> now + Ttl]
        \in [token : Token \union {Nothing}, until : 0..(MaxTime + Ttl)]
  BY <1>2, <1>4
<1>7. cookie' \in [User -> [token : Token \union {Nothing}, until : 0..(MaxTime + Ttl)]]
  BY <1>1, <1>5, <1>6 DEF Arrive
<1>8. QED
  BY <1>3, <1>7

-----------------------------------------------------------------------------
(***************************************************************************)
(* The sessions: what a call knows, and what is due to a visitor.          *)
(***************************************************************************)

D == Ttl - RenewAfter

\* A call: nobody is known to it before the lookup, and a token belongs to the
\* one who calls.
Caller(c) ==
    LET k == call[c] IN
    /\ k.at = "none" => k.token = Nothing
    /\ k.at \in Early => k.viewer = Nothing /\ k.renewed = FALSE
    /\ k.at # "none" => k.by \in User
    /\ k.at = "renew" => k.token # Nothing
    /\ k.viewer # Nothing => k.token # Nothing
    /\ k.renewed => k.viewer # Nothing
    /\ k.token # Nothing => tokenOf[k.token] = k.by
    /\ k.sent <= now

Callers == \A c \in Call : Caller(c)

CookiesOwn == \A u \in User : cookie[u].token # Nothing => tokenOf[cookie[u].token] = u

Timed == \A t \in Token : expires[t] <= now + Ttl /\ visit[t] <= now

\* Counts(t): the session is there, and no renewal or renewed cookie of it was lost.
Counts(t) == t \in Token /\ Alive(t) /\ t \notin slipped

\* A session outlasts by D every call it let in.
Due == \A t \in Token : Counts(t) =>
          /\ expires[t] >= visit[t] + D
          /\ \A c \in Call : (call[c].token = t /\ call[c].viewer # Nothing) => expires[t] >= call[c].sent + D

\* The browser's cookie lasts as long as the session, or one that does is on its way.
Carried(u) ==
    Counts(cookie[u].token) =>
        \/ cookie[u].until >= expires[cookie[u].token]
        \/ \E c \in Call : call[c].token = cookie[u].token /\ call[c].renewed

SessionsInv == TypeOK /\ Callers /\ CookiesOwn /\ Timed /\ Due /\ \A u \in User : Carried(u)

\* Calls that work on leave the sessions as they are.
LEMMA WorkKeeps ==
    ASSUME SessionsInv, NEW c \in Call, Works(c), UNCHANGED <<now, sessions, cookie, history>>,
           ShareTyped'
    PROVE  SessionsInv'
<1>1. /\ \A d \in Call : /\ call'[d].token = call[d].token /\ call'[d].viewer = call[d].viewer
                         /\ call'[d].renewed = call[d].renewed /\ call'[d].by = call[d].by
                         /\ call'[d].sent = call[d].sent
      /\ \A d \in Call \ {c} : call'[d] = call[d]
  BY DEF Works
<1>2. TypeOK'
  BY DEF SessionsInv, TypeOK, Works, ShareTyped, sessions, history
<1>3. Callers'
  <2>1. ASSUME NEW d \in Call PROVE Caller(d)'
    <3>1. CASE d = c
      <4>1. call'[c].at # "none" /\ call[c].at # "none" /\ call'[c].at # "renew" /\ call'[c].at \notin Early
        BY DEF Works, Early
      <4>2. QED
        BY <1>1, <3>1, <4>1 DEF SessionsInv, Callers, Caller, sessions
    <3>2. CASE d # c
      BY <1>1, <3>2 DEF SessionsInv, Callers, Caller, sessions
    <3>3. QED
      BY <3>1, <3>2
  <2>2. QED
    BY <2>1 DEF Callers
<1>4. CookiesOwn' /\ Timed'
  BY DEF SessionsInv, CookiesOwn, Timed, sessions, history
<1>5. Due'
  BY <1>1 DEF SessionsInv, Due, Counts, Alive, D, sessions, history
<1>6. \A u \in User : Carried(u)'
  BY <1>1 DEF SessionsInv, Carried, Counts, Alive, sessions, history
<1>7. QED
  BY <1>2, <1>3, <1>4, <1>5, <1>6 DEF SessionsInv

\* A new call has the cookie of the one who calls.
LEMMA BeginKeeps ==
    ASSUME SessionsInv, NEW c \in Call, NEW u \in User, Begins(c, u),
           UNCHANGED <<now, sessions, cookie, history, share, bounds>>
    PROVE  SessionsInv'
<1>1. TypeOK'
  BY DEF SessionsInv, TypeOK, Begins, sessions, history, share, bounds
<1>2. Callers'
  <2>1. ASSUME NEW d \in Call PROVE Caller(d)'
    <3>1. CASE d = c
      <4>1. now \in Nat
        BY Numbers DEF SessionsInv, TypeOK
      <4>2. cookie[u].token # Nothing => tokenOf[cookie[u].token] = u
        BY DEF SessionsInv, CookiesOwn
      <4>3. call'[c].at # "renew" /\ call'[c].at # "none"
        BY DEF Begins, Early
      <4>4. QED
        BY <3>1, <4>1, <4>2, <4>3 DEF Caller, Begins, sessions
    <3>2. CASE d # c
      BY <3>2 DEF SessionsInv, Callers, Caller, Begins, sessions
    <3>3. QED
      BY <3>1, <3>2
  <2>2. QED
    BY <2>1 DEF Callers
<1>3. CookiesOwn' /\ Timed'
  BY DEF SessionsInv, CookiesOwn, Timed, sessions, history
<1>4. Due'
  BY DEF SessionsInv, Due, Counts, Alive, D, Begins, sessions, history
<1>5. \A v \in User : Carried(v)'
  <2>1. call[c].renewed = FALSE
    BY DEF SessionsInv, Callers, Caller, Begins
  <2>2. QED
    BY <2>1 DEF SessionsInv, Carried, Counts, Alive, Begins, sessions, history
<1>6. QED
  BY <1>1, <1>2, <1>3, <1>4, <1>5 DEF SessionsInv

\* Rows end, and no call comes to know more.
LEMMA RowsEnd ==
    ASSUME SessionsInv,
           UNCHANGED <<now, tokenOf, cookie, history, share, bounds>>,
           expires' \in [Token -> 0..(MaxTime + Ttl)],
           \A s \in Token : expires'[s] = expires[s] \/ expires'[s] = 0,
           call' \in [Call -> Request],
           \A d \in Call : /\ call'[d].token = call[d].token /\ call'[d].viewer = call[d].viewer
                           /\ call'[d].renewed = call[d].renewed /\ call'[d].by = call[d].by
                           /\ call'[d].sent = call[d].sent,
           \A d \in Call : \/ call'[d] = call[d]
                           \/ /\ call[d].at # "none" /\ call'[d].at # "none"
                              /\ call'[d].at \in Early => call[d].at \in Early
                              /\ call'[d].at = "renew" => call[d].token # Nothing
    PROVE  SessionsInv'
<1>1. TypeOK'
  BY DEF SessionsInv, TypeOK, history, share, bounds
<1>2. Callers'
  <2>1. ASSUME NEW d \in Call PROVE Caller(d)'
    BY DEF SessionsInv, Callers, Caller
  <2>2. QED
    BY <2>1 DEF Callers
<1>3. CookiesOwn'
  BY DEF SessionsInv, CookiesOwn
<1>4. /\ expires \in [Token -> Nat] /\ now \in Nat
  BY Numbers DEF SessionsInv, TypeOK
<1>5. Timed'
  BY <1>4, Numbers DEF SessionsInv, Timed, history
<1>6. \A t : Counts(t)' => Counts(t) /\ expires'[t] = expires[t]
  BY DEF Counts, Alive, history
<1>7. Due'
  BY <1>6 DEF SessionsInv, Due, D, Counts, history
<1>8. \A u \in User : Carried(u)'
  <2>1. ASSUME NEW u \in User, Counts(cookie[u].token)' PROVE Carried(u)'
    <3>1. Counts(cookie[u].token) /\ expires'[cookie[u].token] = expires[cookie[u].token]
          /\ cookie' = cookie
      BY <1>6, <2>1 DEF Counts
    <3>2. QED
      BY <3>1 DEF SessionsInv, Carried
  <2>2. QED
    BY <2>1 DEF Carried
<1>9. QED
  BY <1>1, <1>2, <1>3, <1>5, <1>7, <1>8 DEF SessionsInv

\* A lookup lets in nobody whose session is about to lapse.
LEMMA LookupKeeps ==
    ASSUME SessionsInv, NEW c \in Call, Lookup(c)
    PROVE  SessionsInv'
<1> DEFINE t == call[c].token
<1>1. /\ call[c].at = "lookup" /\ TypeOK /\ call[c] \in Request
      /\ UNCHANGED <<now, tokenOf, cookie, history, share, bounds>>
      /\ expires \in [Token -> 0..(MaxTime + Ttl)] /\ now \in Nat
      /\ call[c].viewer = Nothing /\ call[c].renewed = FALSE /\ call[c].by \in User
      /\ t # Nothing => tokenOf[t] = call[c].by
  <2>1. TypeOK /\ Caller(c)
    BY DEF SessionsInv, Callers
  <2>2. call[c].at = "lookup" /\ UNCHANGED <<now, tokenOf, cookie, history, share, bounds>>
    BY <2>1, LookupLearns
  <2>3. call[c] \in Request /\ expires \in [Token -> 0..(MaxTime + Ttl)] /\ now \in Nat
    BY <2>1 DEF TypeOK
  <2>4. call[c].at \in Early /\ call[c].at # "none"
    BY <2>2 DEF Early
  <2>5. QED
    BY <2>1, <2>2, <2>3, <2>4 DEF Caller
<1>2. CASE /\ Learns(c, Nothing, FALSE)
           /\ expires' \in [Token -> 0..(MaxTime + Ttl)]
           /\ \A s \in Token : expires'[s] = expires[s] \/ expires'[s] = 0
  <2>1. call'[c].at # "none" /\ call'[c].at \notin Early /\ call'[c].at # "renew"
    BY <1>2 DEF Learns, Early
  <2>2. QED
    BY <1>1, <1>2, <2>1, RowsEnd DEF Learns
<1>3. CASE /\ Learns(c, tokenOf[t], FALSE) /\ t # Nothing /\ Alive(t) /\ Young(t)
           /\ UNCHANGED expires
  <2>1. TypeOK'
    BY <1>1, <1>3 DEF TypeOK, Learns, history, share, bounds
  <2>2. Callers'
    <3>1. call'[c].at # "none" /\ call'[c].at \notin Early /\ call'[c].at # "renew"
      BY <1>3 DEF Learns, Early
    <3>2. Caller(c)'
      BY <1>1, <1>3, <3>1 DEF Caller, Learns, SessionsInv, Callers
    <3>3. ASSUME NEW d \in Call \ {c} PROVE Caller(d)'
      BY <1>1, <1>3 DEF SessionsInv, Callers, Caller, Learns
    <3>4. QED
      BY <3>2, <3>3 DEF Callers
  <2>3. CookiesOwn' /\ Timed'
    BY <1>1, <1>3 DEF SessionsInv, CookiesOwn, Timed, history
  <2>4. Due'
    <3>1. call[c].sent <= now /\ call[c].sent \in Nat
      BY <1>1 DEF SessionsInv, Callers, Caller, Request
    <3>2. t \in Token => expires[t] >= call[c].sent + D
      BY <1>1, <1>3, <3>1, Numbers DEF Young, D
    <3>3. ASSUME NEW s \in Token, Counts(s)', NEW d \in Call, call'[d].token = s, call'[d].viewer # Nothing
          PROVE  expires'[s] >= call'[d].sent + D
      <4>1. CASE d = c
        BY <1>3, <3>2, <3>3, <4>1 DEF Learns, D
      <4>2. CASE d # c
        BY <1>1, <1>3, <3>3, <4>2 DEF SessionsInv, Due, Counts, Alive, Learns, history, D
      <4>3. QED
        BY <4>1, <4>2
    <3>4. ASSUME NEW s \in Token, Counts(s)' PROVE expires'[s] >= visit'[s] + D
      BY <1>1, <1>3, <3>4 DEF SessionsInv, Due, Counts, Alive, history, D
    <3>5. QED
      BY <3>3, <3>4 DEF Due, D
  <2>5. \A u \in User : Carried(u)'
    BY <1>1, <1>3 DEF SessionsInv, Carried, Counts, Alive, Learns, history
  <2>6. QED
    BY <2>1, <2>2, <2>3, <2>4, <2>5 DEF SessionsInv
<1>4. CASE /\ Goes(c, "renew") /\ t # Nothing /\ Alive(t) /\ UNCHANGED expires
  <2>1. "renew" \in Places /\ "renew" \in Early
    BY DEF Places, Early
  <2>2. [call[c] EXCEPT !.at = "renew"] \in Request
    BY <1>1, <2>1 DEF Request
  <2>3. call'[c] = [call[c] EXCEPT !.at = "renew"] /\ call' \in [Call -> Request]
        /\ \A d \in Call \ {c} : call'[d] = call[d]
    BY <1>1, <1>4, <2>2, RunsTyped DEF Goes
  <2>4. /\ call'[c].token = call[c].token /\ call'[c].viewer = call[c].viewer
        /\ call'[c].renewed = call[c].renewed /\ call'[c].by = call[c].by
        /\ call'[c].sent = call[c].sent /\ call'[c].at = "renew"
    BY <1>1, <2>3 DEF Request
  <2>5. call[c].at \in Early
    BY <1>1 DEF Early
  <2>6. QED
    BY <1>1, <1>4, <2>3, <2>4, <2>5, RowsEnd
<1>5. QED
  BY <1>1, <1>2, <1>3, <1>4, LookupLearns

\* A sign-out ends one session.
LEMMA ForgetKeeps ==
    ASSUME SessionsInv, NEW c \in Call, Forget(c)
    PROVE  SessionsInv'
<1>1. TypeOK
  BY DEF SessionsInv
<1>2. call[c] \in Request /\ call[c].at = "forget"
  BY <1>1, ForgetEnds DEF TypeOK
<1>3. /\ call'[c].token = call[c].token /\ call'[c].viewer = call[c].viewer
      /\ call'[c].renewed = call[c].renewed /\ call'[c].by = call[c].by
      /\ call'[c].sent = call[c].sent /\ call'[c].at = "answer"
  BY <1>1, <1>2, ForgetEnds DEF Request
<1>4. "answer" \notin Early
  BY DEF Early
<1>5. QED
  BY <1>1, <1>2, <1>3, <1>4, ForgetEnds, RowsEnd

\* A revocation ends all of a person's.
LEMMA RevokeKeeps ==
    ASSUME SessionsInv, NEW u \in User, Revoke(u)
    PROVE  SessionsInv'
<1>1. /\ call \in [Call -> Request] /\ expires \in [Token -> 0..(MaxTime + Ttl)]
      /\ 0 \in 0..(MaxTime + Ttl)
  BY Numbers DEF SessionsInv, TypeOK
<1>2. QED
  BY <1>1, RowsEnd DEF Revoke

\* A renewal that succeeds has its cookie on the way; one that fails is counted.
LEMMA RenewKeeps ==
    ASSUME SessionsInv, NEW c \in Call, Renew(c)
    PROVE  SessionsInv'
<1>0. TypeOK /\ Caller(c)
  BY DEF SessionsInv, Callers
<1>1. call[c].at = "renew"
  BY DEF Renew, At
<1>2. /\ call[c] \in Request /\ expires \in [Token -> 0..(MaxTime + Ttl)] /\ now \in Nat
      /\ visit \in [Token -> 0..MaxTime] /\ call[c].sent \in Nat
  BY <1>0, Numbers DEF TypeOK, Request
<1>3. PICK t \in Token :
         /\ t = call[c].token /\ tokenOf[t] = call[c].by /\ call[c].by \in User
         /\ call[c].sent <= now /\ call[c].viewer = Nothing /\ call[c].renewed = FALSE
  BY <1>0, <1>1, <1>2 DEF Caller, Request, Early
<1>4. PICK done \in BOOLEAN :
         /\ UNCHANGED <<now, tokenOf, cookie, visit, share, bounds>>
         /\ expires' \in [Token -> 0..(MaxTime + Ttl)]
         /\ \A s \in Token \ {t} : expires'[s] = expires[s]
         /\ Learns(c, tokenOf[t], done)
         /\ IF done THEN slipped' = slipped /\ expires'[t] = IF Alive(t) THEN now + Ttl ELSE 0
                    ELSE slipped' = slipped \union {t} /\ expires'[t] = expires[t]
  BY <1>0, <1>3, RenewLearns, Numbers
<1>5. TypeOK'
  BY <1>0, <1>3, <1>4 DEF TypeOK, Learns, share, bounds
<1>6. Callers'
  <2>1. call'[c].at # "none" /\ call'[c].at \notin Early /\ call'[c].at # "renew"
    BY <1>4 DEF Learns, Early
  <2>2. Caller(c)'
    BY <1>0, <1>3, <1>4, <2>1, Numbers DEF Caller, Learns
  <2>3. ASSUME NEW d \in Call \ {c} PROVE Caller(d)'
    BY <1>4 DEF SessionsInv, Callers, Caller, Learns
  <2>4. QED
    BY <2>2, <2>3 DEF Callers
<1>7. CookiesOwn' /\ Timed'
  <2>1. CookiesOwn'
    BY <1>4 DEF SessionsInv, CookiesOwn
  <2>2. expires'[t] <= now + Ttl
    BY <1>2, <1>3, <1>4, Numbers DEF SessionsInv, Timed
  <2>3. QED
    BY <1>4, <2>1, <2>2 DEF SessionsInv, Timed
\* Of the session that was renewed, or was not.
<1>8. Counts(t)' => done /\ expires'[t] = now + Ttl
  <2>1. CASE done
    BY <1>3, <1>4, <2>1 DEF Counts, Alive
  <2>2. CASE ~done
    BY <1>3, <1>4, <2>2 DEF Counts
  <2>3. QED
    BY <2>1, <2>2
<1>9. \A s : (Counts(s)' /\ s # t) => Counts(s) /\ expires'[s] = expires[s]
  BY <1>4 DEF Counts, Alive
<1>10. Due'
  <2>1. ASSUME NEW s \in Token, Counts(s)' PROVE expires'[s] >= visit'[s] + D
    <3>1. CASE s = t
      <4>1. visit[t] <= now /\ visit[t] \in Nat
        BY <1>2, <1>3 DEF SessionsInv, Timed
      <4>2. QED
        <5>1. expires'[s] = now + Ttl
          BY <1>8, <2>1, <3>1
        <5>2. visit'[s] = visit[t]
          BY <1>4, <3>1
        <5>3. QED
          BY <1>2, <4>1, <5>1, <5>2, Numbers DEF D
    <3>2. CASE s # t
      BY <1>4, <1>9, <2>1, <3>2 DEF SessionsInv, Due, D
    <3>3. QED
      BY <3>1, <3>2
  <2>2. ASSUME NEW s \in Token, Counts(s)', NEW d \in Call, call'[d].token = s, call'[d].viewer # Nothing
        PROVE  expires'[s] >= call'[d].sent + D
    <3>1. call'[d].sent = call[d].sent /\ call[d].sent \in Nat /\ call[d].sent <= now
      BY <1>0, <1>4 DEF Learns, SessionsInv, Callers, Caller, TypeOK, Request
    <3>2. CASE s = t
      <4>1. expires'[s] = now + Ttl
        BY <1>8, <2>2, <3>2
      <4>2. QED
        BY <1>2, <3>1, <4>1, Numbers DEF D
    <3>3. CASE s # t
      <4>1. d # c
        BY <1>3, <1>4, <2>2, <3>3 DEF Learns
      <4>2. call'[d] = call[d]
        BY <1>4, <4>1 DEF Learns
      <4>3. QED
        BY <1>9, <2>2, <3>3, <4>2 DEF SessionsInv, Due, D
    <3>4. QED
      BY <3>2, <3>3
  <2>3. QED
    BY <2>1, <2>2 DEF Due, D
<1>11. ASSUME NEW u \in User, Counts(cookie[u].token)', cookie' = cookie PROVE Carried(u)'
  <2>1. CASE cookie[u].token = t
    BY <1>3, <1>4, <1>8, <1>11, <2>1 DEF Carried, Learns
  <2>2. CASE cookie[u].token # t
    <3>1. Counts(cookie[u].token) /\ expires'[cookie[u].token] = expires[cookie[u].token]
      BY <1>9, <1>11, <2>2
    <3>2. CASE cookie[u].until >= expires[cookie[u].token]
      BY <1>11, <3>1, <3>2 DEF Carried
    <3>3. ASSUME NEW d \in Call, call[d].token = cookie[u].token, call[d].renewed
          PROVE  Carried(u)'
      <4>1. d # c
        BY <1>3, <2>2, <3>3
      <4>2. call'[d] = call[d]
        BY <1>4, <4>1 DEF Learns
      <4>3. QED
        BY <1>11, <3>3, <4>2 DEF Carried
    <3>4. QED
      BY <3>1, <3>2, <3>3 DEF SessionsInv, Carried
  <2>3. QED
    BY <2>1, <2>2
<1>12. \A u \in User : Carried(u)'
  <2>1. cookie' = cookie
    BY <1>4
  <2>2. QED
    BY <1>11, <2>1 DEF Carried
<1>13. QED
  BY <1>5, <1>6, <1>7, <1>10, <1>12 DEF SessionsInv

\* A token that nobody holds yet.
LEMMA Unheld ==
    ASSUME SessionsInv, NEW t \in Token, tokenOf[t] = Nothing
    PROVE  /\ \A u \in User : cookie[u].token # t
           /\ \A c \in Call : call[c].token # t
BY Numbers DEF SessionsInv, CookiesOwn, Callers, Caller

\* A new session lasts longer than any call.
LEMMA MintKeeps ==
    ASSUME SessionsInv, NEW c \in Call, Mint(c)
    PROVE  SessionsInv'
<1>0. TypeOK /\ Caller(c)
  BY DEF SessionsInv, Callers
<1>1. PICK t \in Token :
         /\ call[c].at = "mint" /\ tokenOf[t] = Nothing
         /\ UNCHANGED <<now, cookie, history, share, bounds>>
         /\ tokenOf' = [tokenOf EXCEPT ![t] = call[c].by]
         /\ expires' = [expires EXCEPT ![t] = now + Ttl]
         /\ call' \in [Call -> Request] /\ \A d \in Call \ {c} : call'[d] = call[d]
         /\ call'[c].at = "answer" /\ call'[c].token = t /\ call'[c].viewer = call[c].by
         /\ call'[c].by = call[c].by /\ call'[c].sent = call[c].sent
         /\ call'[c].renewed = TRUE /\ call'[c].op = call[c].op
  BY <1>0, MintMakes
<1>2. /\ tokenOf \in [Token -> User \union {Nothing}] /\ expires \in [Token -> 0..(MaxTime + Ttl)]
      /\ now \in 0..MaxTime /\ now \in Nat /\ visit \in [Token -> Nat] /\ now + Ttl \in 0..(MaxTime + Ttl)
      /\ \A d \in Call : call[d].sent \in Nat
  BY <1>0, Numbers DEF TypeOK, Request
<1>3. call[c].by \in User /\ call[c].sent <= now /\ call[c].renewed = FALSE
  BY <1>0, <1>1 DEF Caller, Early
<1>4. /\ \A u \in User : cookie[u].token # t
      /\ \A d \in Call : call[d].token # t
  BY <1>1, Unheld
<1>5. expires'[t] = now + Ttl /\ tokenOf'[t] = call[c].by
      /\ \A s \in Token \ {t} : expires'[s] = expires[s] /\ tokenOf'[s] = tokenOf[s]
  BY <1>1, <1>2
<1>6. TypeOK'
  BY <1>0, <1>1, <1>2, <1>3 DEF TypeOK, history, share, bounds
<1>7. Callers'
  <2>1. Caller(c)'
    BY <1>1, <1>3, <1>5, Numbers DEF Caller, Early
  <2>2. ASSUME NEW d \in Call \ {c} PROVE Caller(d)'
    <3>1. call[d].token # t /\ call[d].token \in Token \union {Nothing}
      BY <1>0, <1>4 DEF TypeOK, Request
    <3>2. QED
      BY <1>1, <1>5, <3>1 DEF SessionsInv, Callers, Caller
  <2>3. QED
    BY <2>1, <2>2 DEF Callers
<1>8. CookiesOwn'
  <2>1. \A u \in User : cookie[u].token \in Token \union {Nothing}
    BY <1>0 DEF TypeOK
  <2>2. QED
    BY <1>1, <1>4, <1>5, <2>1 DEF SessionsInv, CookiesOwn
<1>9. Timed'
  BY <1>1, <1>2, <1>5 DEF SessionsInv, Timed, history
<1>10. \A s : (Counts(s)' /\ s # t) => Counts(s) /\ expires'[s] = expires[s]
  BY <1>1, <1>5 DEF Counts, Alive, history
<1>11. Due'
  <2>1. ASSUME NEW s \in Token, Counts(s)' PROVE expires'[s] >= visit'[s] + D
    <3>1. visit' = visit
      BY <1>1 DEF history
    <3>2. CASE s = t
      <4>1. visit[t] <= now /\ visit[t] \in Nat
        BY <1>2 DEF SessionsInv, Timed
      <4>2. QED
        BY <1>2, <1>5, <3>1, <3>2, <4>1, Numbers DEF D
    <3>3. CASE s # t
      BY <1>10, <2>1, <3>1, <3>3 DEF SessionsInv, Due, D
    <3>4. QED
      BY <3>2, <3>3
  <2>2. ASSUME NEW s \in Token, Counts(s)', NEW d \in Call, call'[d].token = s, call'[d].viewer # Nothing
        PROVE  expires'[s] >= call'[d].sent + D
    <3>1. CASE d = c
      BY <1>1, <1>2, <1>3, <1>5, <2>2, <3>1, Numbers DEF D
    <3>2. CASE d # c
      <4>1. call'[d] = call[d] /\ s # t
        BY <1>1, <1>4, <2>2, <3>2
      <4>2. QED
        BY <1>10, <2>2, <4>1 DEF SessionsInv, Due, D
    <3>3. QED
      BY <3>1, <3>2
  <2>3. QED
    BY <2>1, <2>2 DEF Due, D
<1>12. ASSUME NEW u \in User, Counts(cookie[u].token)' PROVE Carried(u)'
  <2>1. cookie' = cookie
    BY <1>1
  <2>2. cookie[u].token # t
    BY <1>4
  <2>3. Counts(cookie[u].token) /\ expires'[cookie[u].token] = expires[cookie[u].token]
    BY <1>10, <1>12, <2>1, <2>2
  <2>4. CASE cookie[u].until >= expires[cookie[u].token]
    BY <2>1, <2>3, <2>4 DEF Carried
  <2>5. ASSUME NEW d \in Call, call[d].token = cookie[u].token, call[d].renewed
        PROVE  Carried(u)'
    <3>1. d # c
      BY <1>3, <2>5
    <3>2. call'[d] = call[d]
      BY <1>1, <3>1
    <3>3. QED
      BY <2>1, <2>5, <3>2 DEF Carried
  <2>6. QED
    BY <2>3, <2>4, <2>5 DEF SessionsInv, Carried
<1>13. \A u \in User : Carried(u)'
  BY <1>12 DEF Carried
<1>14. QED
  BY <1>6, <1>7, <1>8, <1>9, <1>11, <1>13 DEF SessionsInv

\* A call that is over knows nothing; what the others know stays true.
LEMMA EndsCallers ==
    ASSUME SessionsInv, NEW c \in Call, Ends(c), UNCHANGED <<now, tokenOf>>
    PROVE  Callers'
<1>1. now \in Nat
  BY Numbers DEF SessionsInv, TypeOK
<1>2. Caller(c)'
  BY <1>1 DEF Caller, Ends, NoCall
<1>3. ASSUME NEW d \in Call \ {c} PROVE Caller(d)'
  BY DEF SessionsInv, Callers, Caller, Ends
<1>4. QED
  BY <1>2, <1>3 DEF Callers

\* An answer brings the cookie with it, and is a visit that the session outlasts.
LEMMA ArriveKeeps ==
    ASSUME SessionsInv, NEW c \in Call, Arrive(c)
    PROVE  SessionsInv'
<1>0. TypeOK /\ Caller(c) /\ Ends(c) /\ call[c] \in Request
  BY AnswerEnds DEF SessionsInv, Callers, TypeOK
<1>1. PICK u \in User, t \in Token \union {Nothing} :
         /\ u = call[c].by /\ t = call[c].token
         /\ t # Nothing => tokenOf[t] = u
         /\ call[c].renewed => t # Nothing
         /\ call[c].viewer # Nothing => t # Nothing
         /\ call[c].sent <= now
  BY <1>0 DEF Arrive, At, Caller, Request
<1>2. /\ UNCHANGED <<now, sessions, share, bounds, slipped>>
      /\ cookie' = [cookie EXCEPT ![u] = IF call[c].op = "logout" THEN NoCookie
                                         ELSE IF call[c].renewed THEN [token |-> t, until |-> now + Ttl]
                                         ELSE @]
      /\ visit' = [s \in Token |-> IF s = t /\ call[c].viewer # Nothing
                                   THEN Latest(visit[s], call[c].sent) ELSE visit[s]]
  BY <1>1 DEF Arrive, SetsCookie
<1>3. /\ cookie \in [User -> [token : Token \union {Nothing}, until : 0..(MaxTime + Ttl)]]
      /\ expires \in [Token -> Nat] /\ now \in Nat /\ visit \in [Token -> Nat]
      /\ call[c].sent \in Nat
  BY <1>0, Numbers DEF TypeOK, Request
<1>4. TypeOK'
  BY <1>0, <1>2, ArriveTyped DEF TypeOK, Ends, sessions, share, bounds
<1>5. Callers'
  BY <1>0, <1>2, EndsCallers DEF sessions
\* The cookie of the one who called, and of the others.
<1>6. /\ \A v \in User \ {u} : cookie'[v] = cookie[v]
      /\ \/ cookie'[u] = NoCookie
         \/ call[c].renewed /\ cookie'[u] = [token |-> t, until |-> now + Ttl]
         \/ ~call[c].renewed /\ cookie'[u] = cookie[u]
  BY <1>2, <1>3
<1>7. CookiesOwn'
  <2>1. tokenOf' = tokenOf
    BY <1>2 DEF sessions
  <2>2. ASSUME NEW v \in User, cookie'[v].token # Nothing PROVE tokenOf'[cookie'[v].token] = v
    <3>1. CASE v # u
      BY <1>6, <2>1, <2>2, <3>1 DEF SessionsInv, CookiesOwn
    <3>2. CASE v = u
      BY <1>1, <1>6, <2>1, <2>2, <3>2 DEF SessionsInv, CookiesOwn, NoCookie
    <3>3. QED
      BY <3>1, <3>2
  <2>3. QED
    BY <2>2 DEF CookiesOwn
<1>8. Timed'
  BY <1>1, <1>2, <1>3 DEF SessionsInv, Timed, Latest, sessions
<1>9. \A s : Counts(s)' => Counts(s) /\ expires'[s] = expires[s]
  BY <1>2 DEF Counts, Alive, sessions
<1>10. Due'
  <2>1. ASSUME NEW s \in Token, Counts(s)' PROVE expires'[s] >= visit'[s] + D
    <3>1. Counts(s) /\ expires'[s] = expires[s] /\ expires[s] >= visit[s] + D
      BY <1>9, <2>1 DEF SessionsInv, Due
    <3>2. CASE s = t /\ call[c].viewer # Nothing
      <4>1. expires[s] >= call[c].sent + D
        BY <1>1, <3>1, <3>2 DEF SessionsInv, Due
      <4>2. QED
        BY <1>2, <3>1, <3>2, <4>1 DEF Latest, D
    <3>3. CASE ~(s = t /\ call[c].viewer # Nothing)
      BY <1>2, <3>1, <3>3 DEF D
    <3>4. QED
      BY <3>2, <3>3
  <2>2. ASSUME NEW s \in Token, Counts(s)', NEW d \in Call, call'[d].token = s, call'[d].viewer # Nothing
        PROVE  expires'[s] >= call'[d].sent + D
    <3>1. d # c /\ call'[d] = call[d]
      BY <1>0, <2>2 DEF Ends, NoCall
    <3>2. QED
      BY <1>9, <2>2, <3>1 DEF SessionsInv, Due, D
  <2>3. QED
    BY <2>1, <2>2 DEF Due, D
<1>11. ASSUME NEW v \in User, NEW s, s = cookie[v].token, cookie'[v] = cookie[v], Counts(s)',
              \A d \in Call : (call[d].token = s /\ call[d].renewed) => d # c
       PROVE  Carried(v)'
  <2>1. Counts(s) /\ expires'[s] = expires[s]
    BY <1>9, <1>11
  <2>2. CASE cookie[v].until >= expires[s]
    BY <1>11, <2>1, <2>2 DEF Carried
  <2>3. ASSUME NEW d \in Call, call[d].token = s, call[d].renewed
        PROVE  Carried(v)'
    <3>1. call'[d] = call[d]
      BY <1>0, <1>11, <2>3 DEF Ends
    <3>2. QED
      BY <1>11, <2>3, <3>1 DEF Carried
  <2>4. QED
    BY <1>11, <2>1, <2>2, <2>3 DEF SessionsInv, Carried
<1>12. ASSUME NEW v \in User, NEW s, s = cookie'[v].token, Counts(s)' PROVE Carried(v)'
  <2>0. s \in Token /\ s # Nothing
    BY <1>12, Numbers DEF Counts
  <2>1. CASE v # u
    <3>1. cookie'[v] = cookie[v] /\ s = cookie[v].token
      BY <1>6, <1>12, <2>1
    <3>2. tokenOf[s] = v
      BY <2>0, <3>1 DEF SessionsInv, CookiesOwn
    <3>3. t # s
      BY <1>1, <2>0, <2>1, <3>2
    <3>4. QED
      BY <1>1, <1>11, <1>12, <3>1, <3>3
  <2>2. CASE v = u
    <3>1. CASE cookie'[u] = NoCookie
      BY <1>12, <2>0, <2>2, <3>1 DEF NoCookie
    <3>2. CASE call[c].renewed /\ cookie'[u] = [token |-> t, until |-> now + Ttl]
      <4>1. s = t /\ expires'[s] = expires[s] /\ expires[s] <= now + Ttl
        BY <1>9, <1>12, <2>0, <2>2, <3>2 DEF SessionsInv, Timed
      <4>2. cookie'[v].until >= expires'[cookie'[v].token]
        BY <1>3, <1>12, <2>0, <2>2, <3>2, <4>1, Numbers
      <4>3. QED
        BY <4>2 DEF Carried
    <3>3. CASE ~call[c].renewed /\ cookie'[u] = cookie[u]
      BY <1>11, <1>12, <2>2, <3>3
    <3>4. QED
      BY <1>6, <3>1, <3>2, <3>3
  <2>3. QED
    BY <2>1, <2>2
<1>13. \A v \in User : Carried(v)'
  BY <1>12 DEF Carried
<1>14. QED
  BY <1>4, <1>5, <1>7, <1>8, <1>10, <1>13 DEF SessionsInv

\* Answers that are lost, one or all: what they carried is counted as slipped.
LEMMA LossKeeps ==
    ASSUME SessionsInv, NEW C \in SUBSET Call,
           call' = [c \in Call |-> IF c \in C THEN NoCall ELSE call[c]],
           slipped' = slipped \union {call[c].token : c \in {d \in C : call[d].renewed}},
           expires' \in [Token -> 0..(MaxTime + Ttl)],
           \A s \in Token : expires'[s] = expires[s] \/ expires'[s] = 0,
           UNCHANGED <<now, tokenOf, cookie, share, bounds, visit>>
    PROVE  SessionsInv'
<1>0. TypeOK /\ now \in Nat /\ expires \in [Token -> Nat] /\ call \in [Call -> Request]
  BY Numbers DEF SessionsInv, TypeOK
<1>1. \A c \in Call : call'[c] = NoCall \/ (c \notin C /\ call'[c] = call[c])
  OBVIOUS
<1>2. TypeOK'
  <2>1. call' \in [Call -> Request]
    BY <1>0, NoCallTyped
  <2>2. slipped' \subseteq Token \union {Nothing}
    BY <1>0 DEF TypeOK, Request
  <2>3. QED
    BY <1>0, <2>1, <2>2 DEF TypeOK, share, bounds
<1>3. Callers'
  <2>1. ASSUME NEW c \in Call PROVE Caller(c)'
    <3>1. CASE call'[c] = NoCall
      BY <1>0, <3>1 DEF Caller, NoCall
    <3>2. CASE call'[c] = call[c]
      BY <3>2 DEF SessionsInv, Callers, Caller
    <3>3. QED
      BY <1>1, <3>1, <3>2
  <2>2. QED
    BY <2>1 DEF Callers
<1>4. CookiesOwn'
  BY DEF SessionsInv, CookiesOwn
<1>5. Timed'
  BY <1>0, Numbers DEF SessionsInv, Timed
<1>6. \A s : Counts(s)' => Counts(s) /\ expires'[s] = expires[s]
  BY DEF Counts, Alive
<1>7. Due'
  <2>1. ASSUME NEW s \in Token, Counts(s)' PROVE expires'[s] >= visit'[s] + D
    BY <1>6, <2>1 DEF SessionsInv, Due, D
  <2>2. ASSUME NEW s \in Token, Counts(s)', NEW c \in Call, call'[c].token = s, call'[c].viewer # Nothing
        PROVE  expires'[s] >= call'[c].sent + D
    <3>1. call'[c] = call[c]
      BY <1>1, <2>2 DEF NoCall
    <3>2. QED
      BY <1>6, <2>2, <3>1 DEF SessionsInv, Due, D
  <2>3. QED
    BY <2>1, <2>2 DEF Due, D
<1>8. ASSUME NEW u \in User, NEW s, s = cookie[u].token, Counts(s)' PROVE Carried(u)'
  <2>1. Counts(s) /\ expires'[s] = expires[s] /\ s \notin slipped' /\ cookie' = cookie
    BY <1>6, <1>8 DEF Counts
  <2>2. CASE cookie[u].until >= expires[s]
    BY <1>8, <2>1, <2>2 DEF Carried
  <2>3. ASSUME NEW c \in Call, call[c].token = s, call[c].renewed
        PROVE  Carried(u)'
    <3>1. c \notin C
      BY <2>1, <2>3
    <3>2. call'[c] = call[c]
      BY <3>1
    <3>3. QED
      BY <1>8, <2>1, <2>3, <3>2 DEF Carried
  <2>4. QED
    BY <1>8, <2>1, <2>2, <2>3 DEF SessionsInv, Carried
<1>9. \A u \in User : Carried(u)'
  BY <1>8 DEF Carried
<1>10. QED
  BY <1>2, <1>3, <1>4, <1>5, <1>7, <1>9 DEF SessionsInv

\* One answer is lost.
LEMMA AnswerLostKeeps ==
    ASSUME SessionsInv, NEW c \in Call, AnswerLost(c)
    PROVE  SessionsInv'
<1>1. call \in [Call -> Request] /\ expires \in [Token -> 0..(MaxTime + Ttl)]
  BY DEF SessionsInv, TypeOK
<1>2. PICK C \in SUBSET Call : C = {c}
  OBVIOUS
<1>3. call' = [d \in Call |-> IF d \in C THEN NoCall ELSE call[d]]
  BY <1>1, <1>2 DEF AnswerLost, Runs
<1>4. slipped' = slipped \union {call[e].token : e \in {d \in C : call[d].renewed}}
  BY <1>2 DEF AnswerLost
<1>5. UNCHANGED <<now, tokenOf, expires, cookie, share, bounds, visit>>
  BY DEF AnswerLost, sessions
<1>6. QED
  BY <1>1, <1>3, <1>4, <1>5, LossKeeps

\* All are lost.
LEMMA RestartKeeps ==
    ASSUME SessionsInv, Restart
    PROVE  SessionsInv'
<1>1. expires \in [Token -> 0..(MaxTime + Ttl)] /\ 0 \in 0..(MaxTime + Ttl)
  BY Numbers DEF SessionsInv, TypeOK
<1>2. call' = [d \in Call |-> IF d \in Call THEN NoCall ELSE call[d]]
  BY DEF Restart
<1>3. QED
  BY <1>1, <1>2, LossKeeps DEF Restart

\* Time ends cookies, and nothing else.
LEMMA TickKeeps ==
    ASSUME SessionsInv, Tick
    PROVE  SessionsInv'
<1>0. /\ now \in 0..MaxTime /\ now \in Nat /\ now' = now + 1 /\ now' \in 0..MaxTime
      /\ cookie \in [User -> [token : Token \union {Nothing}, until : 0..(MaxTime + Ttl)]]
      /\ expires \in [Token -> Nat] /\ visit \in [Token -> Nat] /\ \A c \in Call : call[c].sent \in Nat
  BY Numbers DEF SessionsInv, TypeOK, Request, Tick
<1>1. UNCHANGED <<tokenOf, expires, call, slipped, visit>>
  BY DEF Tick, sessions, history
<1>2. \A u \in User : cookie'[u] = cookie[u] \/ cookie'[u] = NoCookie
  BY DEF Tick
<1>3. TypeOK'
  <2>1. NoCookie \in [token : Token \union {Nothing}, until : 0..(MaxTime + Ttl)]
    BY Numbers DEF NoCookie
  <2>2. cookie' \in [User -> [token : Token \union {Nothing}, until : 0..(MaxTime + Ttl)]]
    BY <1>0, <2>1 DEF Tick
  <2>3. QED
    BY <1>0, <1>1, <2>2 DEF SessionsInv, TypeOK, Tick, share, bounds
<1>4. Callers'
  BY <1>0, <1>1 DEF SessionsInv, Callers, Caller
<1>5. CookiesOwn'
  BY <1>1, <1>2 DEF SessionsInv, CookiesOwn, NoCookie
<1>6. Timed'
  BY <1>0, <1>1, Numbers DEF SessionsInv, Timed
<1>7. Due'
  BY <1>1 DEF SessionsInv, Due, Counts, Alive, D
<1>8. \A u \in User : Carried(u)'
  BY <1>1, <1>2, Numbers DEF SessionsInv, Carried, Counts, Alive, NoCookie
<1>9. QED
  BY <1>3, <1>4, <1>5, <1>6, <1>7, <1>8 DEF SessionsInv

\* At the start there is neither call nor session.
LEMMA SessionsStart ==
    Init => SessionsInv
<1> SUFFICES ASSUME Init PROVE SessionsInv
  OBVIOUS
<1>1. TypeOK
  <2>1. NoCookie \in [token : Token \union {Nothing}, until : 0..(MaxTime + Ttl)]
    BY Numbers DEF NoCookie
  <2>2. 0 \in 0..MaxTime /\ 0 \in 0..(MaxTime + Ttl) /\ 0 \in 0..MaxPushes
    BY Numbers
  <2>3. /\ cookie \in [User -> [token : Token \union {Nothing}, until : 0..(MaxTime + Ttl)]]
        /\ call \in [Call -> Request]
    BY <2>1, NoCallTyped DEF Init
  <2>4. /\ now \in 0..MaxTime /\ tokenOf \in [Token -> User \union {Nothing}]
        /\ expires \in [Token -> 0..(MaxTime + Ttl)] /\ visit \in [Token -> 0..MaxTime]
        /\ pub \in 0..MaxPushes /\ readers \subseteq User /\ pushes \in 0..MaxPushes
        /\ slipped \subseteq Token \union {Nothing}
    BY <2>2 DEF Init
  <2>5. there \in BOOLEAN /\ draft \in BOOLEAN /\ private \in BOOLEAN /\ made \in BOOLEAN
    BY DEF Init
  <2>6. QED
    BY <2>3, <2>4, <2>5 DEF TypeOK
<1>2. Callers /\ CookiesOwn /\ Timed /\ Due /\ \A u \in User : Carried(u)
  BY Numbers DEF Init, Callers, Caller, NoCall, CookiesOwn, NoCookie, Timed, Due, Carried, Counts, Alive
<1>3. QED
  BY <1>1, <1>2 DEF SessionsInv

\* Every step keeps the invariant of the sessions.
LEMMA SessionsStep ==
    SessionsInv /\ [Next]_vars => SessionsInv'
<1> SUFFICES ASSUME SessionsInv, [Next]_vars PROVE SessionsInv'
  OBVIOUS
<1>0. TypeOK
  BY DEF SessionsInv
<1>1. CASE UNCHANGED vars
  BY <1>1 DEF vars, sessions, share, bounds, history, SessionsInv, TypeOK, Callers, Caller,
              CookiesOwn, Timed, Due, Carried, Counts, Alive, D
<1>2. CASE Tick \/ Restart
  BY <1>2, TickKeeps, RestartKeeps
<1>3. ASSUME NEW u \in User, Revoke(u) PROVE SessionsInv'
  BY <1>3, RevokeKeeps
<1>4. ASSUME NEW u \in User, NEW c \in Call, Browser(c, u) PROVE SessionsInv'
  BY <1>0, <1>4, BrowserBegins, BeginKeeps
<1>5. ASSUME NEW c \in Call, Session(c) PROVE SessionsInv'
  BY <1>5, LookupKeeps, RenewKeeps, MintKeeps, ForgetKeeps DEF Session
<1>6. ASSUME NEW c \in Call, ReadRow(c) \/ CheckReader(c) \/ Gate(c) \/ PushRead(c) \/ OwnerWrites(c)
      PROVE SessionsInv'
  <2>1. CASE ReadRow(c) \/ CheckReader(c)
    <3>1. Works(c) /\ UNCHANGED <<now, sessions, cookie, history, share, bounds>>
      BY <1>0, <2>1, ReadersWork
    <3>2. ShareTyped'
      BY <1>0, <3>1 DEF TypeOK, ShareTyped, share, bounds
    <3>3. QED
      BY <3>1, <3>2, WorkKeeps
  <2>2. CASE Gate(c) \/ PushRead(c) \/ OwnerWrites(c)
    BY <1>0, <2>2, OwnersWork, WorkKeeps
  <2>3. QED
    BY <1>6, <2>1, <2>2
<1>7. ASSUME NEW c \in Call, Arrive(c) \/ AnswerLost(c) PROVE SessionsInv'
  BY <1>7, ArriveKeeps, AnswerLostKeeps
<1>8. QED
  BY <1>1, <1>2, <1>3, <1>4, <1>5, <1>6, <1>7 DEF Next

\* An active visitor stays signed in: where no renewal failed and no renewed
\* cookie was lost, row and cookie outlast the last visit by the lifetime less
\* one renewal interval (auth.rs, current_user; db.rs, session_user).
THEOREM SessionsSafe == Spec => []SessionsSound
<1>1. SessionsInv => SessionsSound
  <2>1. ASSUME SessionsInv, NEW u \in User, NEW t, t = cookie[u].token, t # Nothing, Alive(t),
               t \notin slipped, \A c \in Call : call[c].token # t
        PROVE  /\ cookie[u].until >= visit[t] + (Ttl - RenewAfter)
               /\ expires[t] >= visit[t] + (Ttl - RenewAfter)
    <3>1. /\ t \in Token /\ cookie[u].until \in Nat /\ expires[t] \in Nat /\ visit[t] \in Nat
          /\ D \in Nat
      BY <2>1, Numbers DEF SessionsInv, TypeOK, D
    <3>2. Counts(t)
      BY <2>1, <3>1 DEF Counts
    <3>3. cookie[u].until >= expires[t]
      BY <2>1, <3>2 DEF SessionsInv, Carried
    <3>4. expires[t] >= visit[t] + D
      BY <2>1, <3>1, <3>2 DEF SessionsInv, Due
    <3>5. QED
      BY <3>1, <3>3, <3>4 DEF D
  <2>2. QED
    BY <2>1 DEF SessionsSound, ActiveStaysSignedIn, SessionsInv
<1>2. QED
  BY <1>1, SessionsStart, SessionsStep, PTL DEF Spec

-----------------------------------------------------------------------------
(***************************************************************************)
(* What has ended stays ended.                                             *)
(***************************************************************************)

Ended == /\ \A t \in Token : (tokenOf[t] # Nothing /\ ~Alive(t)) => ~Alive(t)'
         /\ (made /\ ~there) => ~there'

\* No step brings anything back.
LEMMA NothingReturns ==
    ASSUME SessionsInv, [Next]_vars
    PROVE  [Ended]_vars
<1>0. TypeOK
  BY DEF SessionsInv
<1>1. ASSUME UNCHANGED <<made, there>>, \A t \in Token : expires'[t] = expires[t] \/ expires'[t] = 0
      PROVE  Ended
  BY <1>1 DEF Ended, Alive
<1>2. CASE Tick \/ Restart
  BY <1>1, <1>2 DEF Tick, Restart, sessions, share, bounds
<1>3. ASSUME NEW u \in User, Revoke(u) PROVE Ended
  BY <1>1, <1>3 DEF Revoke, share, bounds
<1>4. ASSUME NEW u \in User, NEW c \in Call, Browser(c, u) PROVE Ended
  BY <1>0, <1>1, <1>4, BrowserBegins DEF sessions, share, bounds
<1>5. ASSUME NEW c \in Call, Session(c) PROVE Ended
  <2>1. CASE Lookup(c)
    BY <1>0, <1>1, <2>1, LookupLearns DEF share, bounds
  <2>2. CASE Renew(c)
    <3>1. call[c].token # Nothing
      BY <2>2 DEF SessionsInv, Callers, Caller, Renew, At
    <3>2. PICK t \in Token : /\ \A s \in Token \ {t} : expires'[s] = expires[s]
                             /\ ~Alive(t) => expires'[t] = 0
      BY <1>0, <2>2, <3>1, RenewLearns DEF Alive
    <3>3. UNCHANGED <<made, there>>
      BY <2>2 DEF Renew, share, bounds
    <3>4. QED
      BY <3>2, <3>3 DEF Ended, Alive
  <2>3. CASE Mint(c)
    <3>1. PICK t \in Token : /\ tokenOf[t] = Nothing /\ UNCHANGED <<share, bounds>>
                             /\ expires' = [expires EXCEPT ![t] = now + Ttl]
      BY <2>3 DEF Mint
    <3>2. \A s \in Token \ {t} : expires'[s] = expires[s]
      BY <1>0, <3>1 DEF TypeOK
    <3>3. QED
      BY <3>1, <3>2 DEF Ended, Alive, share, bounds
  <2>4. CASE Forget(c)
    BY <1>0, <1>1, <2>4, ForgetEnds DEF share, bounds
  <2>5. QED
    BY <1>5, <2>1, <2>2, <2>3, <2>4 DEF Session
<1>6. ASSUME NEW c \in Call, ReadRow(c) \/ CheckReader(c) PROVE Ended
  BY <1>0, <1>1, <1>6, ReadersWork DEF sessions, share, bounds
<1>7. ASSUME NEW c \in Call, Gate(c) \/ PushRead(c) PROVE Ended
  BY <1>1, <1>7 DEF Gate, PushRead, sessions, share, bounds
<1>8. ASSUME NEW c \in Call, OwnerWrites(c) PROVE Ended
  <2>1. \A t \in Token : expires'[t] = expires[t]
    BY <1>0, <1>8, OwnersWork DEF sessions
  <2>2. CASE Created(c)
    BY <2>1, <2>2 DEF Ended, Alive, Created
  <2>3. CASE Deleted(c) \/ RolledBack(c)
    BY <2>1, <2>3 DEF Ended, Alive, Deleted, RolledBack, Cleared
  <2>4. CASE Saved(c) \/ Pushed(c) \/ Discarded(c) \/ Unpublished(c) \/ Hidden(c)
             \/ Granted(c) \/ Ungranted(c) \/ PushFails(c)
    <3>1. there' = there
      BY <2>4 DEF Saved, Pushed, Discarded, Unpublished, Hidden, Granted, Ungranted, PushFails, share
    <3>2. QED
      BY <2>1, <3>1 DEF Ended, Alive
  <2>5. QED
    BY <1>8, <2>2, <2>3, <2>4 DEF OwnerWrites
<1>9. ASSUME NEW c \in Call, Arrive(c) \/ AnswerLost(c) PROVE Ended
  BY <1>1, <1>9 DEF Arrive, AnswerLost, sessions, share, bounds
<1>10. QED
  BY <1>2, <1>3, <1>4, <1>5, <1>6, <1>7, <1>8, <1>9 DEF Next

\* No call that is under way brings back a session that was signed out, revoked
\* or expired, or a notebook that was deleted (db.rs: session_user, save_draft,
\* promote_draft).
THEOREM EndedSafe == Spec => EndedStaysEnded
<1>1. SessionsInv /\ [Next]_vars => [Ended]_vars
  BY NothingReturns
<1>2. QED
  BY <1>1, SessionsStart, SessionsStep, PTL DEF Spec, EndedStaysEnded, Ended

-----------------------------------------------------------------------------
(***************************************************************************)
(* What a reader is told.                                                  *)
(***************************************************************************)

\* What an answer says is what was seen.
Told(k, seen) ==
    /\ k.said = "found" => /\ k.pub \in seen.pubs \ {0}
                           /\ "public" \in seen.facts \/ (k.viewer # Nothing /\ "granted" \in seen.facts)
    /\ k.said = "private" => /\ seen.pubs # {0} /\ "private" \in seen.facts
                             /\ k.viewer = Nothing \/ "ungranted" \in seen.facts
    /\ k.said = "missing" => 0 \in seen.pubs

\* A read, at each of its places.
Reader(c) ==
    LET k == call[c] IN
    k.op = "view" =>
        /\ k.at \in {"lookup", "renew", "row", "check", "answer"}
        /\ k.at = "renew" => "in" \in saw[c].facts
        /\ k.at \in {"row", "check", "answer"} =>
              IF k.viewer = Nothing THEN "out" \in saw[c].facts
              ELSE "in" \in saw[c].facts /\ k.viewer = tokenOf[k.token]
        /\ k.at = "check" => /\ k.viewer # Nothing /\ "private" \in saw[c].facts
                             /\ k.pub \in saw[c].pubs \ {0}
        /\ k.at = "answer" => Told(k, saw[c])

\* Only a notebook that is there is published.
NoRowNoCopy == ~there => pub = 0

\* What is the case after a step.
LEMMA FactsNext ==
    ASSUME NEW t \in Token \union {Nothing}
    PROVE  Facts'[t] = {IF private' THEN "private" ELSE "public",
                        IF t # Nothing /\ HoldsGrant(tokenOf[t])' THEN "granted" ELSE "ungranted",
                        IF t # Nothing /\ expires'[t] # 0 THEN "in" ELSE "out"}
BY DEF Facts, Alive

\* What has been seen stays seen, and an answered call sees no more.
LEMMA WitnessGrows ==
    ASSUME Witness, NEW c \in Call, call'[c].op = "view"
    PROVE  /\ call[c].at = "answer" => saw'[c] = saw[c]
           /\ saw[c].pubs \subseteq saw'[c].pubs /\ saw[c].facts \subseteq saw'[c].facts
           /\ call[c].at # "answer" => /\ saw'[c].pubs = saw[c].pubs \union {pub'}
                                       /\ saw'[c].facts = saw[c].facts \union Facts'[call'[c].token]
BY DEF Witness

\* A call that does nothing itself.
LEMMA BystanderReads ==
    ASSUME Witness, NEW c \in Call, Reader(c), call'[c] = call[c],
           call[c].viewer # Nothing => tokenOf'[call[c].token] = tokenOf[call[c].token]
    PROVE  Reader(c)'
<1> SUFFICES ASSUME call'[c].op = "view" PROVE Reader(c)'
  BY DEF Reader
<1>1. /\ call[c].at = "answer" => saw'[c] = saw[c]
      /\ saw[c].pubs \subseteq saw'[c].pubs /\ saw[c].facts \subseteq saw'[c].facts
  BY WitnessGrows
<1>2. call[c].at = "answer" => Told(call'[c], saw'[c])
  BY <1>1 DEF Reader
<1>3. QED
  BY <1>1, <1>2 DEF Reader

\* A lookup is told what is the case for the token.
LEMMA LookupReads ==
    ASSUME SessionsInv, NEW c \in Call, Reader(c), Lookup(c)
    PROVE  Reader(c)'
<1> SUFFICES ASSUME call'[c].op = "view" PROVE Reader(c)'
  BY DEF Reader
<1>0. TypeOK /\ Caller(c) /\ Witness
  BY DEF SessionsInv, Callers, Lookup
<1>1. PICK t \in Token \union {Nothing} : t = call[c].token
  BY <1>0 DEF TypeOK, Request
<1>2. /\ call[c].at = "lookup" /\ tokenOf' = tokenOf
      /\ \/ Learns(c, Nothing, FALSE) /\ (t # Nothing => expires'[t] = 0)
         \/ Learns(c, tokenOf[t], FALSE) /\ t # Nothing /\ Alive(t) /\ expires' = expires
         \/ Goes(c, "renew") /\ t # Nothing /\ Alive(t) /\ expires' = expires
  BY <1>0, <1>1, LookupLearns
<1>3. t # Nothing => tokenOf[t] \in User /\ tokenOf[t] # Nothing
  BY <1>0, <1>1, <1>2, Numbers DEF Caller
<1>4. call'[c].token = t => Facts'[t] \subseteq saw'[c].facts
  BY <1>0, <1>2, WitnessGrows
<1>5. CASE Learns(c, Nothing, FALSE) /\ (t # Nothing => expires'[t] = 0)
  <2>1. "out" \in saw'[c].facts
    BY <1>1, <1>4, <1>5, FactsNext DEF Learns
  <2>2. call'[c].at = "row" /\ call'[c].viewer = Nothing
    BY <1>5 DEF Learns, After
  <2>3. QED
    BY <2>1, <2>2 DEF Reader
<1>6. CASE Learns(c, tokenOf[t], FALSE) /\ t # Nothing /\ Alive(t) /\ expires' = expires
  <2>1. "in" \in saw'[c].facts
    BY <1>1, <1>4, <1>6, FactsNext DEF Learns, Alive
  <2>2. call'[c].at = "row" /\ call'[c].viewer = tokenOf[t] /\ call'[c].token = t
    BY <1>1, <1>6 DEF Learns, After
  <2>3. QED
    BY <1>2, <1>3, <1>6, <2>1, <2>2 DEF Reader
<1>7. CASE Goes(c, "renew") /\ t # Nothing /\ Alive(t) /\ expires' = expires
  <2>1. call[c] \in Request /\ call'[c] = [call[c] EXCEPT !.at = "renew"]
    BY <1>0, <1>7 DEF TypeOK, Goes, Runs
  <2>2. call'[c].at = "renew" /\ call'[c].token = t
    BY <1>1, <2>1 DEF Request
  <2>3. "in" \in saw'[c].facts
    BY <1>4, <1>7, <2>2, FactsNext DEF Alive
  <2>4. QED
    BY <2>2, <2>3 DEF Reader
<1>8. QED
  BY <1>2, <1>5, <1>6, <1>7

\* A renewal is of a session that was there at the lookup.
LEMMA RenewReads ==
    ASSUME SessionsInv, NEW c \in Call, Reader(c), Renew(c)
    PROVE  Reader(c)'
<1> SUFFICES ASSUME call'[c].op = "view" PROVE Reader(c)'
  BY DEF Reader
<1>0. TypeOK /\ Caller(c) /\ Witness
  BY DEF SessionsInv, Callers, Renew
<1>1. call[c].at = "renew" /\ call[c].token # Nothing
  BY <1>0 DEF Renew, At, Caller
<1>2. PICK done \in BOOLEAN : Learns(c, tokenOf[call[c].token], done) /\ tokenOf' = tokenOf
  BY <1>0, <1>1, RenewLearns
<1>3. tokenOf[call[c].token] # Nothing
  BY <1>0, <1>1, Numbers DEF Caller
<1>4. call[c].op = "view" /\ call'[c].at = "row"
  BY <1>2 DEF Learns, After
<1>5. "in" \in saw[c].facts
  BY <1>1, <1>4 DEF Reader
<1>6. "in" \in saw'[c].facts
  BY <1>0, <1>5, WitnessGrows
<1>7. QED
  BY <1>2, <1>3, <1>4, <1>6 DEF Reader, Learns

\* The row is read at once, with its privacy.
LEMMA ReadRowReads ==
    ASSUME SessionsInv, NoRowNoCopy, NEW c \in Call, Reader(c), ReadRow(c)
    PROVE  Reader(c)'
<1> SUFFICES ASSUME call'[c].op = "view" PROVE Reader(c)'
  BY DEF Reader
<1>0. TypeOK /\ Caller(c) /\ Witness /\ call[c].at = "row" /\ call[c] \in Request
      /\ UNCHANGED <<tokenOf, expires, there, pub, private, readers>>
  BY DEF SessionsInv, Callers, ReadRow, At, TypeOK, sessions, share
<1>1. Works(c)
  BY <1>0, ReadersWork
<1>2. PICK t \in Token \union {Nothing} : t = call[c].token /\ t = call'[c].token
  BY <1>0, <1>1 DEF Request, Works
<1>3. call[c].op = "view" /\ call'[c].viewer = call[c].viewer
  BY <1>1 DEF Works
<1>4. IF call[c].viewer = Nothing THEN "out" \in saw[c].facts
      ELSE "in" \in saw[c].facts /\ call[c].viewer = tokenOf[t]
  BY <1>0, <1>2, <1>3 DEF Reader
<1>5. /\ pub \in saw'[c].pubs /\ Facts'[t] \subseteq saw'[c].facts
      /\ saw[c].facts \subseteq saw'[c].facts
  BY <1>0, <1>2, WitnessGrows
<1>6. /\ private => "private" \in saw'[c].facts
      /\ ~private => "public" \in saw'[c].facts
  <2>1. private' = private
    BY <1>0
  <2>2. QED
    BY <1>5, <2>1, FactsNext
\* The lookup's part stays.
<1>7. IF call'[c].viewer = Nothing THEN "out" \in saw'[c].facts
      ELSE "in" \in saw'[c].facts /\ call'[c].viewer = tokenOf'[call'[c].token]
  BY <1>0, <1>2, <1>3, <1>4, <1>5
<1>8. ASSUME call'[c].at = "answer", Told(call'[c], saw'[c]) PROVE Reader(c)'
  BY <1>7, <1>8 DEF Reader
<1>9. CASE Says(c, "missing") /\ (~there \/ pub = 0)
  <2>1. call'[c].at = "answer" /\ call'[c].said = "missing"
    BY <1>0, <1>9, SaysWorks DEF Request, Early
  <2>2. pub = 0
    BY <1>9 DEF NoRowNoCopy
  <2>3. QED
    BY <1>5, <1>8, <2>1, <2>2 DEF Told
<1>10. CASE /\ Runs(c, [call[c] EXCEPT !.at = "answer", !.said = "found", !.pub = pub])
            /\ ~private /\ pub # 0
  <2>1. call'[c] = [call[c] EXCEPT !.at = "answer", !.said = "found", !.pub = pub]
    BY <1>0, <1>10 DEF Runs, TypeOK
  <2>2. call'[c].at = "answer" /\ call'[c].said = "found" /\ call'[c].pub = pub
    BY <1>0, <2>1 DEF Request
  <2>3. QED
    BY <1>5, <1>6, <1>8, <1>10, <2>2 DEF Told
<1>11. CASE Says(c, "private") /\ private /\ pub # 0 /\ call[c].viewer = Nothing
  <2>1. call'[c].at = "answer" /\ call'[c].said = "private"
    BY <1>0, <1>11, SaysWorks DEF Request, Early
  <2>2. QED
    BY <1>3, <1>5, <1>6, <1>8, <1>11, <2>1 DEF Told
<1>12. CASE /\ Runs(c, [call[c] EXCEPT !.at = "check", !.pub = pub])
            /\ private /\ pub # 0 /\ call[c].viewer # Nothing
  <2>1. call'[c] = [call[c] EXCEPT !.at = "check", !.pub = pub]
    BY <1>0, <1>12 DEF Runs, TypeOK
  <2>2. call'[c].at = "check" /\ call'[c].pub = pub
    BY <1>0, <2>1 DEF Request
  <2>3. QED
    BY <1>3, <1>5, <1>6, <1>7, <1>12, <2>2 DEF Reader
<1>13. RowSays(c)
  BY DEF ReadRow
<1>14. QED
  <2>1. CASE ~there \/ pub = 0
    BY <1>9, <1>13, <2>1 DEF RowSays
  <2>2. CASE ~(~there \/ pub = 0) /\ ~private
    BY <1>10, <1>13, <2>2 DEF RowSays
  <2>3. CASE ~(~there \/ pub = 0) /\ private
    BY <1>11, <1>12, <1>13, <2>3 DEF RowSays
  <2>4. QED
    BY <2>1, <2>2, <2>3

\* The grant is looked up for the viewer the session named.
LEMMA CheckReaderReads ==
    ASSUME SessionsInv, NEW c \in Call, Reader(c), CheckReader(c)
    PROVE  Reader(c)'
<1> SUFFICES ASSUME call'[c].op = "view" PROVE Reader(c)'
  BY DEF Reader
<1>0. TypeOK /\ Caller(c) /\ Witness /\ call[c].at = "check" /\ call[c] \in Request
      /\ UNCHANGED <<tokenOf, expires, there, pub, private, readers>>
  BY DEF SessionsInv, Callers, CheckReader, At, TypeOK, sessions, share
<1>1. Works(c)
  BY <1>0, ReadersWork
<1>2. PICK t \in Token \union {Nothing} : t = call[c].token /\ t = call'[c].token
  BY <1>0, <1>1 DEF Request, Works
<1>3. /\ call[c].viewer # Nothing /\ "private" \in saw[c].facts /\ call[c].pub \in saw[c].pubs \ {0}
      /\ "in" \in saw[c].facts /\ call[c].viewer = tokenOf[t]
  BY <1>0, <1>1, <1>2 DEF Reader, Works
<1>4. /\ saw[c].pubs \subseteq saw'[c].pubs /\ saw[c].facts \subseteq saw'[c].facts
      /\ Facts'[t] \subseteq saw'[c].facts
  BY <1>0, <1>2, WitnessGrows
<1>5. PICK said \in {"found", "private"} : /\ Says(c, said)
                                           /\ said = IF HoldsGrant(tokenOf[t]) THEN "found" ELSE "private"
  BY <1>3 DEF CheckReader
<1>6. call'[c] = [call[c] EXCEPT !.at = "answer", !.said = said]
  BY <1>0, <1>5 DEF Says, Runs, TypeOK
<1>7. /\ call'[c].at = "answer" /\ call'[c].said = said /\ call'[c].pub = call[c].pub
      /\ call'[c].viewer = call[c].viewer
  BY <1>0, <1>6 DEF Request
<1>8. t # Nothing
  BY <1>0, <1>2, <1>3 DEF Caller
<1>9. HoldsGrant(tokenOf[t])' <=> HoldsGrant(tokenOf[t])
  BY <1>0 DEF HoldsGrant
<1>10. IF HoldsGrant(tokenOf[t]) THEN "granted" \in saw'[c].facts ELSE "ungranted" \in saw'[c].facts
  BY <1>4, <1>8, <1>9, FactsNext
<1>11. Told(call'[c], saw'[c])
  BY <1>3, <1>4, <1>5, <1>7, <1>10 DEF Told
<1>12. QED
  BY <1>0, <1>2, <1>3, <1>4, <1>7, <1>11 DEF Reader

ReadersInv == SessionsInv /\ NoRowNoCopy /\ \A c \in Call : Reader(c)

\* No row, no published copy.
LEMMA RowAndCopy ==
    ASSUME TypeOK, NoRowNoCopy, [Next]_vars
    PROVE  NoRowNoCopy'
<1>1. ASSUME UNCHANGED share PROVE NoRowNoCopy'
  BY <1>1 DEF NoRowNoCopy, share
<1>2. CASE UNCHANGED vars \/ Tick \/ Restart
  BY <1>1, <1>2 DEF vars, Tick, Restart
<1>3. ASSUME NEW u \in User, Revoke(u) PROVE NoRowNoCopy'
  BY <1>1, <1>3 DEF Revoke
<1>4. ASSUME NEW u \in User, NEW c \in Call, Browser(c, u) PROVE NoRowNoCopy'
  BY <1>1, <1>4, BrowserBegins
<1>5. ASSUME NEW c \in Call, \/ Session(c) \/ ReadRow(c) \/ CheckReader(c) \/ Gate(c) \/ PushRead(c)
                             \/ Arrive(c) \/ AnswerLost(c)
      PROVE  NoRowNoCopy'
  BY <1>1, <1>5 DEF Session, Lookup, Renew, Mint, Forget, ReadRow, CheckReader, Gate, PushRead,
                    Arrive, AnswerLost
<1>6. ASSUME NEW c \in Call, OwnerWrites(c) PROVE NoRowNoCopy'
  BY <1>6 DEF OwnerWrites, Saved, Pushed, Discarded, Unpublished, Deleted, Hidden, Granted, Ungranted,
              Created, PushFails, RolledBack, Cleared, NoRowNoCopy, share
<1>7. QED
  BY <1>2, <1>3, <1>4, <1>5, <1>6 DEF Next

\* Whom a token belongs to does not change.
LEMMA TokensKept ==
    ASSUME SessionsInv, [Next]_vars, NEW c \in Call, call[c].token # Nothing
    PROVE  tokenOf'[call[c].token] = tokenOf[call[c].token]
<1>0. TypeOK /\ call[c].token \in Token /\ tokenOf \in [Token -> User \union {Nothing}]
  BY DEF SessionsInv, TypeOK, Request
<1>1. CASE UNCHANGED tokenOf
  BY <1>1
<1>2. ASSUME NEW d \in Call, Mint(d) PROVE tokenOf'[call[c].token] = tokenOf[call[c].token]
  <2>1. PICK t \in Token : tokenOf[t] = Nothing /\ tokenOf' = [tokenOf EXCEPT ![t] = call[d].by]
    BY <1>2 DEF Mint
  <2>2. call[c].token # t
    BY <2>1, Unheld
  <2>3. QED
    BY <1>0, <2>1, <2>2
<1>3. CASE UNCHANGED vars \/ Tick \/ Restart
  BY <1>1, <1>3 DEF vars, sessions, Tick, Restart
<1>4. ASSUME NEW u \in User, Revoke(u) PROVE UNCHANGED tokenOf
  BY <1>4 DEF Revoke
<1>5. ASSUME NEW u \in User, NEW d \in Call, Browser(d, u) PROVE UNCHANGED tokenOf
  BY <1>0, <1>5, BrowserBegins DEF sessions
<1>6. ASSUME NEW d \in Call, \/ Lookup(d) \/ Renew(d) \/ Forget(d) \/ ReadRow(d) \/ CheckReader(d)
                             \/ Arrive(d) \/ AnswerLost(d)
      PROVE  UNCHANGED tokenOf
  BY <1>6 DEF Lookup, Renew, Forget, ReadRow, CheckReader, Arrive, AnswerLost, sessions
<1>7. ASSUME NEW d \in Call, Gate(d) \/ PushRead(d) \/ OwnerWrites(d) PROVE UNCHANGED tokenOf
  BY <1>0, <1>7, OwnersWork DEF sessions
<1>8. QED
  BY <1>1, <1>2, <1>3, <1>4, <1>5, <1>6, <1>7 DEF Next, Session

\* Every step keeps what the reads of all calls have seen.
LEMMA ReadersStep ==
    ReadersInv /\ [Next]_vars => ReadersInv'
<1> SUFFICES ASSUME ReadersInv, [Next]_vars PROVE ReadersInv'
  OBVIOUS
<1>0. TypeOK /\ SessionsInv /\ NoRowNoCopy /\ (\A c \in Call : Reader(c) /\ Caller(c))
      /\ call \in [Call -> Request]
  BY DEF ReadersInv, SessionsInv, Callers, TypeOK
<1>1. SessionsInv' /\ NoRowNoCopy'
  BY <1>0, SessionsStep, RowAndCopy
<1>2. \A c \in Call : call[c].viewer # Nothing => tokenOf'[call[c].token] = tokenOf[call[c].token]
  BY <1>0, TokensKept DEF Caller
<1>3. ASSUME NEW c \in Call, call'[c] = call[c], Witness PROVE Reader(c)'
  BY <1>0, <1>2, <1>3, BystanderReads
\* A step of one call that touches no other.
<1>4. ASSUME NEW c \in Call, Witness, \A d \in Call \ {c} : call'[d] = call[d], Reader(c)'
      PROVE  \A d \in Call : Reader(d)'
  BY <1>3, <1>4
\* An act that is no read.
<1>5. ASSUME NEW c \in Call, call'[c].op # "view" PROVE Reader(c)'
  BY <1>5 DEF Reader
<1>6. ASSUME UNCHANGED vars PROVE \A c \in Call : Reader(c)'
  BY <1>0, <1>6 DEF Reader, Told, vars, sessions
<1>7. ASSUME Tick PROVE \A c \in Call : Reader(c)'
  BY <1>3, <1>7 DEF Tick
<1>8. ASSUME Restart PROVE \A c \in Call : Reader(c)'
  BY <1>5, <1>8 DEF Restart, NoCall
<1>9. ASSUME NEW u \in User, Revoke(u) PROVE \A c \in Call : Reader(c)'
  BY <1>3, <1>9 DEF Revoke
<1>10. ASSUME NEW u \in User, NEW c \in Call, Browser(c, u) PROVE \A d \in Call : Reader(d)'
  <2>1. Witness
    BY <1>10 DEF Browser, Ask, Act, Invite, Login, Logout, Send
  <2>2. Begins(c, u)
    BY <1>0, <1>10, BrowserBegins
  <2>3. Reader(c)'
    BY <2>2 DEF Begins, Reader
  <2>4. QED
    BY <1>4, <2>1, <2>2, <2>3 DEF Begins
<1>11. ASSUME NEW c \in Call, Lookup(c) \/ Renew(c) PROVE \A d \in Call : Reader(d)'
  <2>1. Reader(c)'
    BY <1>0, <1>11, LookupReads, RenewReads
  <2>2. \A d \in Call \ {c} : call'[d] = call[d]
    BY <1>0, <1>11 DEF Lookup, Renew, Resolved, Goes, Runs
  <2>3. QED
    BY <1>4, <1>11, <2>1, <2>2 DEF Lookup, Renew
<1>12. ASSUME NEW c \in Call, Mint(c) \/ Forget(c) PROVE \A d \in Call : Reader(d)'
  <2>1. call[c].at \in {"mint", "forget"}
    BY <1>12 DEF Mint, Forget, At
  <2>2. call[c].op # "view"
    BY <1>0, <2>1 DEF Reader
  <2>3. call'[c].op = call[c].op /\ \A d \in Call \ {c} : call'[d] = call[d]
    <3>1. CASE Mint(c)
      BY <1>0, <3>1, MintMakes
    <3>2. CASE Forget(c)
      BY <1>0, <3>2, ForgetEnds DEF Request
    <3>3. QED
      BY <1>12, <3>1, <3>2
  <2>4. QED
    BY <1>4, <1>5, <1>12, <2>2, <2>3 DEF Mint, Forget
<1>13. ASSUME NEW c \in Call, ReadRow(c) \/ CheckReader(c) PROVE \A d \in Call : Reader(d)'
  <2>1. Reader(c)'
    BY <1>0, <1>13, ReadRowReads, CheckReaderReads
  <2>2. Works(c)
    BY <1>0, <1>13, ReadersWork
  <2>3. QED
    BY <1>4, <1>13, <2>1, <2>2 DEF Works, ReadRow, CheckReader
<1>14. ASSUME NEW c \in Call, Gate(c) \/ PushRead(c) \/ OwnerWrites(c) PROVE \A d \in Call : Reader(d)'
  <2>1. Witness
    BY <1>14 DEF Gate, PushRead, OwnerWrites, Saved, Pushed, Discarded, Unpublished, Deleted, Hidden,
                 Granted, Ungranted, Created, PushFails, RolledBack
  <2>2. call[c].at \in {"gate", "read", "write", "create", "undo"}
    BY <1>14 DEF Gate, PushRead, OwnerWrites, Saved, Pushed, Discarded, Unpublished, Deleted, Hidden,
                 Granted, Ungranted, Created, PushFails, RolledBack, Wrote, At
  <2>3. call[c].op # "view"
    BY <1>0, <2>2 DEF Reader
  <2>4. Works(c)
    BY <1>0, <1>14, OwnersWork
  <2>5. QED
    BY <1>4, <1>5, <2>1, <2>3, <2>4 DEF Works
<1>15. ASSUME NEW c \in Call, Arrive(c) \/ AnswerLost(c) PROVE \A d \in Call : Reader(d)'
  <2>1. Ends(c)
    BY <1>0, <1>15, AnswerEnds
  <2>2. QED
    BY <1>4, <1>5, <1>15, <2>1 DEF Ends, NoCall, Arrive, AnswerLost
<1>16. \A c \in Call : Reader(c)'
  BY <1>6, <1>7, <1>8, <1>9, <1>10, <1>11, <1>12, <1>13, <1>14, <1>15 DEF Next, Session
<1>17. QED
  BY <1>1, <1>16 DEF ReadersInv

\* A reader is told nothing that was not the case while it asked, for any calls
\* of owners, readers and the administrator in between (server_fns.rs,
\* mutable_access_core).
THEOREM AnswersSafe == Spec => []AnswersTrue
<1>1. Init => ReadersInv
  BY SessionsStart DEF Init, ReadersInv, NoRowNoCopy, Reader, NoCall
<1>2. ReadersInv => AnswersTrue
  BY DEF ReadersInv, Reader, Told, AnswersTrue, At
<1>3. QED
  BY <1>1, <1>2, ReadersStep, PTL DEF Spec
=============================================================================
