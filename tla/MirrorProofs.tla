---------------------------- MODULE MirrorProofs ----------------------------
(***************************************************************************)
(* Theorems about Mirror, for any agents, permissions, requests, cells,    *)
(* texts and bounds.                                                       *)
(*                                                                         *)
(* What an agent's mirror will be, frame by frame, is its course: from the *)
(* mirror it has to what it reads when all that is on its way has come.    *)
(* The theorems rest on what is true of every point of every course.       *)
(***************************************************************************)
EXTENDS Mirror, ListProofs, FiniteSetTheorems

-----------------------------------------------------------------------------
(***************************************************************************)
(* The inductive invariant.                                                *)
(***************************************************************************)

OfCell == {"add", "update", "delete"}

\* What the host may be asked: the version may be anything.
AskType(m) ==
    \/ /\ m.op = "add"
       /\ m = [op |-> "add", cell |-> m.cell, content |-> m.content, after |-> m.after]
       /\ m.cell \in Cell \cup {Top} /\ m.content \in CellState
    \/ /\ m.op = "update"
       /\ m = [op |-> "update", cell |-> m.cell, patch |-> m.patch, version |-> m.version]
       /\ m.cell \in Cell /\ m.patch \in Patch
    \/ /\ m.op = "delete"
       /\ m = [op |-> "delete", cell |-> m.cell, version |-> m.version]
       /\ m.cell \in Cell
    \/ /\ m.op = "reorder"
       /\ m = [op |-> "reorder", ids |-> m.ids]
       /\ m.ids \in Seq(Cell) /\ IsInjective(m.ids)
    \/ /\ m.op = "meta"
       /\ m = [op |-> "meta", meta |-> m.meta]
       /\ m.meta \in Text \cup {Same}

\* What it tells of: a cell that was made, at the version it reached.
EventType(e) ==
    /\ AskType(e)
    /\ e.op \in OfCell => e.cell \in used
    /\ e.op = "update" => e.version \in Nat

\* What an event says holds of the host's notebook, or is outdated there.
Happened(e) == EventType(e) /\ Shows(doc, e)

FrameFits(frame) ==
    \/ frame.kind = "notebook" /\ frame.id = Get
    \/ frame.kind = "event" /\ frame.id \in Request \cup {NoId} /\ Happened(frame.event)
    \/ frame.kind = "error" /\ frame.id \in Request \cup {Get}

Asking == {"ready", "sent", "timed out"}

RequestFits(r) ==
    LET q == request[r] IN
    \/ q = NoRequest
    \/ /\ q.at \in Asking
       /\ q = [at |-> q.at, by |-> q.by, asks |-> q.asks, saw |-> q.saw]
       /\ AskType(q.asks) /\ q.by \in linked
    \/ /\ q.at = "ok"
       /\ q = [at |-> "ok", by |-> q.by, asks |-> q.asks, event |-> q.event]
       /\ q.by \in linked /\ Happened(q.event)
    \/ /\ q.at = "refused"
       /\ q = [at |-> "refused", by |-> q.by, asks |-> q.asks]
       /\ q.by \in linked

\* The host: its notebook, and the events it has not sent.
DocFits == DocType(doc) /\ Listed(doc) \subseteq used /\ used \subseteq Cell

HostFits ==
    /\ open \in BOOLEAN /\ (open => unsent = <<>>)
    /\ IsList(unsent) /\ Len(unsent) <= BufferCap
    /\ \A f \in ToSet(unsent) : f.kind = "event" /\ f.id = NoId /\ Happened(f.event)

\* The agents and their queues.
AgentsFit ==
    /\ linked \subseteq Agent /\ whole \subseteq Agent
    /\ up \in [Agent -> Seq(Request \cup {Get})]
    /\ DOMAIN down = Agent /\ DOMAIN mirror = Agent /\ DOMAIN resolving = Agent
    /\ \A a \in Agent : /\ a \notin linked => up[a] = <<>>
                        /\ IsList(down[a]) /\ \A f \in ToSet(down[a]) : FrameFits(f)
                        /\ \/ resolving[a] = NoFrame
                           \/ FrameFits(resolving[a]) /\ resolving[a].id \in Request

RequestsFit ==
    /\ DOMAIN request = Request /\ \A r \in Request : RequestFits(r)
    /\ pending = {r \in Request : request[r].at = "sent"}
    /\ applied \subseteq Request

BoundsFit == edits \in 0 .. MaxEdits /\ outages \in 0 .. MaxOutages /\ losses \in 0 .. MaxLosses

Types == DocFits /\ HostFits /\ AgentsFit /\ RequestsFit /\ BoundsFit

\* What is to be seen on the course that leads from notebook d over the frames
\* w: at each place the notebook, and the events it was told of on the way.
Told(w, i) == {w[k].event : k \in {k \in 1 .. i : w[k].kind = "event"}}
Sights(d, w) == {[doc |-> Replay(d, w)[i], told |-> Told(w, i)] : i \in 0 .. Len(w)}
Sight(a) == Sights(mirror[a], OnWay(a))

\* Courses lead from notebook to notebook, or have none to start from; only a
\* reader ever has one.
Coherent ==
    \A a \in Agent : \A p \in Sight(a) :
        p.doc # NoDoc => DocType(p.doc) /\ Listed(p.doc) \subseteq used /\ a \in Reads \cap linked

\* What d says of a cell is what the host says, or older.
Behind(d) ==
    \A c \in Listed(d) \cap Listed(doc) :
        /\ d.cell[c].version <= doc.cell[c].version
        /\ d.cell[c].version = doc.cell[c].version => d.cell[c].text = doc.cell[c].text

Following ==
    \A a \in Reads \cap whole :
        /\ Ahead(a) # NoDoc => Ahead(a) = doc
        /\ \A p \in Sight(a) : p.doc # NoDoc => Behind(p.doc)

\* An event that lies on a course is shown from there on, and so is, all along,
\* what the agent was told in answer.
Telling ==
    \A a \in Agent : \A p \in Sight(a) : p.doc # NoDoc => \A e \in p.told : Shows(p.doc, e)

Answered ==
    \A a \in Agent : \A p \in Sight(a) : p.doc # NoDoc =>
        /\ resolving[a].kind = "event" => Shows(p.doc, resolving[a].event)
        /\ \A r \in Request : request[r].at = "ok" /\ request[r].by = a
              => Shows(p.doc, request[r].event)

\* The text an agent saw goes with the version it names, as long as its mirror
\* lost nothing.
Seen ==
    \A r \in Request :
        request[r].at \in Asking /\ request[r].by \in Reads /\ Asked(r).op = "update" =>
        /\ Asked(r).cell \in used /\ Asked(r).version \in Nat
        /\ request[r].by \in whole /\ Asked(r).cell \in Listed(doc) =>
              /\ Asked(r).version <= doc.cell[Asked(r).cell].version
              /\ Asked(r).version = doc.cell[Asked(r).cell].version
                    => Saw(r) = doc.cell[Asked(r).cell].text

\* Where a request may be: with its sender before it was sent, then once in the
\* sender's queue, and then carried out or refused.
OnItsWay(r) == \E a \in Agent : r \in ToSet(up[a])
Refused(frame, r)   == frame.kind = "error" /\ frame.id = r
Confirmed(frame, r) == frame.kind = "event" /\ frame.id = r

\* What an agent has yet to read.
Coming(a) == {resolving[a]} \cup ToSet(down[a])

Refusing(r)   == \E a \in Agent : \E f \in Coming(a) : Refused(f, r)
Confirming(r) == \E a \in Agent : \E f \in Coming(a) : Confirmed(f, r)

Sending ==
    \A a \in Agent :
        /\ IsInjective(up[a])
        /\ \A r \in ToSet(up[a]) \ {Get} : request[r].at \in {"sent", "timed out"} /\ request[r].by = a

Verdicts ==
    \A r \in Request :
        /\ OnItsWay(r) => r \notin applied /\ ~Refusing(r)
        /\ Refusing(r) => r \notin applied
        /\ Confirming(r) => r \in applied
        /\ (Refusing(r) \/ r \in applied) => request[r].at \notin {"none", "ready"}
        /\ request[r].at = "refused" => ~OnItsWay(r) /\ r \notin applied
        /\ request[r].at = "ok" => r \in applied

MInv ==
    Types /\ Coherent /\ Following /\ Telling /\ Answered /\ Seen /\ Sending /\ Verdicts

-----------------------------------------------------------------------------
(***************************************************************************)
(* Courses.                                                                *)
(***************************************************************************)

\* c follows the course from d over the frames w.
Follows(c, d, w) ==
    c = [i \in 0 .. Len(w) |-> IF i = 0 THEN d ELSE Replayed(c[i - 1], w[i])]

LEMMA CourseExists ==
    ASSUME NEW d, NEW w, Len(w) \in Nat
    PROVE  \E c : Follows(c, d, w)
  <1> DEFINE Good(c, n) == c = [i \in 0 .. n |-> IF i = 0 THEN d ELSE Replayed(c[i - 1], w[i])]
             T == {n \in Nat : \E c : Good(c, n)}
  <1>1. 0 \in T
    <2>1. Good([i \in 0 .. 0 |-> d], 0)
          OBVIOUS
    <2> QED
          BY <2>1
  <1>2. ASSUME NEW n \in Nat, n \in T PROVE n + 1 \in T
    <2>1. PICK c : Good(c, n)
          BY <1>2
    <2> DEFINE x == Replayed(c[n], w[n + 1])
               g == [i \in 0 .. n + 1 |-> IF i \in 0 .. n THEN c[i] ELSE x]
    <2>2. /\ \A i \in 0 .. n : g[i] = c[i]
          /\ g[n + 1] = x
          /\ g = [i \in 0 .. n + 1 |-> g[i]]
          OBVIOUS
    <2>3. \A i \in 0 .. n : c[i] = IF i = 0 THEN d ELSE Replayed(c[i - 1], w[i])
          BY <2>1
    <2> HIDE DEF g
    <2>4. ASSUME NEW i \in 0 .. n + 1
          PROVE  g[i] = IF i = 0 THEN d ELSE Replayed(g[i - 1], w[i])
      <3>1. CASE i = n + 1
        <4>1. i - 1 \in 0 .. n /\ i - 1 = n /\ i # 0
              BY <3>1
        <4> QED
              BY <2>2, <3>1, <4>1
      <3>2. CASE i = 0
        <4>1. i \in 0 .. n
              BY <3>2
        <4> QED
              BY <2>2, <2>3, <3>2, <4>1
      <3>3. CASE i \in 1 .. n
        <4>1. i \in 0 .. n /\ i - 1 \in 0 .. n /\ i # 0
              BY <3>3
        <4> QED
              BY <2>2, <2>3, <4>1
      <3> QED
            BY <3>1, <3>2, <3>3
    <2>5. Good(g, n + 1)
          BY <2>2, <2>4, Zenon
    <2>6. n + 1 \in Nat
          OBVIOUS
    <2> HIDE DEF Good
    <2> QED
          BY <2>5, <2>6
  <1> HIDE DEF T
  <1>3. 0 .. Len(w) \subseteq T
        BY <1>1, <1>2, Induction
  <1> QED
        BY <1>3 DEF T, Follows

\* Replay leads from one frame to the next.
LEMMA ReplaySteps ==
    ASSUME NEW d, NEW w, Len(w) \in Nat
    PROVE  /\ Replay(d, w)[0] = d
           /\ \A i \in 1 .. Len(w) : Replay(d, w)[i] = Replayed(Replay(d, w)[i - 1], w[i])
  <1> DEFINE c == Replay(d, w)
  <1>1. Follows(c, d, w)
    <2>1. c = CHOOSE x : Follows(x, d, w)
          BY DEF Replay, Follows
    <2> QED
          BY <2>1, CourseExists
  <1> HIDE DEF c
  <1>2. \A i \in 0 .. Len(w) : c[i] = IF i = 0 THEN d ELSE Replayed(c[i - 1], w[i])
        BY <1>1, Zenon DEF Follows
  <1>3. 0 \in 0 .. Len(w) /\ \A i \in 1 .. Len(w) : i \in 0 .. Len(w) /\ i # 0
        OBVIOUS
  <1> QED
        BY <1>2, <1>3 DEF c

\* c goes on over the first n frames of w.
GoesOn(c, n, w) == \A i \in 1 .. n : c[i] = Replayed(c[i - 1], w[i])

\* Two courses over the same frames from the same notebook are the same.
LEMMA SameCourse ==
    ASSUME NEW n \in Nat, NEW b, NEW c, NEW w, b[0] = c[0], GoesOn(b, n, w), GoesOn(c, n, w)
    PROVE  \A i \in 0 .. n : b[i] = c[i]
  <1> DEFINE T == {i \in Nat : b[i] = c[i]}
  <1>1. 0 \in T
        OBVIOUS
  <1>2. ASSUME NEW i \in 0 .. n - 1, i \in T PROVE i + 1 \in T
    <2>1. i + 1 \in 1 .. n /\ i + 1 - 1 = i /\ i + 1 \in Nat
          OBVIOUS
    <2>2. b[i + 1] = Replayed(b[i], w[i + 1]) /\ c[i + 1] = Replayed(c[i], w[i + 1])
          BY <2>1 DEF GoesOn
    <2> QED
          BY <1>2, <2>1, <2>2
  <1> HIDE DEF T
  <1>3. 0 .. n \subseteq T
        BY <1>1, <1>2, Induction
  <1> QED
        BY <1>3 DEF T

\* A course that begins like another goes on like it as long as the frames do.
LEMMA CommonCourse ==
    ASSUME NEW d, NEW v, NEW w, Len(v) \in Nat, Len(w) \in Nat,
           NEW n \in 0 .. Len(v), n <= Len(w), \A i \in 1 .. n : v[i] = w[i]
    PROVE  \A i \in 0 .. n : Replay(d, v)[i] = Replay(d, w)[i]
  <1> DEFINE b == Replay(d, v)
             c == Replay(d, w)
  <1>1. /\ b[0] = d /\ \A i \in 1 .. Len(v) : b[i] = Replayed(b[i - 1], v[i])
        /\ c[0] = d /\ \A i \in 1 .. Len(w) : c[i] = Replayed(c[i - 1], w[i])
        BY ReplaySteps
  <1> HIDE DEF b, c
  <1>2. n \in Nat /\ \A i \in 1 .. n : i \in 1 .. Len(v) /\ i \in 1 .. Len(w)
        OBVIOUS
  <1>3. b[0] = c[0] /\ GoesOn(b, n, w) /\ GoesOn(c, n, w)
        BY <1>1, <1>2 DEF GoesOn
  <1>4. \A i \in 0 .. n : b[i] = c[i]
        BY <1>2, <1>3, SameCourse
  <1> QED
        BY <1>4 DEF b, c

\* The frames of v behind the m-th are those of w behind the k-th.
SameFrames(v, m, w, k) ==
    Len(v) - m = Len(w) - k /\ \A i \in 1 .. Len(v) - m : v[m + i] = w[k + i]

\* It goes on like another from where it meets it, over the same frames.
LEMMA LaterCourse ==
    ASSUME NEW d, NEW e, NEW v, NEW w, Len(v) \in Nat, Len(w) \in Nat,
           NEW m \in 0 .. Len(v), NEW k \in 0 .. Len(w), SameFrames(v, m, w, k),
           Replay(d, v)[m] = Replay(e, w)[k]
    PROVE  \A i \in 0 .. Len(v) - m : Replay(d, v)[m + i] = Replay(e, w)[k + i]
  <1> DEFINE n == Len(v) - m
             x == Replay(d, v)
             y == Replay(e, w)
             b == [i \in 0 .. n |-> x[m + i]]
             c == [i \in 0 .. n |-> y[k + i]]
             u == [i \in 1 .. n |-> v[m + i]]
  <1>1. /\ \A i \in 1 .. Len(v) : x[i] = Replayed(x[i - 1], v[i])
        /\ \A i \in 1 .. Len(w) : y[i] = Replayed(y[i - 1], w[i])
        BY ReplaySteps
  <1>2. x[m] = y[k]
        OBVIOUS
  <1> HIDE DEF x, y
  <1>3. n \in Nat /\ n = Len(w) - k
        BY DEF SameFrames
  <1>4. \A i \in 1 .. n : /\ m + i \in 1 .. Len(v) /\ m + i - 1 = m + (i - 1)
                          /\ k + i \in 1 .. Len(w) /\ k + i - 1 = k + (i - 1)
                          /\ i - 1 \in 0 .. n /\ i \in 0 .. n
        BY <1>3
  <1>5. b[0] = c[0]
    <2>1. 0 \in 0 .. n /\ m + 0 = m /\ k + 0 = k
          OBVIOUS
    <2> QED
          BY <1>2, <2>1
  <1>6. ASSUME NEW i \in 1 .. n
        PROVE  b[i] = Replayed(b[i - 1], u[i]) /\ c[i] = Replayed(c[i - 1], u[i])
    <2>1. /\ m + i \in 1 .. Len(v) /\ m + i - 1 = m + (i - 1)
          /\ k + i \in 1 .. Len(w) /\ k + i - 1 = k + (i - 1)
          BY <1>4
    <2>4. /\ x[m + i] = Replayed(x[m + i - 1], v[m + i])
          /\ y[k + i] = Replayed(y[k + i - 1], w[k + i])
          BY <1>1, <2>1
    <2>3. v[m + i] = w[k + i]
          BY DEF SameFrames
    <2>2. /\ b[i] = x[m + i] /\ b[i - 1] = x[m + (i - 1)]
          /\ c[i] = y[k + i] /\ c[i - 1] = y[k + (i - 1)] /\ u[i] = v[m + i]
          BY <1>4
    <2> QED
          BY <2>1, <2>2, <2>3, <2>4
  <1>7. \A i \in 0 .. n : b[i] = x[m + i] /\ c[i] = y[k + i]
        OBVIOUS
  <1> HIDE DEF n, b, c, u
  <1>8. GoesOn(b, n, u) /\ GoesOn(c, n, u)
        BY <1>6 DEF GoesOn
  <1>9. \A i \in 0 .. n : b[i] = c[i]
        BY <1>3, <1>5, <1>8, SameCourse
  <1> QED
        BY <1>7, <1>9 DEF n, x, y

-----------------------------------------------------------------------------
(***************************************************************************)
(* What is to be seen on a course, when a frame joins it or is read.       *)
(***************************************************************************)

\* What it leads to.
EndOf(d, w) == Replay(d, w)[Len(w)]

\* Nothing is to be seen in P that was not in Q, told of as much or more.
Thinner(P, Q) == \A p \in P : \E q \in Q : q.doc = p.doc /\ p.told \subseteq q.told

LEMMA SightAt ==
    ASSUME NEW d, NEW w, IsList(w), NEW i \in 0 .. Len(w)
    PROVE  \E p \in Sights(d, w) : p.doc = Replay(d, w)[i] /\ p.told = Told(w, i)
  <1> DEFINE p == [doc |-> Replay(d, w)[i], told |-> Told(w, i)]
  <1>1. p \in Sights(d, w)
        BY DEF Sights
  <1>2. p.doc = Replay(d, w)[i] /\ p.told = Told(w, i)
        OBVIOUS
  <1> QED
        BY <1>1, <1>2

LEMMA SightOf ==
    ASSUME NEW d, NEW w, IsList(w), NEW p \in Sights(d, w)
    PROVE  \E i \in 0 .. Len(w) : p.doc = Replay(d, w)[i] /\ p.told = Told(w, i)
  BY DEF Sights

LEMMA StartAndEnd ==
    ASSUME NEW d, NEW w, IsList(w)
    PROVE  /\ \E p \in Sights(d, w) : p.doc = d
           /\ \E p \in Sights(d, w) : p.doc = EndOf(d, w)
           /\ EndOf(d, <<>>) = d
  <1>1. Len(w) \in Nat /\ 0 \in 0 .. Len(w) /\ Len(w) \in 0 .. Len(w)
        BY IsListOf DEF IsList
  <1>2. Replay(d, w)[0] = d
        BY <1>1, ReplaySteps
  <1>3. Len(<<>>) = 0 /\ Replay(d, <<>>)[0] = d
        BY ReplaySteps
  <1> QED
        BY <1>1, <1>2, <1>3, SightAt DEF EndOf

\* What was told up to a place.
LEMMA ToldThere ==
    ASSUME NEW v, NEW w, NEW i \in Nat, NEW j \in Nat,
           \A k \in 1 .. i : v[k].kind = "event" =>
              \E l \in 1 .. j : w[l].kind = "event" /\ w[l].event = v[k].event
    PROVE  Told(v, i) \subseteq Told(w, j)
  BY DEF Told

\* A frame joins at the end.
LEMMA SightsAppend ==
    ASSUME NEW d, NEW w, IsList(w), NEW f
    PROVE  /\ EndOf(d, Append(w, f)) = Replayed(EndOf(d, w), f)
           /\ \A p \in Sights(d, Append(w, f)) :
                 \/ p \in Sights(d, w)
                 \/ \E q \in Sights(d, w) :
                       /\ q.doc = EndOf(d, w) /\ p.doc = Replayed(q.doc, f)
                       /\ p.told \subseteq q.told \cup (IF f.kind = "event" THEN {f.event} ELSE {})
  <1> DEFINE v == Append(w, f)
             n == Len(w)
  <1>1. /\ IsList(v) /\ Len(v) = n + 1 /\ v[n + 1] = f
        /\ \A i \in 1 .. n : v[i] = w[i]
        /\ n \in Nat
        BY ListAppend, IsListOf DEF IsList
  <1> HIDE DEF v, n
  <1>2. \A i \in 0 .. n : Replay(d, v)[i] = Replay(d, w)[i]
    <2>1. n \in 0 .. Len(v) /\ n <= Len(w) /\ Len(v) \in Nat /\ Len(w) \in Nat
          BY <1>1 DEF n
    <2> QED
          BY <1>1, <2>1, CommonCourse
  <1>3. Replay(d, v)[n + 1] = Replayed(Replay(d, w)[n], f)
    <2>1. n + 1 \in 1 .. Len(v) /\ n + 1 - 1 = n /\ n \in 0 .. n /\ Len(v) \in Nat
          BY <1>1
    <2>2. Replay(d, v)[n + 1] = Replayed(Replay(d, v)[n], f)
          BY <1>1, <2>1, ReplaySteps
    <2> QED
          BY <1>2, <2>1, <2>2
  <1>4. \A i \in 0 .. n : Told(v, i) = Told(w, i)
    <2>1. \A i \in 0 .. n : i \in Nat /\ \A k \in 1 .. i : v[k] = w[k]
          BY <1>1
    <2> QED
          BY <2>1 DEF Told
  <1>5. Told(v, n + 1) \subseteq Told(w, n) \cup (IF f.kind = "event" THEN {f.event} ELSE {})
    <2>1. \A k \in 1 .. n + 1 : k = n + 1 \/ k \in 1 .. n
          BY <1>1
    <2> QED
          BY <1>1, <2>1 DEF Told
  <1>6. ASSUME NEW p \in Sights(d, v)
        PROVE  \/ p \in Sights(d, w)
               \/ \E q \in Sights(d, w) :
                     /\ q.doc = EndOf(d, w) /\ p.doc = Replayed(q.doc, f)
                     /\ p.told \subseteq q.told \cup (IF f.kind = "event" THEN {f.event} ELSE {})
    <2>1. PICK i \in 0 .. n + 1 : p = [doc |-> Replay(d, v)[i], told |-> Told(v, i)]
          BY <1>1 DEF Sights
    <2>2. CASE i \in 0 .. n
          BY <1>2, <1>4, <2>1, <2>2 DEF Sights, n
    <2>3. CASE i = n + 1
      <3>1. PICK q \in Sights(d, w) : q.doc = Replay(d, w)[n] /\ q.told = Told(w, n)
            BY <1>1, SightAt DEF n
      <3> QED
            BY <1>3, <1>5, <2>1, <2>3, <3>1 DEF EndOf, n
    <2> QED
          BY <1>1, <2>2, <2>3
  <1> QED
        BY <1>1, <1>3, <1>6 DEF EndOf, v, n

\* The first frame is read.
LEMMA SightsTail ==
    ASSUME NEW d, NEW w, IsList(w), w # <<>>
    PROVE  /\ EndOf(Replayed(d, Head(w)), Tail(w)) = EndOf(d, w)
           /\ \A p \in Sights(Replayed(d, Head(w)), Tail(w)) :
                 \E q \in Sights(d, w) :
                    /\ q.doc = p.doc /\ p.told \subseteq q.told
                    /\ Head(w).kind = "event" => Head(w).event \in q.told
  <1> DEFINE v == Tail(w)
             n == Len(v)
             e == Replayed(d, Head(w))
  <1>1. /\ IsList(v) /\ Len(w) = n + 1 /\ Head(w) = w[1] /\ n \in Nat
        /\ \A i \in 1 .. n : v[i] = w[i + 1]
    <2>1. /\ IsList(v) /\ Len(v) = Len(w) - 1 /\ Head(w) = w[1]
          /\ \A i \in 1 .. Len(w) - 1 : v[i] = w[i + 1]
          BY ListTail
    <2>2. Len(w) \in Nat /\ Len(v) \in Nat
          BY <2>1, IsListOf DEF IsList
    <2> QED
          BY <2>1, <2>2
  <1> HIDE DEF v, n
  <1>2. Replay(d, w)[1] = e /\ Replay(e, v)[0] = e
    <2>1. 1 \in 1 .. Len(w) /\ 1 - 1 = 0 /\ Len(w) \in Nat /\ Len(v) \in Nat
          BY <1>1 DEF n
    <2> QED
          BY <1>1, <2>1, ReplaySteps
  <1> HIDE DEF e
  <1>3. \A i \in 0 .. n : Replay(e, v)[i] = Replay(d, w)[i + 1]
    <2>1. /\ Len(v) \in Nat /\ Len(w) \in Nat /\ 0 \in 0 .. Len(v) /\ 1 \in 0 .. Len(w)
          /\ Len(v) - 0 = Len(w) - 1 /\ n = Len(v) - 0
          BY <1>1 DEF n
    <2>2. Replay(e, v)[0] = Replay(d, w)[1]
          BY <1>2
    <2>3. \A i \in 1 .. Len(v) - 0 : v[0 + i] = w[1 + i]
      <3>1. \A i \in 1 .. n : 0 + i = i /\ 1 + i = i + 1
            BY <1>1
      <3> QED
            BY <1>1, <2>1, <3>1
    <2>6. SameFrames(v, 0, w, 1)
          BY <2>1, <2>3 DEF SameFrames
    <2>4. \A i \in 0 .. Len(v) - 0 : Replay(e, v)[0 + i] = Replay(d, w)[1 + i]
          BY <2>1, <2>2, <2>6, LaterCourse
    <2>5. \A i \in 0 .. n : 0 + i = i /\ 1 + i = i + 1
          BY <1>1
    <2> QED
          BY <2>1, <2>4, <2>5
  <1>4. ASSUME NEW p \in Sights(e, v)
        PROVE  \E q \in Sights(d, w) : /\ q.doc = p.doc /\ p.told \subseteq q.told
                                       /\ Head(w).kind = "event" => Head(w).event \in q.told
    <2>1. PICK i \in 0 .. n : p.doc = Replay(e, v)[i] /\ p.told = Told(v, i)
          BY <1>1, SightOf DEF n
    <2>2. i + 1 \in 0 .. Len(w) /\ i \in Nat /\ i + 1 \in Nat /\ 1 \in 1 .. i + 1
          BY <1>1
    <2>3. PICK q \in Sights(d, w) : q.doc = Replay(d, w)[i + 1] /\ q.told = Told(w, i + 1)
          BY <2>2, SightAt
    <2>4. Told(v, i) \subseteq Told(w, i + 1)
      <3>1. \A k \in 1 .. i : k + 1 \in 1 .. i + 1 /\ v[k] = w[k + 1]
            BY <1>1
      <3> QED
            BY <2>2, <3>1 DEF Told
    <2>5. Head(w).kind = "event" => Head(w).event \in Told(w, i + 1)
          BY <1>1, <2>2 DEF Told
    <2> QED
          BY <1>3, <2>1, <2>3, <2>4, <2>5
  <1>5. EndOf(e, v) = EndOf(d, w)
    <2>1. n \in 0 .. n
          BY <1>1
    <2> QED
          BY <1>1, <1>3, <2>1 DEF EndOf, n
  <1> QED
        BY <1>4, <1>5 DEF e, v

\* A frame that changes no notebook passes in between.
LEMMA SightsPassed ==
    ASSUME NEW d, NEW s, IsList(s), NEW t, IsList(t), NEW f, f.kind = "error"
    PROVE  /\ EndOf(d, Append(s, f) \o t) = EndOf(d, s \o t)
           /\ Thinner(Sights(d, Append(s, f) \o t), Sights(d, s \o t))
  <1> DEFINE v == Append(s, f) \o t
             w == s \o t
             m == Len(s)
             n == Len(t)
  <1>1. /\ IsList(w) /\ Len(w) = m + n /\ m \in Nat /\ n \in Nat
        /\ \A i \in 1 .. m : w[i] = s[i]
        /\ \A i \in 1 .. n : w[m + i] = t[i]
        BY ListConcat, IsListOf DEF IsList
  <1>2. /\ IsList(v) /\ Len(v) = m + 1 + n
        /\ \A i \in 1 .. m : v[i] = s[i]
        /\ v[m + 1] = f
        /\ \A i \in 1 .. n : v[m + 1 + i] = t[i]
    <2> DEFINE u == Append(s, f)
    <2>1. /\ IsList(u) /\ Len(u) = m + 1 /\ u[m + 1] = f
          /\ \A i \in 1 .. m : u[i] = s[i]
          BY ListAppend
    <2> HIDE DEF u
    <2>5. /\ IsList(u \o t) /\ Len(u \o t) = Len(u) + Len(t)
          /\ \A i \in 1 .. Len(u) : (u \o t)[i] = u[i]
          /\ \A i \in 1 .. Len(t) : (u \o t)[Len(u) + i] = t[i]
      <3>1. IsList(u) /\ IsList(t)
            BY <2>1
      <3> QED
            BY <3>1, ListConcat
    <2>2. /\ IsList(u \o t) /\ Len(u \o t) = m + 1 + n
          /\ \A i \in 1 .. m + 1 : (u \o t)[i] = u[i]
          /\ \A i \in 1 .. n : (u \o t)[m + 1 + i] = t[i]
          BY <2>1, <2>5
    <2>3. \A i \in 1 .. m : i \in 1 .. m + 1
          BY <1>1
    <2>4. m + 1 \in 1 .. m + 1
          BY <1>1
    <2> QED
          BY <2>1, <2>2, <2>3, <2>4 DEF u
  <1> HIDE DEF v, w, m, n
  <1>3. \A i \in 0 .. m : Replay(d, v)[i] = Replay(d, w)[i]
    <2>1. m \in 0 .. Len(v) /\ m <= Len(w) /\ Len(v) \in Nat /\ Len(w) \in Nat
          BY <1>1, <1>2
    <2>2. \A i \in 1 .. m : v[i] = w[i]
          BY <1>1, <1>2
    <2> QED
          BY <2>1, <2>2, CommonCourse
  <1>4. Replay(d, v)[m + 1] = Replay(d, w)[m]
    <2>1. m + 1 \in 1 .. Len(v) /\ m + 1 - 1 = m /\ m \in 0 .. m /\ Len(v) \in Nat
          BY <1>1, <1>2
    <2>2. Replay(d, v)[m + 1] = Replayed(Replay(d, v)[m], f)
          BY <1>2, <2>1, ReplaySteps
    <2>3. \A x : Replayed(x, f) = x
          BY DEF Replayed
    <2> QED
          BY <1>3, <2>1, <2>2, <2>3
  <1>5. \A i \in 0 .. n : Replay(d, v)[m + 1 + i] = Replay(d, w)[m + i]
    <2>1. /\ Len(v) \in Nat /\ Len(w) \in Nat /\ m + 1 \in 0 .. Len(v) /\ m \in 0 .. Len(w)
          /\ Len(v) - (m + 1) = n /\ Len(w) - m = n
          BY <1>1, <1>2
    <2>2. \A i \in 1 .. n : v[m + 1 + i] = w[m + i]
          BY <1>1, <1>2
    <2>3. SameFrames(v, m + 1, w, m)
          BY <2>1, <2>2 DEF SameFrames
    <2> DEFINE l == m + 1
    <2>5. /\ Len(v) \in Nat /\ Len(w) \in Nat /\ l \in 0 .. Len(v) /\ m \in 0 .. Len(w)
          /\ SameFrames(v, l, w, m) /\ Replay(d, v)[l] = Replay(d, w)[m]
          BY <1>4, <2>1, <2>3
    <2> HIDE DEF l
    <2>4. \A i \in 0 .. Len(v) - l : Replay(d, v)[l + i] = Replay(d, w)[m + i]
          BY <2>5, LaterCourse
    <2> QED
          BY <2>1, <2>4 DEF l
  <1>6. EndOf(d, v) = EndOf(d, w)
    <2>1. n \in 0 .. n
          BY <1>1
    <2> QED
          BY <1>1, <1>2, <1>5, <2>1 DEF EndOf
  <1>7. ASSUME NEW p \in Sights(d, v)
        PROVE  \E q \in Sights(d, w) : q.doc = p.doc /\ p.told \subseteq q.told
    <2>1. PICK i \in 0 .. Len(v) : p.doc = Replay(d, v)[i] /\ p.told = Told(v, i)
          BY <1>2, SightOf
    <2>2. i \in Nat
          BY <1>2
    <2>3. CASE i <= m
      <3>1. i \in 0 .. m /\ i \in 0 .. Len(w)
            BY <1>1, <2>2, <2>3
      <3>2. PICK q \in Sights(d, w) : q.doc = Replay(d, w)[i] /\ q.told = Told(w, i)
            BY <1>1, <3>1, SightAt
      <3>3. \A k \in 1 .. i : v[k] = w[k]
        <4>1. \A k \in 1 .. i : k \in 1 .. m
              BY <1>1, <2>2, <2>3
        <4> QED
              BY <1>1, <1>2, <4>1
      <3>4. Told(v, i) \subseteq Told(w, i)
            BY <2>2, <3>3, ToldThere
      <3> QED
            BY <1>3, <2>1, <3>1, <3>2, <3>4
    <2>4. CASE i > m
      <3> DEFINE j == i - (m + 1)
      <3>1. /\ j \in 0 .. n /\ m + 1 + j = i /\ m + j \in 0 .. Len(w) /\ m + j \in Nat
            BY <1>1, <1>2, <2>2, <2>4
      <3>2. PICK q \in Sights(d, w) : q.doc = Replay(d, w)[m + j] /\ q.told = Told(w, m + j)
            BY <1>1, <3>1, SightAt
      <3>3. Replay(d, v)[i] = Replay(d, w)[m + j]
            BY <1>5, <3>1
      <3>4. ASSUME NEW k \in 1 .. i, v[k].kind = "event"
            PROVE  \E l \in 1 .. m + j : w[l].kind = "event" /\ w[l].event = v[k].event
        <4>1. CASE k \in 1 .. m
          <5>1. k \in 1 .. m + j /\ v[k] = w[k]
                BY <1>1, <1>2, <3>1, <4>1
          <5> QED
                BY <3>4, <5>1
        <4>2. CASE k = m + 1
              BY <1>2, <3>4, <4>2
        <4>3. CASE k > m + 1
          <5>1. /\ k - (m + 1) \in 1 .. n /\ m + 1 + (k - (m + 1)) = k
                /\ m + (k - (m + 1)) \in 1 .. m + j
                BY <1>1, <1>2, <3>1, <4>3
          <5>2. v[k] = w[m + (k - (m + 1))]
                BY <1>1, <1>2, <5>1
          <5> QED
                BY <3>4, <5>1, <5>2
        <4> QED
              BY <1>1, <2>2, <4>1, <4>2, <4>3
      <3> HIDE DEF j
      <3>5. Told(v, i) \subseteq Told(w, m + j)
            BY <3>4 DEF Told
      <3> QED
            BY <2>1, <3>2, <3>3, <3>5
    <2> QED
          BY <1>1, <2>2, <2>3, <2>4
  <1> QED
        BY <1>6, <1>7 DEF Thinner, v, w

\* What is yet to come is left out.
LEMMA SightsCut ==
    ASSUME NEW d, NEW s, IsList(s), NEW t, IsList(t)
    PROVE  Thinner(Sights(d, s), Sights(d, s \o t))
  <1> DEFINE w == s \o t
             m == Len(s)
  <1>1. /\ IsList(w) /\ Len(w) \in Nat /\ m <= Len(w) /\ m \in Nat
        /\ \A i \in 1 .. m : w[i] = s[i]
    <2>1. /\ IsList(w) /\ Len(w) = Len(s) + Len(t)
          /\ \A i \in 1 .. m : w[i] = s[i]
          BY ListConcat
    <2>2. Len(s) \in Nat /\ Len(t) \in Nat
          BY IsListOf DEF IsList
    <2> QED
          BY <2>1, <2>2
  <1> HIDE DEF w
  <1>2. \A i \in 0 .. m : Replay(d, s)[i] = Replay(d, w)[i]
    <2>1. m \in 0 .. Len(s) /\ m <= Len(w) /\ Len(s) \in Nat /\ Len(w) \in Nat
          BY <1>1
    <2>2. \A i \in 1 .. m : s[i] = w[i]
          BY <1>1
    <2> QED
          BY <2>1, <2>2, CommonCourse
  <1>3. ASSUME NEW p \in Sights(d, s)
        PROVE  \E q \in Sights(d, w) : q.doc = p.doc /\ p.told \subseteq q.told
    <2>1. PICK i \in 0 .. m : p.doc = Replay(d, s)[i] /\ p.told = Told(s, i)
          BY SightOf
    <2>2. i \in 0 .. Len(w) /\ i \in Nat
          BY <1>1
    <2>3. PICK q \in Sights(d, w) : q.doc = Replay(d, w)[i] /\ q.told = Told(w, i)
          BY <1>1, <2>2, SightAt
    <2>4. \A k \in 1 .. i : s[k] = w[k]
      <3>1. \A k \in 1 .. i : k \in 1 .. m
            BY <1>1
      <3> QED
            BY <1>1, <3>1
    <2>5. Told(s, i) \subseteq Told(w, i)
          BY <2>2, <2>4, ToldThere
    <2> QED
          BY <1>2, <2>1, <2>3, <2>5
  <1> QED
        BY <1>3 DEF Thinner, w

-----------------------------------------------------------------------------
(***************************************************************************)
(* What an event makes of a notebook.                                      *)
(***************************************************************************)

LEMMA ChangedDoc ==
    ASSUME NEW d, DocType(d), NEW o, NEW c
    PROVE  [d EXCEPT !.order = o, !.cell = c] = [order |-> o, cell |-> c, meta |-> d.meta]
  <1>1. d = [order |-> d.order, cell |-> d.cell, meta |-> d.meta]
        BY DEF DocType
  <1> DEFINE x == d.order
             y == d.cell
             z == d.meta
  <1>2. d = [order |-> x, cell |-> y, meta |-> z]
        BY <1>1
  <1> HIDE DEF x, y, z
  <1>3. [d EXCEPT !.order = o] = [order |-> o, cell |-> y, meta |-> z]
        BY <1>2
  <1>4. [[order |-> o, cell |-> y, meta |-> z] EXCEPT !.cell = c]
           = [order |-> o, cell |-> c, meta |-> z]
        OBVIOUS
  <1>5. [d EXCEPT !.order = o, !.cell = c] = [[d EXCEPT !.order = o] EXCEPT !.cell = c]
        OBVIOUS
  <1> QED
        BY <1>3, <1>4, <1>5, Zenon DEF z

LEMMA ReorderedOnly ==
    ASSUME NEW d, DocType(d), NEW o
    PROVE  [d EXCEPT !.order = o] = [order |-> o, cell |-> d.cell, meta |-> d.meta]
  <1>1. d = [order |-> d.order, cell |-> d.cell, meta |-> d.meta]
        BY DEF DocType
  <1> DEFINE x == d.order
             y == d.cell
             z == d.meta
  <1>2. d = [order |-> x, cell |-> y, meta |-> z]
        BY <1>1
  <1> HIDE DEF x, y, z
  <1>3. d.meta = z /\ d.cell = y
        BY DEF y, z
  <1> QED
        BY <1>2, <1>3

LEMMA DocFields ==
    ASSUME NEW o, NEW c, NEW m, o \in Seq(Cell), IsInjective(o), ToSet(o) = DOMAIN c,
           c \in [DOMAIN c -> CellState], m \in Text
    PROVE  DocType([order |-> o, cell |-> c, meta |-> m])
  BY DEF DocType, Listed

LEMMA InsertedDoc ==
    ASSUME NEW d, DocType(d), NEW c \in Cell, c \notin Listed(d), NEW s \in CellState, NEW after
    PROVE  /\ DocType(Inserted(d, c, s, after))
           /\ Listed(Inserted(d, c, s, after)) = Listed(d) \cup {c}
           /\ \A x \in Listed(d) : Inserted(d, c, s, after).cell[x] = d.cell[x]
  <1> DEFINE i == InsertAtPlace(d.order, after)
             o == InsertAt(d.order, i, c)
             f == [x \in Listed(d) \cup {c} |-> IF x = c THEN s ELSE d.cell[x]]
  <1>1. /\ d = [order |-> d.order, cell |-> d.cell, meta |-> d.meta]
        /\ d.order \in Seq(Cell) /\ ToSet(d.order) = Listed(d) /\ IsInjective(d.order)
        /\ d.cell \in [Listed(d) -> CellState] /\ d.meta \in Text
        BY DEF DocType
  <1>2. i \in 1 .. Len(d.order) + 1
    <2>1. Len(d.order) \in Nat /\ DOMAIN d.order = 1 .. Len(d.order)
          BY <1>1
    <2>2. CASE after = Top
      <3>1. Top \notin ToSet(d.order)
            BY <1>1, TopAssumption DEF ToSet
      <3>2. i = 1
            BY <2>2, <3>1 DEF InsertAtPlace
      <3> QED
            BY <2>1, <3>2
    <2>3. CASE after # Top /\ after \in ToSet(d.order)
      <3>1. \E k \in DOMAIN d.order : d.order[k] = after
            BY <2>1, <2>3 DEF ToSet
      <3>2. Place(d.order, after) \in DOMAIN d.order
            BY <3>1 DEF Place
      <3>3. i = Place(d.order, after) + 1
            BY <2>3 DEF InsertAtPlace
      <3> QED
            BY <2>1, <3>2, <3>3
    <2>4. CASE after # Top /\ after \notin ToSet(d.order)
          BY <2>1, <2>4 DEF InsertAtPlace
    <2> QED
          BY <2>2, <2>3, <2>4
  <1> HIDE DEF i
  <1>3. o \in Seq(Cell) /\ ToSet(o) = Listed(d) \cup {c} /\ IsInjective(o)
        BY <1>1, <1>2, InsertMembers
  <1> HIDE DEF o
  <1>4. f \in [Listed(d) \cup {c} -> CellState] /\ DOMAIN f = Listed(d) \cup {c}
        /\ \A x \in Listed(d) : f[x] = d.cell[x]
        BY <1>1
  <1>5. Inserted(d, c, s, after) = [order |-> o, cell |-> f, meta |-> d.meta]
    <2> HIDE DEF f
    <2>1. [d EXCEPT !.order = o, !.cell = f] = [order |-> o, cell |-> f, meta |-> d.meta]
          BY ChangedDoc, Zenon
    <2>2. Inserted(d, c, s, after) = [d EXCEPT !.order = o, !.cell = f]
          BY Zenon DEF Inserted, Listed, o, i, f
    <2> QED
          BY <2>1, <2>2, Zenon
  <1> HIDE DEF f
  <1>6. DocType([order |-> o, cell |-> f, meta |-> d.meta])
        BY <1>1, <1>3, <1>4, DocFields
  <1> QED
        BY <1>4, <1>5, <1>6 DEF Listed

LEMMA RemovedDoc ==
    ASSUME NEW d, DocType(d), NEW c
    PROVE  /\ DocType(Removed(d, c))
           /\ Listed(Removed(d, c)) = Listed(d) \ {c}
           /\ \A x \in Listed(d) \ {c} : Removed(d, c).cell[x] = d.cell[x]
  <1> DEFINE o == Without(d.order, {c})
             f == [x \in Listed(d) \ {c} |-> d.cell[x]]
  <1>1. /\ d = [order |-> d.order, cell |-> d.cell, meta |-> d.meta]
        /\ d.order \in Seq(Cell) /\ ToSet(d.order) = Listed(d) /\ IsInjective(d.order)
        /\ d.cell \in [Listed(d) -> CellState] /\ d.meta \in Text
        BY DEF DocType
  <1>2. o \in Seq(Cell) /\ ToSet(o) = Listed(d) \ {c} /\ IsInjective(o)
        BY <1>1, WithoutMembers
  <1> HIDE DEF o
  <1>3. f \in [Listed(d) \ {c} -> CellState] /\ DOMAIN f = Listed(d) \ {c}
        /\ \A x \in Listed(d) \ {c} : f[x] = d.cell[x]
        BY <1>1
  <1>4. Removed(d, c) = [order |-> o, cell |-> f, meta |-> d.meta]
    <2> HIDE DEF f
    <2>1. [d EXCEPT !.order = o, !.cell = f] = [order |-> o, cell |-> f, meta |-> d.meta]
          BY ChangedDoc, Zenon
    <2>2. Removed(d, c) = [d EXCEPT !.order = o, !.cell = f]
          BY Zenon DEF Removed, Listed, o, f
    <2> QED
          BY <2>1, <2>2, Zenon
  <1> HIDE DEF f
  <1>5. DocType([order |-> o, cell |-> f, meta |-> d.meta])
        BY <1>1, <1>2, <1>3, DocFields
  <1> QED
        BY <1>3, <1>4, <1>5 DEF Listed

LEMMA ReorderedDoc ==
    ASSUME NEW d, DocType(d), NEW ids \in Seq(Cell), IsInjective(ids)
    PROVE  DocType(Reordered(d, ids)) /\ Reordered(d, ids).cell = d.cell
  <1> DEFINE l == Only(ids, Listed(d))
             r == Without(d.order, ToSet(ids))
             o == l \o r
  <1>1. /\ d = [order |-> d.order, cell |-> d.cell, meta |-> d.meta]
        /\ d.order \in Seq(Cell) /\ ToSet(d.order) = Listed(d) /\ IsInjective(d.order)
        /\ d.cell \in [Listed(d) -> CellState] /\ d.meta \in Text
        BY DEF DocType
  <1>2. l \in Seq(Cell) /\ ToSet(l) = ToSet(ids) \cap Listed(d) /\ IsInjective(l)
        BY OnlyMembers
  <1>3. r \in Seq(Cell) /\ ToSet(r) = Listed(d) \ ToSet(ids) /\ IsInjective(r)
        BY <1>1, WithoutMembers
  <1> HIDE DEF l, r
  <1>4. o \in Seq(Cell) /\ ToSet(o) = ToSet(l) \cup ToSet(r)
        /\ (ToSet(l) \cap ToSet(r) = {} => IsInjective(o))
        BY <1>2, <1>3, ConcatMembers
  <1> HIDE DEF o
  <1>5. o \in Seq(Cell) /\ ToSet(o) = Listed(d) /\ IsInjective(o)
        BY <1>2, <1>3, <1>4
  <1>6. Reordered(d, ids) = [order |-> o, cell |-> d.cell, meta |-> d.meta]
    <2>1. Reordered(d, ids) = [d EXCEPT !.order = o]
          BY Zenon DEF Reordered, o, l, r
    <2> QED
          BY <2>1, ReorderedOnly
  <1>7. DocType([order |-> o, cell |-> d.cell, meta |-> d.meta])
        BY <1>1, <1>5, DocFields DEF Listed
  <1> QED
        BY <1>6, <1>7

LEMMA PatchedDoc ==
    ASSUME NEW d, DocType(d), NEW c \in Listed(d), NEW p \in Patch, NEW v \in Nat
    PROVE  /\ DocType(Patched(d, c, p, v))
           /\ Listed(Patched(d, c, p, v)) = Listed(d)
           /\ \A x \in Listed(d) \ {c} : Patched(d, c, p, v).cell[x] = d.cell[x]
           /\ Patched(d, c, p, v).cell[c].version = v
  <1> DEFINE s == [text    |-> Field(p.text, d.cell[c].text),
                   shared  |-> Field(p.shared, d.cell[c].shared),
                   version |-> v]
             f == [d.cell EXCEPT ![c] = s]
  <1>1. /\ d = [order |-> d.order, cell |-> d.cell, meta |-> d.meta]
        /\ d.order \in Seq(Cell) /\ ToSet(d.order) = Listed(d) /\ IsInjective(d.order)
        /\ d.cell \in [Listed(d) -> CellState] /\ d.meta \in Text
        BY DEF DocType
  <1>2. s \in CellState /\ s.version = v
    <2>1. d.cell[c] \in CellState
          BY <1>1
    <2>2. Field(p.text, d.cell[c].text) \in Text
          BY <2>1 DEF Field, Patch, CellState
    <2>3. Field(p.shared, d.cell[c].shared) \in BOOLEAN
          BY <2>1 DEF Field, Patch, CellState
    <2> QED
          BY <2>2, <2>3 DEF CellState
  <1>3. Patched(d, c, p, v) = [order |-> d.order, cell |-> f, meta |-> d.meta]
        BY <1>1 DEF Patched, Listed
  <1> HIDE DEF s
  <1>4. /\ f \in [Listed(d) -> CellState] /\ DOMAIN f = Listed(d) /\ f[c] = s
        /\ \A x \in Listed(d) \ {c} : f[x] = d.cell[x]
        BY <1>1, <1>2
  <1> HIDE DEF f
  <1>5. DocType([order |-> d.order, cell |-> f, meta |-> d.meta])
        BY <1>1, <1>4, DocFields
  <1> QED
        BY <1>2, <1>3, <1>4, <1>5 DEF Listed

\* An event that may happen to d.
Fits(e, d) ==
    /\ AskType(e)
    /\ e.op = "update" => e.version \in Nat
    /\ e.op = "add" => e.cell \in Cell \ Listed(d)

LEMMA AppliedDoc ==
    ASSUME NEW d, DocType(d), NEW e, Fits(e, d)
    PROVE  /\ DocType(Applied(d, e))
           /\ Listed(Applied(d, e)) = CASE e.op = "add"    -> Listed(d) \cup {e.cell}
                                        [] e.op = "delete" -> Listed(d) \ {e.cell}
                                        [] OTHER           -> Listed(d)
           /\ \A x \in Listed(d) \cap Listed(Applied(d, e)) :
                 (e.op = "update" /\ x = e.cell) \/ Applied(d, e).cell[x] = d.cell[x]
           /\ e.op = "update" /\ e.cell \in Listed(d) => Applied(d, e).cell[e.cell].version = e.version
  <1>1. CASE e.op = "add"
    <2>1. e.content \in CellState /\ e.cell \in Cell /\ e.cell \notin Listed(d)
          BY <1>1 DEF Fits, AskType
    <2>2. Applied(d, e) = Inserted(d, e.cell, e.content, e.after)
          BY <1>1 DEF Applied
    <2> QED
          BY <1>1, <2>1, <2>2, InsertedDoc
  <1>2. CASE e.op = "update" /\ e.cell \in Listed(d)
    <2>1. e.patch \in Patch /\ e.version \in Nat
          BY <1>2 DEF Fits, AskType
    <2>2. Applied(d, e) = Patched(d, e.cell, e.patch, e.version)
          BY <1>2 DEF Applied
    <2> QED
          BY <1>2, <2>1, <2>2, PatchedDoc
  <1>3. CASE e.op = "update" /\ e.cell \notin Listed(d)
    <2>1. Applied(d, e) = d
          BY <1>3 DEF Applied, Patched
    <2> QED
          BY <1>3, <2>1
  <1>4. CASE e.op = "delete"
    <2>1. CASE e.cell \in Listed(d)
      <3>1. Applied(d, e) = Removed(d, e.cell)
            BY <1>4, <2>1 DEF Applied
      <3> QED
            BY <1>4, <3>1, RemovedDoc
    <2>2. CASE e.cell \notin Listed(d)
      <3>1. Applied(d, e) = d
            BY <1>4, <2>2 DEF Applied
      <3> QED
            BY <1>4, <2>2, <3>1
    <2> QED
          BY <2>1, <2>2
  <1>5. CASE e.op = "reorder"
    <2>1. e.ids \in Seq(Cell) /\ IsInjective(e.ids)
          BY <1>5 DEF Fits, AskType
    <2>2. Applied(d, e) = Reordered(d, e.ids)
          BY <1>5 DEF Applied
    <2>3. DocType(Applied(d, e)) /\ Applied(d, e).cell = d.cell
          BY <2>1, <2>2, ReorderedDoc
    <2> QED
          BY <1>5, <2>3 DEF Listed
  <1>6. CASE e.op = "meta"
    <2>1. e.meta \in Text \cup {Same}
          BY <1>6 DEF Fits, AskType
    <2>2. Applied(d, e) = MetaPatched(d, e.meta)
          BY <1>6 DEF Applied
    <2>3. DocType(Applied(d, e)) /\ Applied(d, e).cell = d.cell
          BY <2>1, <2>2 DEF MetaPatched, Field, DocType, Listed
    <2> QED
          BY <1>6, <2>3 DEF Listed
  <1> QED
        BY <1>1, <1>2, <1>3, <1>4, <1>5, <1>6 DEF Fits, AskType

\* The order with a cell dragged is one of the same kind.
LEMMA MovedIsOrder ==
    ASSUME NEW o \in Seq(Cell), IsInjective(o), NEW i \in DOMAIN o, NEW j \in DOMAIN o
    PROVE  Moved(o, i, j) \in Seq(Cell) /\ IsInjective(Moved(o, i, j))
  <1> DEFINE r == RemoveAt(o, i)
  <1>1. /\ Len(o) \in Nat /\ DOMAIN o = 1 .. Len(o) /\ o[i] \in Cell
        /\ i \in 1 .. Len(o) /\ j \in 1 .. Len(o)
        OBVIOUS
  <1>2. r \in Seq(Cell) /\ Len(r) = Len(o) - 1 /\ IsInjective(r) /\ o[i] \notin ToSet(r)
    <2>1. /\ RemoveAt(o, i) \in Seq(Cell) /\ Len(RemoveAt(o, i)) = Len(o) - 1
          /\ IsInjective(o) => /\ IsInjective(RemoveAt(o, i))
                               /\ o[i] \notin ToSet(RemoveAt(o, i))
      <3>1. i \in 1 .. Len(o)
            BY <1>1
      <3> QED
            BY <3>1, RemoveMembers, Zenon
    <2> QED
          BY <2>1
  <1> HIDE DEF r
  <1>3. j \in 1 .. Len(r) + 1
        BY <1>1, <1>2
  <1>4. /\ InsertAt(r, j, o[i]) \in Seq(Cell)
        /\ IsInjective(InsertAt(r, j, o[i]))
        BY <1>1, <1>2, <1>3, InsertMembers
  <1> QED
        BY <1>4 DEF Moved, r

-----------------------------------------------------------------------------
(***************************************************************************)
(* When the notebook changes: by the user's edit or an agent's request.    *)
(***************************************************************************)

\* e is the event of a mutation the host may carry out now.
Possible(e) ==
    /\ AskType(e)
    /\ e.op = "add" => e.cell \in Cell \ used
    /\ e.op = "update" => /\ e.cell \in Listed(doc)
                          /\ e.version = doc.cell[e.cell].version + 1
    /\ e.op = "delete" => e.cell \in Listed(doc)

Changes(e) ==
    /\ Possible(e)
    /\ doc' = Applied(doc, e)
    /\ used' = IF e.op = "add" THEN used \cup {e.cell} ELSE used

LEMMA VersionsAreNat ==
    ASSUME NEW d, DocType(d), NEW c \in Listed(d)
    PROVE  d.cell[c].version \in Nat
  BY DEF DocType, CellState

LEMMA PossibleFits ==
    ASSUME DocFits, NEW e, Possible(e), NEW d, DocType(d), Listed(d) \subseteq used
    PROVE  Fits(e, d) /\ (e.op = "update" => e.version \in Nat)
  <1>1. e.op = "update" => e.version \in Nat
        BY VersionsAreNat DEF Possible, DocFits
  <1> QED
        BY <1>1 DEF Possible, Fits

LEMMA DocStep ==
    ASSUME DocFits, NEW e, Changes(e)
    PROVE  /\ DocFits' /\ used \subseteq used'
           /\ EventType(e)'
           /\ \A c \in Listed(doc)' : c \in Listed(doc) \/ c \notin used
           /\ \A c \in Listed(doc)' \cap Listed(doc) :
                 \/ doc'.cell[c] = doc.cell[c]
                 \/ doc'.cell[c].version = doc.cell[c].version + 1
  <1>1. DocType(doc) /\ Listed(doc) \subseteq used /\ Fits(e, doc)
        BY PossibleFits DEF DocFits, Changes
  <1>2. /\ DocType(doc')
        /\ Listed(doc') = CASE e.op = "add"    -> Listed(doc) \cup {e.cell}
                            [] e.op = "delete" -> Listed(doc) \ {e.cell}
                            [] OTHER           -> Listed(doc)
        /\ \A x \in Listed(doc) \cap Listed(doc') :
              (e.op = "update" /\ x = e.cell) \/ doc'.cell[x] = doc.cell[x]
        /\ e.op = "update" /\ e.cell \in Listed(doc) => doc'.cell[e.cell].version = e.version
        BY <1>1, AppliedDoc DEF Changes
  <1>3. Listed(doc') \subseteq used' /\ used' \subseteq Cell /\ used \subseteq used'
        BY <1>2 DEF Changes, Possible, DocFits
  <1>4. EventType(e)'
        BY <1>1 DEF Changes, Possible, EventType, AskType, Fits, OfCell, DocFits
  <1>5. \A c \in Listed(doc') : c \in Listed(doc) \/ c \notin used
        BY <1>2 DEF Changes, Possible
  <1>6. \A c \in Listed(doc') \cap Listed(doc) :
           doc'.cell[c] = doc.cell[c] \/ doc'.cell[c].version = doc.cell[c].version + 1
        BY <1>2 DEF Changes, Possible
  <1> QED
        BY <1>2, <1>3, <1>4, <1>5, <1>6 DEF DocFits, Listed

\* What was shown stays shown, by a notebook as it was.
LEMMA ShownStays ==
    ASSUME DocFits, NEW e, Changes(e), NEW x, EventType(x), NEW d, Shows(d, x)
    PROVE  Shows(d, x)'
  <1>1. \A c \in Listed(doc') : c \in Listed(doc) \/ c \notin used
        BY DocStep DEF Listed
  <1>2. Listed(doc)' = Listed(doc')
        BY DEF Listed
  <1> QED
        BY <1>1, <1>2 DEF Shows, EventType, OfCell

\* A notebook that replays the event shows it, and what it showed before.
LEMMA ReplayedShows ==
    ASSUME DocFits, NEW e, Changes(e), NEW d, DocType(d), Listed(d) \subseteq used
    PROVE  /\ DocType(Applied(d, e)) /\ Listed(Applied(d, e)) \subseteq used'
           /\ Shows(Applied(d, e), e)'
           /\ \A x : Happened(x) /\ Shows(d, x) => Shows(Applied(d, e), x)'
  <1> DEFINE n == Applied(d, e)
  <1>1. Fits(e, d) /\ (e.op = "update" => e.version \in Nat)
        BY PossibleFits DEF Changes
  <1>2. /\ DocType(n)
        /\ Listed(n) = CASE e.op = "add"    -> Listed(d) \cup {e.cell}
                         [] e.op = "delete" -> Listed(d) \ {e.cell}
                         [] OTHER           -> Listed(d)
        /\ \A x \in Listed(d) \cap Listed(n) :
              (e.op = "update" /\ x = e.cell) \/ n.cell[x] = d.cell[x]
        /\ e.op = "update" /\ e.cell \in Listed(d) => n.cell[e.cell].version = e.version
        BY <1>1, AppliedDoc
  <1> HIDE DEF n
  <1>3. Listed(n) \subseteq used'
        BY <1>2 DEF Changes
  <1>4. Shows(n, e)'
    <2>1. e.op = "update" => n.cell[e.cell].version >= e.version \/ e.cell \notin Listed(n)
          BY <1>1, <1>2
    <2> QED
          BY <1>2, <2>1 DEF Shows
  <1>5. ASSUME NEW x, Happened(x), Shows(d, x) PROVE Shows(n, x)'
    <2>1. x.op \in OfCell => x.cell \in used
          BY <1>5 DEF Happened, EventType
    <2>2. CASE x.op = "update"
      <3>1. x.version \in Nat /\ x.cell \in used
            BY <1>5, <2>1, <2>2 DEF Happened, EventType, OfCell
      <3>2. SUFFICES ASSUME x.cell \in Listed(n) PROVE n.cell[x.cell].version >= x.version
            BY <2>2 DEF Shows
      <3>3. x.cell \in Listed(d)
            BY <1>2, <3>1, <3>2 DEF Changes, Possible
      <3>4. CASE e.op = "update" /\ x.cell = e.cell
        <4>1. x.cell \in Listed(doc) /\ e.version = doc.cell[x.cell].version + 1
              BY <3>4 DEF Changes, Possible
        <4>2. doc.cell[x.cell].version >= x.version
              BY <1>5, <2>2, <4>1 DEF Happened, Shows
        <4>3. doc.cell[x.cell].version \in Nat
              BY <4>1, VersionsAreNat DEF DocFits
        <4>4. n.cell[x.cell].version = e.version
              BY <1>2, <3>3, <3>4
        <4> QED
              BY <3>1, <4>1, <4>2, <4>3, <4>4
      <3>5. CASE ~ (e.op = "update" /\ x.cell = e.cell)
        <4>1. n.cell[x.cell] = d.cell[x.cell]
              BY <1>2, <3>2, <3>3, <3>5
        <4>2. d.cell[x.cell].version >= x.version
              BY <1>5, <2>2, <3>3 DEF Shows
        <4> QED
              BY <4>1, <4>2
      <3> QED
            BY <3>4, <3>5
    <2>3. CASE x.op = "delete"
      <3>1. x.cell \in used /\ x.cell \notin Listed(d)
            BY <1>5, <2>1, <2>3 DEF Shows, OfCell
      <3>2. x.cell \notin Listed(n)
            BY <1>2, <3>1 DEF Changes, Possible
      <3> QED
            BY <2>3, <3>2 DEF Shows
    <2>4. CASE x.op = "add"
      <3>1. x.cell \in used /\ (x.cell \in Listed(d) \/ x.cell \notin Listed(doc))
            BY <1>5, <2>1, <2>4 DEF Shows, OfCell
      <3>2. \A c \in Listed(doc') : c \in Listed(doc) \/ c \notin used
            BY DocStep DEF Listed
      <3>3. x.cell \in Listed(n) \/ x.cell \notin Listed(doc')
        <4>1. CASE x.cell \notin Listed(doc)
              BY <3>1, <3>2, <4>1
        <4>2. CASE x.cell \in Listed(d) /\ x.cell \notin Listed(n)
          <5>1. e.op = "delete" /\ x.cell = e.cell
                BY <1>2, <4>2
          <5>2. Fits(e, doc) /\ DocType(doc)
                BY PossibleFits DEF Changes, DocFits
          <5>3. Listed(doc') = Listed(doc) \ {e.cell}
                BY <5>1, <5>2, AppliedDoc DEF Changes
          <5> QED
                BY <5>1, <5>3
        <4> QED
              BY <3>1, <4>1, <4>2
      <3> QED
            BY <2>4, <3>3 DEF Shows, Listed
    <2>5. CASE x.op \notin OfCell
          BY <2>5 DEF Shows, OfCell
    <2> QED
          BY <2>2, <2>3, <2>4, <2>5 DEF OfCell
  <1> QED
        BY <1>2, <1>3, <1>4, <1>5 DEF n

\* What happened stays true, and the event has happened.
LEMMA HappenedStays ==
    ASSUME DocFits, NEW e, Changes(e)
    PROVE  Happened(e)' /\ \A x : Happened(x) => Happened(x)'
  <1>1. PICK d : d = doc
        OBVIOUS
  <1>2. PICK n : n = Applied(d, e)
        OBVIOUS
  <1>3. n = doc'
        BY <1>1, <1>2 DEF Changes
  <1>4. Shows(n, e)' /\ \A x : Happened(x) /\ Shows(d, x) => Shows(n, x)'
    <2>1. DocType(d) /\ Listed(d) \subseteq used
          BY <1>1 DEF DocFits
    <2> QED
          BY <1>2, <2>1, ReplayedShows
  <1>5. \A x : Shows(d, x) <=> Shows(doc, x)
        BY <1>1
  <1>6. \A x : Shows(n, x)' => Shows(doc, x)'
        BY <1>3 DEF Shows, Listed
  <1>7. EventType(e)' /\ used \subseteq used'
        BY DocStep
  <1>8. ASSUME NEW x, Happened(x) PROVE Happened(x)'
    <2>1. EventType(x)'
          BY <1>7, <1>8 DEF Happened, EventType
    <2>2. Shows(doc, x)'
          BY <1>4, <1>5, <1>6, <1>8 DEF Happened
    <2> QED
          BY <2>1, <2>2 DEF Happened
  <1>9. Happened(e)'
        BY <1>4, <1>6, <1>7 DEF Happened
  <1> QED
        BY <1>8, <1>9

\* A notebook that was no newer than the host's is none newer after the change.
LEMMA BehindStays ==
    ASSUME DocFits, NEW e, Changes(e), NEW d, DocType(d), Listed(d) \subseteq used, Behind(d)
    PROVE  Behind(d)'
  <1>1. SUFFICES ASSUME NEW c \in Listed(d), c \in Listed(doc')
                 PROVE  /\ d.cell[c].version <= doc'.cell[c].version
                        /\ d.cell[c].version = doc'.cell[c].version => d.cell[c].text = doc'.cell[c].text
        BY DEF Behind, Listed
  <1>2. c \in Listed(doc) /\ d.cell[c].version \in Nat /\ doc.cell[c].version \in Nat
        BY <1>1, DocStep, VersionsAreNat DEF DocFits, Listed
  <1>3. \/ doc'.cell[c] = doc.cell[c]
        \/ doc'.cell[c].version = doc.cell[c].version + 1
        BY <1>1, <1>2, DocStep DEF Listed
  <1>4. /\ d.cell[c].version <= doc.cell[c].version
        /\ d.cell[c].version = doc.cell[c].version => d.cell[c].text = doc.cell[c].text
        BY <1>1, <1>2 DEF Behind
  <1> QED
        BY <1>2, <1>3, <1>4

LEMMA BehindItself ==
    ASSUME DocFits
    PROVE  Behind(doc)
  BY VersionsAreNat DEF Behind, DocFits

LEMMA AnEvent ==
    ASSUME NEW m, AskType(m)
    PROVE  /\ m.op # "update" => EventOf(m) = m
           /\ m.op = "update" => /\ EventOf(m) = [op |-> "update", cell |-> m.cell, patch |-> m.patch,
                                                  version |-> m.version + 1]
                                 /\ EventOf(m).op = "update" /\ EventOf(m).cell = m.cell
                                 /\ EventOf(m).patch = m.patch
                                 /\ EventOf(m).version = m.version + 1
           /\ AskType(EventOf(m))
  <1>1. CASE m.op # "update"
        BY <1>1 DEF EventOf
  <1>2. CASE m.op = "update"
    <2>1. m = [op |-> "update", cell |-> m.cell, patch |-> m.patch, version |-> m.version]
          BY <1>2 DEF AskType
    <2>2. EventOf(m) = [op |-> "update", cell |-> m.cell, patch |-> m.patch, version |-> m.version + 1]
          BY <1>2, <2>1 DEF EventOf
    <2>3. m.cell \in Cell /\ m.patch \in Patch
          BY <1>2 DEF AskType
    <2> QED
          BY <1>2, <2>2, <2>3 DEF AskType
  <1> QED
        BY <1>1, <1>2

\* What the user may do at the browser.
LEMMA EditPossible ==
    ASSUME DocFits, NEW m \in BrowserMutations
    PROVE  /\ Possible(EventOf(m)) /\ EventOf(m).op = m.op
           /\ m.op = "add" => EventOf(m) = m
  <1>1. DocType(doc) /\ Listed(doc) \subseteq used /\ used \subseteq Cell
        BY DEF DocFits
  <1>2. /\ AskType(m)
        /\ m.op = "add" => m.cell \in Cell \ used
        /\ m.op \in {"update", "delete"} => m.cell \in Listed(doc) /\ m.version = CurrentVersion(m.cell)
    <2>1. CASE \E c \in Cell \ used, p \in Listed(doc) \cup {Top} : m = Add(c, DefaultText, FALSE, p)
      <3>1. PICK c \in Cell \ used, p \in Listed(doc) \cup {Top} : m = Add(c, DefaultText, FALSE, p)
            BY <2>1
      <3> QED
            BY <3>1, InitialDocAssumption DEF Add, AskType, NewCell, CellState
    <2>2. CASE \E c \in Listed(doc), t \in Text : m = Update(c, SetText(t), CurrentVersion(c))
      <3>1. PICK c \in Listed(doc), t \in Text : m = Update(c, SetText(t), CurrentVersion(c))
            BY <2>2
      <3> QED
            BY <1>1, <3>1 DEF Update, AskType, SetText, Patch
    <2>3. CASE \E c \in Listed(doc) : m = Update(c, SetLabel, CurrentVersion(c))
      <3>1. PICK c \in Listed(doc) : m = Update(c, SetLabel, CurrentVersion(c))
            BY <2>3
      <3> QED
            BY <1>1, <3>1 DEF Update, AskType, SetLabel, Patch
    <2>4. CASE \E c \in Listed(doc) : m = Delete(c, CurrentVersion(c))
      <3>1. PICK c \in Listed(doc) : m = Delete(c, CurrentVersion(c))
            BY <2>4
      <3> QED
            BY <1>1, <3>1 DEF Delete, AskType
    <2>5. CASE \E i, j \in DOMAIN doc.order : m = Reorder(Moved(doc.order, i, j))
          BY <1>1, <2>5, MovedIsOrder DEF Reorder, AskType, DocType
    <2>6. CASE \E t \in Text : m = UpdateMeta(t)
          BY <2>6 DEF UpdateMeta, AskType
    <2>7. \/ \E c \in Cell \ used, p \in Listed(doc) \cup {Top} : m = Add(c, DefaultText, FALSE, p)
          \/ \E c \in Listed(doc), t \in Text : m = Update(c, SetText(t), CurrentVersion(c))
          \/ \E c \in Listed(doc) : m = Update(c, SetLabel, CurrentVersion(c))
          \/ \E c \in Listed(doc) : m = Delete(c, CurrentVersion(c))
          \/ \E i, j \in DOMAIN doc.order : m = Reorder(Moved(doc.order, i, j))
          \/ \E t \in Text : m = UpdateMeta(t)
      <3> DEFINE A == {Add(c, DefaultText, FALSE, p) : c \in Cell \ used, p \in Listed(doc) \cup {Top}}
                 B == {Update(c, SetText(t), CurrentVersion(c)) : c \in Listed(doc), t \in Text}
                 C == {Update(c, SetLabel, CurrentVersion(c)) : c \in Listed(doc)}
                 D == {Delete(c, CurrentVersion(c)) : c \in Listed(doc)}
                 E == {Reorder(Moved(doc.order, i, j)) : i \in DOMAIN doc.order, j \in DOMAIN doc.order}
                 F == {UpdateMeta(t) : t \in Text}
      <3> HIDE DEF A, B, C, D, E, F
      <3>1. BrowserMutations = A \cup B \cup C \cup D \cup E \cup F
            BY DEF BrowserMutations, A, B, C, D, E, F
      <3>2. m \in A => \E c \in Cell \ used, p \in Listed(doc) \cup {Top} : m = Add(c, DefaultText, FALSE, p)
            BY DEF A, Add, NewCell
      <3>3. m \in B => \E c \in Listed(doc), t \in Text : m = Update(c, SetText(t), CurrentVersion(c))
            BY DEF B
      <3>4. m \in C => \E c \in Listed(doc) : m = Update(c, SetLabel, CurrentVersion(c))
            BY DEF C
      <3>5. m \in D => \E c \in Listed(doc) : m = Delete(c, CurrentVersion(c))
            BY DEF D
      <3>6. m \in E => \E i, j \in DOMAIN doc.order : m = Reorder(Moved(doc.order, i, j))
            BY DEF E
      <3>7. m \in F => \E t \in Text : m = UpdateMeta(t)
            BY DEF F
      <3>8. m \in A \/ m \in B \/ m \in C \/ m \in D \/ m \in E \/ m \in F
            BY <3>1
      <3> QED
            BY <3>2, <3>3, <3>4, <3>5, <3>6, <3>7, <3>8, Zenon
    <2> QED
          BY <2>1, <2>2, <2>3, <2>4, <2>5, <2>6, <2>7, Zenon
  <1>3. AskType(EventOf(m))
        BY <1>2, AnEvent
  <1> QED
        BY <1>2, <1>3, AnEvent DEF Possible, CurrentVersion

\* What an agent's request may do.
LEMMA AcceptPossible ==
    ASSUME DocFits, NEW q, AskType(q), NEW c \in Cell, Acceptable(Resolved(q, c)),
           Resolved(q, c).op = "add" => c \notin used
    PROVE  LET m == Resolved(q, c)
               e == EventOf(m)
           IN  /\ Possible(e) /\ e.op = m.op /\ m.op = q.op
               /\ m.op = "add" => e = m
               /\ m.op = "update" => m = q
  <1> DEFINE m == Resolved(q, c)
  <1>1. AskType(m) /\ m.op = q.op /\ (q.op = "add" => m.cell = c) /\ (q.op # "add" => m = q)
    <2>1. CASE q.op = "add"
      <3>1. q = [op |-> "add", cell |-> q.cell, content |-> q.content, after |-> q.after]
            BY <2>1 DEF AskType
      <3>2. m = [op |-> "add", cell |-> c, content |-> q.content, after |-> q.after]
            BY <2>1, <3>1 DEF Resolved
      <3>3. q.content \in CellState
            BY <2>1 DEF AskType
      <3> QED
            BY <2>1, <3>2, <3>3 DEF AskType
    <2>2. CASE q.op # "add"
          BY <2>2 DEF Resolved
    <2> QED
          BY <2>1, <2>2
  <1>2. /\ m.op = "add" => m.cell \notin used
        /\ m.op \in {"update", "delete"} => m.cell \in Listed(doc) /\ m.version = CurrentVersion(m.cell)
        BY <1>1 DEF Acceptable
  <1>3. m.op = "add" => m.cell \in Cell
        BY <1>1
  <1> HIDE DEF m
  <1>4. AskType(EventOf(m))
        BY <1>1, AnEvent
  <1>5. Possible(EventOf(m)) /\ EventOf(m).op = m.op /\ (m.op = "add" => EventOf(m) = m)
        BY <1>1, <1>2, <1>3, <1>4, AnEvent DEF Possible, CurrentVersion
  <1> QED
        BY <1>1, <1>5 DEF m

-----------------------------------------------------------------------------
(***************************************************************************)
(* How a step of the system moves the courses.                             *)
(***************************************************************************)

\* An agent's course shows nothing new, and leads where it led.
Steady(a) == Thinner(Sight(a)', Sight(a)) /\ Ahead(a)' = Ahead(a)

\* It goes on over one more frame.
Grows(a, f) ==
    /\ Ahead(a)' = Replayed(Ahead(a), f)
    /\ \A p \in Sight(a)' :
          \/ p \in Sight(a)
          \/ \E q \in Sight(a) :
                /\ q.doc = Ahead(a) /\ p.doc = Replayed(q.doc, f)
                /\ p.told \subseteq q.told \cup (IF f.kind = "event" THEN {f.event} ELSE {})

QueuesFit == IsList(unsent) /\ \A a \in Agent : IsList(down[a])

LEMMA OnWayIsList ==
    ASSUME QueuesFit, NEW a \in Agent
    PROVE  IsList(OnWay(a))
  BY ListConcat DEF QueuesFit, OnWay

LEMMA AheadIsEnd == \A a : Ahead(a) = EndOf(mirror[a], OnWay(a))
  BY DEF Ahead, Course, EndOf

LEMMA AheadIsSeen ==
    ASSUME QueuesFit, NEW a \in Agent
    PROVE  /\ \E p \in Sight(a) : p.doc = Ahead(a)
           /\ \E p \in Sight(a) : p.doc = mirror[a]
  BY OnWayIsList, StartAndEnd, AheadIsEnd DEF Sight

LEMMA ThinnerItself == \A P : Thinner(P, P)
  BY DEF Thinner

\* Nothing happened on the way to the agent.
LEMMA Unmoved ==
    ASSUME NEW a \in Agent, OnWay(a)' = OnWay(a), mirror'[a] = mirror[a]
    PROVE  Steady(a) /\ Sight(a)' = Sight(a)
  <1>1. Sight(a)' = Sight(a)
        BY DEF Sight
  <1>2. Ahead(a)' = Ahead(a)
        BY DEF Ahead, Course
  <1> QED
        BY <1>1, <1>2, ThinnerItself DEF Steady

LEMMA UnmovedQueue ==
    ASSUME NEW a \in Agent, down'[a] = down[a], unsent' = unsent, mirror'[a] = mirror[a]
    PROVE  Steady(a) /\ Sight(a)' = Sight(a)
  <1>1. OnWay(a)' = OnWay(a)
        BY DEF OnWay
  <1> QED
        BY <1>1, Unmoved

\* A frame is sent, or buffered.
LEMMA GrownQueue ==
    ASSUME QueuesFit, NEW a \in Agent, NEW f, mirror'[a] = mirror[a],
           \/ down'[a] = Append(down[a], f) /\ unsent = <<>> /\ unsent' = <<>>
           \/ down'[a] = down[a] /\ unsent' = Append(unsent, f)
    PROVE  Grows(a, f)
  <1>1. OnWay(a)' = Append(OnWay(a), f)
    <2>1. IsList(down[a]) /\ IsList(unsent)
          BY DEF QueuesFit
    <2>2. CASE down'[a] = Append(down[a], f) /\ unsent = <<>> /\ unsent' = <<>>
      <3>1. IsList(Append(down[a], f))
            BY <2>1, ListAppend
      <3>2. down[a] \o <<>> = down[a] /\ Append(down[a], f) \o <<>> = Append(down[a], f)
            BY <2>1, <3>1, ListConcat
      <3> QED
            BY <2>2, <3>2 DEF OnWay
    <2>3. CASE down'[a] = down[a] /\ unsent' = Append(unsent, f)
      <3>1. PICK s, t : s = down[a] /\ t = unsent
            OBVIOUS
      <3>2. IsList(s) /\ IsList(t)
            BY <2>1, <3>1
      <3>3. s \o Append(t, f) = Append(s \o t, f)
            BY <3>2, AppendToRest
      <3> QED
            BY <2>3, <3>1, <3>3 DEF OnWay
    <2> QED
          BY <2>2, <2>3
  <1> DEFINE d == mirror[a]
             w == OnWay(a)
  <1>2. IsList(w)
        BY OnWayIsList
  <1>3. /\ Sight(a)' = Sights(d, Append(w, f)) /\ Sight(a) = Sights(d, w)
        /\ Ahead(a)' = EndOf(d, Append(w, f)) /\ Ahead(a) = EndOf(d, w)
        BY <1>1 DEF Sight, Ahead, Course, EndOf
  <1> HIDE DEF d, w
  <1>4. /\ EndOf(d, Append(w, f)) = Replayed(EndOf(d, w), f)
        /\ \A p \in Sights(d, Append(w, f)) :
              \/ p \in Sights(d, w)
              \/ \E q \in Sights(d, w) :
                    /\ q.doc = EndOf(d, w) /\ p.doc = Replayed(q.doc, f)
                    /\ p.told \subseteq q.told \cup (IF f.kind = "event" THEN {f.event} ELSE {})
        BY <1>2, SightsAppend
  <1> QED
        BY <1>3, <1>4 DEF Grows

\* The sender is told that a request failed, ahead of what an outage held back.
LEMMA PassedQueue ==
    ASSUME QueuesFit, NEW a \in Agent, NEW f, f.kind = "error", mirror'[a] = mirror[a],
           down'[a] = Append(down[a], f), unsent' = unsent
    PROVE  Steady(a)
  <1> DEFINE d == mirror[a]
             s == down[a]
             t == unsent
  <1>1. /\ Sight(a)' = Sights(d, Append(s, f) \o t) /\ Sight(a) = Sights(d, s \o t)
        /\ Ahead(a)' = EndOf(d, Append(s, f) \o t) /\ Ahead(a) = EndOf(d, s \o t)
        BY DEF Sight, Ahead, Course, EndOf, OnWay
  <1>2. IsList(s) /\ IsList(t)
        BY DEF QueuesFit
  <1> HIDE DEF d, s, t
  <1>3. /\ EndOf(d, Append(s, f) \o t) = EndOf(d, s \o t)
        /\ Thinner(Sights(d, Append(s, f) \o t), Sights(d, s \o t))
        BY <1>2, SightsPassed
  <1> QED
        BY <1>1, <1>3 DEF Steady

\* The daemon reads a frame.
LEMMA ReadQueue ==
    ASSUME QueuesFit, NEW a \in Agent, down[a] # <<>>,
           mirror'[a] = Replayed(mirror[a], Head(down[a])),
           down'[a] = Tail(down[a]), unsent' = unsent
    PROVE  /\ Steady(a)
           /\ Head(down[a]).kind = "event" =>
                 \A p \in Sight(a)' : \E q \in Sight(a) : q.doc = p.doc /\ Head(down[a]).event \in q.told
  <1> DEFINE d == mirror[a]
             w == OnWay(a)
             f == Head(down[a])
  <1>1. w # <<>> /\ Head(w) = f /\ OnWay(a)' = Tail(w) /\ IsList(w)
        BY TailBeforeRest, OnWayIsList DEF OnWay, QueuesFit
  <1>2. /\ Sight(a)' = Sights(Replayed(d, Head(w)), Tail(w)) /\ Sight(a) = Sights(d, w)
        /\ Ahead(a)' = EndOf(Replayed(d, Head(w)), Tail(w)) /\ Ahead(a) = EndOf(d, w)
        BY <1>1 DEF Sight, Ahead, Course, EndOf
  <1> HIDE DEF d, w, f
  <1>3. /\ EndOf(Replayed(d, Head(w)), Tail(w)) = EndOf(d, w)
        /\ \A p \in Sights(Replayed(d, Head(w)), Tail(w)) :
              \E q \in Sights(d, w) : /\ q.doc = p.doc /\ p.told \subseteq q.told
                                      /\ Head(w).kind = "event" => Head(w).event \in q.told
        BY <1>1, SightsTail
  <1> QED
        BY <1>1, <1>2, <1>3 DEF Steady, Thinner, f

\* The buffer is flushed to those who hear; nobody else follows a course.
LEMMA FlushedQueue ==
    ASSUME QueuesFit, Coherent, NEW a \in Agent, unsent' = <<>>, mirror'[a] = mirror[a],
           down'[a] = IF a \in Hearers THEN down[a] \o unsent ELSE down[a]
    PROVE  Steady(a)
  <1>1. IsList(down[a]) /\ IsList(unsent) /\ IsList(OnWay(a))
        BY OnWayIsList DEF QueuesFit
  <1>2. CASE a \in Hearers
    <2>1. OnWay(a)' = OnWay(a)
          BY <1>1, <1>2, ListConcat DEF OnWay
    <2> QED
          BY <2>1, Unmoved
  <1>3. CASE a \notin Hearers
    <2> DEFINE d == mirror[a]
               s == down[a]
               t == unsent
    <2>1. OnWay(a)' = s /\ OnWay(a) = s \o t
          BY <1>1, <1>3, ListConcat DEF OnWay
    <2>2. /\ Sight(a)' = Sights(d, s) /\ Sight(a) = Sights(d, s \o t)
          /\ Ahead(a)' = EndOf(d, s) /\ Ahead(a) = EndOf(d, s \o t)
          BY <2>1 DEF Sight, Ahead, Course, EndOf
    <2>3. \A p \in Sight(a) : p.doc = NoDoc
          BY <1>3 DEF Coherent, Hearers
    <2>4. IsList(s) /\ IsList(t) /\ IsList(s \o t)
          BY <1>1, <2>1
    <2> HIDE DEF d, s, t
    <2>5. Thinner(Sights(d, s), Sights(d, s \o t))
          BY <2>4, SightsCut
    <2>6. /\ \E p \in Sights(d, s) : p.doc = EndOf(d, s)
          /\ \E p \in Sights(d, s \o t) : p.doc = EndOf(d, s \o t)
          BY <2>4, StartAndEnd
    <2> QED
          BY <2>2, <2>3, <2>5, <2>6 DEF Steady, Thinner
  <1> QED
        BY <1>2, <1>3

-----------------------------------------------------------------------------
(***************************************************************************)
(* What is true of the courses stays true.                                 *)
(***************************************************************************)

LEMMA SteadyCourses ==
    ASSUME Coherent, Following, Telling, doc' = doc, used' = used, linked \subseteq linked',
           whole' \subseteq whole, whole \subseteq Agent, \A a \in Agent : Steady(a)
    PROVE  Coherent' /\ Following' /\ Telling'
  <1>1. \A d, e : Shows(d, e)' <=> Shows(d, e)
        BY DEF Shows, Listed
  <1>2. \A d : Behind(d)' <=> Behind(d)
        BY DEF Behind, Listed
  <1>3. Coherent'
    <2>1. SUFFICES ASSUME NEW a \in Agent, NEW p \in Sight(a)', p.doc # NoDoc
                   PROVE  DocType(p.doc) /\ Listed(p.doc) \subseteq used' /\ a \in Reads \cap linked'
          BY DEF Coherent
    <2>2. PICK q \in Sight(a) : q.doc = p.doc
          BY <2>1 DEF Steady, Thinner
    <2> QED
          BY <2>1, <2>2 DEF Coherent
  <1>4. Telling'
    <2>1. SUFFICES ASSUME NEW a \in Agent, NEW p \in Sight(a)', p.doc # NoDoc, NEW e \in p.told
                   PROVE  Shows(p.doc, e)'
          BY DEF Telling
    <2>2. PICK q \in Sight(a) : q.doc = p.doc /\ p.told \subseteq q.told
          BY <2>1 DEF Steady, Thinner
    <2> QED
          BY <1>1, <2>1, <2>2 DEF Telling
  <1>5. Following'
    <2>1. SUFFICES ASSUME NEW a \in Reads \cap whole'
                   PROVE  /\ Ahead(a)' # NoDoc => Ahead(a)' = doc'
                          /\ \A p \in Sight(a)' : p.doc # NoDoc => Behind(p.doc)'
          BY DEF Following
    <2>2. Ahead(a)' = Ahead(a) /\ Thinner(Sight(a)', Sight(a)) /\ a \in Reads \cap whole
          BY <2>1 DEF Steady
    <2>3. ASSUME NEW p \in Sight(a)', p.doc # NoDoc PROVE Behind(p.doc)'
      <3>1. PICK q \in Sight(a) : q.doc = p.doc
            BY <2>2, <2>3 DEF Thinner
      <3>2. Behind(p.doc)
            BY <2>2, <2>3, <3>1 DEF Following
      <3> QED
            BY <1>2, <3>2
    <2> QED
          BY <2>2, <2>3 DEF Following
  <1> QED
        BY <1>3, <1>4, <1>5

\* The answers, when none is given.
LEMMA SteadyAnswers ==
    ASSUME Answered, doc' = doc, \A a \in Agent : Steady(a),
           \A a \in Agent : resolving'[a].kind = "event" => resolving'[a] = resolving[a],
           \A r \in Request : request'[r].at = "ok" => request'[r] = request[r]
    PROVE  Answered'
  <1>1. \A d, e : Shows(d, e)' <=> Shows(d, e)
        BY DEF Shows, Listed
  <1>2. SUFFICES ASSUME NEW a \in Agent, NEW p \in Sight(a)', p.doc # NoDoc
                 PROVE  /\ (resolving[a].kind = "event" => Shows(p.doc, resolving[a].event))'
                        /\ \A r \in Request : (request[r].at = "ok" /\ request[r].by = a
                              => Shows(p.doc, request[r].event))'
        BY DEF Answered
  <1>3. PICK q \in Sight(a) : q.doc = p.doc
        BY <1>2 DEF Steady, Thinner
  <1>4. /\ resolving[a].kind = "event" => Shows(p.doc, resolving[a].event)
        /\ \A r \in Request : request[r].at = "ok" /\ request[r].by = a
              => Shows(p.doc, request[r].event)
        BY <1>2, <1>3 DEF Answered
  <1>5. (resolving[a].kind = "event" => Shows(p.doc, resolving[a].event))'
        BY <1>4 DEF Shows, Listed
  <1>6. ASSUME NEW r \in Request
        PROVE  (request[r].at = "ok" /\ request[r].by = a => Shows(p.doc, request[r].event))'
        BY <1>4 DEF Shows, Listed
  <1> QED
        BY <1>5, <1>6

\* An event the notebook shows, or one that another came after.
LEMMA GrownCourses ==
    ASSUME DocFits, NEW e, Changes(e), NEW f, f.kind = "event", f.event = e,
           NEW a \in Agent, Grows(a, f), Coherent, Telling,
           \A p \in Sight(a) : \A x \in p.told : Happened(x),
           NEW p \in Sight(a)', p.doc # NoDoc
    PROVE  /\ DocType(p.doc) /\ Listed(p.doc) \subseteq used' /\ a \in Reads \cap linked
           /\ \A x \in p.told : Shows(p.doc, x)'
           /\ \A x : Happened(x) /\ (\A q \in Sight(a) : q.doc # NoDoc => Shows(q.doc, x))
                 => Shows(p.doc, x)'
  <1>1. CASE p \in Sight(a)
    <2>1. /\ DocType(p.doc) /\ Listed(p.doc) \subseteq used /\ a \in Reads \cap linked
          /\ \A x \in p.told : Shows(p.doc, x)
          BY <1>1 DEF Coherent, Telling
    <2>2. used \subseteq used'
          BY DocStep
    <2>3. \A x : Happened(x) /\ Shows(p.doc, x) => Shows(p.doc, x)'
          BY ShownStays DEF Happened
    <2> QED
          BY <1>1, <2>1, <2>2, <2>3
  <1>2. CASE \E q \in Sight(a) :
                /\ q.doc = Ahead(a) /\ p.doc = Replayed(q.doc, f)
                /\ p.told \subseteq q.told \cup (IF f.kind = "event" THEN {f.event} ELSE {})
    <2>1. PICK q \in Sight(a) : p.doc = Replayed(q.doc, f) /\ p.told \subseteq q.told \cup {e}
          BY <1>2
    <2>2. q.doc # NoDoc /\ p.doc = Applied(q.doc, e)
          BY <2>1 DEF Replayed
    <2>3. /\ DocType(q.doc) /\ Listed(q.doc) \subseteq used /\ a \in Reads \cap linked
          /\ \A x \in q.told : Shows(q.doc, x) /\ Happened(x)
          BY <2>2 DEF Coherent, Telling
    <2>4. PICK d : d = q.doc
          OBVIOUS
    <2>5. /\ DocType(p.doc) /\ Listed(p.doc) \subseteq used'
          /\ Shows(p.doc, e)'
          /\ \A x : Happened(x) /\ Shows(d, x) => Shows(p.doc, x)'
          BY <2>2, <2>3, <2>4, ReplayedShows
    <2> QED
          BY <2>1, <2>2, <2>3, <2>4, <2>5
  <1> QED
        BY <1>1, <1>2 DEF Grows

\* A change of the notebook whose event is sent to all that follow it.
LEMMA ChangedCourses ==
    ASSUME DocFits, QueuesFit, Coherent, Following, Telling, Answered,
           NEW e, Changes(e), NEW f, f.kind = "event", f.event = e,
           linked' = linked, whole' \subseteq whole, whole \subseteq Agent,
           resolving' = resolving, request' = request,
           \A a \in Agent : resolving[a].kind = "event" => Happened(resolving[a].event),
           \A r \in Request : request[r].at = "ok" => Happened(request[r].event),
           \A a \in Agent : \A p \in Sight(a) : \A x \in p.told : Happened(x),
           \A a \in Agent : \/ Grows(a, f)
                            \/ /\ Sight(a)' = Sight(a) /\ Steady(a)
                               /\ a \notin Hearers \cap whole'
    PROVE  Coherent' /\ Following' /\ Telling' /\ Answered'
  <1>1. used \subseteq used'
        BY DocStep
  <1>2. \A d, x : Happened(x) /\ Shows(d, x) => Shows(d, x)'
        BY ShownStays DEF Happened
  <1>3. ASSUME NEW a \in Agent, NEW p \in Sight(a)', p.doc # NoDoc
        PROVE  /\ DocType(p.doc) /\ Listed(p.doc) \subseteq used' /\ a \in Reads \cap linked
               /\ \A x \in p.told : Shows(p.doc, x)'
               /\ \A x : Happened(x) /\ (\A q \in Sight(a) : q.doc # NoDoc => Shows(q.doc, x))
                     => Shows(p.doc, x)'
    <2>1. CASE Grows(a, f)
      <3>1. \A q \in Sight(a) : \A x \in q.told : Happened(x)
            OBVIOUS
      <3> QED
            BY <1>3, <2>1, <3>1, GrownCourses
    <2>2. CASE Sight(a)' = Sight(a)
      <3>1. p \in Sight(a)
            BY <1>3, <2>2
      <3>2. /\ DocType(p.doc) /\ Listed(p.doc) \subseteq used /\ a \in Reads \cap linked
            /\ \A x \in p.told : Shows(p.doc, x) /\ Happened(x)
            BY <1>3, <3>1 DEF Coherent, Telling
      <3> QED
            BY <1>1, <1>2, <1>3, <3>1, <3>2
    <2> QED
          BY <2>1, <2>2
  <1>4. Coherent'
        BY <1>3 DEF Coherent
  <1>5. Telling'
        BY <1>3 DEF Telling
  <1>6. Answered'
    <2>1. SUFFICES ASSUME NEW a \in Agent, NEW p \in Sight(a)', p.doc # NoDoc
                   PROVE  /\ (resolving[a].kind = "event" => Shows(p.doc, resolving[a].event))'
                          /\ \A r \in Request : (request[r].at = "ok" /\ request[r].by = a
                                => Shows(p.doc, request[r].event))'
          BY DEF Answered
    <2>2. PICK y : y = resolving[a]
          OBVIOUS
    <2>3. y.kind = "event" => /\ Happened(y.event)
                              /\ \A q \in Sight(a) : q.doc # NoDoc => Shows(q.doc, y.event)
          BY <2>2 DEF Answered
    <2>4. y.kind = "event" => Shows(p.doc, y.event)'
          BY <1>3, <2>1, <2>3
    <2>5. (resolving[a].kind = "event" => Shows(p.doc, resolving[a].event))'
          BY <2>2, <2>4 DEF Shows, Listed
    <2>6. ASSUME NEW r \in Request
          PROVE  (request[r].at = "ok" /\ request[r].by = a => Shows(p.doc, request[r].event))'
      <3>1. PICK z : z = request[r]
            OBVIOUS
      <3>2. z.at = "ok" /\ z.by = a => /\ Happened(z.event)
                                       /\ \A q \in Sight(a) : q.doc # NoDoc => Shows(q.doc, z.event)
            BY <3>1 DEF Answered
      <3>3. z.at = "ok" /\ z.by = a => Shows(p.doc, z.event)'
            BY <1>3, <2>1, <3>2
      <3> QED
            BY <3>1, <3>3 DEF Shows, Listed
    <2> QED
          BY <2>5, <2>6
  <1>7. Following'
    <2>1. SUFFICES ASSUME NEW a \in Agent, a \in Reads, a \in whole'
                   PROVE  /\ Ahead(a)' # NoDoc => Ahead(a)' = doc'
                          /\ \A p \in Sight(a)' : p.doc # NoDoc => Behind(p.doc)'
          BY DEF Following
    <2>2. /\ Ahead(a) # NoDoc => Ahead(a) = doc
          /\ \A p \in Sight(a) : p.doc # NoDoc => Behind(p.doc) /\ DocType(p.doc) /\ Listed(p.doc) \subseteq used
          BY <2>1 DEF Following, Coherent
    <2>3. \A p \in Sight(a) : p.doc # NoDoc => Behind(p.doc)'
          BY <2>2, BehindStays
    <2>4. CASE Grows(a, f)
      <3>1. Ahead(a)' = Replayed(Ahead(a), f)
            BY <2>4 DEF Grows
      <3>2. Ahead(a) = NoDoc => Ahead(a)' = NoDoc
            BY <3>1 DEF Replayed
      <3>3. Ahead(a) # NoDoc => Ahead(a)' = doc'
            BY <2>2, <3>1 DEF Replayed, Changes
      <3>4. \A p \in Sight(a)' : p.doc # NoDoc => p \in Sight(a) \/ p.doc = doc'
            BY <2>2, <2>4, <3>1, <3>2, <3>3 DEF Grows
      <3>5. \A d : d = doc' => Behind(d)'
        <4>1. DocType(doc')
              BY DocStep DEF DocFits
        <4> QED
              BY <4>1, VersionsAreNat DEF Behind, Listed
      <3> QED
            BY <2>3, <3>2, <3>3, <3>4, <3>5
    <2>5. CASE Sight(a)' = Sight(a) /\ Steady(a) /\ a \notin Hearers \cap whole'
      <3>1. a \notin linked
            BY <2>1, <2>5 DEF Hearers
      <3>2. \A p \in Sight(a) : p.doc = NoDoc
            BY <3>1 DEF Coherent
      <3>3. Ahead(a)' = NoDoc
            BY <2>5, <3>2, AheadIsSeen DEF Steady
      <3> QED
            BY <2>5, <3>2, <3>3
    <2> QED
          BY <2>4, <2>5
  <1> QED
        BY <1>4, <1>5, <1>6, <1>7

\* The notebook itself is sent to a reader.
LEMMA SnapshotCourses ==
    ASSUME DocFits, QueuesFit, Coherent, Following, Telling, Answered,
           doc' = doc, used' = used, linked' = linked, whole' \subseteq whole, whole \subseteq Agent,
           resolving' = resolving, request' = request,
           \A a \in Agent : resolving[a].kind = "event" => Happened(resolving[a].event),
           \A r \in Request : request[r].at = "ok" => Happened(request[r].event),
           \A a \in Agent : \A p \in Sight(a) : \A x \in p.told : Happened(x),
           \A a \in Agent : Steady(a) \/ (Grows(a, Snapshot) /\ a \in Reads \cap linked)
    PROVE  Coherent' /\ Following' /\ Telling' /\ Answered'
  <1>1. /\ \A d, e : Shows(d, e)' <=> Shows(d, e)
        /\ \A d : Behind(d)' <=> Behind(d)
        /\ \A e : Happened(e) => Shows(doc, e)
        BY DEF Shows, Listed, Behind, Happened
  <1>2. ASSUME NEW a \in Agent
        PROVE  \A p \in Sight(a)' :
                  \/ \E q \in Sight(a) : q.doc = p.doc /\ p.told \subseteq q.told
                  \/ /\ p.doc = doc /\ a \in Reads \cap linked
                     /\ \E q \in Sight(a) : p.told \subseteq q.told
        BY DEF Steady, Thinner, Grows, Snapshot, Replayed
  <1>3. Coherent'
        BY <1>2 DEF Coherent, DocFits
  <1>4. Telling'
    <2>1. SUFFICES ASSUME NEW a \in Agent, NEW p \in Sight(a)', p.doc # NoDoc, NEW e \in p.told
                   PROVE  Shows(p.doc, e)'
          BY DEF Telling
    <2>2. CASE \E q \in Sight(a) : q.doc = p.doc /\ p.told \subseteq q.told
          BY <1>1, <2>1, <2>2 DEF Telling
    <2>3. CASE p.doc = doc /\ \E q \in Sight(a) : p.told \subseteq q.told
          BY <1>1, <2>1, <2>3
    <2> QED
          BY <1>2, <2>2, <2>3
  <1>5. Answered'
    <2>1. SUFFICES ASSUME NEW a \in Agent, NEW p \in Sight(a)', p.doc # NoDoc
                   PROVE  /\ (resolving[a].kind = "event" => Shows(p.doc, resolving[a].event))'
                          /\ \A r \in Request : (request[r].at = "ok" /\ request[r].by = a
                                => Shows(p.doc, request[r].event))'
          BY DEF Answered
    <2>2. /\ resolving[a].kind = "event" => Shows(p.doc, resolving[a].event)
          /\ \A r \in Request : request[r].at = "ok" /\ request[r].by = a
                => Shows(p.doc, request[r].event)
      <3>1. CASE \E q \in Sight(a) : q.doc = p.doc
            BY <2>1, <3>1 DEF Answered
      <3>2. CASE p.doc = doc
            BY <1>1, <3>2
      <3> QED
            BY <1>2, <3>1, <3>2
    <2> QED
          BY <2>2 DEF Shows, Listed
  <1>6. Following'
    <2>1. SUFFICES ASSUME NEW a \in Agent, a \in Reads, a \in whole'
                   PROVE  /\ Ahead(a)' # NoDoc => Ahead(a)' = doc'
                          /\ \A p \in Sight(a)' : p.doc # NoDoc => Behind(p.doc)'
          BY DEF Following
    <2>2. /\ Ahead(a) # NoDoc => Ahead(a) = doc
          /\ \A p \in Sight(a) : p.doc # NoDoc => Behind(p.doc)
          BY <2>1 DEF Following
    <2>3. Ahead(a)' # NoDoc => Ahead(a)' = doc'
          BY <2>2 DEF Steady, Grows, Snapshot, Replayed
    <2>4. \A d : d = doc => Behind(d)
          BY BehindItself
    <2> QED
          BY <1>1, <1>2, <2>2, <2>3, <2>4
  <1> QED
        BY <1>3, <1>4, <1>5, <1>6

-----------------------------------------------------------------------------
(***************************************************************************)
(* Frames and queues.                                                      *)
(***************************************************************************)

LEMMA ToldHappened ==
    ASSUME HostFits, AgentsFit
    PROVE  /\ QueuesFit
           /\ \A a \in Agent : \A p \in Sight(a) : \A x \in p.told : Happened(x)
  <1>1. QueuesFit
        BY DEF HostFits, AgentsFit, QueuesFit
  <1>2. ASSUME NEW a \in Agent, NEW p \in Sight(a), NEW x \in p.told PROVE Happened(x)
    <2> DEFINE w == OnWay(a)
    <2>1. IsList(w) /\ Len(w) \in Nat
          BY <1>1, OnWayIsList, IsListOf DEF IsList
    <2>2. PICK i \in 0 .. Len(w) : p.told = Told(w, i)
          BY <2>1, SightOf DEF Sight
    <2>3. PICK k \in 1 .. i : w[k].kind = "event" /\ x = w[k].event
          BY <1>2, <2>2 DEF Told
    <2>4. k \in 1 .. Len(w)
          BY <2>1
    <2>5. w[k] \in ToSet(w)
          BY <2>1, <2>4, IsListOf DEF IsList
    <2>6. ToSet(w) = ToSet(down[a]) \cup ToSet(unsent)
          BY <1>1, ListConcat DEF OnWay, QueuesFit
    <2>7. PICK f : f = w[k]
          OBVIOUS
    <2>8. f \in ToSet(down[a]) => FrameFits(f)
          BY DEF AgentsFit
    <2>9. f \in ToSet(unsent) => Happened(f.event)
          BY DEF HostFits
    <2> QED
          BY <2>3, <2>5, <2>6, <2>7, <2>8, <2>9 DEF FrameFits
  <1> QED
        BY <1>1, <1>2

\* Events that happened still have, and nobody leaves.
Keeps == (\A x : Happened(x) => Happened(x)') /\ linked \subseteq linked'

LEMMA KeptWithDoc ==
    ASSUME doc' = doc, used' = used, linked \subseteq linked'
    PROVE  Keeps /\ (DocFits => DocFits')
  <1>1. \A x : Happened(x) => Happened(x)'
        BY DEF Happened, EventType, AskType, Shows, Listed, OfCell
  <1> QED
        BY <1>1 DEF Keeps, DocFits, Listed

LEMMA FramesKept ==
    ASSUME Keeps
    PROVE  \A f : FrameFits(f) => FrameFits(f)'
  BY DEF Keeps, FrameFits

LEMMA HostKept ==
    ASSUME HostFits, Keeps, open' = open, unsent' = unsent
    PROVE  HostFits'
  BY DEF HostFits, Keeps

LEMMA RequestKept ==
    ASSUME Keeps, NEW r, RequestFits(r), request'[r] = request[r]
    PROVE  RequestFits(r)'
  <1>1. PICK q : q = request[r]
        OBVIOUS
  <1>2. q.at = "ok" /\ Happened(q.event) => Happened(q.event)'
        BY DEF Keeps
  <1>3. q.by \in linked => q.by \in linked'
        BY DEF Keeps
  <1>4. request'[r] = q
        BY <1>1
  <1>5. CASE q = NoRequest
        BY <1>4, <1>5 DEF RequestFits
  <1>6. CASE /\ q.at \in Asking
             /\ q = [at |-> q.at, by |-> q.by, asks |-> q.asks, saw |-> q.saw]
             /\ AskType(q.asks) /\ q.by \in linked
        BY <1>3, <1>4, <1>6 DEF RequestFits
  <1>7. CASE /\ q.at = "ok"
             /\ q = [at |-> "ok", by |-> q.by, asks |-> q.asks, event |-> q.event]
             /\ q.by \in linked /\ Happened(q.event)
    <2>1. Happened(request[r].event)'
          BY <1>2, <1>4, <1>7 DEF Happened, EventType, Shows, Listed
    <2> QED
          BY <1>3, <1>4, <1>7, <2>1 DEF RequestFits
  <1>8. CASE /\ q.at = "refused"
             /\ q = [at |-> "refused", by |-> q.by, asks |-> q.asks]
             /\ q.by \in linked
        BY <1>3, <1>4, <1>8 DEF RequestFits
  <1> QED
        BY <1>1, <1>5, <1>6, <1>7, <1>8 DEF RequestFits

LEMMA RequestsKept ==
    ASSUME RequestsFit, Keeps, request' = request, pending' = pending, applied' \subseteq Request
    PROVE  RequestsFit'
  BY RequestKept DEF RequestsFit

\* The agents, when a frame may have joined their queues.
LEMMA AgentsKept ==
    ASSUME AgentsFit, Keeps, linked' \subseteq Agent, whole' \subseteq Agent,
           up' \in [Agent -> Seq(Request \cup {Get})], \A a \in Agent \ linked' : up'[a] = <<>>,
           DOMAIN down' = Agent, mirror' = mirror, resolving' = resolving,
           NEW f, FrameFits(f)',
           \A a \in Agent : down'[a] = down[a] \/ down'[a] = Append(down[a], f)
    PROVE  AgentsFit'
  <1>1. ASSUME NEW a \in Agent
        PROVE  IsList(down'[a]) /\ \A g \in ToSet(down'[a]) : FrameFits(g)'
    <2>1. IsList(down[a]) /\ \A g \in ToSet(down[a]) : FrameFits(g)'
          BY FramesKept DEF AgentsFit
    <2>2. IsList(Append(down[a], f)) /\ ToSet(Append(down[a], f)) = ToSet(down[a]) \cup {f}
          BY <2>1, ListAppend
    <2> QED
          BY <2>1, <2>2
  <1>2. ASSUME NEW a \in Agent
        PROVE  \/ resolving'[a] = NoFrame
               \/ FrameFits(resolving[a])' /\ resolving'[a].id \in Request
    <2>1. PICK g : g = resolving[a]
          OBVIOUS
    <2>4. g = NoFrame \/ (FrameFits(g) /\ g.id \in Request)
      <3>1. resolving[a] = NoFrame \/ (FrameFits(resolving[a]) /\ resolving[a].id \in Request)
            BY DEF AgentsFit
      <3> QED
            BY <2>1, <3>1
    <2>2. g = NoFrame \/ (FrameFits(g)' /\ g.id \in Request)
          BY <2>4, FramesKept
    <2>3. FrameFits(g)' => FrameFits(resolving[a])'
          BY <2>1 DEF FrameFits, Happened, EventType, Shows, Listed
    <2> QED
          BY <2>1, <2>2, <2>3
  <1> QED
        BY <1>1, <1>2 DEF AgentsFit

LEMMA SendSteps ==
    ASSUME losses \in 0 .. MaxLosses, NEW A, A \subseteq Agent, NEW f, Send(A, f)
    PROVE  /\ losses' \in 0 .. MaxLosses /\ DOMAIN down' = Agent /\ whole' \subseteq whole
           /\ \A a \in Agent : \/ down'[a] = down[a]
                               \/ /\ down'[a] = Append(down[a], f) /\ a \in A
           /\ f.kind # "error" =>
                 \A a \in Agent : \/ /\ down'[a] = Append(down[a], f) /\ a \in A
                                  \/ /\ down'[a] = down[a] /\ a \notin A \cap whole'
  <1>1. PICK missed \in SUBSET A :
           /\ losses + Cardinality(missed) <= MaxLosses
           /\ losses' = losses + Cardinality(missed)
           /\ down' = [a \in Agent |-> IF a \in A \ missed THEN Append(down[a], f) ELSE down[a]]
           /\ whole' = IF f.kind = "error" THEN whole ELSE whole \ missed
        BY DEF Send
  <1>2. Cardinality(missed) \in Nat
        BY <1>1, AgentAssumption, FS_Subset, FS_CardinalityType
  <1>3. losses' \in 0 .. MaxLosses
        BY <1>1, <1>2, CapAssumption
  <1>4. DOMAIN down' = Agent /\ whole' \subseteq whole
        BY <1>1
  <1>5. ASSUME NEW a \in Agent
        PROVE  \/ /\ down'[a] = down[a] /\ a \notin A \ missed
               \/ /\ down'[a] = Append(down[a], f) /\ a \in A
        BY <1>1
  <1>6. f.kind # "error" => whole' \cap missed = {}
        BY <1>1
  <1> QED
        BY <1>3, <1>4, <1>5, <1>6

LEMMA TakenSteps ==
    ASSUME AgentsFit, NEW a \in Agent, up[a] # <<>>, Taken(a)
    PROVE  /\ a \in linked
           /\ up' \in [Agent -> Seq(Request \cup {Get})] /\ \A b \in Agent \ linked : up'[b] = <<>>
           /\ up'[a] = Tail(up[a]) /\ \A b \in Agent \ {a} : up'[b] = up[b]
           /\ Head(up[a]) \in ToSet(up[a]) /\ ToSet(up[a]) = ToSet(up'[a]) \cup {Head(up[a])}
           /\ Head(up[a]) \in Request \cup {Get}
           /\ IsInjective(up[a]) => IsInjective(up'[a]) /\ Head(up[a]) \notin ToSet(up'[a])
  <1>1. /\ up \in [Agent -> Seq(Request \cup {Get})] /\ up[a] \in Seq(Request \cup {Get})
        /\ a \in linked /\ \A b \in Agent \ linked : up[b] = <<>>
        BY DEF AgentsFit
  <1>2. /\ up'[a] = Tail(up[a]) /\ \A b \in Agent \ {a} : up'[b] = up[b]
        /\ up' = [up EXCEPT ![a] = Tail(up[a])]
        BY <1>1 DEF Taken
  <1>3. /\ Head(up[a]) \in Request \cup {Get} /\ Tail(up[a]) \in Seq(Request \cup {Get})
        /\ ToSet(up[a]) = {Head(up[a])} \cup ToSet(Tail(up[a]))
        /\ IsInjective(up[a]) => IsInjective(Tail(up[a])) /\ Head(up[a]) \notin ToSet(Tail(up[a]))
    <2>1. PICK s \in Seq(Request \cup {Get}) : s = up[a]
          BY <1>1
    <2> QED
          BY <2>1, HeadAndTail
  <1>4. up' \in [Agent -> Seq(Request \cup {Get})]
        BY <1>1, <1>2, <1>3
  <1> QED
        BY <1>1, <1>2, <1>3, <1>4

\* What is asked by a request, and who asked it.
LEMMA Requested ==
    ASSUME RequestsFit, NEW r \in Request
    PROVE  /\ request[r].at \in Asking =>
                 /\ request[r] = [at |-> request[r].at, by |-> request[r].by, asks |-> request[r].asks,
                                  saw |-> request[r].saw]
                 /\ AskType(request[r].asks) /\ request[r].by \in linked
           /\ request[r].at = "ok" => request[r].by \in linked /\ Happened(request[r].event)
           /\ r \in pending <=> request[r].at = "sent"
  <1>1. PICK q : q = request[r]
        OBVIOUS
  <1>2. RequestFits(r) /\ (r \in pending <=> q.at = "sent")
        BY <1>1 DEF RequestsFit
  <1>3. \/ q.at = "none"
        \/ /\ q.at \in Asking
           /\ q = [at |-> q.at, by |-> q.by, asks |-> q.asks, saw |-> q.saw]
           /\ AskType(q.asks) /\ q.by \in linked
        \/ q.at = "ok" /\ q.by \in linked /\ Happened(q.event)
        \/ q.at = "refused"
    <2>1. NoRequest.at = "none"
          BY DEF NoRequest
    <2> QED
          BY <1>1, <1>2, <2>1, Zenon DEF RequestFits
  <1>4. /\ q.at \in Asking => /\ q = [at |-> q.at, by |-> q.by, asks |-> q.asks, saw |-> q.saw]
                              /\ AskType(q.asks) /\ q.by \in linked
        /\ q.at = "ok" => q.by \in linked /\ Happened(q.event)
        BY <1>3 DEF Asking
  <1> QED
        BY <1>1, <1>2, <1>4

-----------------------------------------------------------------------------
(***************************************************************************)
(* What was seen, sent and answered.                                       *)
(***************************************************************************)

LEMMA SeenKept ==
    ASSUME DocFits, Seen, whole' \subseteq whole, used \subseteq used',
           \A c \in Listed(doc)' : c \in Listed(doc) \/ c \notin used,
           \A c \in Listed(doc)' \cap Listed(doc) :
              \/ doc'.cell[c] = doc.cell[c]
              \/ doc'.cell[c].version = doc.cell[c].version + 1,
           \A r \in Request : request'[r].at \in Asking =>
              /\ request[r].at \in Asking /\ request'[r].by = request[r].by
              /\ request'[r].asks = request[r].asks /\ request'[r].saw = request[r].saw
    PROVE  Seen'
  <1>1. SUFFICES ASSUME NEW r \in Request, request'[r].at \in Asking, request'[r].by \in Reads,
                        Asked(r)'.op = "update"
                 PROVE  /\ Asked(r)'.cell \in used' /\ Asked(r)'.version \in Nat
                        /\ request'[r].by \in whole' /\ Asked(r)'.cell \in Listed(doc)' =>
                              /\ Asked(r)'.version <= doc'.cell[Asked(r)'.cell].version
                              /\ Asked(r)'.version = doc'.cell[Asked(r)'.cell].version
                                    => Saw(r)' = doc'.cell[Asked(r)'.cell].text
        BY DEF Seen, Listed
  <1>2. /\ request[r].at \in Asking /\ request[r].by = request'[r].by
        /\ Asked(r)' = Asked(r) /\ Saw(r)' = Saw(r)
        BY <1>1 DEF Asked, Saw
  <1> DEFINE c == Asked(r).cell
             v == Asked(r).version
  <1>3. /\ c \in used /\ v \in Nat
        /\ request[r].by \in whole /\ c \in Listed(doc) =>
              /\ v <= doc.cell[c].version
              /\ v = doc.cell[c].version => Saw(r) = doc.cell[c].text
        BY <1>1, <1>2 DEF Seen
  <1> HIDE DEF c, v
  <1>4. SUFFICES ASSUME request[r].by \in whole, c \in Listed(doc)'
                 PROVE  /\ v <= doc'.cell[c].version
                        /\ v = doc'.cell[c].version => Saw(r) = doc'.cell[c].text
        BY <1>1, <1>2, <1>3 DEF c, v
  <1>5. c \in Listed(doc) /\ doc.cell[c].version \in Nat
        BY <1>3, <1>4, VersionsAreNat DEF DocFits
  <1> QED
        BY <1>3, <1>4, <1>5

\* The requests whose answer was not given now.
LEMMA VerdictsKept ==
    ASSUME Verdicts, applied' = applied,
           \A r \in Request : /\ OnItsWay(r)' => OnItsWay(r)
                              /\ Refusing(r)' => Refusing(r)
                              /\ Confirming(r)' => Confirming(r)
                              /\ request'[r].at \in {"none", "ready"} => request[r].at \in {"none", "ready"}
                              /\ request'[r].at = "refused" => request[r].at = "refused" \/ Refusing(r)
                              /\ request'[r].at = "ok" => request[r].at = "ok" \/ Confirming(r)
    PROVE  Verdicts'
  BY DEF Verdicts

LEMMA SendingKept ==
    ASSUME Sending,
           \A a \in Agent : IsInjective(up'[a]) /\ ToSet(up'[a]) \subseteq ToSet(up[a]) \cup {Get},
           \A r \in Request : OnItsWay(r) /\ request[r].at \in {"sent", "timed out"} =>
              request'[r].at \in {"sent", "timed out"} /\ request'[r].by = request[r].by,
           up \in [Agent -> Seq(Request \cup {Get})]
    PROVE  Sending' /\ \A r \in Request : OnItsWay(r)' => OnItsWay(r)
  <1>1. ASSUME NEW r \in Request, OnItsWay(r)' PROVE OnItsWay(r)
        BY <1>1, IdAssumption DEF OnItsWay
  <1>2. ASSUME NEW a \in Agent, NEW r \in ToSet(up'[a]) \ {Get}
        PROVE  request'[r].at \in {"sent", "timed out"} /\ request'[r].by = a
    <2>1. r \in ToSet(up[a]) \ {Get}
          BY <1>2
    <2>2. r \in Request
          BY <2>1, ListOfMembers
    <2>3. OnItsWay(r) /\ request[r].at \in {"sent", "timed out"} /\ request[r].by = a
          BY <2>1 DEF Sending, OnItsWay
    <2> QED
          BY <2>2, <2>3
  <1> QED
        BY <1>1, <1>2 DEF Sending

\* A frame that joined the queues answers its own request at most.
LEMMA OneMoreComing ==
    ASSUME AgentsFit, resolving' = resolving, NEW f,
           \A a \in Agent : down'[a] = down[a] \/ down'[a] = Append(down[a], f)
    PROVE  \A r \in Request :
              /\ Refusing(r)' => Refusing(r) \/ Refused(f, r)
              /\ Confirming(r)' => Confirming(r) \/ Confirmed(f, r)
  <1>1. ASSUME NEW a \in Agent PROVE Coming(a)' \subseteq Coming(a) \cup {f}
    <2>1. ToSet(Append(down[a], f)) = ToSet(down[a]) \cup {f}
          BY ListAppend DEF AgentsFit
    <2> QED
          BY <2>1 DEF Coming
  <1>2. ASSUME NEW r, Refusing(r)' PROVE Refusing(r) \/ Refused(f, r)
        BY <1>1, <1>2 DEF Refusing, Refused
  <1>3. ASSUME NEW r, Confirming(r)' PROVE Confirming(r) \/ Confirmed(f, r)
        BY <1>1, <1>3 DEF Confirming, Confirmed
  <1> QED
        BY <1>2, <1>3

\* A request is taken from its sender's queue, and is in no other.
LEMMA TakenOnce ==
    ASSUME AgentsFit, Sending, NEW a \in Agent, up[a] # <<>>, Taken(a), request' = request
    PROVE  /\ Sending'
           /\ \A r \in Request : OnItsWay(r)' => OnItsWay(r) /\ r # Head(up[a])
           /\ Head(up[a]) \in Request =>
                 /\ OnItsWay(Head(up[a]))
                 /\ request[Head(up[a])].at \in {"sent", "timed out"} /\ request[Head(up[a])].by = a
  <1>1. /\ \A b \in Agent \ {a} : up'[b] = up[b]
        /\ Head(up[a]) \in ToSet(up[a]) /\ ToSet(up[a]) = ToSet(up'[a]) \cup {Head(up[a])}
        /\ IsInjective(up[a]) => IsInjective(up'[a]) /\ Head(up[a]) \notin ToSet(up'[a])
        BY TakenSteps
  <1>2. \A b \in Agent : IsInjective(up[b])
        BY DEF Sending
  <1>3. \A b \in Agent : IsInjective(up'[b]) /\ ToSet(up'[b]) \subseteq ToSet(up[b])
        BY <1>1, <1>2
  <1>4. Sending' /\ \A r \in Request : OnItsWay(r)' => OnItsWay(r)
    <2>1. up \in [Agent -> Seq(Request \cup {Get})]
          BY DEF AgentsFit
    <2> QED
          BY <1>3, <2>1, SendingKept
  <1>5. ASSUME NEW r \in Request, r = Head(up[a])
        PROVE  OnItsWay(r) /\ request[r].at \in {"sent", "timed out"} /\ request[r].by = a /\ ~OnItsWay(r)'
    <2>1. r \in ToSet(up[a]) \ {Get}
          BY <1>1, <1>5, IdAssumption
    <2>2. request[r].at \in {"sent", "timed out"} /\ request[r].by = a
          BY <2>1 DEF Sending
    <2>3. ASSUME NEW b \in Agent PROVE r \notin ToSet(up'[b])
      <3>1. CASE b = a
            BY <1>1, <1>2, <1>5, <3>1
      <3>2. CASE b # a
        <4>1. r \in ToSet(up[b]) \ {Get} => request[r].by = b
              BY DEF Sending
        <4> QED
              BY <1>3, <2>1, <2>2, <3>2, <4>1
      <3> QED
            BY <3>1, <3>2
    <2> QED
          BY <2>1, <2>2, <2>3 DEF OnItsWay
  <1> QED
        BY <1>4, <1>5

\* A request that is answered with an error.
LEMMA VerdictsRefused ==
    ASSUME AgentsFit, Sending, Verdicts, NEW a \in Agent, up[a] # <<>>, Taken(a), request' = request,
           applied' = applied, resolving' = resolving,
           \A b \in Agent : down'[b] = down[b] \/ down'[b] = Append(down[b], ErrorFrame(Head(up[a])))
    PROVE  Sending' /\ Verdicts'
  <1> DEFINE id == Head(up[a])
  <1>1. PICK f : f = ErrorFrame(id)
        OBVIOUS
  <1>2. \A r \in Request : /\ Refusing(r)' => Refusing(r) \/ Refused(f, r)
                           /\ Confirming(r)' => Confirming(r) \/ Confirmed(f, r)
        BY <1>1, OneMoreComing
  <1>3. \A r : (Refused(f, r) <=> r = id) /\ ~Confirmed(f, r)
        BY <1>1 DEF Refused, Confirmed, ErrorFrame
  <1>4. /\ Sending'
        /\ \A r \in Request : OnItsWay(r)' => OnItsWay(r) /\ r # id
        /\ id \in Request => OnItsWay(id) /\ request[id].at \in {"sent", "timed out"}
        BY TakenOnce
  <1> HIDE DEF id
  <1>5. Verdicts'
    <2>1. SUFFICES ASSUME NEW r \in Request
                   PROVE  /\ OnItsWay(r)' => r \notin applied' /\ ~Refusing(r)'
                          /\ Refusing(r)' => r \notin applied'
                          /\ Confirming(r)' => r \in applied'
                          /\ (Refusing(r)' \/ r \in applied') => request'[r].at \notin {"none", "ready"}
                          /\ request'[r].at = "refused" => ~OnItsWay(r)' /\ r \notin applied'
                          /\ request'[r].at = "ok" => r \in applied'
          BY DEF Verdicts
    <2>2. /\ OnItsWay(r) => r \notin applied /\ ~Refusing(r)
          /\ Refusing(r) => r \notin applied
          /\ Confirming(r) => r \in applied
          /\ (Refusing(r) \/ r \in applied) => request[r].at \notin {"none", "ready"}
          /\ request[r].at = "refused" => ~OnItsWay(r) /\ r \notin applied
          /\ request[r].at = "ok" => r \in applied
          BY DEF Verdicts
    <2>3. CASE r = id
          BY <1>2, <1>3, <1>4, <2>2, <2>3
    <2>4. CASE r # id
          BY <1>2, <1>3, <1>4, <2>2, <2>4
    <2> QED
          BY <2>3, <2>4
  <1> QED
        BY <1>4, <1>5

\* One that is carried out.
LEMMA VerdictsAccepted ==
    ASSUME AgentsFit, Sending, Verdicts, NEW a \in Agent, NEW r \in Request, up[a] # <<>>, r = Head(up[a]),
           Taken(a), request' = request, applied' = applied \cup {r}, resolving' = resolving,
           NEW e, \A b \in Agent : down'[b] = down[b] \/ down'[b] = Append(down[b], EventFrame(r, e))
    PROVE  Sending' /\ Verdicts'
  <1>1. PICK f : f = EventFrame(r, e)
        OBVIOUS
  <1>2. \A q \in Request : /\ Refusing(q)' => Refusing(q) \/ Refused(f, q)
                           /\ Confirming(q)' => Confirming(q) \/ Confirmed(f, q)
        BY <1>1, OneMoreComing
  <1>3. \A q : (Confirmed(f, q) <=> q = r) /\ ~Refused(f, q)
        BY <1>1 DEF Refused, Confirmed, EventFrame
  <1>4. /\ Sending'
        /\ \A q \in Request : OnItsWay(q)' => OnItsWay(q) /\ q # r
        /\ OnItsWay(r) /\ request[r].at \in {"sent", "timed out"}
        BY TakenOnce
  <1>5. Verdicts'
    <2>1. SUFFICES ASSUME NEW q \in Request
                   PROVE  /\ OnItsWay(q)' => q \notin applied' /\ ~Refusing(q)'
                          /\ Refusing(q)' => q \notin applied'
                          /\ Confirming(q)' => q \in applied'
                          /\ (Refusing(q)' \/ q \in applied') => request'[q].at \notin {"none", "ready"}
                          /\ request'[q].at = "refused" => ~OnItsWay(q)' /\ q \notin applied'
                          /\ request'[q].at = "ok" => q \in applied'
          BY DEF Verdicts
    <2>2. /\ OnItsWay(q) => q \notin applied /\ ~Refusing(q)
          /\ Refusing(q) => q \notin applied
          /\ Confirming(q) => q \in applied
          /\ (Refusing(q) \/ q \in applied) => request[q].at \notin {"none", "ready"}
          /\ request[q].at = "refused" => ~OnItsWay(q) /\ q \notin applied
          /\ request[q].at = "ok" => q \in applied
          BY DEF Verdicts
    <2>3. CASE q = r
          BY <1>2, <1>3, <1>4, <2>2, <2>3
    <2>4. CASE q # r
          BY <1>2, <1>3, <1>4, <2>2, <2>4
    <2> QED
          BY <2>3, <2>4
  <1> QED
        BY <1>4, <1>5

-----------------------------------------------------------------------------
(***************************************************************************)
(* The steps: first those of the host.                                     *)
(***************************************************************************)

Courses == Coherent /\ Following /\ Telling /\ Answered

\* What the types say of all events that anybody was, or will be, told of.
LEMMA EventsHappened ==
    ASSUME Types
    PROVE  /\ DocFits /\ QueuesFit /\ whole \subseteq Agent /\ linked \subseteq Agent
           /\ \A a \in Agent : resolving[a].kind = "event" => Happened(resolving[a].event)
           /\ \A r \in Request : request[r].at = "ok" => Happened(request[r].event)
           /\ \A a \in Agent : \A p \in Sight(a) : \A x \in p.told : Happened(x)
           /\ \A a \in Agent : up[a] \in Seq(Request \cup {Get})
  <1>1. \A a \in Agent : resolving[a].kind = "event" => Happened(resolving[a].event)
    <2>1. SUFFICES ASSUME NEW a \in Agent, resolving[a].kind = "event" PROVE Happened(resolving[a].event)
          OBVIOUS
    <2>2. resolving[a] # NoFrame
          BY <2>1 DEF NoFrame
    <2>3. FrameFits(resolving[a])
          BY <2>2 DEF Types, AgentsFit
    <2> QED
          BY <2>1, <2>3 DEF FrameFits
  <1>2. \A r \in Request : request[r].at = "ok" => Happened(request[r].event)
        BY Requested DEF Types
  <1> QED
        BY <1>1, <1>2, ToldHappened DEF Types, AgentsFit

LEMMA SeenSteady ==
    ASSUME DocFits, Seen, whole' \subseteq whole, used' = used, doc' = doc,
           \A r \in Request : request'[r].at \in Asking =>
              /\ request[r].at \in Asking /\ request'[r].by = request[r].by
              /\ request'[r].asks = request[r].asks /\ request'[r].saw = request[r].saw
    PROVE  Seen'
  <1>1. \A c \in Listed(doc)' : c \in Listed(doc)
        BY DEF Listed
  <1> QED
        BY <1>1, SeenKept

\* A frame is buffered.
LEMMA HostBuffers ==
    ASSUME HostFits, Keeps, NEW f, f.kind = "event", f.id = NoId, Happened(f.event)',
           ~open, open' = open, Len(unsent) < BufferCap, unsent' = Append(unsent, f)
    PROVE  HostFits'
  <1>1. /\ IsList(unsent') /\ Len(unsent') = Len(unsent) + 1 /\ ToSet(unsent') = ToSet(unsent) \cup {f}
        BY ListAppend DEF HostFits
  <1>2. Len(unsent) \in Nat
        BY IsListOf DEF HostFits, IsList
  <1>3. \A g \in ToSet(unsent) : g.kind = "event" /\ g.id = NoId /\ Happened(g.event)'
        BY DEF HostFits, Keeps
  <1>4. \A g \in ToSet(unsent') : g.kind = "event" /\ g.id = NoId /\ Happened(g.event)'
        BY <1>1, <1>3
  <1>5. Len(unsent') <= BufferCap
        BY <1>1, <1>2, CapAssumption
  <1> QED
        BY <1>1, <1>4, <1>5 DEF HostFits

\* Whoever changes the notebook.
LEMMA ChangeKeeps ==
    ASSUME Types, Courses, Seen, NEW e, Changes(e), NEW f, f.kind = "event", f.event = e,
           f.id \in Request \cup {NoId}, linked' = linked, daemons' = daemons, open' = open,
           up' \in [Agent -> Seq(Request \cup {Get})], \A a \in Agent \ linked : up'[a] = <<>>,
           DOMAIN down' = Agent, whole' \subseteq whole, applied' \subseteq Request,
           \A a \in Agent : down'[a] = down[a] \/ down'[a] = Append(down[a], f),
           \/ unsent' = unsent
           \/ unsent' = Append(unsent, f) /\ ~open /\ Len(unsent) < BufferCap /\ f.id = NoId,
           BoundsFit',
           \A a \in Agent : \/ Grows(a, f)
                            \/ /\ Sight(a)' = Sight(a) /\ Steady(a)
                               /\ a \notin Hearers \cap whole'
    PROVE  Types' /\ Courses' /\ Seen'
  <1>1. DocFits /\ HostFits /\ AgentsFit /\ RequestsFit
        BY DEF Types
  <1>2. Keeps /\ Happened(e)'
        BY <1>1, HappenedStays DEF Keeps
  <1>3. DocFits'
        BY <1>1, DocStep
  <1>4. PICK g : g = f /\ FrameFits(g)'
        BY <1>2 DEF FrameFits
  <1>5. HostFits'
    <2>1. CASE unsent' = unsent
          BY <1>1, <1>2, <2>1, HostKept
    <2>2. CASE unsent' = Append(unsent, f) /\ ~open /\ Len(unsent) < BufferCap /\ f.id = NoId
      <3>1. Happened(f.event)'
            BY <1>2
      <3> QED
            BY <1>1, <1>2, <2>2, <3>1, HostBuffers
    <2> QED
          BY <2>1, <2>2
  <1>6. AgentsFit'
    <2>1. linked' \subseteq Agent /\ whole' \subseteq Agent /\ \A a \in Agent \ linked' : up'[a] = <<>>
          BY <1>1 DEF AgentsFit
    <2>2. mirror' = mirror /\ resolving' = resolving
          BY DEF daemons
    <2> QED
          BY <1>1, <1>2, <1>4, <2>1, <2>2, AgentsKept
  <1>7. RequestsFit'
        BY <1>1, <1>2, RequestsKept DEF daemons
  <1>8. Courses'
        BY EventsHappened, ChangedCourses DEF Courses, daemons
  <1>9. Seen'
        BY <1>1, DocStep, SeenKept DEF daemons
  <1> QED
        BY <1>3, <1>5, <1>6, <1>7, <1>8, <1>9 DEF Types

\* The user's edit is sent, buffered, or lost for all that hear.
LEMMA EditKeeps ==
    ASSUME MInv, NEW m \in BrowserMutations, Edit(m)
    PROVE  MInv'
  <1> DEFINE e == EventOf(m)
             f == EventFrame(NoId, e)
  <1>1. DocFits /\ HostFits /\ AgentsFit /\ BoundsFit /\ QueuesFit /\ Hearers \subseteq Agent
        BY EventsHappened, PermissionAssumption DEF MInv, Types, Hearers
  <1>2. Changes(e)
    <2>1. Possible(e) /\ e.op = m.op /\ (m.op = "add" => e = m)
          BY <1>1, EditPossible
    <2> QED
          BY <2>1 DEF Changes, Edit, Draws
  <1>3. f.kind = "event" /\ f.event = e /\ f.id = NoId
        BY DEF EventFrame
  <1>4. /\ linked' = linked /\ daemons' = daemons /\ open' = open /\ up' = up /\ applied' = applied
        /\ outages' = outages /\ edits' = edits + 1 /\ edits < MaxEdits
        BY DEF Edit
  <1>5. mirror' = mirror /\ resolving' = resolving /\ request' = request
        BY <1>4 DEF daemons
  <1> HIDE DEF e
  <1>6. /\ DOMAIN down' = Agent /\ whole' \subseteq whole /\ losses' \in 0 .. MaxLosses
        /\ \A a \in Agent : down'[a] = down[a] \/ down'[a] = Append(down[a], f)
        /\ \/ unsent' = unsent
           \/ unsent' = Append(unsent, f) /\ ~open /\ Len(unsent) < BufferCap /\ f.id = NoId
        /\ \A a \in Agent : \/ Grows(a, f)
                            \/ /\ Sight(a)' = Sight(a) /\ Steady(a)
                               /\ a \notin Hearers \cap whole'
    <2>1. CASE open /\ Send(Hearers, f) /\ unsent' = unsent
      <3>1. losses \in 0 .. MaxLosses /\ unsent = <<>>
            BY <1>1, <2>1 DEF BoundsFit, HostFits
      <3> HIDE DEF f
      <3>2. /\ losses' \in 0 .. MaxLosses /\ DOMAIN down' = Agent /\ whole' \subseteq whole
            /\ \A a \in Agent : \/ /\ down'[a] = Append(down[a], f) /\ a \in Hearers
                                \/ /\ down'[a] = down[a] /\ a \notin Hearers \cap whole'
            BY <1>1, <1>3, <2>1, <3>1, SendSteps
      <3>3. ASSUME NEW a \in Agent, down'[a] = Append(down[a], f) PROVE Grows(a, f)
            BY <1>1, <1>5, <2>1, <3>1, <3>3, GrownQueue
      <3>4. ASSUME NEW a \in Agent, down'[a] = down[a] PROVE Steady(a) /\ Sight(a)' = Sight(a)
            BY <1>5, <2>1, <3>4, UnmovedQueue
      <3> QED
            BY <2>1, <3>2, <3>3, <3>4
    <2>2. CASE /\ ~open /\ Len(unsent) < BufferCap /\ unsent' = Append(unsent, f)
               /\ down' = down /\ losses' = losses /\ whole' = whole
      <3>1. \A a \in Agent : Grows(a, f)
            BY <1>1, <1>5, <2>2, GrownQueue
      <3> QED
            BY <1>1, <1>3, <2>2, <3>1 DEF AgentsFit, BoundsFit
    <2>3. CASE /\ whole' = whole \ Hearers /\ down' = down /\ losses' = losses /\ unsent' = unsent
      <3>1. \A a \in Agent : Steady(a) /\ Sight(a)' = Sight(a)
            BY <1>5, <2>3, UnmovedQueue
      <3> QED
            BY <1>1, <2>3, <3>1 DEF AgentsFit, BoundsFit
    <2> QED
          BY <2>1, <2>2, <2>3 DEF Edit, e
  <1>7. BoundsFit'
        BY <1>1, <1>4, <1>6, CapAssumption DEF BoundsFit
  <1>8. /\ up' \in [Agent -> Seq(Request \cup {Get})] /\ \A a \in Agent \ linked : up'[a] = <<>>
        /\ applied' \subseteq Request
        BY <1>4 DEF AgentsFit, RequestsFit, MInv, Types
  <1>9. Types' /\ Courses' /\ Seen'
    <2>1. Types /\ Courses /\ Seen
          BY DEF MInv, Courses
    <2>2. f.id \in Request \cup {NoId}
          BY <1>3
    <2> HIDE DEF f
    <2> QED
          BY <1>2, <1>3, <1>4, <1>6, <1>7, <1>8, <2>1, <2>2, ChangeKeeps
  <1>10. Sending' /\ \A r \in Request : OnItsWay(r)' <=> OnItsWay(r)
        BY <1>4, <1>5 DEF Sending, OnItsWay, MInv
  <1>11. Verdicts'
    <2>1. \A r \in Request : /\ Refusing(r)' => Refusing(r) \/ Refused(f, r)
                             /\ Confirming(r)' => Confirming(r) \/ Confirmed(f, r)
          BY <1>1, <1>5, <1>6, OneMoreComing
    <2>2. \A r \in Request : ~Refused(f, r) /\ ~Confirmed(f, r)
          BY <1>3, IdAssumption DEF Refused, Confirmed
    <2> HIDE DEF f
    <2> QED
          BY <1>4, <1>5, <1>10, <2>1, <2>2, VerdictsKept DEF MInv
  <1> QED
        BY <1>9, <1>10, <1>11 DEF MInv, Courses

\* The connection breaks.
LEMMA OutageKeeps ==
    ASSUME MInv, Outage
    PROVE  MInv'
  <1>1. /\ doc' = doc /\ used' = used /\ unsent' = unsent /\ linked' = linked /\ up' = up /\ down' = down
        /\ mirror' = mirror /\ resolving' = resolving /\ request' = request /\ pending' = pending
        /\ edits' = edits /\ losses' = losses /\ whole' = whole /\ applied' = applied
        /\ open /\ open' = FALSE /\ outages' = outages + 1 /\ outages < MaxOutages
        BY DEF Outage, net, daemons, history
  <1>2. DocFits /\ HostFits /\ AgentsFit /\ RequestsFit /\ BoundsFit
        BY DEF MInv, Types
  <1>3. Keeps /\ DocFits'
        BY <1>1, <1>2, KeptWithDoc
  <1>4. HostFits'
        BY <1>1, <1>2, <1>3 DEF HostFits, Keeps
  <1>5. BoundsFit'
        BY <1>1, <1>2, CapAssumption DEF BoundsFit
  <1>6. AgentsFit'
        BY <1>1, <1>2 DEF AgentsFit, FrameFits, Happened, EventType, Shows, Listed
  <1>7. RequestsFit'
        BY <1>1, <1>2, <1>3, RequestsKept DEF RequestsFit
  <1>8. \A a \in Agent : Steady(a)
        BY <1>1, UnmovedQueue
  <1>9. Courses'
        BY <1>1, <1>2, <1>8, SteadyCourses, SteadyAnswers DEF MInv, Courses, AgentsFit
  <1>10. Seen'
        BY <1>1, <1>2, SeenSteady DEF MInv
  <1>11. Sending' /\ Verdicts'
        BY <1>1 DEF MInv, Sending, Verdicts, OnItsWay, Refusing, Confirming, Coming
  <1> QED
        BY <1>3, <1>4, <1>5, <1>6, <1>7, <1>9, <1>10, <1>11 DEF MInv, Types, Courses

\* What was buffered is flushed.
LEMMA ReopenKeeps ==
    ASSUME MInv, Reopen
    PROVE  MInv'
  <1>1. /\ doc' = doc /\ used' = used /\ unsent' = <<>> /\ linked' = linked /\ up' = up
        /\ down' = [a \in Agent |-> IF a \in Hearers THEN down[a] \o unsent ELSE down[a]]
        /\ mirror' = mirror /\ resolving' = resolving /\ request' = request /\ pending' = pending
        /\ edits' = edits /\ losses' = losses /\ outages' = outages /\ whole' = whole
        /\ applied' = applied /\ open' = TRUE
        BY DEF Reopen, SendAll, net, daemons, history, bounds
  <1>2. DocFits /\ HostFits /\ AgentsFit /\ RequestsFit /\ BoundsFit /\ QueuesFit
        BY EventsHappened DEF MInv, Types
  <1>3. Keeps /\ DocFits'
        BY <1>1, <1>2, KeptWithDoc
  <1>4. HostFits'
    <2>1. IsList(<<>>) /\ ToSet(<<>>) = {} /\ Len(<<>>) = 0
          BY DEF IsList, ToSet
    <2> QED
          BY <1>1, <2>1, CapAssumption DEF HostFits
  <1>5. BoundsFit'
        BY <1>1, <1>2 DEF BoundsFit
  <1>6. \A f \in ToSet(unsent) : f.kind = "event" /\ f.id = NoId /\ FrameFits(f)
        BY <1>2 DEF HostFits, FrameFits
  <1>7. ASSUME NEW a \in Agent
        PROVE  IsList(down'[a]) /\ ToSet(down'[a]) \subseteq ToSet(down[a]) \cup ToSet(unsent)
    <2>1. IsList(down[a]) /\ IsList(unsent)
          BY <1>2 DEF QueuesFit
    <2>2. IsList(down[a] \o unsent) /\ ToSet(down[a] \o unsent) = ToSet(down[a]) \cup ToSet(unsent)
          BY <2>1, ListConcat
    <2> QED
          BY <1>1, <2>1, <2>2
  <1>8. AgentsFit'
    <2>1. \A f : FrameFits(f) => FrameFits(f)'
          BY <1>3, FramesKept
    <2>2. ASSUME NEW a \in Agent, NEW f \in ToSet(down'[a]) PROVE FrameFits(f)'
          BY <1>2, <1>6, <1>7, <2>1, <2>2 DEF AgentsFit
    <2>3. ASSUME NEW a \in Agent
          PROVE  resolving'[a] = NoFrame \/ (FrameFits(resolving[a])' /\ resolving'[a].id \in Request)
          BY <1>1, <1>2 DEF AgentsFit, FrameFits, Happened, EventType, Shows, Listed
    <2> QED
          BY <1>1, <1>2, <1>7, <2>2, <2>3 DEF AgentsFit
  <1>9. RequestsFit'
        BY <1>1, <1>2, <1>3, RequestsKept DEF RequestsFit
  <1>10. \A a \in Agent : Steady(a)
        BY <1>1, <1>2, FlushedQueue DEF MInv
  <1>11. Courses'
        BY <1>1, <1>2, <1>10, SteadyCourses, SteadyAnswers DEF MInv, Courses, AgentsFit
  <1>12. Seen'
        BY <1>1, <1>2, SeenSteady DEF MInv
  <1>13. Sending' /\ \A r \in Request : OnItsWay(r)' <=> OnItsWay(r)
        BY <1>1 DEF MInv, Sending, OnItsWay
  <1>14. Verdicts'
    <2>1. \A a \in Agent : Coming(a)' \subseteq Coming(a) \cup ToSet(unsent)
          BY <1>1, <1>7 DEF Coming
    <2>2. \A r \in Request : \A f \in ToSet(unsent) : ~Refused(f, r) /\ ~Confirmed(f, r)
          BY <1>6, IdAssumption DEF Refused, Confirmed
    <2>3. ASSUME NEW r \in Request PROVE (Refusing(r)' => Refusing(r)) /\ (Confirming(r)' => Confirming(r))
      <3>1. ASSUME NEW a \in Agent, NEW f \in Coming(a)', Refused(f, r) PROVE Refusing(r)
            BY <2>1, <2>2, <3>1 DEF Refusing
      <3>2. ASSUME NEW a \in Agent, NEW f \in Coming(a)', Confirmed(f, r) PROVE Confirming(r)
            BY <2>1, <2>2, <3>2 DEF Confirming
      <3> QED
            BY <3>1, <3>2 DEF Refusing, Confirming, Refused, Confirmed
    <2> QED
          BY <1>1, <1>13, <2>3, VerdictsKept DEF MInv
  <1> QED
        BY <1>3, <1>4, <1>5, <1>8, <1>9, <1>11, <1>12, <1>13, <1>14 DEF MInv, Types, Courses

\* What all steps share that take a frame from an agent's queue, and leave the
\* notebook alone: f is what they answer.
LEMMA AnswerKeeps ==
    ASSUME MInv, NEW a \in Agent, up[a] # <<>>, Taken(a), NEW f, FrameFits(f),
           host' = host, linked' = linked, daemons' = daemons, edits' = edits, outages' = outages,
           applied' = applied, losses' \in 0 .. MaxLosses, DOMAIN down' = Agent, whole' \subseteq whole,
           \A b \in Agent : down'[b] = down[b] \/ down'[b] = Append(down[b], f)
    PROVE  Types' /\ Seen' /\ Sending'
  <1>1. /\ doc' = doc /\ used' = used /\ open' = open /\ unsent' = unsent
        /\ mirror' = mirror /\ resolving' = resolving /\ request' = request /\ pending' = pending
        BY DEF host, daemons
  <1>2. DocFits /\ HostFits /\ AgentsFit /\ RequestsFit /\ BoundsFit
        BY DEF MInv, Types
  <1>3. Keeps /\ DocFits'
        BY <1>1, <1>2, KeptWithDoc
  <1>4. HostFits'
        BY <1>1, <1>2, <1>3, HostKept
  <1>5. AgentsFit'
    <2>1. up' \in [Agent -> Seq(Request \cup {Get})] /\ \A b \in Agent \ linked : up'[b] = <<>>
          BY <1>2, TakenSteps
    <2>2. linked' \subseteq Agent /\ whole' \subseteq Agent
          BY <1>2 DEF AgentsFit
    <2>3. FrameFits(f)'
          BY <1>3, FramesKept
    <2> QED
          BY <1>1, <1>2, <1>3, <2>1, <2>2, <2>3, AgentsKept
  <1>6. RequestsFit'
        BY <1>1, <1>2, <1>3, RequestsKept DEF RequestsFit
  <1>7. BoundsFit'
        BY <1>2 DEF BoundsFit
  <1>8. Seen'
        BY <1>1, <1>2, SeenSteady DEF MInv
  <1>9. Sending'
        BY <1>1, <1>2, TakenOnce DEF MInv
  <1> QED
        BY <1>3, <1>4, <1>5, <1>6, <1>7, <1>8, <1>9 DEF Types

\* A query is answered.
LEMMA AnswerGetKeeps ==
    ASSUME MInv, NEW a \in Agent, AnswerGet(a)
    PROVE  MInv'
  <1>1. /\ open /\ up[a] # <<>> /\ Head(up[a]) = Get /\ a \in Reads /\ Taken(a) /\ Send({a}, Snapshot)
        /\ host' = host /\ linked' = linked /\ daemons' = daemons /\ edits' = edits
        /\ outages' = outages /\ applied' = applied
        BY DEF AnswerGet, Arrived, Permitted
  <1>2. /\ doc' = doc /\ used' = used /\ open' = open /\ unsent' = unsent
        /\ mirror' = mirror /\ resolving' = resolving /\ request' = request /\ pending' = pending
        BY <1>1 DEF host, daemons
  <1>3. PICK f : f = Snapshot
        OBVIOUS
  <1>4. f.kind = "notebook" /\ f.id = Get /\ FrameFits(f)
        BY <1>3 DEF Snapshot, FrameFits
  <1>5. /\ losses \in 0 .. MaxLosses /\ {a} \subseteq Agent /\ Send({a}, f) /\ a \in linked
        /\ unsent = <<>> /\ QueuesFit
        BY <1>1, <1>3, TakenSteps, EventsHappened DEF MInv, Types, BoundsFit, HostFits
  <1>6. /\ losses' \in 0 .. MaxLosses /\ DOMAIN down' = Agent /\ whole' \subseteq whole
        /\ \A b \in Agent : down'[b] = down[b] \/ (down'[b] = Append(down[b], f) /\ b \in {a})
        BY <1>5, SendSteps
  <1>7. Types' /\ Seen' /\ Sending'
        BY <1>1, <1>4, <1>6, AnswerKeeps
  <1>8. Courses'
    <2>1. ASSUME NEW b \in Agent PROVE Steady(b) \/ (Grows(b, f) /\ b \in Reads \cap linked)
      <3>1. CASE down'[b] = down[b]
            BY <1>2, <3>1, UnmovedQueue
      <3>2. CASE down'[b] = Append(down[b], f) /\ b = a
            BY <1>1, <1>2, <1>5, <3>2, GrownQueue
      <3> QED
            BY <1>6, <3>1, <3>2
    <2>2. \A b \in Agent : Steady(b) \/ (Grows(b, Snapshot) /\ b \in Reads \cap linked)
          BY <1>3, <2>1
    <2>3. Types
          BY DEF MInv
    <2> QED
          BY <1>1, <1>2, <1>6, <2>2, <2>3, EventsHappened, SnapshotCourses DEF MInv, Courses
  <1>9. Verdicts'
    <2>1. \A r \in Request : /\ Refusing(r)' => Refusing(r) \/ Refused(f, r)
                             /\ Confirming(r)' => Confirming(r) \/ Confirmed(f, r)
          BY <1>2, <1>6, OneMoreComing DEF MInv, Types
    <2>2. \A r \in Request : OnItsWay(r)' => OnItsWay(r)
          BY <1>1, <1>2, TakenOnce DEF MInv, Types
    <2> QED
          BY <1>1, <1>2, <1>4, <2>1, <2>2, VerdictsKept DEF MInv, Refused, Confirmed
  <1> QED
        BY <1>7, <1>8, <1>9 DEF MInv, Courses

\* A request is refused, by the host or by the relay.
LEMMA ErrorKeeps ==
    ASSUME MInv, NEW a \in Agent, up[a] # <<>>, Taken(a), Send({a}, ErrorFrame(Head(up[a]))),
           UNCHANGED <<host, linked, daemons, edits, outages, applied>>
    PROVE  MInv'
  <1>1. /\ doc' = doc /\ used' = used /\ unsent' = unsent /\ mirror' = mirror
        /\ resolving' = resolving /\ request' = request /\ linked' = linked
        BY DEF host, daemons
  <1>2. PICK f : f = ErrorFrame(Head(up[a]))
        OBVIOUS
  <1>3. f.kind = "error" /\ FrameFits(f)
    <2>1. Head(up[a]) \in Request \cup {Get}
          BY TakenSteps DEF MInv, Types
    <2> QED
          BY <1>2, <2>1 DEF ErrorFrame, FrameFits
  <1>4. /\ losses \in 0 .. MaxLosses /\ {a} \subseteq Agent /\ Send({a}, f) /\ QueuesFit
        BY <1>2, EventsHappened DEF MInv, Types, BoundsFit
  <1>5. /\ losses' \in 0 .. MaxLosses /\ DOMAIN down' = Agent /\ whole' \subseteq whole
        /\ \A b \in Agent : down'[b] = down[b] \/ down'[b] = Append(down[b], f)
        BY <1>4, SendSteps
  <1>6. Types' /\ Seen' /\ Sending'
        BY <1>3, <1>5, AnswerKeeps
  <1>7. \A b \in Agent : Steady(b)
        BY <1>1, <1>3, <1>4, <1>5, UnmovedQueue, PassedQueue
  <1>8. Courses'
        BY <1>1, <1>5, <1>7, EventsHappened, SteadyCourses, SteadyAnswers DEF MInv, Courses
  <1>9. Verdicts'
        BY <1>1, <1>2, <1>5, VerdictsRefused DEF MInv, Types
  <1> QED
        BY <1>6, <1>8, <1>9 DEF MInv, Courses

\* It is lost.
LEMMA DropKeeps ==
    ASSUME MInv, NEW a \in Agent, Drop(a)
    PROVE  MInv'
  <1>1. /\ up[a] # <<>> /\ Taken(a) /\ host' = host /\ linked' = linked /\ daemons' = daemons
        /\ edits' = edits /\ outages' = outages /\ applied' = applied /\ down' = down
        /\ losses < MaxLosses /\ losses' = losses + 1 /\ whole' \subseteq whole
        BY DEF Drop
  <1>2. /\ doc' = doc /\ used' = used /\ unsent' = unsent /\ mirror' = mirror
        /\ resolving' = resolving /\ request' = request
        BY <1>1 DEF host, daemons
  <1>3. losses' \in 0 .. MaxLosses /\ DOMAIN down' = Agent
        BY <1>1, CapAssumption DEF MInv, Types, BoundsFit, AgentsFit
  <1>4. Types' /\ Seen' /\ Sending'
    <2>1. FrameFits(Snapshot)
          BY DEF Snapshot, FrameFits
    <2>2. PICK f : f = Snapshot /\ FrameFits(f)
          BY <2>1
    <2> QED
          BY <1>1, <1>3, <2>2, AnswerKeeps
  <1>5. \A b \in Agent : Steady(b)
        BY <1>1, <1>2, UnmovedQueue
  <1>6. Courses'
        BY <1>1, <1>2, <1>5, EventsHappened, SteadyCourses, SteadyAnswers DEF MInv, Courses
  <1>7. Verdicts'
    <2>1. \A r \in Request : OnItsWay(r)' => OnItsWay(r)
          BY <1>1, <1>2, TakenOnce DEF MInv, Types
    <2> QED
          BY <1>1, <1>2, <2>1, VerdictsKept DEF MInv, Refusing, Confirming, Coming
  <1> QED
        BY <1>4, <1>6, <1>7 DEF MInv, Courses

\* A request is carried out.
LEMMA AcceptChanges ==
    ASSUME Types, Sending, NEW a \in Agent, NEW r \in Request, NEW c \in Cell, Accept(a, r, c),
           NEW q, q = request[r].asks, NEW e, e = EventOf(Resolved(q, c))
    PROVE  /\ AskType(q) /\ Changes(e) /\ Resolved(q, c).op = q.op
           /\ q.op = "update" => /\ q.cell \in Listed(doc) /\ q.version = doc.cell[q.cell].version
                                 /\ Resolved(q, c) = q
  <1> DEFINE m == Resolved(q, c)
  <1>1. /\ m.op = "add" => c \notin used
        /\ Acceptable(m) /\ doc' = Applied(doc, e) /\ Draws(m)
        BY DEF Accept
  <1>2. AskType(q)
    <2>1. up[a] # <<>> /\ r = Head(up[a])
          BY DEF Accept, Arrived
    <2>2. r \in ToSet(up[a]) \ {Get}
      <3>1. up[a] \in Seq(Request \cup {Get})
            BY DEF Types, AgentsFit
      <3> QED
            BY <2>1, <3>1, HeadAndTail, IdAssumption
    <2>3. request[r].at \in {"sent", "timed out"}
          BY <2>2 DEF Sending
    <2>4. PICK y : y = request[r]
          OBVIOUS
    <2>5. y.at \in Asking => AskType(y.asks)
          BY <2>4, Requested DEF Types
    <2>6. y.at \in Asking /\ y.asks = q
          BY <2>3, <2>4 DEF Asking
    <2> QED
          BY <2>5, <2>6
  <1>3. DocFits
        BY DEF Types
  <1>4. /\ Possible(e) /\ e.op = m.op /\ m.op = q.op
        /\ m.op = "add" => e = m
        /\ m.op = "update" => m = q
        BY <1>1, <1>2, <1>3, AcceptPossible
  <1>5. Changes(e)
        BY <1>1, <1>4 DEF Changes, Draws
  <1>6. m.op = "update" => m.cell \in Listed(doc) /\ m.version = doc.cell[m.cell].version
        BY <1>1 DEF Acceptable, CurrentVersion
  <1> QED
        BY <1>2, <1>4, <1>5, <1>6

LEMMA AcceptKeeps ==
    ASSUME MInv, NEW a \in Agent, NEW r \in Request, NEW c \in Cell, Accept(a, r, c)
    PROVE  MInv'
  <1>1. PICK q, e : q = request[r].asks /\ e = EventOf(Resolved(q, c))
        OBVIOUS
  <1>2. PICK f : f = EventFrame(r, e)
        OBVIOUS
  <1>3. f.kind = "event" /\ f.event = e /\ f.id = r
        BY <1>2 DEF EventFrame
  <1>4. /\ open /\ up[a] # <<>> /\ r = Head(up[a]) /\ Taken(a) /\ Send(Hearers \cup {a}, f)
        /\ applied' = applied \cup {r} /\ open' = open /\ unsent' = unsent /\ linked' = linked
        /\ daemons' = daemons /\ edits' = edits /\ outages' = outages
        BY <1>1, <1>2 DEF Accept, Arrived
  <1>5. mirror' = mirror /\ resolving' = resolving /\ request' = request
        BY <1>4 DEF daemons
  <1>6. Changes(e)
        BY <1>1, AcceptChanges DEF MInv
  <1>7. /\ losses \in 0 .. MaxLosses /\ Hearers \cup {a} \subseteq Agent /\ unsent = <<>> /\ QueuesFit
        /\ Types
        BY <1>4, EventsHappened, PermissionAssumption DEF MInv, Types, BoundsFit, HostFits, Hearers
  <1>8. /\ losses' \in 0 .. MaxLosses /\ DOMAIN down' = Agent /\ whole' \subseteq whole
        /\ \A b \in Agent : \/ down'[b] = Append(down[b], f)
                            \/ down'[b] = down[b] /\ b \notin Hearers \cap whole'
    <2> DEFINE A == Hearers \cup {a}
    <2>1. /\ losses' \in 0 .. MaxLosses /\ DOMAIN down' = Agent /\ whole' \subseteq whole
          /\ \A b \in Agent : \/ down'[b] = Append(down[b], f) /\ b \in A
                              \/ down'[b] = down[b] /\ b \notin A \cap whole'
      <3>1. A \subseteq Agent /\ Send(A, f) /\ f.kind # "error"
            BY <1>3, <1>4, <1>7
      <3> HIDE DEF A
      <3> QED
            BY <1>7, <3>1, SendSteps
    <2> QED
          BY <2>1
  <1>9. \A b \in Agent : \/ Grows(b, f)
                         \/ /\ Sight(b)' = Sight(b) /\ Steady(b)
                            /\ b \notin Hearers \cap whole'
    <2>1. ASSUME NEW b \in Agent, down'[b] = Append(down[b], f) PROVE Grows(b, f)
          BY <1>4, <1>5, <1>7, <2>1, GrownQueue
    <2>2. ASSUME NEW b \in Agent, down'[b] = down[b] PROVE Steady(b) /\ Sight(b)' = Sight(b)
          BY <1>4, <1>5, <2>2, UnmovedQueue
    <2> QED
          BY <1>8, <2>1, <2>2
  <1>10. Types' /\ Courses' /\ Seen'
    <2>1. /\ up' \in [Agent -> Seq(Request \cup {Get})] /\ \A b \in Agent \ linked : up'[b] = <<>>
          /\ applied' \subseteq Request
          BY <1>4, <1>7, TakenSteps DEF Types, RequestsFit
    <2>2. BoundsFit'
          BY <1>4, <1>7, <1>8 DEF Types, BoundsFit
    <2>3. Courses /\ Seen
          BY DEF MInv, Courses
    <2>4. f.id \in Request \cup {NoId}
          BY <1>3
    <2>5. \A b \in Agent : down'[b] = down[b] \/ down'[b] = Append(down[b], f)
          BY <1>8
    <2> QED
          BY <1>3, <1>4, <1>6, <1>7, <1>8, <1>9, <2>1, <2>2, <2>3, <2>4, <2>5, ChangeKeeps
  <1>11. Sending' /\ Verdicts'
    <2>1. \A b \in Agent : down'[b] = down[b] \/ down'[b] = Append(down[b], EventFrame(r, e))
          BY <1>2, <1>8
    <2> QED
          BY <1>4, <1>5, <1>7, <2>1, VerdictsAccepted DEF MInv, Types
  <1> QED
        BY <1>10, <1>11 DEF MInv, Courses

-----------------------------------------------------------------------------
(***************************************************************************)
(* The steps of the agents and their daemons.                              *)
(***************************************************************************)

\* A daemon connects and asks for the notebook.
LEMMA ConnectKeeps ==
    ASSUME MInv, NEW a \in Agent, Connect(a)
    PROVE  MInv'
  <1>1. /\ a \notin linked /\ linked' = linked \cup {a} /\ up' = [up EXCEPT ![a] = <<Get>>]
        /\ doc' = doc /\ used' = used /\ open' = open /\ unsent' = unsent /\ down' = down
        /\ mirror' = mirror /\ resolving' = resolving /\ request' = request /\ pending' = pending
        /\ edits' = edits /\ losses' = losses /\ outages' = outages /\ whole' = whole /\ applied' = applied
        BY DEF Connect, host, daemons, bounds, history
  <1>2. DocFits /\ HostFits /\ AgentsFit /\ RequestsFit /\ BoundsFit
        BY DEF MInv, Types
  <1>3. Keeps /\ DocFits'
        BY <1>1, <1>2, KeptWithDoc
  <1>4. HostFits'
        BY <1>1, <1>2, <1>3, HostKept
  <1>5. /\ <<Get>> \in Seq(Request \cup {Get}) /\ ToSet(<<Get>>) = {Get} /\ IsInjective(<<Get>>)
        BY DEF ToSet, IsInjective
  <1>6. /\ up \in [Agent -> Seq(Request \cup {Get})] /\ up' \in [Agent -> Seq(Request \cup {Get})]
        /\ up'[a] = <<Get>> /\ \A b \in Agent \ {a} : up'[b] = up[b]
    <2>1. up \in [Agent -> Seq(Request \cup {Get})]
          BY <1>2 DEF AgentsFit
    <2> QED
          BY <1>1, <1>5, <2>1
  <1>7. AgentsFit'
    <2>1. linked' \subseteq Agent /\ whole' \subseteq Agent /\ DOMAIN down' = Agent
          BY <1>1, <1>2 DEF AgentsFit
    <2>2. \A b \in Agent \ linked' : up'[b] = <<>>
          BY <1>1, <1>2, <1>6 DEF AgentsFit
    <2>3. PICK f : f = Snapshot
          OBVIOUS
    <2>4. FrameFits(f)'
          BY <2>3 DEF FrameFits, Snapshot
    <2> QED
          BY <1>1, <1>2, <1>3, <1>6, <2>1, <2>2, <2>4, AgentsKept
  <1>8. RequestsFit' /\ BoundsFit'
        BY <1>1, <1>2, <1>3, RequestsKept DEF RequestsFit, BoundsFit
  <1>9. \A b \in Agent : Steady(b)
        BY <1>1, UnmovedQueue
  <1>10. Courses'
        BY <1>1, <1>2, <1>9, SteadyCourses, SteadyAnswers DEF MInv, Courses, AgentsFit
  <1>11. Seen'
        BY <1>1, <1>2, SeenSteady DEF MInv
  <1>12. Sending' /\ \A r \in Request : OnItsWay(r)' => OnItsWay(r)
    <2>1. \A b \in Agent : IsInjective(up'[b]) /\ ToSet(up'[b]) \subseteq ToSet(up[b]) \cup {Get}
          BY <1>5, <1>6 DEF MInv, Sending
    <2> QED
          BY <1>1, <1>6, <2>1, SendingKept DEF MInv
  <1>13. Verdicts'
        BY <1>1, <1>12, VerdictsKept DEF MInv, Refusing, Confirming, Coming
  <1> QED
        BY <1>3, <1>4, <1>7, <1>8, <1>10, <1>11, <1>12, <1>13 DEF MInv, Types, Courses

\* A daemon reads a frame: what it brings was on its way before.
LEMMA ReceiveKeeps ==
    ASSUME MInv, NEW a \in Agent, Receive(a)
    PROVE  MInv'
  <1> DEFINE f == Head(down[a])
  <1>1. /\ down[a] # <<>> /\ resolving[a] = NoFrame
        /\ mirror' = [mirror EXCEPT ![a] = Replayed(@, f)]
        /\ resolving' = [resolving EXCEPT ![a] = IF f.id \in Request THEN f ELSE NoFrame]
        /\ down' = [down EXCEPT ![a] = Tail(@)]
        /\ doc' = doc /\ used' = used /\ open' = open /\ unsent' = unsent /\ linked' = linked /\ up' = up
        /\ request' = request /\ pending' = pending
        /\ edits' = edits /\ losses' = losses /\ outages' = outages /\ whole' = whole /\ applied' = applied
        BY DEF Receive, host, bounds, history
  <1>2. DocFits /\ HostFits /\ AgentsFit /\ RequestsFit /\ BoundsFit /\ QueuesFit
        BY EventsHappened DEF MInv, Types
  <1>3. Keeps /\ DocFits'
        BY <1>1, <1>2, KeptWithDoc
  <1>4. HostFits'
        BY <1>1, <1>2, <1>3, HostKept
  <1>5. /\ DOMAIN down' = Agent /\ DOMAIN mirror' = Agent /\ DOMAIN resolving' = Agent
        /\ down'[a] = Tail(down[a]) /\ mirror'[a] = Replayed(mirror[a], f)
        /\ resolving'[a] = (IF f.id \in Request THEN f ELSE NoFrame)
        /\ \A b \in Agent \ {a} : down'[b] = down[b] /\ mirror'[b] = mirror[b] /\ resolving'[b] = resolving[b]
        BY <1>1, <1>2 DEF AgentsFit
  <1>6. IsList(Tail(down[a])) /\ ToSet(Tail(down[a])) \subseteq ToSet(down[a]) /\ f \in ToSet(down[a])
    <2>1. IsList(down[a]) /\ down[a] \in Seq(ToSet(down[a]))
          BY <1>2 DEF QueuesFit, IsList
    <2>2. IsList(Tail(down[a])) /\ f \in ToSet(down[a])
          BY <1>1, <2>1, ListTail
    <2>3. ToSet(down[a]) = {f} \cup ToSet(Tail(down[a]))
          BY <1>1, <2>1, HeadAndTail
    <2> QED
          BY <2>2, <2>3
  <1> HIDE DEF f
  <1>7. AgentsFit'
    <2>1. \A g : FrameFits(g) => FrameFits(g)'
          BY <1>3, FramesKept
    <2>2. ASSUME NEW b \in Agent PROVE IsList(down'[b]) /\ \A g \in ToSet(down'[b]) : FrameFits(g)'
          BY <1>2, <1>5, <1>6, <2>1 DEF AgentsFit
    <2>3. ASSUME NEW b \in Agent
          PROVE  resolving'[b] = NoFrame \/ (FrameFits(resolving[b])' /\ resolving'[b].id \in Request)
      <3>1. PICK g : g = resolving'[b]
            OBVIOUS
      <3>2. g = NoFrame \/ (FrameFits(g) /\ g.id \in Request)
        <4>1. FrameFits(f)
              BY <1>2, <1>6 DEF AgentsFit
        <4>2. PICK h : h = resolving[b]
              OBVIOUS
        <4>3. h = NoFrame \/ (FrameFits(h) /\ h.id \in Request)
              BY <1>2, <4>2 DEF AgentsFit, FrameFits
        <4>4. b # a => g = h
              BY <1>5, <3>1, <4>2
        <4>5. b = a => g = NoFrame \/ (g = f /\ f.id \in Request)
              BY <1>5, <3>1
        <4>6. g = f => FrameFits(g)
              BY <4>1 DEF FrameFits
        <4> QED
              BY <4>3, <4>4, <4>5, <4>6
      <3>3. g = NoFrame \/ (FrameFits(g)' /\ g.id \in Request)
            BY <2>1, <3>2
      <3> QED
            BY <3>1, <3>3 DEF FrameFits, Happened, EventType, Shows, Listed
    <2> QED
          BY <1>1, <1>2, <1>5, <2>2, <2>3 DEF AgentsFit
  <1>8. RequestsFit' /\ BoundsFit'
        BY <1>1, <1>2, <1>3, RequestsKept DEF RequestsFit, BoundsFit
  <1>9. /\ Steady(a)
        /\ f.kind = "event" => \A p \in Sight(a)' : \E q \in Sight(a) : q.doc = p.doc /\ f.event \in q.told
        BY <1>1, <1>2, <1>5, ReadQueue DEF f
  <1>10. \A b \in Agent : Steady(b)
    <2>1. \A b \in Agent \ {a} : Steady(b)
          BY <1>1, <1>5, UnmovedQueue
    <2> QED
          BY <1>9, <2>1
  <1>11. Coherent' /\ Following' /\ Telling'
        BY <1>1, <1>2, <1>10, SteadyCourses DEF MInv, AgentsFit
  <1>12. Answered'
    <2>1. SUFFICES ASSUME NEW b \in Agent, NEW p \in Sight(b)', p.doc # NoDoc
                   PROVE  /\ (resolving[b].kind = "event" => Shows(p.doc, resolving[b].event))'
                          /\ \A r \in Request : (request[r].at = "ok" /\ request[r].by = b
                                => Shows(p.doc, request[r].event))'
          BY DEF Answered
    <2>2. PICK q \in Sight(b) : q.doc = p.doc
          BY <1>10, <2>1 DEF Steady, Thinner
    <2>3. /\ resolving[b].kind = "event" => Shows(p.doc, resolving[b].event)
          /\ \A r \in Request : request[r].at = "ok" /\ request[r].by = b => Shows(p.doc, request[r].event)
          BY <2>1, <2>2 DEF MInv, Answered
    <2>4. \A r \in Request : (request[r].at = "ok" /\ request[r].by = b => Shows(p.doc, request[r].event))'
          BY <1>1, <2>3 DEF Shows, Listed
    <2>5. resolving'[b].kind = "event" => Shows(p.doc, resolving'[b].event)
      <3>1. CASE b # a
            BY <1>5, <2>3, <3>1
      <3>2. CASE b = a /\ f.id \in Request /\ f.kind = "event"
        <4>1. PICK s \in Sight(a) : s.doc = p.doc /\ f.event \in s.told
              BY <1>9, <2>1, <3>2
        <4>2. Shows(p.doc, f.event)
              BY <2>1, <4>1 DEF MInv, Telling
        <4>3. resolving'[b] = f
              BY <1>5, <3>2
        <4> QED
              BY <4>2, <4>3
      <3>3. CASE b = a /\ ~(f.id \in Request /\ f.kind = "event")
            BY <1>5, <3>3 DEF NoFrame
      <3> QED
            BY <3>1, <3>2, <3>3
    <2>6. (resolving[b].kind = "event" => Shows(p.doc, resolving[b].event))'
          BY <1>1, <2>5 DEF Shows, Listed
    <2> QED
          BY <2>4, <2>6
  <1>13. Seen'
        BY <1>1, <1>2, SeenSteady DEF MInv
  <1>14. Sending' /\ Verdicts'
    <2>1. Sending' /\ \A r \in Request : OnItsWay(r)' <=> OnItsWay(r)
          BY <1>1 DEF MInv, Sending, OnItsWay
    <2>2. \A b \in Agent : Coming(b)' \subseteq Coming(b) \cup {NoFrame}
          BY <1>5, <1>6 DEF Coming
    <2>3. \A r : ~Refused(NoFrame, r) /\ ~Confirmed(NoFrame, r)
          BY DEF NoFrame, Refused, Confirmed
    <2>4. ASSUME NEW r \in Request PROVE (Refusing(r)' => Refusing(r)) /\ (Confirming(r)' => Confirming(r))
      <3>1. ASSUME NEW b \in Agent, NEW g \in Coming(b)', Refused(g, r) PROVE Refusing(r)
            BY <2>2, <2>3, <3>1 DEF Refusing
      <3>2. ASSUME NEW b \in Agent, NEW g \in Coming(b)', Confirmed(g, r) PROVE Confirming(r)
            BY <2>2, <2>3, <3>2 DEF Confirming
      <3> QED
            BY <3>1, <3>2 DEF Refusing, Confirming, Refused, Confirmed
    <2> QED
          BY <1>1, <2>1, <2>4, VerdictsKept DEF MInv
  <1> QED
        BY <1>3, <1>4, <1>7, <1>8, <1>11, <1>12, <1>13, <1>14 DEF MInv, Types

\* The answer is handed over, if somebody waits for it.
LEMMA ResolveKeeps ==
    ASSUME MInv, NEW a \in Agent, Resolve(a)
    PROVE  MInv'
  <1>1. PICK f : f = resolving[a]
        OBVIOUS
  <1>2. PICK mine \in BOOLEAN : mine <=> (f.id \in pending /\ request[f.id].by = a)
        BY Zenon
  <1>3. /\ f # NoFrame /\ resolving' = [resolving EXCEPT ![a] = NoFrame]
        /\ pending' = IF mine THEN pending \ {f.id} ELSE pending
        /\ request' = IF ~mine THEN request
                      ELSE [request EXCEPT ![f.id] =
                               IF f.kind = "event"
                               THEN [at |-> "ok", by |-> a, asks |-> @.asks, event |-> f.event]
                               ELSE [at |-> "refused", by |-> a, asks |-> @.asks]]
        /\ doc' = doc /\ used' = used /\ open' = open /\ unsent' = unsent /\ linked' = linked /\ up' = up
        /\ down' = down /\ mirror' = mirror
        /\ edits' = edits /\ losses' = losses /\ outages' = outages /\ whole' = whole /\ applied' = applied
        BY <1>1, <1>2 DEF Resolve, Unresolved, host, net, bounds, history
  <1>4. DocFits /\ HostFits /\ AgentsFit /\ RequestsFit /\ BoundsFit /\ QueuesFit
        BY EventsHappened DEF MInv, Types
  <1>5. Keeps /\ DocFits'
        BY <1>3, <1>4, KeptWithDoc
  <1>6. HostFits' /\ BoundsFit'
        BY <1>3, <1>4, <1>5, HostKept DEF BoundsFit
  <1>7. /\ f.id \in Request /\ f.kind \in {"event", "error"} /\ (f.kind = "event" => Happened(f.event))
        /\ DOMAIN resolving' = Agent /\ resolving'[a] = NoFrame
        /\ \A b \in Agent \ {a} : resolving'[b] = resolving[b]
    <2>1. resolving[a] = NoFrame \/ (FrameFits(resolving[a]) /\ resolving[a].id \in Request)
          BY <1>4 DEF AgentsFit
    <2>2. FrameFits(f) /\ f.id \in Request
          BY <1>1, <1>3, <2>1
    <2> QED
          BY <1>3, <1>4, <2>2, IdAssumption DEF FrameFits, AgentsFit
  <1>8. mine => /\ request[f.id].at = "sent" /\ request[f.id].by = a /\ a \in linked
                /\ request'[f.id].by = a
                /\ f.kind = "event" => /\ request'[f.id] = [at |-> "ok", by |-> a,
                                               asks |-> request'[f.id].asks, event |-> f.event]
                                       /\ request'[f.id].at = "ok" /\ request'[f.id].event = f.event
                /\ f.kind = "error" => /\ request'[f.id] = [at |-> "refused", by |-> a,
                                               asks |-> request'[f.id].asks]
                                       /\ request'[f.id].at = "refused"
    <2>1. DOMAIN request = Request
          BY <1>4 DEF RequestsFit
    <2>2. mine => request[f.id].at = "sent" /\ request[f.id].by = a /\ a \in linked
          BY <1>2, <1>4, <1>7, Requested DEF Asking
    <2>3. mine => request'[f.id] = IF f.kind = "event"
                     THEN [at |-> "ok", by |-> a, asks |-> request[f.id].asks, event |-> f.event]
                     ELSE [at |-> "refused", by |-> a, asks |-> request[f.id].asks]
          BY <1>3, <1>7, <2>1
    <2> QED
          BY <2>2, <2>3
  <1>9. /\ DOMAIN request' = Request
        /\ \A r \in Request : ~mine \/ r # f.id => request'[r] = request[r]
        BY <1>3, <1>4 DEF RequestsFit
  <1>10. RequestsFit'
    <2>1. ASSUME NEW r \in Request PROVE RequestFits(r)'
      <3>1. CASE mine /\ r = f.id
        <4>1. PICK q : q = request'[r]
              OBVIOUS
        <4>2. \/ q = [at |-> "ok", by |-> q.by, asks |-> q.asks, event |-> f.event] /\ f.kind = "event"
              \/ q = [at |-> "refused", by |-> q.by, asks |-> q.asks]
              BY <1>7, <1>8, <3>1, <4>1
        <4>3. q.by \in linked'
              BY <1>3, <1>8, <3>1, <4>1
        <4>4. f.kind = "event" => Happened(f.event)'
              BY <1>5, <1>7 DEF Keeps
        <4>5. CASE q = [at |-> "refused", by |-> q.by, asks |-> q.asks]
              BY <4>1, <4>3, <4>5 DEF RequestFits
        <4>6. CASE q = [at |-> "ok", by |-> q.by, asks |-> q.asks, event |-> f.event] /\ f.kind = "event"
          <5>1. q.event = f.event /\ q.at = "ok"
                BY <4>6
          <5>2. Happened(request[r].event)'
                BY <4>1, <4>4, <4>6, <5>1 DEF Happened, EventType, Shows, Listed
          <5>3. q = [at |-> "ok", by |-> q.by, asks |-> q.asks, event |-> q.event]
                BY <4>6, <5>1
          <5> QED
                BY <4>1, <4>3, <5>1, <5>2, <5>3 DEF RequestFits
        <4> QED
              BY <4>2, <4>5, <4>6
      <3>2. CASE ~(mine /\ r = f.id)
        <4>1. RequestFits(r) /\ request'[r] = request[r]
              BY <1>4, <1>9, <3>2 DEF RequestsFit
        <4> QED
              BY <1>5, <4>1, RequestKept
      <3> QED
            BY <3>1, <3>2
    <2>2. pending' = {r \in Request : request'[r].at = "sent"}
      <3>1. pending = {r \in Request : request[r].at = "sent"}
            BY <1>4 DEF RequestsFit
      <3>2. CASE mine
            BY <1>3, <1>7, <1>8, <1>9, <3>1, <3>2
      <3>3. CASE ~mine
            BY <1>3, <3>1, <3>3
      <3> QED
            BY <3>2, <3>3
    <2> QED
          BY <1>3, <1>4, <1>9, <2>1, <2>2 DEF RequestsFit
  <1>11. AgentsFit'
    <2>1. ASSUME NEW b \in Agent PROVE IsList(down'[b]) /\ \A g \in ToSet(down'[b]) : FrameFits(g)'
          BY <1>3, <1>4, <1>5, FramesKept DEF AgentsFit
    <2>2. ASSUME NEW b \in Agent
          PROVE  resolving'[b] = NoFrame \/ (FrameFits(resolving[b])' /\ resolving'[b].id \in Request)
      <3>1. PICK g : g = resolving'[b]
            OBVIOUS
      <3>2. g = NoFrame \/ (FrameFits(g) /\ g.id \in Request)
        <4>1. PICK h : h = resolving[b]
              OBVIOUS
        <4>2. h = NoFrame \/ (FrameFits(h) /\ h.id \in Request)
              BY <1>4, <4>1 DEF AgentsFit, FrameFits
        <4> QED
              BY <1>7, <3>1, <4>1, <4>2
      <3>3. g = NoFrame \/ (FrameFits(g)' /\ g.id \in Request)
            BY <1>5, <3>2, FramesKept
      <3> QED
            BY <3>1, <3>3 DEF FrameFits, Happened, EventType, Shows, Listed
    <2> QED
          BY <1>3, <1>4, <1>7, <2>1, <2>2 DEF AgentsFit
  <1>12. \A b \in Agent : Steady(b) /\ Sight(b)' = Sight(b)
        BY <1>3, UnmovedQueue
  <1>13. Coherent' /\ Following' /\ Telling'
        BY <1>3, <1>4, <1>12, SteadyCourses DEF MInv, AgentsFit
  <1>14. Answered'
    <2>1. SUFFICES ASSUME NEW b \in Agent, NEW p \in Sight(b), p.doc # NoDoc
                   PROVE  /\ (resolving[b].kind = "event" => Shows(p.doc, resolving[b].event))'
                          /\ \A r \in Request : (request[r].at = "ok" /\ request[r].by = b
                                => Shows(p.doc, request[r].event))'
          BY <1>12 DEF Answered
    <2>2. /\ resolving[b].kind = "event" => Shows(p.doc, resolving[b].event)
          /\ \A r \in Request : request[r].at = "ok" /\ request[r].by = b => Shows(p.doc, request[r].event)
          BY <2>1 DEF MInv, Answered
    <2>3. resolving'[b].kind = "event" => Shows(p.doc, resolving'[b].event)
          BY <1>7, <2>2 DEF NoFrame
    <2>4. ASSUME NEW r \in Request, request'[r].at = "ok", request'[r].by = b
          PROVE  Shows(p.doc, request'[r].event)
      <3>1. CASE mine /\ r = f.id
        <4>1. f.kind = "event" /\ request'[r].event = f.event /\ b = a
              BY <1>7, <1>8, <2>4, <3>1
        <4>2. Shows(p.doc, f.event)
              BY <1>1, <2>2, <4>1
        <4> QED
              BY <4>1, <4>2
      <3>2. CASE ~(mine /\ r = f.id)
            BY <1>9, <2>2, <2>4, <3>2
      <3> QED
            BY <3>1, <3>2
    <2> QED
          BY <1>3, <2>3, <2>4 DEF Shows, Listed
  <1>15. Seen'
    <2>1. \A r \in Request : request'[r].at \in Asking =>
             /\ request[r].at \in Asking /\ request'[r].by = request[r].by
             /\ request'[r].asks = request[r].asks /\ request'[r].saw = request[r].saw
          BY <1>7, <1>8, <1>9 DEF Asking
    <2> QED
          BY <1>3, <1>4, <2>1, SeenSteady DEF MInv
  <1>16. /\ f.kind = "error" => Refusing(f.id)
         /\ f.kind = "event" => Confirming(f.id)
         /\ ~OnItsWay(f.id)
    <2>1. f \in Coming(a)
          BY <1>1 DEF Coming
    <2>2. /\ f.kind = "error" => Refusing(f.id)
          /\ f.kind = "event" => Confirming(f.id)
          BY <2>1 DEF Refusing, Confirming, Refused, Confirmed
    <2> QED
          BY <1>7, <2>2 DEF MInv, Verdicts
  <1>17. Sending' /\ \A r \in Request : OnItsWay(r)' => OnItsWay(r)
    <2>1. \A r \in Request : OnItsWay(r) => request'[r] = request[r]
          BY <1>9, <1>16
    <2> QED
          BY <1>3, <1>4, <2>1, SendingKept DEF MInv, Sending, AgentsFit
  <1>18. Verdicts'
    <2>1. \A b \in Agent : Coming(b)' \subseteq Coming(b) \cup {NoFrame}
          BY <1>3, <1>7 DEF Coming
    <2>2. \A r : ~Refused(NoFrame, r) /\ ~Confirmed(NoFrame, r)
          BY DEF NoFrame, Refused, Confirmed
    <2>3. ASSUME NEW r \in Request PROVE (Refusing(r)' => Refusing(r)) /\ (Confirming(r)' => Confirming(r))
      <3>1. ASSUME NEW b \in Agent, NEW g \in Coming(b)', Refused(g, r) PROVE Refusing(r)
            BY <2>1, <2>2, <3>1 DEF Refusing
      <3>2. ASSUME NEW b \in Agent, NEW g \in Coming(b)', Confirmed(g, r) PROVE Confirming(r)
            BY <2>1, <2>2, <3>2 DEF Confirming
      <3> QED
            BY <3>1, <3>2 DEF Refusing, Confirming, Refused, Confirmed
    <2>4. \A r \in Request :
             /\ request'[r].at \in {"none", "ready"} => request[r].at \in {"none", "ready"}
             /\ request'[r].at = "refused" => request[r].at = "refused" \/ Refusing(r)
             /\ request'[r].at = "ok" => request[r].at = "ok" \/ Confirming(r)
          BY <1>7, <1>8, <1>9, <1>16
    <2> QED
          BY <1>3, <1>17, <2>3, <2>4, VerdictsKept DEF MInv
  <1> QED
        BY <1>5, <1>6, <1>10, <1>11, <1>13, <1>14, <1>15, <1>17, <1>18 DEF MInv, Types

\* What the remaining steps share: they only move requests.
LEMMA RequestMoves ==
    ASSUME MInv, UNCHANGED <<host, linked, down, mirror, resolving, bounds, history>>,
           up' \in [Agent -> Seq(Request \cup {Get})], \A b \in Agent \ linked : up'[b] = <<>>,
           \A r \in Request : request'[r].at = "ok" => request'[r] = request[r],
           RequestsFit'
    PROVE  Types' /\ Courses'
  <1>1. /\ doc' = doc /\ used' = used /\ open' = open /\ unsent' = unsent /\ linked' = linked /\ down' = down
        /\ mirror' = mirror /\ resolving' = resolving
        /\ edits' = edits /\ losses' = losses /\ outages' = outages /\ whole' = whole /\ applied' = applied
        BY DEF host, bounds, history
  <1>2. DocFits /\ HostFits /\ AgentsFit /\ RequestsFit /\ BoundsFit /\ QueuesFit
        BY EventsHappened DEF MInv, Types
  <1>3. Keeps /\ DocFits'
        BY <1>1, <1>2, KeptWithDoc
  <1>4. HostFits' /\ BoundsFit'
        BY <1>1, <1>2, <1>3, HostKept DEF BoundsFit
  <1>5. AgentsFit'
    <2>1. linked' \subseteq Agent /\ whole' \subseteq Agent /\ DOMAIN down' = Agent
          /\ \A b \in Agent \ linked' : up'[b] = <<>>
          BY <1>1, <1>2 DEF AgentsFit
    <2>2. PICK f : f = Snapshot
          OBVIOUS
    <2>3. FrameFits(f)'
          BY <2>2 DEF FrameFits, Snapshot
    <2> QED
          BY <1>1, <1>2, <1>3, <2>1, <2>3, AgentsKept
  <1>6. \A b \in Agent : Steady(b)
        BY <1>1, UnmovedQueue
  <1>7. Courses'
        BY <1>1, <1>2, <1>6, SteadyCourses, SteadyAnswers DEF MInv, Courses, AgentsFit
  <1> QED
        BY <1>3, <1>4, <1>5, <1>7 DEF Types

\* A request that nobody waits for any more.
LEMMA TimeOutKeeps ==
    ASSUME MInv, NEW r \in Request, TimeOut(r)
    PROVE  MInv'
  <1>1. /\ r \in pending /\ pending' = pending \ {r}
        /\ request' = [request EXCEPT ![r].at = "timed out"]
        /\ UNCHANGED <<host, linked, down, mirror, resolving, bounds, history>>
        /\ up' = up /\ linked' = linked /\ down' = down /\ resolving' = resolving /\ applied' = applied
        /\ doc' = doc /\ used' = used /\ whole' = whole
        BY DEF TimeOut, net, host, history
  <1>2. DocFits /\ AgentsFit /\ RequestsFit
        BY DEF MInv, Types
  <1>3. PICK q : q = request[r]
        OBVIOUS
  <1>4. /\ q.at = "sent" /\ q = [at |-> q.at, by |-> q.by, asks |-> q.asks, saw |-> q.saw]
        /\ AskType(q.asks) /\ q.by \in linked
        BY <1>1, <1>2, <1>3, Requested DEF Asking
  <1>5. PICK n : n = request'[r]
        OBVIOUS
  <1>6. /\ n = [at |-> "timed out", by |-> q.by, asks |-> q.asks, saw |-> q.saw]
        /\ DOMAIN request' = Request /\ \A s \in Request \ {r} : request'[s] = request[s]
        BY <1>1, <1>2, <1>3, <1>4, <1>5 DEF RequestsFit
  <1>7. n.at = "timed out" /\ n.by = q.by /\ n.asks = q.asks /\ n.saw = q.saw
        BY <1>6
  <1>8. RequestsFit'
    <2>1. Keeps
          BY <1>1, KeptWithDoc
    <2>2. ASSUME NEW s \in Request PROVE RequestFits(s)'
      <3>1. CASE s = r
        <4>1. n = [at |-> n.at, by |-> n.by, asks |-> n.asks, saw |-> n.saw] /\ n.at \in Asking
              BY <1>6, <1>7 DEF Asking
        <4>2. AskType(n.asks) /\ n.by \in linked'
              BY <1>1, <1>4, <1>7
        <4> QED
              BY <1>5, <3>1, <4>1, <4>2 DEF RequestFits
      <3>2. CASE s # r
            BY <1>2, <1>6, <2>1, <3>2, RequestKept DEF RequestsFit
      <3> QED
            BY <3>1, <3>2
    <2>3. pending' = {s \in Request : request'[s].at = "sent"}
          BY <1>1, <1>2, <1>5, <1>6, <1>7 DEF RequestsFit
    <2> QED
          BY <1>1, <1>2, <1>6, <2>2, <2>3 DEF RequestsFit
  <1>9. Types' /\ Courses'
    <2>1. /\ up' \in [Agent -> Seq(Request \cup {Get})] /\ \A b \in Agent \ linked : up'[b] = <<>>
          BY <1>1, <1>2 DEF AgentsFit
    <2>2. \A s \in Request : request'[s].at = "ok" => request'[s] = request[s]
          BY <1>5, <1>6, <1>7
    <2> QED
          BY <1>1, <1>8, <2>1, <2>2, RequestMoves
  <1>10. Seen'
    <2>1. \A s \in Request : request'[s].at \in Asking =>
             /\ request[s].at \in Asking /\ request'[s].by = request[s].by
             /\ request'[s].asks = request[s].asks /\ request'[s].saw = request[s].saw
          BY <1>3, <1>4, <1>5, <1>6, <1>7 DEF Asking
    <2> QED
          BY <1>1, <1>2, <2>1, SeenSteady DEF MInv
  <1>11. Sending' /\ \A s \in Request : OnItsWay(s)' => OnItsWay(s)
    <2>1. \A s \in Request : OnItsWay(s) /\ request[s].at \in {"sent", "timed out"} =>
              request'[s].at \in {"sent", "timed out"} /\ request'[s].by = request[s].by
          BY <1>3, <1>5, <1>6, <1>7
    <2> QED
          BY <1>1, <1>2, <2>1, SendingKept DEF MInv, Sending, AgentsFit
  <1>12. Verdicts'
    <2>1. \A s \in Request : (Refusing(s)' => Refusing(s)) /\ (Confirming(s)' => Confirming(s))
          BY <1>1 DEF Refusing, Confirming, Coming
    <2>2. \A s \in Request :
             /\ request'[s].at \in {"none", "ready"} => request[s].at \in {"none", "ready"}
             /\ request'[s].at = "refused" => request[s].at = "refused" \/ Refusing(s)
             /\ request'[s].at = "ok" => request[s].at = "ok" \/ Confirming(s)
          BY <1>5, <1>6, <1>7
    <2> QED
          BY <1>1, <1>11, <2>1, <2>2, VerdictsKept DEF MInv
  <1> QED
        BY <1>9, <1>10, <1>11, <1>12 DEF MInv, Courses

\* A request is sent.
LEMMA ForwardKeeps ==
    ASSUME MInv, NEW r \in Request, Forward(r)
    PROVE  MInv'
  <1>1. PICK q, b : q = request[r] /\ b = q.by
        OBVIOUS
  <1>2. /\ q.at = "ready" /\ request' = [request EXCEPT ![r].at = "sent"]
        /\ pending' = pending \cup {r} /\ up' = [up EXCEPT ![b] = Append(@, r)]
        /\ UNCHANGED <<host, linked, down, mirror, resolving, bounds, history>>
        /\ linked' = linked /\ down' = down /\ resolving' = resolving /\ applied' = applied
        /\ doc' = doc /\ used' = used /\ whole' = whole
        BY <1>1 DEF Forward, host, history
  <1>3. DocFits /\ AgentsFit /\ RequestsFit
        BY DEF MInv, Types
  <1>4. /\ q = [at |-> q.at, by |-> q.by, asks |-> q.asks, saw |-> q.saw]
        /\ AskType(q.asks) /\ b \in linked /\ b \in Agent
    <2>1. q.at \in Asking
          BY <1>2 DEF Asking
    <2>2. linked \subseteq Agent
          BY <1>3 DEF AgentsFit
    <2> QED
          BY <1>1, <1>3, <2>1, <2>2, Requested
  <1>5. PICK n : n = request'[r]
        OBVIOUS
  <1>6. /\ n = [at |-> "sent", by |-> q.by, asks |-> q.asks, saw |-> q.saw]
        /\ DOMAIN request' = Request /\ \A s \in Request \ {r} : request'[s] = request[s]
        BY <1>1, <1>2, <1>3, <1>4, <1>5 DEF RequestsFit
  <1>7. n.at = "sent" /\ n.by = q.by /\ n.asks = q.asks /\ n.saw = q.saw
        BY <1>6
  <1>8. RequestsFit'
    <2>1. Keeps
          BY <1>2, KeptWithDoc
    <2>2. ASSUME NEW s \in Request PROVE RequestFits(s)'
      <3>1. CASE s = r
        <4>1. n = [at |-> n.at, by |-> n.by, asks |-> n.asks, saw |-> n.saw] /\ n.at \in Asking
              BY <1>6, <1>7 DEF Asking
        <4>2. AskType(n.asks) /\ n.by \in linked'
              BY <1>1, <1>2, <1>4, <1>7
        <4> QED
              BY <1>5, <3>1, <4>1, <4>2 DEF RequestFits
      <3>2. CASE s # r
            BY <1>3, <1>6, <2>1, <3>2, RequestKept DEF RequestsFit
      <3> QED
            BY <3>1, <3>2
    <2>3. pending' = {s \in Request : request'[s].at = "sent"}
          BY <1>2, <1>3, <1>5, <1>6, <1>7 DEF RequestsFit
    <2> QED
          BY <1>2, <1>3, <1>6, <2>2, <2>3 DEF RequestsFit
  <1>9. ~OnItsWay(r) /\ ~Refusing(r) /\ r \notin applied
    <2>1. \A a \in Agent : r \in ToSet(up[a]) => request[r].at \in {"sent", "timed out"}
          BY IdAssumption DEF MInv, Sending
    <2> QED
          BY <1>1, <1>2, <2>1 DEF OnItsWay, MInv, Verdicts
  <1>10. /\ up' \in [Agent -> Seq(Request \cup {Get})] /\ IsInjective(up'[b])
         /\ ToSet(up'[b]) = ToSet(up[b]) \cup {r} /\ \A a \in Agent \ {b} : up'[a] = up[a]
    <2>1. up \in [Agent -> Seq(Request \cup {Get})] /\ IsInjective(up[b]) /\ r \notin ToSet(up[b])
          BY <1>3, <1>4, <1>9 DEF AgentsFit, OnItsWay, MInv, Sending
    <2>2. PICK s \in Seq(Request \cup {Get}) : s = up[b]
          BY <1>4, <2>1
    <2>3. /\ Append(s, r) \in Seq(Request \cup {Get}) /\ IsInjective(Append(s, r))
          /\ ToSet(Append(s, r)) = ToSet(s) \cup {r}
      <3>1. r \in Request \cup {Get} /\ IsInjective(s) /\ r \notin ToSet(s)
            BY <2>1, <2>2
      <3> QED
            BY <3>1, AppendMembers
    <2>4. up' = [up EXCEPT ![b] = Append(s, r)]
          BY <1>2, <2>2
    <2> QED
          BY <1>4, <2>1, <2>2, <2>3, <2>4
  <1>11. Types' /\ Courses'
    <2>1. \A a \in Agent \ linked : up'[a] = <<>>
          BY <1>3, <1>4, <1>10 DEF AgentsFit
    <2>2. \A s \in Request : request'[s].at = "ok" => request'[s] = request[s]
          BY <1>5, <1>6, <1>7
    <2> QED
          BY <1>2, <1>8, <1>10, <2>1, <2>2, RequestMoves
  <1>12. Seen'
    <2>1. \A s \in Request : request'[s].at \in Asking =>
             /\ request[s].at \in Asking /\ request'[s].by = request[s].by
             /\ request'[s].asks = request[s].asks /\ request'[s].saw = request[s].saw
          BY <1>1, <1>2, <1>5, <1>6, <1>7 DEF Asking
    <2> QED
          BY <1>2, <1>3, <2>1, SeenSteady DEF MInv
  <1>13. Sending'
    <2>1. ASSUME NEW a \in Agent PROVE IsInjective(up'[a])
          BY <1>10 DEF MInv, Sending
    <2>2. ASSUME NEW a \in Agent, NEW s \in ToSet(up'[a]) \ {Get}
          PROVE  request'[s].at \in {"sent", "timed out"} /\ request'[s].by = a
      <3>1. CASE s = r
        <4>1. a = b
              BY <1>9, <1>10, <2>2, <3>1 DEF OnItsWay
        <4> QED
              BY <1>1, <1>5, <1>7, <3>1, <4>1
      <3>2. CASE s # r
        <4>1. s \in ToSet(up[a]) \ {Get}
              BY <1>10, <2>2, <3>2
        <4>2. s \in Request
              BY <1>3, <4>1, ListOfMembers DEF AgentsFit
        <4>3. request[s].at \in {"sent", "timed out"} /\ request[s].by = a
              BY <4>1 DEF MInv, Sending
        <4> QED
              BY <1>6, <3>2, <4>2, <4>3
      <3> QED
            BY <3>1, <3>2
    <2> QED
          BY <2>1, <2>2 DEF Sending
  <1>14. Verdicts'
    <2>1. \A s \in Request : (Refusing(s)' <=> Refusing(s)) /\ (Confirming(s)' <=> Confirming(s))
          BY <1>2 DEF Refusing, Confirming, Coming
    <2>2. \A s \in Request \ {r} : OnItsWay(s)' => OnItsWay(s)
          BY <1>10 DEF OnItsWay
    <2>3. ASSUME NEW s \in Request
          PROVE  /\ OnItsWay(s)' => s \notin applied' /\ ~Refusing(s)'
                 /\ Refusing(s)' => s \notin applied'
                 /\ Confirming(s)' => s \in applied'
                 /\ (Refusing(s)' \/ s \in applied') => request'[s].at \notin {"none", "ready"}
                 /\ request'[s].at = "refused" => ~OnItsWay(s)' /\ s \notin applied'
                 /\ request'[s].at = "ok" => s \in applied'
      <3>1. /\ OnItsWay(s) => s \notin applied /\ ~Refusing(s)
            /\ Refusing(s) => s \notin applied
            /\ Confirming(s) => s \in applied
            /\ (Refusing(s) \/ s \in applied) => request[s].at \notin {"none", "ready"}
            /\ request[s].at = "refused" => ~OnItsWay(s) /\ s \notin applied
            /\ request[s].at = "ok" => s \in applied
            BY DEF MInv, Verdicts
      <3>2. CASE s = r
            BY <1>2, <1>5, <1>7, <1>9, <2>1, <3>1, <3>2
      <3>3. CASE s # r
            BY <1>2, <1>6, <2>1, <2>2, <3>1, <3>3
      <3> QED
            BY <3>2, <3>3
    <2> QED
          BY <2>3 DEF Verdicts
  <1> QED
        BY <1>11, <1>12, <1>13, <1>14 DEF MInv, Courses

\* What an agent may ask, by the mirror it reads or blindly.
LEMMA AskFits ==
    ASSUME MInv, NEW a \in Agent, a \in linked, NEW m \in Asks(a)
    PROVE  /\ AskType(m)
           /\ a \in Reads /\ m.op = "update" =>
                 /\ m.cell \in used /\ m.version \in Nat
                 /\ a \in whole /\ m.cell \in Listed(doc) =>
                       /\ m.version <= doc.cell[m.cell].version
                       /\ m.version = doc.cell[m.cell].version
                             => SeenText(a, m) = doc.cell[m.cell].text
  <1>1. InitialOrder \in Seq(Cell) /\ ToSet(InitialOrder) \subseteq Cell /\ DefaultText \in Text
        BY InitialDocAssumption, ListOfMembers
  <1>2. CASE a \in Reads
    <2> DEFINE d == mirror[a]
               A == {Add(Top, t, FALSE, p1) : t \in Text \ {DefaultText}, p1 \in Listed(d) \cup {Top}}
               B == {Update(c, SetText(t), d.cell[c].version) : c \in Listed(d), t \in Text}
               C == {Delete(c, d.cell[c].version) : c \in Listed(d)}
               D == {Reorder(Moved(d.order, i, j)) : i \in DOMAIN d.order, j \in DOMAIN d.order}
               E == {UpdateMeta(t) : t \in Text}
    <2> HIDE DEF A, B, C, D, E
    <2>1. PICK p \in Sight(a) : p.doc = d
          BY AheadIsSeen, EventsHappened DEF MInv
    <2>2. Asks(a) = IF d = NoDoc THEN {} ELSE A \cup B \cup C \cup D \cup E
          BY <1>2 DEF Asks, A, B, C, D, E
    <2>3. d # NoDoc
          BY <2>2
    <2>4. DocType(d) /\ Listed(d) \subseteq used /\ used \subseteq Cell
          BY <2>1, <2>3 DEF MInv, Coherent, Types, DocFits
    <2>5. \A c \in Listed(d) : d.cell[c].version \in Nat
          BY <2>4, VersionsAreNat
    <2>6. a \in whole => Behind(d)
          BY <1>2, <2>1, <2>3 DEF MInv, Following
    <2>7. SeenText(a, m) = IF m.op = "update" THEN d.cell[m.cell].text ELSE Same
          BY <1>2 DEF SeenText
    <2>8. \/ \E t \in Text \ {DefaultText}, p1 \in Listed(d) \cup {Top} : m = Add(Top, t, FALSE, p1)
          \/ \E c \in Listed(d), t \in Text : m = Update(c, SetText(t), d.cell[c].version)
          \/ \E c \in Listed(d) : m = Delete(c, d.cell[c].version)
          \/ \E i, j \in DOMAIN d.order : m = Reorder(Moved(d.order, i, j))
          \/ \E t \in Text : m = UpdateMeta(t)
      <3>1. Asks(a) = A \cup B \cup C \cup D \cup E
            BY <2>3, <2>2
      <3>2. m \in A => \E t \in Text \ {DefaultText}, p1 \in Listed(d) \cup {Top} : m = Add(Top, t, FALSE, p1)
            BY DEF A, Add, NewCell
      <3>3. m \in B => \E c \in Listed(d), t \in Text : m = Update(c, SetText(t), d.cell[c].version)
            BY DEF B
      <3>4. m \in C => \E c \in Listed(d) : m = Delete(c, d.cell[c].version)
            BY DEF C
      <3>5. m \in D => \E i, j \in DOMAIN d.order : m = Reorder(Moved(d.order, i, j))
            BY DEF D
      <3>6. m \in E => \E t \in Text : m = UpdateMeta(t)
            BY DEF E
      <3>7. m \in A \/ m \in B \/ m \in C \/ m \in D \/ m \in E
            BY <3>1
      <3> QED
            BY <3>2, <3>3, <3>4, <3>5, <3>6, <3>7, Zenon
    <2> HIDE DEF d
    <2>9. CASE \E t \in Text \ {DefaultText}, p1 \in Listed(d) \cup {Top} : m = Add(Top, t, FALSE, p1)
      <3>1. PICK t \in Text, p1 \in Listed(d) \cup {Top} : m = Add(Top, t, FALSE, p1)
            BY <2>9
      <3> QED
            BY <3>1 DEF Add, AskType, NewCell, CellState
    <2>10. CASE \E c \in Listed(d), t \in Text : m = Update(c, SetText(t), d.cell[c].version)
      <3>1. PICK c \in Listed(d), t \in Text : m = Update(c, SetText(t), d.cell[c].version)
            BY <2>10
      <3>2. AskType(m) /\ m.op = "update" /\ m.cell = c /\ m.version = d.cell[c].version
            BY <2>4, <3>1 DEF Update, AskType, SetText, Patch
      <3>3. c \in used /\ m.version \in Nat
            BY <2>4, <2>5, <3>2
      <3>4. a \in whole /\ c \in Listed(doc) =>
               /\ d.cell[c].version <= doc.cell[c].version
               /\ d.cell[c].version = doc.cell[c].version => d.cell[c].text = doc.cell[c].text
            BY <2>6 DEF Behind
      <3> QED
            BY <2>7, <3>2, <3>3, <3>4
    <2>11. CASE \E c \in Listed(d) : m = Delete(c, d.cell[c].version)
      <3>1. PICK c \in Listed(d) : m = Delete(c, d.cell[c].version)
            BY <2>11
      <3> QED
            BY <2>4, <3>1 DEF Delete, AskType
    <2>12. CASE \E i, j \in DOMAIN d.order : m = Reorder(Moved(d.order, i, j))
          BY <2>4, <2>12, MovedIsOrder DEF Reorder, AskType, DocType
    <2>13. CASE \E t \in Text : m = UpdateMeta(t)
          BY <2>13 DEF UpdateMeta, AskType
    <2> QED
          BY <2>8, <2>9, <2>10, <2>11, <2>12, <2>13
  <1>3. CASE a \notin Reads
    <2>1. \/ \E c \in ToSet(InitialOrder), t \in Text, v \in BlindVersion : m = Update(c, SetText(t), v)
          \/ m = Add(Top, DefaultText, FALSE, Top)
      <3> DEFINE A == {Update(c, SetText(t), v) : c \in ToSet(InitialOrder), t \in Text, v \in BlindVersion}
      <3>1. Asks(a) = A \cup {Add(Top, DefaultText, FALSE, Top)}
            BY <1>3 DEF Asks
      <3>2. m \in A => \E c \in ToSet(InitialOrder), t \in Text, v \in BlindVersion :
                          m = Update(c, SetText(t), v)
            OBVIOUS
      <3> HIDE DEF A
      <3> QED
            BY <3>1, <3>2, Zenon
    <2>2. CASE \E c \in ToSet(InitialOrder), t \in Text, v \in BlindVersion : m = Update(c, SetText(t), v)
      <3>1. PICK c \in ToSet(InitialOrder), t \in Text, v \in BlindVersion : m = Update(c, SetText(t), v)
            BY <2>2
      <3> QED
            BY <1>1, <1>3, <3>1 DEF Update, AskType, SetText, Patch
    <2>3. CASE m = Add(Top, DefaultText, FALSE, Top)
          BY <1>1, <1>3, <2>3 DEF Add, AskType, NewCell, CellState
    <2> QED
          BY <2>1, <2>2, <2>3
  <1> QED
        BY <1>2, <1>3

LEMMA AskKeeps ==
    ASSUME MInv, NEW r \in Request, NEW a \in Agent, NEW m \in Asks(a), Ask(r, a, m)
    PROVE  MInv'
  <1>1. PICK s : s = SeenText(a, m)
        OBVIOUS
  <1>2. /\ request[r] = NoRequest /\ a \in linked
        /\ request' = [request EXCEPT ![r] = [at |-> "ready", by |-> a, asks |-> m, saw |-> s]]
        /\ UNCHANGED <<host, linked, down, mirror, resolving, bounds, history>>
        /\ up' = up /\ pending' = pending /\ linked' = linked /\ down' = down /\ resolving' = resolving
        /\ applied' = applied /\ doc' = doc /\ used' = used /\ whole' = whole
        BY <1>1 DEF Ask, net, host, history
  <1>3. DocFits /\ AgentsFit /\ RequestsFit
        BY DEF MInv, Types
  <1>4. PICK n : n = request'[r]
        OBVIOUS
  <1>5. /\ n = [at |-> "ready", by |-> a, asks |-> m, saw |-> s]
        /\ DOMAIN request' = Request /\ \A q \in Request \ {r} : request'[q] = request[q]
        BY <1>2, <1>3, <1>4 DEF RequestsFit
  <1>6. n.at = "ready" /\ n.by = a /\ n.asks = m /\ n.saw = s
        BY <1>5
  <1>7. request[r].at = "none"
        BY <1>2 DEF NoRequest
  <1>8. RequestsFit'
    <2>1. Keeps
          BY <1>2, KeptWithDoc
    <2>2. ASSUME NEW q \in Request PROVE RequestFits(q)'
      <3>1. CASE q = r
        <4>1. n = [at |-> n.at, by |-> n.by, asks |-> n.asks, saw |-> n.saw] /\ n.at \in Asking
              BY <1>5, <1>6 DEF Asking
        <4>2. AskType(n.asks) /\ n.by \in linked'
              BY <1>2, <1>6, AskFits
        <4> QED
              BY <1>4, <3>1, <4>1, <4>2 DEF RequestFits
      <3>2. CASE q # r
            BY <1>3, <1>5, <2>1, <3>2, RequestKept DEF RequestsFit
      <3> QED
            BY <3>1, <3>2
    <2>3. pending' = {q \in Request : request'[q].at = "sent"}
          BY <1>2, <1>3, <1>4, <1>5, <1>6, <1>7 DEF RequestsFit
    <2> QED
          BY <1>2, <1>3, <1>5, <2>2, <2>3 DEF RequestsFit
  <1>9. Types' /\ Courses'
    <2>1. /\ up' \in [Agent -> Seq(Request \cup {Get})] /\ \A b \in Agent \ linked : up'[b] = <<>>
          BY <1>2, <1>3 DEF AgentsFit
    <2>2. \A q \in Request : request'[q].at = "ok" => request'[q] = request[q]
          BY <1>4, <1>5, <1>6
    <2> QED
          BY <1>2, <1>8, <2>1, <2>2, RequestMoves
  <1>10. Seen'
    <2>1. SUFFICES ASSUME NEW q \in Request, request'[q].at \in Asking, request'[q].by \in Reads,
                          request'[q].asks.op = "update"
                   PROVE  LET k == request'[q] IN
                          /\ k.asks.cell \in used /\ k.asks.version \in Nat
                          /\ k.by \in whole /\ k.asks.cell \in Listed(doc) =>
                                /\ k.asks.version <= doc.cell[k.asks.cell].version
                                /\ k.asks.version = doc.cell[k.asks.cell].version
                                      => k.saw = doc.cell[k.asks.cell].text
          BY <1>2 DEF Seen, Asked, Saw, Listed
    <2>2. CASE q = r
      <3>1. /\ m.cell \in used /\ m.version \in Nat
            /\ a \in whole /\ m.cell \in Listed(doc) =>
                  /\ m.version <= doc.cell[m.cell].version
                  /\ m.version = doc.cell[m.cell].version => s = doc.cell[m.cell].text
            BY <1>1, <1>2, <1>4, <1>6, <2>1, <2>2, AskFits
      <3> QED
            BY <1>4, <1>6, <2>2, <3>1
    <2>3. CASE q # r
      <3>1. request'[q] = request[q]
            BY <1>5, <2>3
      <3> QED
            BY <2>1, <3>1 DEF MInv, Seen, Asked, Saw
    <2> QED
          BY <2>2, <2>3
  <1>11. Sending' /\ \A q \in Request : OnItsWay(q)' => OnItsWay(q)
    <2>1. \A q \in Request : OnItsWay(q) /\ request[q].at \in {"sent", "timed out"} =>
              request'[q].at \in {"sent", "timed out"} /\ request'[q].by = request[q].by
          BY <1>5, <1>7
    <2> QED
          BY <1>2, <1>3, <2>1, SendingKept DEF MInv, Sending, AgentsFit
  <1>12. Verdicts'
    <2>1. \A q \in Request : (Refusing(q)' => Refusing(q)) /\ (Confirming(q)' => Confirming(q))
          BY <1>2 DEF Refusing, Confirming, Coming
    <2>2. \A q \in Request :
             /\ request'[q].at \in {"none", "ready"} => request[q].at \in {"none", "ready"}
             /\ request'[q].at = "refused" => request[q].at = "refused" \/ Refusing(q)
             /\ request'[q].at = "ok" => request[q].at = "ok" \/ Confirming(q)
          BY <1>4, <1>5, <1>6, <1>7
    <2> QED
          BY <1>2, <1>11, <2>1, <2>2, VerdictsKept DEF MInv
  <1> QED
        BY <1>9, <1>10, <1>11, <1>12 DEF MInv, Courses

LEMMA StutterKeeps ==
    ASSUME MInv, UNCHANGED vars
    PROVE  MInv'
  <1>1. /\ UNCHANGED <<host, linked, down, mirror, resolving, bounds, history>>
        /\ up' = up /\ pending' = pending /\ linked' = linked /\ down' = down /\ resolving' = resolving
        /\ request' = request /\ applied' = applied /\ doc' = doc /\ used' = used /\ whole' = whole
        BY DEF vars, host, net, daemons, history
  <1>2. DocFits /\ AgentsFit /\ RequestsFit
        BY DEF MInv, Types
  <1>3. Keeps
        BY <1>1, KeptWithDoc
  <1>4. RequestsFit'
        BY <1>1, <1>2, <1>3, RequestsKept DEF RequestsFit
  <1>5. Types' /\ Courses'
    <2>1. /\ up' \in [Agent -> Seq(Request \cup {Get})] /\ \A b \in Agent \ linked : up'[b] = <<>>
          BY <1>1, <1>2 DEF AgentsFit
    <2> QED
          BY <1>1, <1>4, <2>1, RequestMoves
  <1>6. Seen'
        BY <1>1, <1>2, SeenSteady DEF MInv
  <1>7. Sending' /\ Verdicts'
        BY <1>1 DEF MInv, Sending, Verdicts, OnItsWay, Refusing, Confirming, Coming
  <1> QED
        BY <1>5, <1>6, <1>7 DEF MInv, Courses

-----------------------------------------------------------------------------
(***************************************************************************)
(* The theorems.                                                           *)
(***************************************************************************)

LEMMA InitSound == Init => MInv
  <1> SUFFICES ASSUME Init PROVE MInv
        OBVIOUS
  <1>1. /\ doc = InitialDoc /\ used = ToSet(InitialOrder) /\ open = TRUE /\ unsent = <<>> /\ linked = {}
        /\ up = [a \in Agent |-> <<>>] /\ down = [a \in Agent |-> <<>>] /\ mirror = [a \in Agent |-> NoDoc]
        /\ pending = {} /\ resolving = [a \in Agent |-> NoFrame] /\ request = [r \in Request |-> NoRequest]
        /\ edits = 0 /\ losses = 0 /\ outages = 0 /\ whole = Agent /\ applied = {}
        BY DEF Init
  <1>2. ToSet(InitialOrder) \subseteq Cell
        BY InitialDocAssumption, ListOfMembers
  <1>3. DocFits
    <2>1. /\ doc.order = InitialOrder /\ doc.meta = DefaultText
          /\ doc.cell = [c \in ToSet(InitialOrder) |-> NewCell(DefaultText, FALSE)]
          /\ doc = [order |-> doc.order, cell |-> doc.cell, meta |-> doc.meta]
          BY <1>1 DEF InitialDoc
    <2>2. NewCell(DefaultText, FALSE) \in CellState
          BY InitialDocAssumption DEF NewCell, CellState
    <2>3. Listed(doc) = ToSet(InitialOrder) /\ doc.cell \in [Listed(doc) -> CellState]
          BY <2>1, <2>2 DEF Listed
    <2> QED
          BY <1>1, <1>2, <2>1, <2>3, InitialDocAssumption DEF DocFits, DocType
  <1>4. IsList(<<>>) /\ ToSet(<<>>) = {} /\ Len(<<>>) = 0 /\ IsInjective(<<>>)
        BY DEF IsList, ToSet, IsInjective
  <1>5. HostFits /\ BoundsFit
        BY <1>1, <1>4, CapAssumption DEF HostFits, BoundsFit
  <1>6. AgentsFit
        BY <1>1, <1>4 DEF AgentsFit
  <1>7. NoRequest.at = "none"
        BY DEF NoRequest
  <1>8. RequestsFit
        BY <1>1, <1>7 DEF RequestsFit, RequestFits
  <1>9. \A a \in Agent : Ahead(a) = NoDoc /\ \A p \in Sight(a) : p.doc = NoDoc
    <2>1. SUFFICES ASSUME NEW a \in Agent PROVE Ahead(a) = NoDoc /\ \A p \in Sight(a) : p.doc = NoDoc
          OBVIOUS
    <2>2. OnWay(a) = <<>> /\ mirror[a] = NoDoc
      <3>1. <<>> \o <<>> = <<>>
            BY <1>4, ListConcat
      <3> QED
            BY <1>1, <3>1 DEF OnWay
    <2>3. EndOf(NoDoc, <<>>) = NoDoc
          BY <1>4, StartAndEnd
    <2>4. ASSUME NEW p \in Sights(NoDoc, <<>>) PROVE p.doc = NoDoc
      <3>1. PICK i \in 0 .. Len(<<>>) : p.doc = Replay(NoDoc, <<>>)[i]
            BY <1>4, SightOf
      <3>2. i = Len(<<>>)
            BY <1>4, <3>1
      <3> QED
            BY <2>3, <3>1, <3>2 DEF EndOf
    <2> QED
          BY <2>2, <2>3, <2>4, AheadIsEnd DEF Sight
  <1>10. Coherent /\ Following /\ Telling /\ Answered
        BY <1>1, <1>9 DEF Coherent, Following, Telling, Answered
  <1>11. Seen
        BY <1>1, <1>7 DEF Seen, Asking
  <1>12. Sending /\ \A r \in Request : ~OnItsWay(r)
        BY <1>1, <1>4 DEF Sending, OnItsWay
  <1>13. \A r \in Request : ~Refusing(r) /\ ~Confirming(r)
        BY <1>1, <1>4 DEF Refusing, Confirming, Coming, Refused, Confirmed, NoFrame
  <1>14. Verdicts
        BY <1>1, <1>7, <1>12, <1>13 DEF Verdicts
  <1> QED
        BY <1>3, <1>5, <1>6, <1>8, <1>10, <1>11, <1>12, <1>14 DEF MInv, Types

LEMMA NextSound == MInv /\ [Next]_vars => MInv'
  <1> SUFFICES ASSUME MInv, [Next]_vars PROVE MInv'
        OBVIOUS
  <1>1. CASE \E m \in BrowserMutations : Edit(m)
        BY <1>1, EditKeeps
  <1>2. CASE Outage
        BY <1>2, OutageKeeps
  <1>3. CASE Reopen
        BY <1>3, ReopenKeeps
  <1>4. ASSUME NEW a \in Agent, Host(a) PROVE MInv'
    <2>1. CASE AnswerGet(a)
          BY <2>1, AnswerGetKeeps
    <2>2. ASSUME NEW r \in Request, Refuse(a, r) PROVE MInv'
      <3>1. /\ up[a] # <<>> /\ Taken(a) /\ Send({a}, ErrorFrame(Head(up[a])))
            /\ UNCHANGED <<host, linked, daemons, edits, outages, applied>>
            BY <2>2 DEF Refuse, Arrived
      <3> QED
            BY <3>1, ErrorKeeps
    <2>3. ASSUME NEW r \in Request, NEW c \in Cell, Accept(a, r, c) PROVE MInv'
          BY <2>3, AcceptKeeps
    <2> QED
          BY <1>4, <2>1, <2>2, <2>3 DEF Host
  <1>5. ASSUME NEW a \in Agent, Deny(a) PROVE MInv'
    <2>1. /\ up[a] # <<>> /\ Taken(a) /\ Send({a}, ErrorFrame(Head(up[a])))
          /\ UNCHANGED <<host, linked, daemons, edits, outages, applied>>
          BY <1>5 DEF Deny
    <2> QED
          BY <2>1, ErrorKeeps
  <1>6. ASSUME NEW a \in Agent, Drop(a) \/ Connect(a) \/ Receive(a) \/ Resolve(a) PROVE MInv'
        BY <1>6, DropKeeps, ConnectKeeps, ReceiveKeeps, ResolveKeeps
  <1>7. ASSUME NEW r \in Request, TimeOut(r) \/ Forward(r) PROVE MInv'
        BY <1>7, TimeOutKeeps, ForwardKeeps
  <1>8. ASSUME NEW r \in Request, NEW a \in Agent, NEW m \in Asks(a), Ask(r, a, m) PROVE MInv'
        BY <1>8, AskKeeps
  <1>9. CASE UNCHANGED vars
        BY <1>9, StutterKeeps
  <1> QED
        BY <1>1, <1>2, <1>3, <1>4, <1>5, <1>6, <1>7, <1>8, <1>9 DEF Next

\* At every point of every agent's course, whatever is sent, lost, refused or
\* flushed: the types, what the courses show, and where each request may be.
THEOREM MirrorInvariant == Spec => []MInv
  BY InitSound, NextSound, PTL DEF Spec

\* The daemons and the host agree: every mirror is a well-formed notebook,
\* and once all that is on its way to an agent that lost no frame has been
\* replayed, its mirror is the host's notebook (handle_ws_message, on_open).
THEOREM MirrorIsSound == Spec => []MirrorSound
  <1>1. MInv => MirrorSound
    <2> SUFFICES ASSUME MInv PROVE MirrorSound
          OBVIOUS
    <2>1. DocFits /\ HostFits /\ AgentsFit /\ RequestsFit /\ BoundsFit /\ QueuesFit
          BY EventsHappened DEF MInv, Types
    <2>2. \A f : FrameFits(f) \/ f = NoFrame => FrameType(f)
      <3>1. NoFrame.kind = "none" /\ NoFrame.id = NoId
            BY DEF NoFrame
      <3> QED
            BY <3>1 DEF FrameFits, FrameType
    <2>3. ASSUME NEW i \in DOMAIN unsent PROVE FrameType(unsent[i])
      <3>1. PICK f : f = unsent[i] /\ f \in ToSet(unsent)
            BY <2>3 DEF ToSet
      <3>2. FrameFits(f)
            BY <2>1, <3>1 DEF HostFits, FrameFits
      <3> QED
            BY <2>2, <3>1, <3>2
    <2>4. ASSUME NEW a \in Agent, NEW i \in DOMAIN down[a] PROVE FrameType(down[a][i])
      <3>1. PICK f : f = down[a][i] /\ f \in ToSet(down[a])
            BY <2>4 DEF ToSet
      <3>2. FrameFits(f)
            BY <2>1, <3>1 DEF AgentsFit
      <3> QED
            BY <2>2, <3>1, <3>2
    <2>5. ASSUME NEW a \in Agent PROVE mirror[a] = NoDoc \/ DocType(mirror[a])
      <3>1. PICK p \in Sight(a) : p.doc = mirror[a]
            BY <2>1, AheadIsSeen
      <3> QED
            BY <3>1 DEF MInv, Coherent
    <2>6. ASSUME NEW a \in Agent PROVE FrameType(resolving[a])
          BY <2>1, <2>2 DEF AgentsFit
    <2>7. ASSUME NEW r \in Request
          PROVE  request[r].at \in {"none", "ready", "sent", "ok", "refused", "timed out"}
      <3>1. RequestFits(r) /\ NoRequest.at = "none"
            BY <2>1 DEF RequestsFit, NoRequest
      <3> QED
            BY <3>1, Zenon DEF RequestFits, Asking
    <2>8. losses <= MaxLosses /\ edits <= MaxEdits /\ outages <= MaxOutages
          BY <2>1 DEF BoundsFit
    <2>9. TypeOK
          BY <2>1, <2>3, <2>4, <2>5, <2>6, <2>7, <2>8
          DEF TypeOK, DocFits, HostFits, AgentsFit, RequestsFit
    <2>10. MirrorFollows
          BY DEF MirrorFollows, MInv, Following
    <2> QED
          BY <2>9, <2>10 DEF MirrorSound
  <1> QED
        BY <1>1, MirrorInvariant, PTL

\* An agent that was told its mutation went through finds it in its mirror: the
\* receive task replays the event before it resolves the request.
THEOREM AgentsReadOwnWrites == Spec => []ReadsOwnWrites
  <1>1. MInv => ReadsOwnWrites
    <2> SUFFICES ASSUME MInv, NEW r \in Request, request[r].at = "ok",
                        mirror[request[r].by] # NoDoc
                 PROVE  Shows(mirror[request[r].by], request[r].event)
          BY DEF ReadsOwnWrites
    <2>1. request[r].by \in Agent
          BY Requested DEF MInv, Types, AgentsFit
    <2>2. PICK p \in Sight(request[r].by) : p.doc = mirror[request[r].by]
          BY <2>1, EventsHappened, AheadIsSeen DEF MInv
    <2> QED
          BY <2>1, <2>2 DEF MInv, Answered
  <1> QED
        BY <1>1, MirrorInvariant, PTL

\* A refused request was not carried out and never will be, a confirmed one
\* was: each is in one queue, is taken once, and is answered by what was done.
THEOREM VerdictsAreTrue == Spec => []VerdictsTrue
  <1>1. MInv => VerdictsTrue
        BY DEF MInv, Verdicts, VerdictsTrue
  <1> QED
        BY <1>1, MirrorInvariant, PTL

\* The version check of model.apply does what it is for: an update that is
\* carried out replaces the text its agent saw.
THEOREM EditsAreInformed == Spec => NoBlindOverwrite
  <1>1. MInv /\ [Next]_vars =>
           [\A r \in applied' \ applied :
               Asked(r).op = "update" /\ request[r].by \in Reads \cap whole
                  /\ request[r].at \in {"sent", "timed out"}
               => Saw(r) = doc.cell[Asked(r).cell].text]_vars
    <2> SUFFICES ASSUME MInv, Next, NEW r \in applied' \ applied, Asked(r).op = "update",
                        request[r].by \in Reads \cap whole, request[r].at \in {"sent", "timed out"}
                 PROVE  Saw(r) = doc.cell[Asked(r).cell].text
          OBVIOUS
    <2>1. PICK a \in Agent, s \in Request, c \in Cell : Accept(a, s, c)
      <3>1. applied' # applied
            OBVIOUS
      <3> QED
            BY <3>1 DEF Next, Host, Edit, Outage, Reopen, AnswerGet, Refuse, Deny, Drop, Connect, Receive,
                        Resolve, TimeOut, Forward, Ask, history
    <2>2. r = s
          BY <2>1 DEF Accept
    <2>3. PICK q, e : q = request[r].asks /\ e = EventOf(Resolved(q, c))
          OBVIOUS
    <2>4. q.op = "update" => q.cell \in Listed(doc) /\ q.version = doc.cell[q.cell].version
          BY <2>1, <2>2, <2>3, AcceptChanges DEF MInv
    <2>5. Asked(r) = q /\ request[r].at \in Asking
          BY <2>3 DEF Asked, Asking
    <2>6. q.version = doc.cell[q.cell].version => Saw(r) = doc.cell[q.cell].text
      <3>1. q.op = "update" /\ q.cell \in Listed(doc)
            BY <2>4, <2>5
      <3> QED
            BY <2>2, <2>5, <3>1 DEF MInv, Seen
    <2> QED
          BY <2>4, <2>5, <2>6
  <1> QED
        BY <1>1, MirrorInvariant, PTL DEF Spec, NoBlindOverwrite
=============================================================================
