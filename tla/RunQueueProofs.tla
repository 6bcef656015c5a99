--------------------------- MODULE RunQueueProofs ---------------------------
(***************************************************************************)
(* Proofs about the run queue, for any cells, texts and tasks, and any     *)
(* number of commands.                                                     *)
(*                                                                         *)
(* The invariant QInv adds to the properties of the runs what a step needs *)
(* to know of the state it starts in: no task and no watcher of the page   *)
(* is left in View mode; the front of the queue is triggered where it is   *)
(* not at work yet; and a cell that is about to be blocked in the middle   *)
(* of its run is neither queued nor consumed by anything that is.  The     *)
(* last part holds only because what a cell consumes is transitive.        *)
(***************************************************************************)
EXTENDS RunQueue, ListProofs

-----------------------------------------------------------------------------
(***************************************************************************)
(* Lists.                                                                  *)
(***************************************************************************)

\* The members from a place on.
LEMMA FromMembers ==
    ASSUME NEW T, NEW s \in Seq(T), NEW i \in 1 .. Len(s) + 1
    PROVE  /\ SubSeq(s, i, Len(s)) \in Seq(T)
           /\ \A j \in i .. Len(s) : s[j] \in ToSet(SubSeq(s, i, Len(s)))
           /\ ToSet(SubSeq(s, i, Len(s))) \subseteq ToSet(s)
           /\ IsInjective(s) => IsInjective(SubSeq(s, i, Len(s)))
  <1> DEFINE r == SubSeq(s, i, Len(s))
  <1>1. /\ Len(s) \in Nat /\ DOMAIN s = 1 .. Len(s)
        /\ r \in Seq(T) /\ Len(r) = Len(s) - i + 1 /\ DOMAIN r = 1 .. Len(s) - i + 1
        /\ \A k \in 1 .. Len(s) - i + 1 : r[k] = s[i + k - 1]
        BY SubSeqProperties
  <1> HIDE DEF r
  <1>2. /\ \A k \in 1 .. Len(s) - i + 1 : i + k - 1 \in 1 .. Len(s)
        /\ \A j \in i .. Len(s) : j - i + 1 \in 1 .. Len(s) - i + 1 /\ i + (j - i + 1) - 1 = j
        BY <1>1
  <1>3. \A j \in i .. Len(s) : s[j] \in ToSet(r)
        BY <1>1, <1>2 DEF ToSet
  <1>4. ToSet(r) \subseteq ToSet(s)
    <2>1. SUFFICES ASSUME NEW k \in 1 .. Len(s) - i + 1 PROVE r[k] \in ToSet(s)
          BY <1>1 DEF ToSet
    <2>2. r[k] = s[i + k - 1] /\ i + k - 1 \in DOMAIN s
          BY <1>1, <1>2
    <2> QED
          BY <2>2 DEF ToSet
  <1>5. ASSUME IsInjective(s) PROVE IsInjective(r)
    <2>1. SUFFICES ASSUME NEW k \in 1 .. Len(s) - i + 1, NEW l \in 1 .. Len(s) - i + 1, r[k] = r[l]
                   PROVE  k = l
          BY <1>1 DEF IsInjective
    <2>2. PICK m, n \in DOMAIN s : m = i + k - 1 /\ n = i + l - 1 /\ s[m] = s[n]
          BY <1>1, <1>2, <2>1
    <2>3. m = n
          BY <1>5, <2>2 DEF IsInjective
    <2> QED
          BY <1>1, <2>2, <2>3
  <1> QED
        BY <1>1, <1>3, <1>4, <1>5 DEF r

\* Two neighbours change places.
LEMMA SwapMembers ==
    ASSUME NEW T, NEW s \in Seq(T), NEW i \in 2 .. Len(s)
    PROVE  LET u == [s EXCEPT ![i - 1] = s[i], ![i] = s[i - 1]]
           IN  /\ u \in Seq(T) /\ ToSet(u) = ToSet(s)
               /\ IsInjective(s) => IsInjective(u)
  <1> DEFINE u == [s EXCEPT ![i - 1] = s[i], ![i] = s[i - 1]]
  <1>1. /\ Len(s) \in Nat /\ DOMAIN s = 1 .. Len(s) /\ i - 1 \in 1 .. Len(s) /\ i \in 1 .. Len(s)
        /\ i - 1 # i
        OBVIOUS
  <1> DEFINE v == [s EXCEPT ![i - 1] = s[i]]
  <1>2. /\ v \in Seq(T) /\ Len(v) = Len(s) /\ DOMAIN v = 1 .. Len(s)
        /\ \A k \in 1 .. Len(s) : v[k] = IF k = i - 1 THEN s[i] ELSE s[k]
        BY <1>1
  <1>3. u = [v EXCEPT ![i] = s[i - 1]]
        OBVIOUS
  <1> HIDE DEF u, v
  <1>4. /\ u \in Seq(T) /\ Len(u) = Len(s) /\ DOMAIN u = 1 .. Len(s)
        /\ \A k \in 1 .. Len(s) : u[k] = IF k = i THEN s[i - 1] ELSE v[k]
        BY <1>1, <1>2, <1>3
  <1>5. \A k \in 1 .. Len(s) :
            u[k] = IF k = i THEN s[i - 1] ELSE IF k = i - 1 THEN s[i] ELSE s[k]
        BY <1>2, <1>4
  <1>6. ToSet(u) = ToSet(s)
    <2>1. ToSet(u) \subseteq ToSet(s)
          BY <1>1, <1>4, <1>5 DEF ToSet
    <2>2. SUFFICES ASSUME NEW k \in 1 .. Len(s) PROVE s[k] \in ToSet(u)
          BY <1>1, <2>1 DEF ToSet
    <2>3. s[i - 1] = u[i] /\ s[i] = u[i - 1]
          BY <1>1, <1>5
    <2>4. k # i /\ k # i - 1 => s[k] = u[k]
          BY <1>5
    <2> QED
          BY <1>1, <1>4, <2>3, <2>4 DEF ToSet
  <1>7. ASSUME IsInjective(s) PROVE IsInjective(u)
    <2>1. SUFFICES ASSUME NEW k \in 1 .. Len(s), NEW l \in 1 .. Len(s), u[k] = u[l]
                   PROVE  k = l
          BY <1>4 DEF IsInjective
    <2>2. \A m, n \in 1 .. Len(s) : s[m] = s[n] => m = n
          BY <1>1, <1>7 DEF IsInjective
    <2> QED
          BY <1>1, <1>5, <2>1, <2>2
  <1> QED
        BY <1>4, <1>6, <1>7 DEF u

-----------------------------------------------------------------------------
(***************************************************************************)
(* What a cell consumes.                                                   *)
(***************************************************************************)

\* f gives what the positions in S consume.
Consumed(texts, runnable, S, f) ==
    f = [i \in S |-> LET d == Direct(texts[i], runnable, i)
                     IN  d \cup UNION {f[j] : j \in d}]

\* What is directly read is above.
LEMMA DirectAbove ==
    ASSUME NEW refs, NEW runnable, NEW i
    PROVE  Direct(refs, runnable, i) \subseteq 1 .. i - 1
  BY DEF Direct

\* The recursion of DepIndices goes down the list, so it has a solution.
LEMMA ConsumedExists ==
    ASSUME NEW texts, NEW runnable, NEW n \in Nat
    PROVE  \E f : Consumed(texts, runnable, 1 .. n, f)
  <1> DEFINE D(i) == Direct(texts[i], runnable, i)
             Is(m, f) == Consumed(texts, runnable, 1 .. m, f)
             T == {m \in 0 .. n : \E f : Is(m, f)}
  <1>1. 0 \in T
    <2>1. Is(0, [i \in 1 .. 0 |-> {}])
          BY DEF Consumed
    <2> HIDE DEF Is
    <2>2. 0 \in 0 .. n
          OBVIOUS
    <2> QED
          BY <2>1, <2>2
  <1>2. ASSUME NEW m \in 0 .. n - 1, m \in T PROVE m + 1 \in T
    <2>1. PICK f : Is(m, f)
          BY <1>2
    <2> DEFINE new == D(m + 1) \cup UNION {f[j] : j \in D(m + 1)}
               g == [i \in 1 .. m + 1 |-> IF i = m + 1 THEN new ELSE f[i]]
    <2>2. m + 1 \in 0 .. n /\ m + 1 \in 1 .. m + 1 /\ \A i \in 1 .. m + 1 : i # m + 1 => i \in 1 .. m
          BY <1>2
    <2>3. \A i \in 1 .. m : g[i] = f[i]
          BY <1>2
    <2>4. \A i \in 1 .. m + 1 : \A j \in D(i) : j \in 1 .. m
      <3>1. SUFFICES ASSUME NEW i \in 1 .. m + 1, NEW j \in D(i) PROVE j \in 1 .. m
            OBVIOUS
      <3>2. j \in 1 .. i - 1
            BY DirectAbove
      <3> QED
            BY <3>2, <1>2
    <2>5. \A i \in 1 .. m + 1 : g[i] = D(i) \cup UNION {g[j] : j \in D(i)}
      <3>1. SUFFICES ASSUME NEW i \in 1 .. m + 1
                     PROVE  g[i] = D(i) \cup UNION {g[j] : j \in D(i)}
            OBVIOUS
      <3>2. {g[j] : j \in D(i)} = {f[j] : j \in D(i)}
        <4>1. \A j \in D(i) : g[j] = f[j]
              BY <2>3, <2>4
        <4> HIDE DEF g, D
        <4> QED
              BY <4>1
      <3>3. CASE i = m + 1
        <4>1. g[i] = new
              BY <3>3
        <4> HIDE DEF g, D
        <4> QED
              BY <3>2, <3>3, <4>1
      <3>4. CASE i # m + 1
        <4>1. i \in 1 .. m
              BY <2>2, <3>4
        <4>2. f[i] = D(i) \cup UNION {f[j] : j \in D(i)}
          <5> HIDE DEF D
          <5>1. f = [l \in 1 .. m |-> D(l) \cup UNION {f[j] : j \in D(l)}]
                BY <2>1 DEF Consumed, D
          <5> QED
                BY <4>1, <5>1
        <4>3. g[i] = f[i]
              BY <2>3, <4>1
        <4> HIDE DEF g, D
        <4> QED
              BY <3>2, <4>2, <4>3
      <3> QED
            BY <3>3, <3>4
    <2>6. g = [i \in 1 .. m + 1 |-> g[i]]
          OBVIOUS
    <2>7. Is(m + 1, g)
      <3> HIDE DEF g, D
      <3>1. g = [i \in 1 .. m + 1 |-> D(i) \cup UNION {g[j] : j \in D(i)}]
            BY <2>5, <2>6
      <3> QED
            BY <3>1 DEF Consumed, D
    <2> HIDE DEF g, Is
    <2> QED
          BY <2>2, <2>7
  <1> HIDE DEF T
  <1>3. 0 .. n \subseteq T
        BY <1>1, <1>2, Induction
  <1>4. n \in T
        BY <1>3
  <1> QED
        BY <1>4 DEF T

LEMMA DepIndicesSolve ==
    ASSUME NEW n \in Nat, NEW texts, DOMAIN texts = 1 .. n, NEW runnable
    PROVE  Consumed(texts, runnable, 1 .. n, DepIndices(texts, runnable))
  <1> DEFINE f == CHOOSE f : Consumed(texts, runnable, DOMAIN texts, f)
  <1>1. \E g : Consumed(texts, runnable, DOMAIN texts, g)
        BY ConsumedExists
  <1>2. Consumed(texts, runnable, DOMAIN texts, f)
        BY <1>1
  <1>3. DepIndices(texts, runnable) = f
        BY DEF DepIndices, Consumed
  <1> QED
        BY <1>2, <1>3

\* A cell consumes what is above it, and all that what it consumes does.
LEMMA DepIndicesTransitive ==
    ASSUME NEW n \in Nat, NEW texts, DOMAIN texts = 1 .. n, NEW runnable,
           NEW i \in 1 .. n
    PROVE  LET dep == DepIndices(texts, runnable)
           IN  dep[i] \subseteq 1 .. i - 1 /\ \A j \in dep[i] : dep[j] \subseteq dep[i]
  <1> DEFINE dep == DepIndices(texts, runnable)
             D(k) == Direct(texts[k], runnable, k)
             Holds(k) == dep[k] \subseteq 1 .. k - 1 /\ \A j \in dep[k] : dep[j] \subseteq dep[k]
             T == {m \in 0 .. n : \A k \in 1 .. m : Holds(k)}
  <1>1. \A k \in 1 .. n : dep[k] = D(k) \cup UNION {dep[j] : j \in D(k)}
    <2>1. dep = [k \in 1 .. n |-> D(k) \cup UNION {dep[j] : j \in D(k)}]
          BY DepIndicesSolve DEF Consumed
    <2> HIDE DEF dep, D
    <2> QED
          BY <2>1
  <1>2. \A k \in 1 .. n : D(k) \subseteq 1 .. k - 1
        BY DirectAbove
  <1> HIDE DEF dep, D
  <1>3. 0 \in T
        OBVIOUS
  <1>4. ASSUME NEW m \in 0 .. n - 1, m \in T PROVE m + 1 \in T
    <2>1. \A k \in 1 .. m : Holds(k)
          BY <1>4
    <2>2. /\ m + 1 \in 1 .. n /\ m + 1 \in 0 .. n
          /\ dep[m + 1] = D(m + 1) \cup UNION {dep[j] : j \in D(m + 1)}
          BY <1>1, <1>4
    <2>3. D(m + 1) \subseteq 1 .. m
      <3>1. (m + 1) - 1 = m
            BY <1>4
      <3> QED
            BY <1>2, <2>2, <3>1
    <2>4. \A j \in 1 .. m : dep[j] \subseteq 1 .. m
      <3>1. SUFFICES ASSUME NEW j \in 1 .. m, NEW l \in dep[j] PROVE l \in 1 .. m
            OBVIOUS
      <3>2. l \in 1 .. j - 1
            BY <2>1
      <3> QED
            BY <3>2, <1>4
    <2>5. \A l \in dep[m + 1] : l \in 1 .. m
          BY <2>2, <2>3, <2>4
    <2>6. \A j \in D(m + 1) : dep[j] \subseteq dep[m + 1]
          BY <2>2
    <2>7. \A l \in dep[m + 1] : dep[l] \subseteq dep[m + 1]
      <3>1. SUFFICES ASSUME NEW l \in dep[m + 1] PROVE dep[l] \subseteq dep[m + 1]
            OBVIOUS
      <3>2. CASE l \in D(m + 1)
            BY <2>6, <3>2
      <3>3. CASE l \notin D(m + 1)
        <4>1. PICK j \in D(m + 1) : l \in dep[j]
              BY <2>2, <3>1, <3>3
        <4>2. dep[l] \subseteq dep[j]
              BY <2>1, <2>3, <4>1
        <4> QED
              BY <2>6, <4>1, <4>2
      <3> QED
            BY <3>2, <3>3
    <2>8. Holds(m + 1)
      <3>1. (m + 1) - 1 = m
            BY <1>4
      <3> QED
            BY <2>5, <2>7, <3>1
    <2> HIDE DEF Holds
    <2>9. \A k \in 1 .. m + 1 : k \in 1 .. m \/ k = m + 1
          BY <1>4
    <2> QED
          BY <2>1, <2>2, <2>8, <2>9
  <1> HIDE DEF T
  <1>5. 0 .. n \subseteq T
        BY <1>3, <1>4, Induction
  <1>6. n \in T
        BY <1>5
  <1> QED
        BY <1>6 DEF T, dep

-----------------------------------------------------------------------------
(***************************************************************************)
(* The invariant.                                                          *)
(***************************************************************************)

\* What a task of the page may be doing; View mode's have a phase of their own.
Phases == {"compile", "store", "execute", "aborted"}

TaskOf(k) == task[k].phase \in Phases

TaskState == {NoTask} \cup [phase : Phases \cup {"view"}, cell : Cell, text : Text]

DocumentTyped ==
    /\ order \in Seq(Cell) /\ IsInjective(order)
    /\ shared \subseteq Existing
    /\ src \in [Existing -> Text]

ResultsTyped ==
    /\ stale \subseteq Existing
    /\ outputs \in [DOMAIN outputs -> Text]

QueueTyped ==
    /\ queue \in Seq(Cell) /\ IsInjective(queue) /\ ToSet(queue) \subseteq Existing
    /\ blame \in [DOMAIN blame -> Existing] /\ DOMAIN blame \subseteq Existing

PageTyped ==
    /\ status \in [IF editing THEN Existing ELSE {} -> Status]
    /\ task \in [Task -> TaskState]
    /\ reactive \in BOOLEAN /\ timer \in BOOLEAN /\ editing \in BOOLEAN
    /\ shown \in [DOMAIN shown -> Text]
    /\ due \subseteq {"queue", "blame"} /\ trigger \subseteq Existing
    /\ commands \in 0 .. MaxCommands
    /\ asked \subseteq Existing /\ halted \subseteq Existing

Shape == DocumentTyped /\ ResultsTyped /\ QueueTyped /\ PageTyped

\* View mode has no watcher to run and no task of the page.
Mounted ==
    /\ ~editing => due = {} /\ trigger = {}
    /\ \A k \in Task : TaskOf(k) => editing /\ task[k].cell \in Existing

\* The cells that are at work and that the blame watchers are about to block.
Doomed == {c \in DOMAIN blame \cap DOMAIN status : status[c] \in Busy}

\* Nothing that is queued or triggered is such a cell or consumes one.
Cascade ==
    Doomed # {} =>
        /\ "blame" \in due
        /\ \A q \in ToSet(queue) \cup trigger : q \notin Doomed /\ DependsOn(q) \cap Doomed = {}

\* The front is at work, cancelled, or about to start.
FrontHeld ==
    "queue" \notin due /\ editing /\ queue # <<>> =>
        \/ status[Head(queue)] \in Busy
        \/ Head(queue) \in halted
        \/ Head(queue) \in trigger \ shared

QInv == Shape /\ Mounted /\ BusyCellHasTask /\ BlamedOnFailure /\ Cascade /\ FrontHeld

\* The task that a cell at work waits for.
Serves(k, c) ==
    /\ task[k].cell = c
    /\ \/ status[c] = "Compiling" /\ task[k].phase = "compile"
       \/ status[c] = "Running"   /\ task[k].phase \in {"store", "execute", "aborted"}

-----------------------------------------------------------------------------
(***************************************************************************)
(* The document.                                                           *)
(***************************************************************************)

\* What it is to name a cell by its place.
LEMMA Places ==
    ASSUME DocumentTyped
    PROVE  /\ DOMAIN order = 1 .. Len(order) /\ Len(order) \in Nat
           /\ Existing \subseteq Cell
           /\ \A j \in 1 .. Len(order) : order[j] \in Existing /\ Position(order[j]) = j
           /\ \A c \in Existing : Position(c) \in 1 .. Len(order) /\ order[Position(c)] = c
  <1>1. DOMAIN order = 1 .. Len(order) /\ Len(order) \in Nat
        BY DEF DocumentTyped
  <1>2. \A j \in 1 .. Len(order) : order[j] \in Existing /\ order[j] \in Cell
        BY <1>1 DEF DocumentTyped, Existing, ToSet
  <1>3. \A c \in Existing : \E j \in 1 .. Len(order) : c = order[j]
        BY <1>1 DEF Existing, ToSet
  <1>4. \A c \in Existing : Position(c) \in 1 .. Len(order) /\ order[Position(c)] = c
        BY <1>1, <1>3 DEF Position
  <1>5. \A i, j \in 1 .. Len(order) : order[i] = order[j] => i = j
        BY <1>1 DEF DocumentTyped, IsInjective
  <1>6. \A j \in 1 .. Len(order) : Position(order[j]) = j
        BY <1>2, <1>4, <1>5
  <1> QED
        BY <1>1, <1>2, <1>3, <1>4, <1>6

\* The cells of a place and of all below it that run, in order.
LEMMA FromOnTyped ==
    ASSUME DocumentTyped, NEW i \in 1 .. Len(order) + 1
    PROVE  /\ FromOn(i) \in Seq(Cell) /\ IsInjective(FromOn(i))
           /\ ToSet(FromOn(i)) \subseteq Runnable
           /\ \A j \in i .. Len(order) : order[j] \in Runnable => order[j] \in ToSet(FromOn(i))
  <1> DEFINE r == SubSeq(order, i, Len(order))
  <1>1. order \in Seq(Cell) /\ IsInjective(order)
        BY DEF DocumentTyped
  <1>2. /\ r \in Seq(Cell) /\ IsInjective(r)
        /\ \A j \in i .. Len(order) : order[j] \in ToSet(r)
        BY <1>1, FromMembers
  <1> HIDE DEF r
  <1>3. /\ Only(r, Runnable) \in Seq(Cell) /\ IsInjective(Only(r, Runnable))
        /\ ToSet(Only(r, Runnable)) = ToSet(r) \cap Runnable
        BY <1>2, OnlyMembers
  <1>4. FromOn(i) = Only(r, Runnable)
        BY DEF FromOn, r
  <1> QED
        BY <1>2, <1>3, <1>4

\* Cells in the order of the notebook.
LEMMA InOrderTyped ==
    ASSUME DocumentTyped, NEW S
    PROVE  /\ InOrder(S) \in Seq(Cell) /\ IsInjective(InOrder(S))
           /\ ToSet(InOrder(S)) = Existing \cap S
  BY OnlyMembers DEF DocumentTyped, InOrder, Existing

\* A cell consumes all that what it consumes does.
LEMMA Transitive ==
    ASSUME DocumentTyped, NEW x \in Existing, NEW y \in DependsOn(x)
    PROVE  y \in Existing /\ DependsOn(y) \subseteq DependsOn(x)
  <1> DEFINE texts == [i \in DOMAIN order |-> src[order[i]]]
             runs == {i \in DOMAIN order : order[i] \in Runnable}
             dep == DepIndices(texts, runs)
  <1>1. /\ DOMAIN order = 1 .. Len(order) /\ Len(order) \in Nat
        /\ \A j \in 1 .. Len(order) : order[j] \in Existing /\ Position(order[j]) = j
        /\ Position(x) \in 1 .. Len(order)
        BY Places
  <1>2. DOMAIN texts = 1 .. Len(order)
        BY <1>1
  <1>3. \A c : DependsOn(c) = {order[j] : j \in dep[Position(c)]}
        BY DEF DependsOn
  <1> HIDE DEF texts, runs
  <1>4. \A i \in 1 .. Len(order) :
            dep[i] \subseteq 1 .. i - 1 /\ \A j \in dep[i] : dep[j] \subseteq dep[i]
        BY <1>1, <1>2, DepIndicesTransitive
  <1> HIDE DEF dep
  <1>5. PICK j \in dep[Position(x)] : y = order[j]
        BY <1>3
  <1>6. j \in 1 .. Len(order)
    <2>1. j \in 1 .. Position(x) - 1
          BY <1>1, <1>4, <1>5
    <2> QED
          BY <1>1, <2>1
  <1>7. Position(y) = j /\ y \in Existing
        BY <1>1, <1>5, <1>6
  <1>8. dep[j] \subseteq dep[Position(x)]
        BY <1>1, <1>4, <1>5
  <1> QED
        BY <1>3, <1>7, <1>8

LEMMA SameDocument ==
    ASSUME DocumentTyped, UNCHANGED document
    PROVE  /\ DocumentTyped' /\ Existing' = Existing /\ Runnable' = Runnable
           /\ UNCHANGED <<order, shared, src>>
           /\ \A c : DependsOn(c)' = DependsOn(c)
  <1>1. UNCHANGED <<order, shared, src>>
        BY DEF document
  <1>2. Existing' = Existing /\ Runnable' = Runnable
        BY <1>1 DEF Existing, Runnable
  <1>3. DocumentTyped'
        BY <1>1, <1>2 DEF DocumentTyped
  <1>4. \A c : DependsOn(c)' = DependsOn(c)
        BY <1>1, <1>2 DEF DependsOn, Position
  <1> QED
        BY <1>1, <1>2, <1>3, <1>4

-----------------------------------------------------------------------------
(***************************************************************************)
(* What keeps each part.                                                   *)
(***************************************************************************)

LEMMA ServedAreBusy ==
    BusyCellHasTask <=>
        \A c \in DOMAIN status : status[c] \in Busy => \E k \in Task : Serves(k, c)
  BY DEF BusyCellHasTask, Serves, At, Busy

\* A cell that is at work after a step has got a task, or kept the one it had.
LEMMA BusyKept ==
    ASSUME BusyCellHasTask,
           \A c \in DOMAIN status' : status'[c] \in Busy =>
               \/ \E k \in Task : Serves(k, c)'
               \/ /\ c \in DOMAIN status /\ status[c] \in Busy
                  /\ \A k \in Task : Serves(k, c) => Serves(k, c)'
    PROVE  BusyCellHasTask'
  <1>1. \A c \in DOMAIN status' : status'[c] \in Busy => \E k \in Task : Serves(k, c)'
        BY ServedAreBusy
  <1> QED
        BY <1>1 DEF BusyCellHasTask, Serves, At, Busy

\* Blame that stays, on cells that have not succeeded since.
LEMMA BlameKept ==
    ASSUME BlamedOnFailure,
           \A d \in DOMAIN blame' :
               \/ blame'[d] \in DOMAIN status' => status'[blame'[d]] # "Success"
               \/ /\ d \in DOMAIN blame /\ blame'[d] = blame[d]
                  /\ blame[d] \in DOMAIN status' =>
                         /\ blame[d] \in DOMAIN status
                         /\ status'[blame[d]] = "Success" => status[blame[d]] = "Success"
    PROVE  BlamedOnFailure'
  BY DEF BlamedOnFailure

\* While the page waits for an event nothing is about to be blocked at work.
LEMMA CalmParts ==
    ASSUME QInv, Quiet
    PROVE  /\ due = {} /\ trigger = {} /\ Doomed = {}
           /\ editing /\ queue # <<>> => status[Head(queue)] \in Busy \/ Head(queue) \in halted
  <1>1. due = {} /\ trigger = {}
        BY DEF Quiet
  <1>2. Doomed = {}
        BY <1>1 DEF QInv, Cascade
  <1> QED
        BY <1>1, <1>2 DEF QInv, FrontHeld

\* The step of an event that leaves the cells and the tasks to themselves.
LEMMA CalmStep ==
    ASSUME QInv, Quiet, Existing' = Existing, UNCHANGED <<editing, task, status>>,
           DOMAIN blame' \subseteq DOMAIN blame,
           \A d \in DOMAIN blame' : blame'[d] = blame[d],
           halted \subseteq halted',
           editing => queue' = queue \/ "queue" \in due',
           ~editing => due' = {} /\ trigger' = {}
    PROVE  Mounted' /\ BusyCellHasTask' /\ BlamedOnFailure' /\ Cascade' /\ FrontHeld'
  <1>1. /\ due = {} /\ trigger = {} /\ Doomed = {}
        /\ editing /\ queue # <<>> => status[Head(queue)] \in Busy \/ Head(queue) \in halted
        BY CalmParts
  <1>2. Mounted'
        BY DEF QInv, Mounted, TaskOf
  <1>3. BusyCellHasTask'
        BY DEF QInv, BusyCellHasTask, At
  <1>4. BlamedOnFailure'
        BY DEF QInv, BlamedOnFailure
  <1>5. Doomed' = {}
        BY <1>1 DEF Doomed
  <1>6. FrontHeld'
        BY <1>1 DEF FrontHeld
  <1> QED
        BY <1>2, <1>3, <1>4, <1>5, <1>6 DEF Cascade

-----------------------------------------------------------------------------
(***************************************************************************)
(* The commands that only write the queue, the marks or the document.      *)
(***************************************************************************)

LEMMA CommandStep ==
    ASSUME QInv, Command
    PROVE  Quiet /\ commands' = commands + 1 /\ commands \in Nat /\ commands' \in 0 .. MaxCommands
  BY BoundAssumption DEF Command, QInv, Shape, PageTyped

\* The timer is set or not, whatever was marked.
LEMMA TimerTyped ==
    ASSUME QInv, NEW st
    PROVE  TimerAfter(st) \in BOOLEAN
  BY DEF QInv, Shape, PageTyped, TimerAfter

LEMMA RunInv ==
    ASSUME QInv, NEW c \in Cell, Run(c)
    PROVE  QInv'
  <1>1. Quiet /\ commands' \in 0 .. MaxCommands
        BY CommandStep DEF Run
  <1>2. /\ UNCHANGED <<document, results, queue, blame, status, task, page, due, history>>
        /\ editing /\ trigger' = {c} /\ c \in Existing
        BY DEF Run
  <1>3. DocumentTyped' /\ Existing' = Existing
        BY <1>2, SameDocument DEF QInv, Shape
  <1>4. Shape'
        BY <1>1, <1>2, <1>3
        DEF QInv, Shape, ResultsTyped, QueueTyped, PageTyped, results, page, history
  <1>5. Mounted' /\ BusyCellHasTask' /\ BlamedOnFailure' /\ Cascade' /\ FrontHeld'
        BY <1>1, <1>2, <1>3, CalmStep DEF page, history
  <1> QED
        BY <1>4, <1>5 DEF QInv

\* Another queue of cells that run, and its watchers notified.
LEMMA EnqueueInv ==
    ASSUME QInv, Quiet, NEW ids, ids \in Seq(Cell), IsInjective(ids), ToSet(ids) \subseteq Existing,
           queue' = ids, due' = Notified({"queue"}),
           UNCHANGED <<document, results, blame, status, task, trigger>>,
           UNCHANGED <<reactive, editing, shown, halted>>,
           timer' \in BOOLEAN, commands' \in 0 .. MaxCommands, asked' \subseteq Existing
    PROVE  QInv'
  <1>1. DocumentTyped' /\ Existing' = Existing
        BY SameDocument DEF QInv, Shape
  <1>2. due = {} /\ trigger = {} /\ due' = IF editing THEN {"queue"} ELSE {}
        BY CalmParts DEF Notified
  <1>3. Shape'
        BY <1>1, <1>2 DEF QInv, Shape, ResultsTyped, QueueTyped, PageTyped, results
  <1>4. Mounted' /\ BusyCellHasTask' /\ BlamedOnFailure' /\ Cascade' /\ FrontHeld'
        BY <1>1, <1>2, CalmStep
  <1> QED
        BY <1>3, <1>4 DEF QInv

LEMMA RunAllBelowInv ==
    ASSUME QInv, NEW c \in Cell, RunAllBelow(c)
    PROVE  QInv'
  <1>1. Quiet /\ commands' \in 0 .. MaxCommands
        BY CommandStep DEF RunAllBelow
  <1>2. Position(c) \in 1 .. Len(order) + 1
        BY Places DEF RunAllBelow, QInv, Shape
  <1>3. /\ FromOn(Position(c)) \in Seq(Cell) /\ IsInjective(FromOn(Position(c)))
        /\ ToSet(FromOn(Position(c))) \subseteq Existing
        BY <1>2, FromOnTyped DEF QInv, Shape, Runnable
  <1>4. timer' \in BOOLEAN /\ asked' \subseteq Existing
        BY DEF RunAllBelow, QInv, Shape, PageTyped, page, history
  <1> QED
        BY <1>1, <1>3, <1>4, EnqueueInv DEF RunAllBelow, Enqueue, page, history

LEMMA PressButtonInv ==
    ASSUME QInv, NEW c \in Cell, PressButton(c)
    PROVE  QInv'
  <1>1. Quiet /\ commands' \in 0 .. MaxCommands
        BY CommandStep DEF PressButton
  <1>2. Position(c) + 1 \in 1 .. Len(order) + 1
        BY Places DEF PressButton, QInv, Shape
  <1> DEFINE i == Position(c) + 1
  <1> HIDE DEF i
  <1>3. FromOn(i) \in Seq(Cell) /\ IsInjective(FromOn(i)) /\ ToSet(FromOn(i)) \subseteq Existing
        BY <1>2, FromOnTyped DEF QInv, Shape, Runnable, i
  <1>4. timer' \in BOOLEAN /\ asked' \subseteq Existing
        BY DEF PressButton, QInv, Shape, PageTyped, page, history
  <1>5. queue' = FromOn(i) /\ due' = Notified({"queue"})
        BY DEF PressButton, Enqueue, i
  <1> QED
        BY <1>1, <1>3, <1>4, <1>5, EnqueueInv DEF PressButton, page, history

LEMMA AgentRunInv ==
    ASSUME QInv, NEW c \in Cell, AgentRun(c)
    PROVE  QInv'
  <1>1. Quiet /\ commands' \in 0 .. MaxCommands
        BY CommandStep DEF AgentRun
  <1>2. c \in Existing
        BY DEF AgentRun, Runnable
  <1>3. queue \in Seq(Cell) /\ IsInjective(queue) /\ ToSet(queue) \subseteq Existing
        BY DEF QInv, Shape, QueueTyped
  <1>4. PICK ids : ids = queue' 
        OBVIOUS
  <1>5. ids \in Seq(Cell) /\ IsInjective(ids) /\ ToSet(ids) \subseteq Existing
    <2>1. CASE Queued(c)
          BY <1>3, <1>4, <2>1 DEF AgentRun
    <2>2. CASE ~Queued(c)
      <3>1. ids = Append(queue, c) /\ c \notin ToSet(queue)
            BY <1>4, <2>2 DEF AgentRun, Queued
      <3> QED
            BY <1>2, <1>3, <3>1, AppendMembers
    <2> QED
          BY <2>1, <2>2
  <1>6. timer' \in BOOLEAN /\ asked' \subseteq Existing
        BY <1>2 DEF AgentRun, QInv, Shape, PageTyped, page
  <1> QED
        BY <1>1, <1>4, <1>5, <1>6, EnqueueInv DEF AgentRun, page

LEMMA TimerFiresInv ==
    ASSUME QInv, TimerFires
    PROVE  QInv'
  <1> DEFINE ids == InOrder(Runnable \cap stale)
  <1>1. /\ UNCHANGED <<document, results, blame, status, task, reactive, editing, shown, trigger,
                       commands, history>>
        /\ timer' = FALSE /\ Quiet
        BY DEF TimerFires
  <1>2. ids \in Seq(Cell) /\ IsInjective(ids) /\ ToSet(ids) \subseteq Existing
        BY InOrderTyped DEF QInv, Shape
  <1>3. commands' \in 0 .. MaxCommands /\ asked' \subseteq Existing /\ timer' \in BOOLEAN
        BY <1>1 DEF QInv, Shape, PageTyped, history
  <1>4. CASE queue' = ids /\ due' = Notified({"queue"})
    <2> HIDE DEF ids
    <2> QED
        BY <1>1, <1>2, <1>3, <1>4, EnqueueInv DEF history
  <1>5. CASE UNCHANGED <<queue, due>>
    <2>1. DocumentTyped' /\ Existing' = Existing
          BY <1>1, SameDocument DEF QInv, Shape
    <2>2. Shape'
          BY <1>1, <1>5, <2>1
          DEF QInv, Shape, ResultsTyped, QueueTyped, PageTyped, results, history
    <2>3. ~editing => due' = {} /\ trigger' = {}
          BY <1>1, <1>5 DEF QInv, Mounted
    <2>4. Mounted' /\ BusyCellHasTask' /\ BlamedOnFailure' /\ Cascade' /\ FrontHeld'
          BY <1>1, <1>5, <2>1, <2>3, CalmStep DEF history
    <2> QED
          BY <2>2, <2>4 DEF QInv
  <1> QED
        BY <1>4, <1>5 DEF TimerFires, Enqueue

\* More marks, and the timer with them.
LEMMA MoveSliderInv ==
    ASSUME QInv, NEW c \in Cell, MoveSlider(c)
    PROVE  QInv'
  <1>1. Quiet /\ commands' \in 0 .. MaxCommands
        BY CommandStep DEF MoveSlider
  <1>2. /\ UNCHANGED <<document, outputs, queue, blame, status, task, reactive, editing, shown,
                       due, trigger, history>>
        /\ editing /\ timer' \in BOOLEAN
        BY TimerTyped DEF MoveSlider
  <1>3. DocumentTyped' /\ Existing' = Existing
        BY <1>2, SameDocument DEF QInv, Shape
  <1>4. stale' \subseteq Existing
    <2>1. Position(c) + 1 \in 1 .. Len(order) + 1
          BY Places DEF MoveSlider, QInv, Shape
    <2> DEFINE i == Position(c) + 1
    <2> HIDE DEF i
    <2>2. ToSet(FromOn(i)) \subseteq Existing
          BY <2>1, FromOnTyped DEF QInv, Shape, Runnable, i
    <2>3. stale' = stale \cup ToSet(FromOn(i))
          BY DEF MoveSlider, i
    <2> QED
          BY <2>2, <2>3 DEF QInv, Shape, ResultsTyped
  <1>5. Shape'
        BY <1>1, <1>2, <1>3, <1>4 DEF QInv, Shape, ResultsTyped, QueueTyped, PageTyped, history
  <1>6. Mounted' /\ BusyCellHasTask' /\ BlamedOnFailure' /\ Cascade' /\ FrontHeld'
        BY <1>1, <1>2, <1>3, CalmStep DEF history
  <1> QED
        BY <1>5, <1>6 DEF QInv

\* The cells that an edit marks are cells that run.
LEMMA MarkedTyped ==
    ASSUME DocumentTyped, NEW c \in Existing
    PROVE  MarkedBy(c) \subseteq Existing /\ ToSet(FromOn(1)) \subseteq Existing
  <1>1. Position(c) \in 1 .. Len(order) + 1 /\ 1 \in 1 .. Len(order) + 1
        BY Places
  <1>2. ToSet(FromOn(Position(c))) \subseteq Existing /\ ToSet(FromOn(1)) \subseteq Existing
        BY <1>1, FromOnTyped DEF Runnable
  <1> QED
        BY <1>2 DEF MarkedBy

LEMMA EditInv ==
    ASSUME QInv, NEW c \in Cell, NEW t \in Text, Edit(c, t)
    PROVE  QInv'
  <1>1. Quiet /\ commands' \in 0 .. MaxCommands
        BY CommandStep DEF Edit
  <1>2. /\ UNCHANGED <<order, shared, outputs, queue, blame, status, task, reactive, editing,
                       shown, due, trigger, history>>
        /\ timer' \in BOOLEAN /\ c \in Existing /\ src' = [src EXCEPT ![c] = t]
        /\ stale' = stale \cup MarkedBy(c)
        BY TimerTyped DEF Edit
  <1>3. Existing' = Existing
        BY <1>2 DEF Existing
  <1>4. DocumentTyped'
        BY <1>2, <1>3 DEF DocumentTyped, QInv, Shape
  <1>5. stale' \subseteq Existing
        BY <1>2, MarkedTyped DEF QInv, Shape, ResultsTyped
  <1>6. Shape'
        BY <1>1, <1>2, <1>3, <1>4, <1>5
        DEF QInv, Shape, ResultsTyped, QueueTyped, PageTyped, history
  <1>7. Mounted' /\ BusyCellHasTask' /\ BlamedOnFailure' /\ Cascade' /\ FrontHeld'
    <2>1. ~editing => due' = {} /\ trigger' = {}
          BY <1>2 DEF QInv, Mounted
    <2> QED
          BY <1>1, <1>2, <1>3, <2>1, CalmStep DEF history
  <1> QED
        BY <1>6, <1>7 DEF QInv

LEMMA ToggleSharedInv ==
    ASSUME QInv, NEW c \in Cell, ToggleShared(c)
    PROVE  QInv'
  <1>1. Quiet /\ commands' \in 0 .. MaxCommands
        BY CommandStep DEF ToggleShared
  <1>2. /\ UNCHANGED <<order, src, outputs, queue, blame, status, task, reactive, editing,
                       shown, due, trigger, history>>
        /\ timer' \in BOOLEAN /\ c \in Existing
        /\ shared' = IF c \in shared THEN shared \ {c} ELSE shared \cup {c}
        /\ stale' = stale \cup ToSet(FromOn(1))
        BY TimerTyped DEF ToggleShared
  <1>3. Existing' = Existing
        BY <1>2 DEF Existing
  <1>4. DocumentTyped'
        BY <1>2, <1>3 DEF DocumentTyped, QInv, Shape
  <1>5. stale' \subseteq Existing
        BY <1>2, MarkedTyped DEF QInv, Shape, ResultsTyped
  <1>6. Shape'
        BY <1>1, <1>2, <1>3, <1>4, <1>5
        DEF QInv, Shape, ResultsTyped, QueueTyped, PageTyped, history
  <1>7. Mounted' /\ BusyCellHasTask' /\ BlamedOnFailure' /\ Cascade' /\ FrontHeld'
    <2>1. ~editing => due' = {} /\ trigger' = {}
          BY <1>2 DEF QInv, Mounted
    <2> QED
          BY <1>1, <1>2, <1>3, <2>1, CalmStep DEF history
  <1> QED
        BY <1>6, <1>7 DEF QInv

LEMMA MoveUpInv ==
    ASSUME QInv, NEW c \in Cell, MoveUp(c)
    PROVE  QInv'
  <1>1. Quiet /\ commands' \in 0 .. MaxCommands
        BY CommandStep DEF MoveUp
  <1>2. /\ UNCHANGED <<shared, src, results, queue, status, task, page, trigger, history>>
        /\ c \in Existing /\ Position(c) > 1
        /\ blame' = IF reactive THEN blame ELSE <<>>
        /\ due' = Notified({"blame"})
        BY DEF MoveUp
  <1>3. due = {} /\ trigger = {} /\ due' = IF editing THEN {"blame"} ELSE {}
        BY <1>1, <1>2, CalmParts DEF Notified
  <1>4. order' \in Seq(Cell) /\ IsInjective(order') /\ ToSet(order') = ToSet(order)
    <2>1. PICK i : i = Position(c)
          OBVIOUS
    <2>2. i \in 2 .. Len(order)
          BY <1>2, <2>1, Places DEF QInv, Shape
    <2>3. order' = [order EXCEPT ![i - 1] = order[i], ![i] = order[i - 1]]
          BY <2>1 DEF MoveUp
    <2>4. order \in Seq(Cell) /\ IsInjective(order)
          BY DEF QInv, Shape, DocumentTyped
    <2> DEFINE u == [order EXCEPT ![i - 1] = order[i], ![i] = order[i - 1]]
    <2>5. u \in Seq(Cell) /\ ToSet(u) = ToSet(order) /\ (IsInjective(order) => IsInjective(u))
          BY <2>2, <2>4, SwapMembers
    <2>6. order' = u
          BY <2>3
    <2> HIDE DEF u
    <2> QED
          BY <2>4, <2>5, <2>6
  <1>5. Existing' = Existing
        BY <1>4 DEF Existing
  <1>6. DocumentTyped'
        BY <1>2, <1>4, <1>5 DEF DocumentTyped, QInv, Shape
  <1>7. blame' \in [DOMAIN blame' -> Existing] /\ DOMAIN blame' \subseteq DOMAIN blame
        /\ \A d \in DOMAIN blame' : blame'[d] = blame[d]
        BY <1>2 DEF QInv, Shape, QueueTyped
  <1>8. Shape'
        BY <1>1, <1>2, <1>3, <1>5, <1>6, <1>7
        DEF QInv, Shape, ResultsTyped, QueueTyped, PageTyped, results, page, history
  <1>9. Mounted' /\ BusyCellHasTask' /\ BlamedOnFailure' /\ Cascade' /\ FrontHeld'
        BY <1>1, <1>2, <1>3, <1>5, <1>7, CalmStep DEF page, history
  <1> QED
        BY <1>8, <1>9 DEF QInv

LEMMA ToggleReactiveInv ==
    ASSUME QInv, ToggleReactive
    PROVE  QInv'
  <1>1. Quiet /\ commands' \in 0 .. MaxCommands
        BY CommandStep DEF ToggleReactive
  <1>2. /\ UNCHANGED <<document, results, queue, status, task, timer, editing, shown, trigger,
                       history>>
        /\ editing /\ reactive' = ~reactive
        /\ blame' = IF reactive' THEN blame ELSE <<>>
        /\ due' = Notified({"blame"})
        BY DEF ToggleReactive
  <1>3. DocumentTyped' /\ Existing' = Existing
        BY <1>2, SameDocument DEF QInv, Shape
  <1>4. due' = {"blame"}
        BY <1>1, <1>2, CalmParts DEF Notified
  <1>5. /\ blame' \in [DOMAIN blame' -> Existing] /\ DOMAIN blame' \subseteq DOMAIN blame
        /\ \A d \in DOMAIN blame' : blame'[d] = blame[d]
        BY <1>2 DEF QInv, Shape, QueueTyped
  <1>6. reactive' \in BOOLEAN
        BY <1>2 DEF QInv, Shape, PageTyped
  <1>7. Shape'
        BY <1>1, <1>2, <1>3, <1>4, <1>5, <1>6
        DEF QInv, Shape, ResultsTyped, QueueTyped, PageTyped, results, history
  <1>8. Mounted' /\ BusyCellHasTask' /\ BlamedOnFailure' /\ Cascade' /\ FrontHeld'
        BY <1>1, <1>2, <1>3, <1>4, <1>5, CalmStep DEF history
  <1> QED
        BY <1>7, <1>8 DEF QInv

-----------------------------------------------------------------------------
(***************************************************************************)
(* The effects.                                                            *)
(***************************************************************************)

\* The front is a queued cell, and no other cell is.
LEMMA FrontOfQueue ==
    ASSUME QueueTyped, queue # <<>>
    PROVE  /\ Head(queue) \in ToSet(queue) /\ Head(queue) \in Existing
           /\ \A c : AtFront(c) <=> c = Head(queue)
           /\ Tail(queue) \in Seq(Cell) /\ IsInjective(Tail(queue))
           /\ ToSet(Tail(queue)) = ToSet(queue) \ {Head(queue)}
  <1>1. queue \in Seq(Cell) /\ IsInjective(queue) /\ ToSet(queue) \subseteq Existing
        BY DEF QueueTyped
  <1>2. /\ Tail(queue) \in Seq(Cell) /\ IsInjective(Tail(queue))
        /\ ToSet(queue) = {Head(queue)} \cup ToSet(Tail(queue))
        /\ Head(queue) \notin ToSet(Tail(queue))
        BY <1>1, HeadAndTail
  <1> QED
        BY <1>1, <1>2 DEF AtFront

\* A step that changes neither the document nor what is doomed, and takes
\* nothing new into the queue and the triggers.
LEMMA CascadeKept ==
    ASSUME QInv, UNCHANGED document, Doomed' \subseteq Doomed,
           "blame" \in due => "blame" \in due' \/ Doomed' = {},
           ToSet(queue') \subseteq ToSet(queue), trigger' \subseteq trigger \cup ToSet(queue)
    PROVE  Cascade'
  <1>1. \A c : DependsOn(c)' = DependsOn(c)
        BY SameDocument DEF QInv, Shape
  <1>2. SUFFICES ASSUME Doomed' # {}
                 PROVE  /\ "blame" \in due'
                        /\ \A q \in ToSet(queue') \cup trigger' :
                               q \notin Doomed' /\ DependsOn(q)' \cap Doomed' = {}
        BY DEF Cascade
  <1>3. /\ "blame" \in due
        /\ \A q \in ToSet(queue) \cup trigger : q \notin Doomed /\ DependsOn(q) \cap Doomed = {}
        BY <1>2 DEF QInv, Cascade
  <1> QED
        BY <1>1, <1>2, <1>3

LEMMA QueueWatchersInv ==
    ASSUME QInv, QueueWatchers
    PROVE  QInv'
  <1>1. /\ UNCHANGED <<document, results, blame, task, page, commands, history>>
        /\ "queue" \in due /\ editing
        BY DEF QueueWatchers
  <1>2. DocumentTyped' /\ Existing' = Existing
        BY <1>1, SameDocument DEF QInv, Shape
  <1>3. CASE queue # <<>> /\ Head(queue) \in shared
    <2>1. queue' = Tail(queue) /\ UNCHANGED <<status, due, trigger>>
          BY <1>3 DEF QueueWatchers
    <2>2. queue' \in Seq(Cell) /\ IsInjective(queue') /\ ToSet(queue') \subseteq ToSet(queue)
          BY <1>3, <2>1, FrontOfQueue DEF QInv, Shape
    <2>3. Shape'
          BY <1>1, <1>2, <2>1, <2>2
          DEF QInv, Shape, ResultsTyped, QueueTyped, PageTyped, results, page, history
    <2>4. Mounted' /\ BusyCellHasTask' /\ BlamedOnFailure'
          BY <1>1, <1>2, <2>1
          DEF QInv, Mounted, TaskOf, BusyCellHasTask, At, BlamedOnFailure, page
    <2>5. Doomed' = Doomed
          BY <1>1, <2>1 DEF Doomed
    <2>6. Cascade'
          BY <1>1, <2>1, <2>2, <2>5, CascadeKept
    <2>7. FrontHeld'
          BY <1>1, <2>1 DEF FrontHeld
    <2> QED
          BY <2>3, <2>4, <2>6, <2>7 DEF QInv
  <1>4. CASE ~ (queue # <<>> /\ Head(queue) \in shared)
    <2>1. /\ status' = [c \in DOMAIN status |->
                            IF Queued(c) /\ ~AtFront(c)
                            THEN IF status[c] \in Busy THEN status[c] ELSE "Queued"
                            ELSE IF ~Queued(c) /\ status[c] = "Queued" THEN "Idle" ELSE status[c]]
          /\ trigger' = trigger \cup {c \in Existing : AtFront(c) /\ status[c] \notin Busy}
          /\ due' = due \ {"queue"} /\ queue' = queue
          BY <1>4 DEF QueueWatchers
    <2>2. DOMAIN status = Existing /\ status \in [Existing -> Status]
          BY <1>1 DEF QInv, Shape, PageTyped
    <2> DEFINE E(c) == IF Queued(c) /\ ~AtFront(c)
                       THEN IF status[c] \in Busy THEN status[c] ELSE "Queued"
                       ELSE IF ~Queued(c) /\ status[c] = "Queued" THEN "Idle" ELSE status[c]
    <2>12. status' = [c \in Existing |-> E(c)]
           BY <2>1, <2>2
    <2>13. \A c \in Existing : \/ E(c) = status[c]
                               \/ status[c] \notin Busy /\ E(c) \in {"Queued", "Idle"}
           BY DEF Busy
    <2> HIDE DEF E
    <2>3. /\ DOMAIN status' = Existing
          /\ \A c \in Existing : \/ status'[c] = status[c]
                                 \/ status[c] \notin Busy /\ status'[c] \in {"Queued", "Idle"}
          BY <2>12, <2>13
    <2>4. status' \in [Existing -> Status]
      <3>1. status' = [c \in Existing |-> status'[c]]
            BY <2>12
      <3>2. \A c \in Existing : status'[c] \in Status
            BY <2>2, <2>3 DEF Status
      <3> QED
            BY <3>1, <3>2
    <2>5. Shape'
      <3>1. ResultsTyped' /\ QueueTyped'
            BY <1>1, <1>2, <2>1 DEF QInv, Shape, ResultsTyped, QueueTyped, results
      <3>2. PageTyped'
            BY <1>1, <1>2, <2>1, <2>4 DEF QInv, Shape, PageTyped, page, history
      <3> QED
            BY <1>2, <3>1, <3>2 DEF Shape
    <2>6. Mounted'
          BY <1>1, <1>2 DEF QInv, Mounted, TaskOf, page
    <2>7. BusyCellHasTask'
      <3>1. \A c \in DOMAIN status' : status'[c] \in Busy =>
                /\ c \in DOMAIN status /\ status[c] \in Busy
                /\ \A k \in Task : Serves(k, c) => Serves(k, c)'
            BY <1>1, <2>2, <2>3 DEF Busy, Serves
      <3> QED
            BY <3>1, BusyKept DEF QInv
    <2>8. BlamedOnFailure'
      <3>1. \A c \in DOMAIN status' : status'[c] = "Success" => status[c] = "Success"
            BY <2>3
      <3> QED
            BY <1>1, <2>2, <2>3, <3>1, BlameKept DEF QInv
    <2>9. Doomed' \subseteq Doomed
          BY <1>1, <2>2, <2>3 DEF Doomed, Busy
    <2>10. Cascade'
      <3>1. trigger' \subseteq trigger \cup ToSet(queue)
        <4>1. \A c : AtFront(c) => c \in ToSet(queue)
              BY FrontOfQueue DEF AtFront, QInv, Shape
        <4> QED
              BY <2>1, <4>1
      <3>2. "blame" \in due => "blame" \in due'
            BY <2>1
      <3> QED
            BY <1>1, <2>1, <2>9, <3>1, <3>2, CascadeKept
    <2>11. FrontHeld'
      <3>1. SUFFICES ASSUME queue # <<>>
                     PROVE  \/ status'[Head(queue)] \in Busy
                            \/ Head(queue) \in trigger' \ shared'
            BY <2>1 DEF FrontHeld
      <3>2. Head(queue) \in Existing /\ AtFront(Head(queue)) /\ Head(queue) \notin shared
            BY <1>4, <3>1, FrontOfQueue DEF QInv, Shape
      <3>3. shared' = shared
            BY <1>1 DEF document
      <3>4. status[Head(queue)] \in Busy => status'[Head(queue)] = status[Head(queue)]
            BY <2>3, <3>2
      <3> QED
            BY <2>1, <3>2, <3>3, <3>4
    <2> QED
          BY <2>5, <2>6, <2>7, <2>8, <2>10, <2>11 DEF QInv
  <1> QED
        BY <1>3, <1>4

LEMMA BlameWatchersInv ==
    ASSUME QInv, BlameWatchers
    PROVE  QInv'
  <1>1. /\ UNCHANGED <<document, results, queue, blame, task, page, trigger, commands, history>>
        /\ status' = [c \in DOMAIN status |->
                          IF c \in DOMAIN blame THEN "Blocked"
                          ELSE IF status[c] = "Blocked" THEN "Idle" ELSE status[c]]
        /\ "blame" \in due /\ editing /\ due' = due \ {"blame"}
        BY DEF BlameWatchers
  <1>2. DocumentTyped' /\ Existing' = Existing
        BY <1>1, SameDocument DEF QInv, Shape
  <1>3. DOMAIN status = Existing /\ status \in [Existing -> Status]
        BY <1>1 DEF QInv, Shape, PageTyped
  <1> DEFINE E(c) == IF c \in DOMAIN blame THEN "Blocked"
                     ELSE IF status[c] = "Blocked" THEN "Idle" ELSE status[c]
  <1>12. status' = [c \in Existing |-> E(c)]
         BY <1>1, <1>3
  <1>13. \A c \in Existing :
             /\ c \in DOMAIN blame => E(c) = "Blocked"
             /\ c \notin DOMAIN blame /\ status[c] = "Blocked" => E(c) = "Idle"
             /\ c \notin DOMAIN blame /\ status[c] # "Blocked" => E(c) = status[c]
         OBVIOUS
  <1> HIDE DEF E
  <1>4. /\ DOMAIN status' = Existing
        /\ \A c \in Existing :
             /\ c \in DOMAIN blame => status'[c] = "Blocked"
             /\ c \notin DOMAIN blame /\ status[c] = "Blocked" => status'[c] = "Idle"
             /\ c \notin DOMAIN blame /\ status[c] # "Blocked" => status'[c] = status[c]
        BY <1>12, <1>13
  <1>5. status' \in [Existing -> Status]
    <2>1. status' = [c \in Existing |-> status'[c]]
          BY <1>12
    <2>2. \A c \in Existing : status'[c] \in Status
          BY <1>3, <1>4 DEF Status
    <2> QED
          BY <2>1, <2>2
  <1>6. Shape'
    <2>1. ResultsTyped' /\ QueueTyped'
          BY <1>1, <1>2 DEF QInv, Shape, ResultsTyped, QueueTyped, results
    <2>2. PageTyped'
          BY <1>1, <1>2, <1>5 DEF QInv, Shape, PageTyped, page, history
    <2> QED
          BY <1>2, <2>1, <2>2 DEF Shape
  <1>7. Mounted'
        BY <1>1, <1>2 DEF QInv, Mounted, TaskOf, page
  <1>8. BusyCellHasTask'
    <2>1. \A c \in DOMAIN status' : status'[c] \in Busy =>
              /\ c \in DOMAIN status /\ status[c] \in Busy
              /\ \A k \in Task : Serves(k, c) => Serves(k, c)'
          BY <1>1, <1>3, <1>4 DEF Busy, Serves
    <2> QED
          BY <2>1, BusyKept DEF QInv
  <1>9. BlamedOnFailure'
    <2>1. \A c \in DOMAIN status' : status'[c] = "Success" => status[c] = "Success"
          BY <1>4
    <2> QED
          BY <1>1, <1>3, <1>4, <2>1, BlameKept DEF QInv
  <1>10. Doomed' = {}
         BY <1>1, <1>4 DEF Doomed, Busy
  <1>11. FrontHeld'
    <2>1. SUFFICES ASSUME "queue" \notin due, queue # <<>>
                   PROVE  \/ status'[Head(queue)] \in Busy
                          \/ Head(queue) \in halted'
                          \/ Head(queue) \in trigger' \ shared'
          BY <1>1 DEF FrontHeld
    <2>2. shared' = shared /\ halted' = halted /\ trigger' = trigger
          BY <1>1 DEF document, history
    <2>3. CASE status[Head(queue)] \in Busy
      <3>1. Head(queue) \in ToSet(queue) /\ Head(queue) \in Existing
            BY <2>1, FrontOfQueue DEF QInv, Shape
      <3>2. Head(queue) \notin DOMAIN blame
            BY <1>3, <2>3, <3>1 DEF QInv, Cascade, Doomed
      <3> QED
            BY <1>4, <2>3, <3>1, <3>2 DEF Busy
    <2> QED
          BY <1>1, <2>1, <2>2, <2>3 DEF QInv, FrontHeld
  <1> QED
        BY <1>6, <1>7, <1>8, <1>9, <1>10, <1>11 DEF QInv, Cascade

\* The queue that a cell joins holds what it held, the cell, and what is missing.
LEMMA MergedTyped ==
    ASSUME DocumentTyped, QueueTyped, NEW c \in Existing, NEW S
    PROVE  LET q == MergedRunQueue(c, S)
           IN  /\ q \in Seq(Cell) /\ IsInjective(q)
               /\ ToSet(q) = ToSet(queue) \cup (Existing \cap S) \cup {c}
  <1> DEFINE wanted == ToSet(queue) \cup S \cup {c}
             pinned == {f \in Existing \ {c} : AtFront(f)}
             first == IF pinned = {} THEN <<>> ELSE <<Head(queue)>>
             rest == InOrder(wanted \ pinned)
  <1>1. /\ rest \in Seq(Cell) /\ IsInjective(rest)
        /\ ToSet(rest) = Existing \cap (wanted \ pinned)
        BY InOrderTyped
  <1>2. queue \in Seq(Cell) /\ ToSet(queue) \subseteq Existing /\ Existing \subseteq Cell
        BY Places DEF QueueTyped
  <1>3. first \in Seq(Cell) /\ IsInjective(first) /\ ToSet(first) = pinned /\ pinned \subseteq ToSet(queue)
    <2>1. CASE pinned = {}
      <3>1. first = <<>>
            BY <2>1
      <3>2. <<>> \in Seq(Cell) /\ IsInjective(<<>>) /\ ToSet(<<>>) = {}
            BY DEF IsInjective, ToSet
      <3> HIDE DEF pinned, first
      <3> QED
            BY <2>1, <3>1, <3>2
    <2>2. CASE pinned # {}
      <3>1. queue # <<>>
            BY <2>2 DEF AtFront
      <3>2. /\ Head(queue) \in ToSet(queue) /\ Head(queue) \in Existing
            /\ \A f : AtFront(f) <=> f = Head(queue)
            BY <3>1, FrontOfQueue
      <3>3. pinned = {Head(queue)}
            BY <2>2, <3>2
      <3>4. first = <<Head(queue)>>
            BY <2>2
      <3>5. PICK h : h = Head(queue)
            OBVIOUS
      <3>6. h \in Cell
            BY <1>2, <3>2, <3>5
      <3>7. <<h>> \in Seq(Cell) /\ IsInjective(<<h>>) /\ ToSet(<<h>>) = {h}
        <4>1. DOMAIN <<h>> = {1} /\ <<h>>[1] = h
              OBVIOUS
        <4> QED
              BY <3>6, <4>1 DEF IsInjective, ToSet
      <3> HIDE DEF pinned, first
      <3> QED
            BY <3>2, <3>3, <3>4, <3>5, <3>7
    <2> QED
          BY <2>1, <2>2
  <1>4. ToSet(first) \cap ToSet(rest) = {}
        BY <1>1, <1>3
  <1>5. /\ first \o rest \in Seq(Cell) /\ IsInjective(first \o rest)
        /\ ToSet(first \o rest) = ToSet(first) \cup ToSet(rest)
    <2> HIDE DEF first, rest
    <2> QED
        BY <1>1, <1>3, <1>4, ConcatMembers
  <1>6. MergedRunQueue(c, S) = first \o rest
        BY DEF MergedRunQueue
  <1>7. ToSet(first) \cup ToSet(rest) = ToSet(queue) \cup (Existing \cap S) \cup {c}
    <2>1. ToSet(first) \cup ToSet(rest) = pinned \cup (Existing \cap (wanted \ pinned))
          BY <1>1, <1>3
    <2> HIDE DEF first, rest, pinned
    <2> QED
        BY <1>2, <1>3, <2>1
  <1> HIDE DEF first, rest
  <1> QED
        BY <1>5, <1>6, <1>7

\* The effect of a cell that does not start: what it may write is the queue.
LEMMA RunEffectWaits ==
    ASSUME QInv, NEW c \in trigger, UNCHANGED <<document, results, page, commands, asked>>,
           UNCHANGED <<blame, status, task, halted>>, trigger' = trigger \ {c},
           \/ (c \in shared \/ status[c] \in Busy) /\ UNCHANGED <<queue, due>>
           \/ /\ queue' = MergedRunQueue(c, DependsOn(c) \ DOMAIN outputs)
              /\ due' = Notified({"queue"})
    PROVE  QInv'
  <1>1. DocumentTyped' /\ Existing' = Existing /\ \A q : DependsOn(q)' = DependsOn(q)
        BY SameDocument DEF QInv, Shape
  <1>2. c \in Existing /\ editing
        BY DEF QInv, Shape, PageTyped, Mounted
  <1>3. Doomed' = Doomed
        BY DEF Doomed
  <1>4. /\ due \subseteq due' /\ due' \subseteq {"queue", "blame"}
        /\ queue' \in Seq(Cell) /\ IsInjective(queue')
        /\ ToSet(queue') \subseteq ToSet(queue) \cup DependsOn(c) \cup {c}
        /\ ToSet(queue') \subseteq Existing
    <2>1. CASE UNCHANGED <<queue, due>>
          BY <2>1 DEF QInv, Shape, QueueTyped, PageTyped
    <2>2. CASE /\ queue' = MergedRunQueue(c, DependsOn(c) \ DOMAIN outputs)
               /\ due' = Notified({"queue"})
      <3> DEFINE S == DependsOn(c) \ DOMAIN outputs
                 q == MergedRunQueue(c, S)
      <3>1. /\ q \in Seq(Cell) /\ IsInjective(q)
            /\ ToSet(q) = ToSet(queue) \cup (Existing \cap S) \cup {c}
        <4> HIDE DEF S
        <4> QED
            BY <1>2, MergedTyped DEF QInv, Shape
      <3>2. S \subseteq DependsOn(c)
            OBVIOUS
      <3>3. queue' = q
            BY <2>2
      <3>4. ToSet(queue) \subseteq Existing
            BY DEF QInv, Shape, QueueTyped
      <3> HIDE DEF S, q
      <3> QED
            BY <1>2, <2>2, <3>1, <3>2, <3>3, <3>4 DEF Notified, QInv, Shape, PageTyped
    <2> QED
          BY <2>1, <2>2
  <1>5. Shape'
    <2>1. ResultsTyped' /\ QueueTyped'
          BY <1>1, <1>4 DEF QInv, Shape, ResultsTyped, QueueTyped, results
    <2>2. PageTyped'
          BY <1>1, <1>4 DEF QInv, Shape, PageTyped, page
    <2> QED
          BY <1>1, <2>1, <2>2 DEF Shape
  <1>6. Mounted' /\ BusyCellHasTask' /\ BlamedOnFailure'
        BY <1>1, <1>2 DEF QInv, Mounted, TaskOf, BusyCellHasTask, At, BlamedOnFailure, page
  <1>7. Cascade'
    <2>1. SUFFICES ASSUME Doomed # {}
                   PROVE  \A q \in ToSet(queue') \cup trigger' :
                              q \notin Doomed /\ DependsOn(q) \cap Doomed = {}
          BY <1>1, <1>3, <1>4 DEF Cascade, QInv
    <2>2. \A q \in ToSet(queue) \cup trigger : q \notin Doomed /\ DependsOn(q) \cap Doomed = {}
          BY <2>1 DEF Cascade, QInv
    <2>3. \A q \in DependsOn(c) : q \notin Doomed /\ DependsOn(q) \cap Doomed = {}
      <3>1. \A q \in DependsOn(c) : DependsOn(q) \subseteq DependsOn(c)
            BY <1>2, Transitive DEF QInv, Shape
      <3> QED
            BY <2>2, <3>1
    <2> QED
          BY <1>4, <2>2, <2>3
  <1>8. FrontHeld'
    <2>1. CASE "queue" \in due'
          BY <2>1 DEF FrontHeld
    <2>2. CASE "queue" \notin due'
      <3>1. (c \in shared \/ status[c] \in Busy) /\ UNCHANGED <<queue, due>>
            BY <1>2, <2>2 DEF Notified
      <3>2. UNCHANGED shared /\ UNCHANGED editing
            BY DEF document, page
      <3> QED
            BY <2>2, <3>1, <3>2 DEF QInv, FrontHeld
    <2> QED
          BY <2>1, <2>2
  <1> QED
        BY <1>5, <1>6, <1>7, <1>8 DEF QInv

\* The effect of a cell that starts, alone or at the front.
LEMMA RunEffectStarts ==
    ASSUME QInv, NEW c \in trigger, NEW k \in Task, task[k] = NoTask,
           UNCHANGED <<document, stale, page, commands, asked, queue>>,
           queue = <<>> \/ AtFront(c), trigger' = trigger \ {c},
           task' = [task EXCEPT ![k] = [phase |-> "compile", cell |-> c, text |-> src[c]]],
           status' = [status EXCEPT ![c] = "Compiling"],
           blame' = Restrict(blame, DOMAIN blame \ {c}),
           due' = IF c \in DOMAIN blame THEN Notified({"blame"}) ELSE due,
           outputs' = Restrict(outputs, DOMAIN outputs \ CellsFrom(Position(c))),
           halted' = halted \ {c}
    PROVE  QInv'
  <1>1. DocumentTyped' /\ Existing' = Existing /\ \A q : DependsOn(q)' = DependsOn(q)
        BY SameDocument DEF QInv, Shape
  <1>2. c \in Existing /\ editing /\ editing'
        BY DEF QInv, Shape, PageTyped, Mounted, page
  <1>3. /\ DOMAIN status = Existing /\ status \in [Existing -> Status]
        /\ task \in [Task -> TaskState] /\ src[c] \in Text /\ c \in Cell
        BY <1>2, Places DEF QInv, Shape, PageTyped, DocumentTyped
  <1>4. /\ DOMAIN status' = Existing /\ status' \in [Existing -> Status]
        /\ status'[c] = "Compiling" /\ \A d \in Existing \ {c} : status'[d] = status[d]
        BY <1>2, <1>3 DEF Status
  <1>5. PICK started : started = [phase |-> "compile", cell |-> c, text |-> src[c]]
        OBVIOUS
  <1>6. /\ started \in TaskState /\ started.phase = "compile" /\ started.cell = c
        BY <1>3, <1>5 DEF TaskState, Phases
  <1>7. /\ task' \in [Task -> TaskState] /\ task'[k] = started
        /\ \A m \in Task \ {k} : task'[m] = task[m]
        BY <1>3, <1>5, <1>6
  <1>8. /\ blame' \in [DOMAIN blame' -> Existing] /\ DOMAIN blame' = DOMAIN blame \ {c}
        /\ \A d \in DOMAIN blame' : blame'[d] = blame[d]
    <2>1. blame' = [d \in DOMAIN blame \ {c} |-> blame[d]]
          BY DEF Restrict
    <2> QED
          BY <2>1 DEF QInv, Shape, QueueTyped
  <1>9. outputs' \in [DOMAIN outputs' -> Text]
    <2> DEFINE S == DOMAIN outputs \ CellsFrom(Position(c))
    <2>1. outputs' = [d \in S |-> outputs[d]] /\ S \subseteq DOMAIN outputs
          BY DEF Restrict
    <2> HIDE DEF S
    <2> QED
          BY <2>1 DEF QInv, Shape, ResultsTyped
  <1>10. due \subseteq due' /\ due' \subseteq {"queue", "blame"} /\ ("queue" \in due' => "queue" \in due)
         BY DEF Notified, QInv, Shape, PageTyped
  <1>11. Shape'
    <2>1. ResultsTyped' /\ QueueTyped'
          BY <1>1, <1>8, <1>9 DEF QInv, Shape, ResultsTyped, QueueTyped
    <2>2. PageTyped'
          BY <1>1, <1>2, <1>4, <1>7, <1>10 DEF QInv, Shape, PageTyped, page
    <2> QED
          BY <1>1, <2>1, <2>2 DEF Shape
  <1>12. Mounted'
    <2>1. \A m \in Task : TaskOf(m)' => task'[m].cell \in Existing
          BY <1>2, <1>6, <1>7 DEF QInv, Mounted, TaskOf
    <2> QED
          BY <1>1, <1>2, <2>1 DEF Mounted
  <1>13. BusyCellHasTask'
    <2>1. SUFFICES ASSUME NEW d \in DOMAIN status', status'[d] \in Busy
                   PROVE  \/ \E m \in Task : Serves(m, d)'
                          \/ /\ d \in DOMAIN status /\ status[d] \in Busy
                             /\ \A m \in Task : Serves(m, d) => Serves(m, d)'
          BY BusyKept DEF QInv
    <2>2. CASE d = c
          BY <1>4, <1>6, <1>7, <2>2 DEF Serves
    <2>3. CASE d # c
      <3>1. status'[d] = status[d] /\ d \in DOMAIN status
            BY <1>3, <1>4, <2>3
      <3>2. ASSUME NEW m \in Task, Serves(m, d) PROVE Serves(m, d)'
        <4>1. m # k
              BY <3>2 DEF Serves, NoTask
        <4> QED
              BY <1>7, <3>1, <3>2, <4>1 DEF Serves
      <3> QED
            BY <2>1, <3>1, <3>2
    <2> QED
          BY <2>2, <2>3
  <1>14. BlamedOnFailure'
    <2>1. \A d \in DOMAIN status' : status'[d] = "Success" => status[d] = "Success"
          BY <1>4
    <2> QED
          BY <1>3, <1>4, <1>8, <2>1, BlameKept DEF QInv
  <1>15. Doomed' \subseteq Doomed
         BY <1>3, <1>4, <1>8 DEF Doomed
  <1>16. Cascade'
         BY <1>10, <1>15, CascadeKept
  <1>17. FrontHeld'
    <2>1. SUFFICES ASSUME queue # <<>> PROVE status'[Head(queue)] \in Busy
          BY DEF FrontHeld
    <2> QED
          BY <1>4, <2>1 DEF AtFront, Busy
  <1> QED
        BY <1>11, <1>12, <1>13, <1>14, <1>16, <1>17 DEF QInv

LEMMA RunEffectInv ==
    ASSUME QInv, NEW c \in Cell, RunEffect(c)
    PROVE  QInv'
  <1>1. /\ c \in trigger /\ trigger' = trigger \ {c}
        /\ UNCHANGED <<document, stale, page, commands, asked>>
        BY DEF RunEffect
  <1>2. CASE /\ c \in shared \/ status[c] \in Busy
             /\ UNCHANGED <<outputs, queue, blame, status, task, due, halted>>
        BY <1>1, <1>2, RunEffectWaits DEF results
  <1>3. CASE /\ queue' = MergedRunQueue(c, DependsOn(c) \ DOMAIN outputs)
             /\ due' = Notified({"queue"})
             /\ UNCHANGED <<outputs, blame, status, task, halted>>
        BY <1>1, <1>3, RunEffectWaits DEF results
  <1>4. CASE /\ queue = <<>> \/ AtFront(c)
             /\ \E k \in Task :
                   /\ task[k] = NoTask
                   /\ task' = [task EXCEPT ![k] = [phase |-> "compile", cell |-> c,
                                                   text |-> src[c]]]
             /\ status' = [status EXCEPT ![c] = "Compiling"]
             /\ blame' = Restrict(blame, DOMAIN blame \ {c})
             /\ due' = IF c \in DOMAIN blame THEN Notified({"blame"}) ELSE due
             /\ outputs' = Restrict(outputs, DOMAIN outputs \ CellsFrom(Position(c)))
             /\ halted' = halted \ {c}
             /\ UNCHANGED queue
        BY <1>1, <1>4, RunEffectStarts
  <1> QED
        BY <1>2, <1>3, <1>4 DEF RunEffect

-----------------------------------------------------------------------------
(***************************************************************************)
(* The tasks.                                                              *)
(***************************************************************************)

\* A task that is doing something has a cell and a text.
LEMMA TaskFields ==
    ASSUME QInv, NEW k \in Task, task[k].phase \in Phases \cup {"view"}
    PROVE  task[k] \in [phase : Phases \cup {"view"}, cell : Cell, text : Text]
  <1>1. task[k] \in TaskState
        BY DEF QInv, Shape, PageTyped
  <1>2. NoTask.phase = "free"
        BY DEF NoTask
  <1>3. "free" \notin Phases \cup {"view"}
        BY DEF Phases
  <1> QED
        BY <1>1, <1>2, <1>3, Zenon DEF TaskState

\* The next phase of a task.
LEMMA NextPhase ==
    ASSUME NEW r \in [phase : Phases \cup {"view"}, cell : Cell, text : Text],
           NEW next \in Phases \cup {"view"}
    PROVE  /\ [r EXCEPT !.phase = next] \in TaskState
           /\ [r EXCEPT !.phase = next].phase = next
           /\ [r EXCEPT !.phase = next].cell = r.cell
  BY DEF TaskState

LEMMA FreeTask == NoTask \in TaskState /\ NoTask.phase \notin Phases \cup {"view"}
  BY DEF TaskState, NoTask, Phases

\* A step that is all about tasks, and leaves each cell at work the one it has.
LEMMA TasksStep ==
    ASSUME QInv, UNCHANGED <<document, queue, blame, status, editing, due, trigger, halted>>,
           \A m \in Task : TaskOf(m)' => TaskOf(m) /\ task'[m].cell = task[m].cell,
           \A m \in Task, c \in DOMAIN status : Serves(m, c) => Serves(m, c)'
    PROVE  Mounted' /\ BusyCellHasTask' /\ BlamedOnFailure' /\ Cascade' /\ FrontHeld'
  <1>1. Existing' = Existing /\ UNCHANGED shared
        BY SameDocument DEF QInv, Shape, document
  <1>2. Mounted'
        BY <1>1 DEF QInv, Mounted
  <1>3. BusyCellHasTask'
        BY BusyKept DEF QInv
  <1>4. BlamedOnFailure'
        BY DEF QInv, BlamedOnFailure
  <1>5. Doomed' = Doomed
        BY DEF Doomed
  <1>6. Cascade'
        BY <1>5, CascadeKept
  <1>7. FrontHeld'
        BY <1>1 DEF QInv, FrontHeld
  <1> QED
        BY <1>2, <1>3, <1>4, <1>6, <1>7

\* A task ends, and its cell with it.
LEMMA TaskEnds ==
    ASSUME QInv, NEW k \in Task, TaskOf(k), NEW c, c = task[k].cell,
           NEW s \in {"Success", "Error", "Idle"},
           UNCHANGED document, UNCHANGED editing,
           task' = [task EXCEPT ![k] = NoTask], status' = [status EXCEPT ![c] = s]
    PROVE  /\ editing /\ c \in Existing /\ Existing' = Existing
           /\ task' \in [Task -> TaskState]
           /\ DOMAIN status = Existing /\ DOMAIN status' = Existing
           /\ status' \in [Existing -> Status]
           /\ status'[c] = s /\ \A d \in Existing \ {c} : status'[d] = status[d]
           /\ Mounted' /\ BusyCellHasTask'
  <1>1. editing /\ c \in Existing
        BY DEF QInv, Mounted
  <1>2. /\ DOMAIN status = Existing /\ status \in [Existing -> Status]
        /\ task \in [Task -> TaskState] /\ Existing' = Existing
        BY <1>1, SameDocument DEF QInv, Shape, PageTyped
  <1>3. /\ DOMAIN status' = Existing /\ status' \in [Existing -> Status]
        /\ status'[c] = s /\ \A d \in Existing \ {c} : status'[d] = status[d]
        BY <1>1, <1>2 DEF Status
  <1>4. /\ task' \in [Task -> TaskState] /\ task'[k] = NoTask
        /\ \A m \in Task \ {k} : task'[m] = task[m]
        BY <1>2, FreeTask
  <1>5. Mounted'
    <2>1. ASSUME NEW m \in Task, TaskOf(m)' PROVE task'[m].cell \in Existing
      <3>1. m # k
            BY <1>4, <2>1, FreeTask DEF TaskOf
      <3> QED
            BY <1>4, <2>1, <3>1 DEF TaskOf, QInv, Mounted
    <2> QED
          BY <1>1, <1>2, <2>1 DEF Mounted
  <1>6. BusyCellHasTask'
    <2>1. ASSUME NEW d \in DOMAIN status', status'[d] \in Busy
          PROVE  /\ d \in DOMAIN status /\ status[d] \in Busy
                 /\ \A m \in Task : Serves(m, d) => Serves(m, d)'
      <3>1. d # c
            BY <1>3, <2>1 DEF Busy
      <3>2. status'[d] = status[d] /\ d \in DOMAIN status
            BY <1>2, <1>3, <2>1, <3>1
      <3>3. ASSUME NEW m \in Task, Serves(m, d) PROVE Serves(m, d)'
        <4>1. m # k
              BY <3>1, <3>3 DEF Serves
        <4> QED
              BY <1>4, <3>2, <3>3, <4>1 DEF Serves
      <3> QED
            BY <2>1, <3>2, <3>3
    <2> QED
          BY <2>1, BusyKept DEF QInv
  <1> QED
        BY <1>1, <1>2, <1>3, <1>4, <1>5, <1>6

\* A cell fails, and what was queued behind it and consumes it is blamed on it.
LEMMA FailedInv ==
    ASSUME QInv, Quiet, NEW k \in Task, TaskOf(k), NEW c, c = task[k].cell, FailAndReport(c),
           UNCHANGED <<document, results, page, trigger, commands, halted>>,
           task' = [task EXCEPT ![k] = NoTask], status' = [status EXCEPT ![c] = "Error"]
    PROVE  QInv'
  <1>1. DocumentTyped' /\ Existing' = Existing /\ \A q : DependsOn(q)' = DependsOn(q)
        BY SameDocument DEF QInv, Shape
  <1>2. due = {} /\ trigger = {} /\ Doomed = {}
        BY CalmParts
  <1>3. /\ editing /\ c \in Existing
        /\ task' \in [Task -> TaskState]
        /\ DOMAIN status = Existing /\ DOMAIN status' = Existing
        /\ status' \in [Existing -> Status]
        /\ status'[c] = "Error" /\ \A d \in Existing \ {c} : status'[d] = status[d]
        /\ Mounted' /\ BusyCellHasTask'
        BY TaskEnds DEF page
  <1>4. PICK D : D = Dependents(c)
        OBVIOUS
  <1>5. D \subseteq ToSet(queue) \cap Existing
        BY <1>4 DEF Dependents
  <1>6. /\ queue' = Without(queue, D \cup {c})
        /\ blame' = [d \in DOMAIN blame \cup D |-> IF d \in D THEN c ELSE blame[d]]
        /\ due' = Notified({"queue", "blame"})
        /\ asked' = asked \ (D \cup {c})
        BY <1>4 DEF FailAndReport
  <1>7. due' = {"queue", "blame"}
        BY <1>2, <1>3, <1>6 DEF Notified
  <1>8. /\ queue' \in Seq(Cell) /\ IsInjective(queue')
        /\ ToSet(queue') = ToSet(queue) \ (D \cup {c}) /\ ToSet(queue') \subseteq Existing
    <2>1. queue \in Seq(Cell) /\ IsInjective(queue) /\ ToSet(queue) \subseteq Existing
          BY DEF QInv, Shape, QueueTyped
    <2> QED
          BY <1>6, <2>1, WithoutMembers
  <1>9. /\ DOMAIN blame' = DOMAIN blame \cup D
        /\ \A d \in DOMAIN blame' : blame'[d] = IF d \in D THEN c ELSE blame[d]
        /\ blame' \in [DOMAIN blame' -> Existing] /\ DOMAIN blame' \subseteq Existing
        BY <1>3, <1>5, <1>6 DEF QInv, Shape, QueueTyped
  <1>10. Shape'
    <2>1. ResultsTyped' /\ QueueTyped'
          BY <1>1, <1>8, <1>9 DEF QInv, Shape, ResultsTyped, QueueTyped, results
    <2>2. PageTyped'
          BY <1>1, <1>2, <1>3, <1>6, <1>7 DEF QInv, Shape, PageTyped, page
    <2> QED
          BY <1>1, <2>1, <2>2 DEF Shape
  <1>11. BlamedOnFailure'
    <2>1. \A d \in DOMAIN status' : status'[d] = "Success" => status[d] = "Success"
          BY <1>3
    <2>2. \A d \in DOMAIN blame' :
              (d \in D /\ blame'[d] = c) \/ (d \in DOMAIN blame /\ blame'[d] = blame[d])
      <3>1. SUFFICES ASSUME NEW d \in DOMAIN blame'
                     PROVE  (d \in D /\ blame'[d] = c) \/ (d \in DOMAIN blame /\ blame'[d] = blame[d])
            OBVIOUS
      <3>2. CASE d \in D
            BY <1>9, <3>2
      <3>3. CASE d \notin D
            BY <1>9, <3>3
      <3> QED
            BY <3>2, <3>3
    <2> QED
          BY <1>3, <2>1, <2>2, BlameKept DEF QInv
  <1>12. Doomed' \subseteq D
    <2>1. SUFFICES ASSUME NEW d \in Doomed', d \notin D PROVE FALSE
          OBVIOUS
    <2>2. d \in DOMAIN blame /\ d \in Existing /\ status'[d] \in Busy
          BY <1>3, <1>9, <2>1 DEF Doomed
    <2>3. d # c
          BY <1>3, <2>2 DEF Busy
    <2>4. d \in Doomed
          BY <1>3, <2>2, <2>3 DEF Doomed
    <2> QED
          BY <1>2, <2>4
  <1>13. Cascade'
    <2>1. SUFFICES ASSUME NEW q \in ToSet(queue')
                   PROVE  q \notin D /\ DependsOn(q) \cap D = {}
          BY <1>1, <1>2, <1>7, <1>12 DEF Cascade
    <2>2. q \in ToSet(queue) /\ q \in Existing /\ q \notin D /\ q # c
          BY <1>8, <2>1
    <2>3. ASSUME NEW b \in DependsOn(q), b \in D PROVE FALSE
      <3>1. c \in DependsOn(b)
            BY <1>4, <2>3 DEF Dependents
      <3>2. c \in DependsOn(q)
            BY <2>2, <2>3, <3>1, Transitive DEF QInv, Shape
      <3> QED
            BY <1>4, <2>2, <3>2 DEF Dependents
    <2> QED
          BY <2>2, <2>3
  <1>14. FrontHeld'
         BY <1>7 DEF FrontHeld
  <1> QED
        BY <1>3, <1>10, <1>11, <1>13, <1>14 DEF QInv

LEMMA CompiledInv ==
    ASSUME QInv, NEW k \in Task, Compiled(k)
    PROVE  QInv'
  <1> DEFINE c == task[k].cell
  <1>1. /\ Quiet /\ task[k].phase = "compile" /\ TaskOf(k)
        /\ UNCHANGED <<document, results, page, trigger, commands, halted>>
        BY DEF Compiled, TaskOf, Phases
  <1>2. /\ DocumentTyped' /\ Existing' = Existing
        /\ editing /\ c \in Existing /\ editing' = editing
        BY <1>1, SameDocument DEF QInv, Shape, Mounted, page
  <1>3. /\ DOMAIN status = Existing /\ status \in [Existing -> Status]
        /\ task \in [Task -> TaskState]
        BY <1>2 DEF QInv, Shape, PageTyped
  <1>4. task[k] \in [phase : Phases \cup {"view"}, cell : Cell, text : Text]
        BY <1>1, TaskFields DEF TaskOf
  <1>5. CASE /\ status[c] # "Compiling"
             /\ task' = [task EXCEPT ![k] = NoTask]
             /\ UNCHANGED <<status, queue, blame, due, asked>>
    <2>1. /\ task' \in [Task -> TaskState] /\ task'[k] = NoTask
          /\ \A m \in Task \ {k} : task'[m] = task[m]
          BY <1>3, <1>5, FreeTask
    <2>2. Shape'
          BY <1>1, <1>2, <1>5, <2>1
          DEF QInv, Shape, ResultsTyped, QueueTyped, PageTyped, results, page
    <2>3. \A m \in Task : TaskOf(m)' => TaskOf(m) /\ task'[m].cell = task[m].cell
          BY <2>1, FreeTask DEF TaskOf
    <2>4. ASSUME NEW m \in Task, NEW d \in DOMAIN status, Serves(m, d) PROVE Serves(m, d)'
      <3>1. m # k
            BY <1>1, <1>5, <2>4 DEF Serves
      <3> QED
            BY <1>5, <2>1, <2>4, <3>1 DEF Serves
    <2>5. Mounted' /\ BusyCellHasTask' /\ BlamedOnFailure' /\ Cascade' /\ FrontHeld'
          BY <1>1, <1>2, <1>5, <2>3, <2>4, TasksStep
    <2> QED
          BY <2>2, <2>5 DEF QInv
  <1>6. CASE /\ status[c] = "Compiling"
             /\ status' = [status EXCEPT ![c] = "Running"]
             /\ \E next \in {"store", "execute"} : task' = [task EXCEPT ![k].phase = next]
             /\ UNCHANGED <<queue, blame, due, asked>>
    <2>1. PICK next \in {"store", "execute"} : task' = [task EXCEPT ![k].phase = next]
          BY <1>6
    <2>2. PICK r : r = [task[k] EXCEPT !.phase = next]
          OBVIOUS
    <2>3. r \in TaskState /\ r.phase = next /\ r.cell = c
      <3>1. next \in Phases \cup {"view"}
            BY DEF Phases
      <3> QED
            BY <1>4, <2>2, <3>1, NextPhase
    <2>4. /\ task' \in [Task -> TaskState] /\ task'[k] = r
          /\ \A m \in Task \ {k} : task'[m] = task[m]
          BY <1>3, <2>1, <2>2, <2>3
    <2>5. /\ DOMAIN status' = Existing /\ status' \in [Existing -> Status]
          /\ status'[c] = "Running" /\ \A d \in Existing \ {c} : status'[d] = status[d]
          BY <1>2, <1>3, <1>6 DEF Status
    <2>6. Shape'
      <3>1. ResultsTyped' /\ QueueTyped'
            BY <1>1, <1>2, <1>6 DEF QInv, Shape, ResultsTyped, QueueTyped, results
      <3>2. PageTyped'
            BY <1>1, <1>2, <1>6, <2>4, <2>5 DEF QInv, Shape, PageTyped, page
      <3> QED
            BY <1>2, <3>1, <3>2 DEF Shape
    <2>7. Mounted'
      <3>1. \A m \in Task : TaskOf(m)' => task'[m].cell \in Existing
            BY <1>2, <2>3, <2>4 DEF TaskOf, QInv, Mounted
      <3> QED
            BY <1>2, <3>1 DEF Mounted
    <2>8. BusyCellHasTask'
      <3>1. SUFFICES ASSUME NEW d \in DOMAIN status', status'[d] \in Busy
                     PROVE  \/ \E m \in Task : Serves(m, d)'
                            \/ /\ d \in DOMAIN status /\ status[d] \in Busy
                               /\ \A m \in Task : Serves(m, d) => Serves(m, d)'
            BY BusyKept DEF QInv
      <3>2. CASE d = c
        <4>1. Serves(k, d)'
              BY <2>3, <2>4, <2>5, <3>2 DEF Serves
        <4> QED
              BY <3>2, <4>1
      <3>3. CASE d # c
        <4>1. status'[d] = status[d] /\ d \in DOMAIN status
              BY <1>3, <2>5, <3>3
        <4>2. \A m \in Task : Serves(m, d) => m # k
              BY <3>3 DEF Serves
        <4>3. \A m \in Task : Serves(m, d) => Serves(m, d)'
              BY <2>4, <4>1, <4>2 DEF Serves
        <4> QED
              BY <3>1, <4>1, <4>3
      <3> QED
            BY <3>2, <3>3
    <2>9. BlamedOnFailure'
      <3>1. \A d \in DOMAIN status' : status'[d] = "Success" => status[d] = "Success"
            BY <2>5
      <3> QED
            BY <1>3, <1>6, <2>5, <3>1, BlameKept DEF QInv
    <2>10. Doomed' \subseteq Doomed
           BY <1>3, <1>6, <2>5 DEF Doomed, Busy
    <2>11. Cascade'
           BY <1>1, <1>6, <2>10, CascadeKept
    <2>12. FrontHeld'
      <3>1. /\ trigger = {}
            /\ editing /\ queue # <<>> => status[Head(queue)] \in Busy \/ Head(queue) \in halted
            BY <1>1, CalmParts
      <3>2. queue # <<>> => Head(queue) \in Existing
            BY FrontOfQueue DEF QInv, Shape
      <3> QED
            BY <1>1, <1>2, <1>6, <2>5, <3>1, <3>2 DEF FrontHeld, Busy
    <2> QED
          BY <2>6, <2>7, <2>8, <2>9, <2>11, <2>12 DEF QInv
  <1>7. CASE /\ status' = [status EXCEPT ![c] = "Error"]
             /\ task' = [task EXCEPT ![k] = NoTask]
             /\ FailAndReport(c)
        BY <1>1, <1>7, FailedInv
  <1> QED
        BY <1>5, <1>6, <1>7 DEF Compiled

LEMMA ExecutionFailedInv ==
    ASSUME QInv, NEW k \in Task, ExecutionFailed(k)
    PROVE  QInv'
  BY FailedInv DEF ExecutionFailed, TaskOf, Phases

LEMMA StoredInv ==
    ASSUME QInv, NEW k \in Task, Stored(k)
    PROVE  QInv'
  <1>1. /\ Quiet /\ task[k].phase = "store"
        /\ task' = [task EXCEPT ![k].phase = "execute"]
        /\ UNCHANGED <<document, results, queue, blame, status, page, due, trigger,
                       commands, history>>
        BY DEF Stored
  <1>2. DocumentTyped' /\ Existing' = Existing
        BY <1>1, SameDocument DEF QInv, Shape
  <1>3. "store" \in Phases /\ "execute" \in Phases
        BY DEF Phases
  <1>4. PICK r : r = [task[k] EXCEPT !.phase = "execute"]
        OBVIOUS
  <1>5. r \in TaskState /\ r.phase = "execute" /\ r.cell = task[k].cell
        BY <1>1, <1>3, <1>4, TaskFields, NextPhase
  <1>6. /\ task' \in [Task -> TaskState] /\ task'[k] = r
        /\ \A m \in Task \ {k} : task'[m] = task[m]
        BY <1>1, <1>4, <1>5 DEF QInv, Shape, PageTyped
  <1>7. Shape'
        BY <1>1, <1>2, <1>6
        DEF QInv, Shape, ResultsTyped, QueueTyped, PageTyped, results, page, history
  <1>8. \A m \in Task : TaskOf(m)' => TaskOf(m) /\ task'[m].cell = task[m].cell
        BY <1>1, <1>3, <1>5, <1>6 DEF TaskOf
  <1>9. \A m \in Task, c \in DOMAIN status : Serves(m, c) => Serves(m, c)'
        BY <1>1, <1>5, <1>6 DEF Serves
  <1>10. Mounted' /\ BusyCellHasTask' /\ BlamedOnFailure' /\ Cascade' /\ FrontHeld'
         BY <1>1, <1>8, <1>9, TasksStep DEF page, history
  <1> QED
        BY <1>7, <1>10 DEF QInv

LEMMA ExecutedInv ==
    ASSUME QInv, NEW k \in Task, Executed(k)
    PROVE  QInv'
  <1>1. PICK c : c = task[k].cell
        OBVIOUS
  <1>2. /\ Quiet /\ task[k].phase = "execute" /\ TaskOf(k)
        /\ UNCHANGED <<document, reactive, editing, shown, trigger, commands, halted>>
        /\ task' = [task EXCEPT ![k] = NoTask]
        /\ status' = [status EXCEPT ![c] = "Success"]
        /\ outputs' = [d \in DOMAIN outputs \cup {c} |->
                           IF d = c THEN task[k].text ELSE outputs[d]]
        /\ stale' = stale \ {c} /\ timer' = TimerAfter(stale') /\ asked' = asked \ {c}
        /\ blame' = BlameLifted(c) /\ queue' = Advanced(c)
        /\ due' = Notified({"queue"} \cup IF blame' = blame THEN {} ELSE {"blame"})
        BY <1>1 DEF Executed, TaskOf, Phases
  <1>3. DocumentTyped' /\ Existing' = Existing
        BY <1>2, SameDocument DEF QInv, Shape
  <1>4. due = {} /\ trigger = {} /\ Doomed = {}
        BY <1>2, CalmParts
  <1>5. /\ editing /\ c \in Existing
        /\ task' \in [Task -> TaskState]
        /\ DOMAIN status = Existing /\ DOMAIN status' = Existing
        /\ status' \in [Existing -> Status]
        /\ status'[c] = "Success" /\ \A d \in Existing \ {c} : status'[d] = status[d]
        /\ Mounted' /\ BusyCellHasTask'
        BY <1>1, <1>2, TaskEnds
  <1>6. "queue" \in due' /\ due' \subseteq {"queue", "blame"}
        BY <1>2, <1>4, <1>5 DEF Notified
  <1>7. queue' \in Seq(Cell) /\ IsInjective(queue') /\ ToSet(queue') \subseteq Existing
    <2>1. CASE AtFront(c)
      <3>1. queue' = Tail(queue) /\ queue # <<>>
            BY <1>2, <2>1 DEF Advanced, AtFront
      <3> QED
            BY <3>1, FrontOfQueue DEF QInv, Shape, QueueTyped
    <2>2. CASE ~AtFront(c)
          BY <1>2, <2>2 DEF Advanced, QInv, Shape, QueueTyped
    <2> QED
          BY <2>1, <2>2
  <1>8. /\ DOMAIN blame' \subseteq DOMAIN blame
        /\ \A d \in DOMAIN blame' : blame'[d] = blame[d] /\ blame[d] # c
        /\ blame' \in [DOMAIN blame' -> Existing]
    <2> DEFINE S == {d \in DOMAIN blame : blame[d] # c}
    <2>1. blame' = [d \in S |-> blame[d]] /\ S \subseteq DOMAIN blame /\ \A d \in S : blame[d] # c
          BY <1>2 DEF BlameLifted, Restrict
    <2> HIDE DEF S
    <2> QED
          BY <2>1 DEF QInv, Shape, QueueTyped
  <1>9. outputs' \in [DOMAIN outputs' -> Text]
    <2>1. task[k].text \in Text
          BY <1>2, TaskFields DEF TaskOf
    <2> QED
          BY <1>2, <2>1 DEF QInv, Shape, ResultsTyped
  <1>10. Shape'
    <2>1. timer' \in BOOLEAN
          BY <1>2 DEF TimerAfter, QInv, Shape, PageTyped
    <2>2. ResultsTyped' /\ QueueTyped'
          BY <1>2, <1>3, <1>7, <1>8, <1>9 DEF QInv, Shape, ResultsTyped, QueueTyped
    <2>3. PageTyped'
          BY <1>2, <1>3, <1>4, <1>5, <1>6, <2>1 DEF QInv, Shape, PageTyped
    <2> QED
          BY <1>3, <2>2, <2>3 DEF Shape
  <1>11. BlamedOnFailure'
    <2>1. SUFFICES ASSUME NEW d \in DOMAIN blame', blame[d] \in Existing, status'[blame[d]] = "Success"
                   PROVE  FALSE
          BY <1>5, <1>8 DEF BlamedOnFailure
    <2>2. status[blame[d]] = "Success"
          BY <1>5, <1>8, <2>1
    <2> QED
          BY <1>5, <1>8, <2>1, <2>2 DEF QInv, BlamedOnFailure
  <1>12. Doomed' = {}
    <2>1. \A d \in Existing : status'[d] \in Busy => status[d] \in Busy
          BY <1>5 DEF Busy
    <2> QED
          BY <1>4, <1>5, <1>8, <2>1 DEF Doomed
  <1>13. FrontHeld'
         BY <1>6 DEF FrontHeld
  <1> QED
        BY <1>5, <1>10, <1>11, <1>12, <1>13 DEF QInv, Cascade

LEMMA AbortedInv ==
    ASSUME QInv, NEW k \in Task, Aborted(k)
    PROVE  QInv'
  <1>1. PICK c : c = task[k].cell
        OBVIOUS
  <1>2. /\ due = {} /\ trigger = {} /\ TaskOf(k)
        /\ UNCHANGED <<document, results, blame, page, trigger, commands, halted>>
        /\ task' = [task EXCEPT ![k] = NoTask]
        /\ status' = [status EXCEPT ![c] = "Idle"]
        /\ queue' = <<>> /\ due' = Notified({"queue"})
        /\ asked' = asked \ (ToSet(queue) \cup {c})
        BY <1>1 DEF Aborted, Idled, TaskOf, Phases
  <1>3. DocumentTyped' /\ Existing' = Existing /\ UNCHANGED editing
        BY <1>2, SameDocument DEF QInv, Shape, page
  <1>4. Doomed = {}
        BY <1>2 DEF QInv, Cascade
  <1>5. /\ editing /\ c \in Existing
        /\ task' \in [Task -> TaskState]
        /\ DOMAIN status = Existing /\ DOMAIN status' = Existing
        /\ status' \in [Existing -> Status]
        /\ status'[c] = "Idle" /\ \A d \in Existing \ {c} : status'[d] = status[d]
        /\ Mounted' /\ BusyCellHasTask'
        BY <1>1, <1>2, <1>3, TaskEnds
  <1>6. due' = {"queue"}
        BY <1>2, <1>5 DEF Notified
  <1>7. queue' \in Seq(Cell) /\ IsInjective(queue') /\ ToSet(queue') = {}
        BY <1>2 DEF IsInjective, ToSet
  <1>8. Shape'
    <2>1. ResultsTyped' /\ QueueTyped'
          BY <1>2, <1>3, <1>7 DEF QInv, Shape, ResultsTyped, QueueTyped, results
    <2>2. PageTyped'
          BY <1>2, <1>3, <1>5, <1>6 DEF QInv, Shape, PageTyped, page
    <2> QED
          BY <1>3, <2>1, <2>2 DEF Shape
  <1>9. BlamedOnFailure'
    <2>1. \A d \in DOMAIN status' : status'[d] = "Success" => status[d] = "Success"
          BY <1>5
    <2> QED
          BY <1>2, <1>5, <2>1, BlameKept DEF QInv
  <1>10. Doomed' = {}
    <2>1. \A d \in Existing : status'[d] \in Busy => status[d] \in Busy
          BY <1>5 DEF Busy
    <2> QED
          BY <1>2, <1>4, <1>5, <2>1 DEF Doomed
  <1>11. FrontHeld'
         BY <1>6 DEF FrontHeld
  <1> QED
        BY <1>5, <1>8, <1>9, <1>10, <1>11 DEF QInv, Cascade

LEMMA ViewerEndsInv ==
    ASSUME QInv, NEW k \in Task, ViewerEnds(k)
    PROVE  QInv'
  <1>1. /\ Quiet /\ task[k].phase = "view" /\ task' = [task EXCEPT ![k] = NoTask]
        /\ UNCHANGED <<document, stale, queue, blame, status, page, due, trigger, commands,
                       history>>
        BY DEF ViewerEnds
  <1>2. DocumentTyped' /\ Existing' = Existing
        BY <1>1, SameDocument DEF QInv, Shape
  <1>3. task[k].text \in Text
        BY <1>1, TaskFields
  <1>4. outputs' \in [DOMAIN outputs' -> Text]
    <2>1. CASE UNCHANGED outputs
          BY <2>1 DEF QInv, Shape, ResultsTyped
    <2>2. CASE outputs' = [d \in DOMAIN outputs \cup {task[k].cell} |->
                               IF d = task[k].cell THEN task[k].text ELSE outputs[d]]
          BY <1>3, <2>2 DEF QInv, Shape, ResultsTyped
    <2> QED
          BY <2>1, <2>2 DEF ViewerEnds
  <1>5. /\ task' \in [Task -> TaskState] /\ task'[k] = NoTask
        /\ \A m \in Task \ {k} : task'[m] = task[m]
        BY <1>1, FreeTask DEF QInv, Shape, PageTyped
  <1>6. Shape'
        BY <1>1, <1>2, <1>4, <1>5
        DEF QInv, Shape, ResultsTyped, QueueTyped, PageTyped, page, history
  <1>7. \A m \in Task : TaskOf(m)' => TaskOf(m) /\ task'[m].cell = task[m].cell
        BY <1>5, FreeTask DEF TaskOf
  <1>8. ASSUME NEW m \in Task, NEW c \in DOMAIN status, Serves(m, c) PROVE Serves(m, c)'
    <2>1. m # k
          BY <1>1, <1>8 DEF Serves
    <2> QED
          BY <1>1, <1>5, <1>8, <2>1 DEF Serves
  <1>9. Mounted' /\ BusyCellHasTask' /\ BlamedOnFailure' /\ Cascade' /\ FrontHeld'
        BY <1>1, <1>7, <1>8, TasksStep DEF page, history
  <1> QED
        BY <1>6, <1>9 DEF QInv

LEMMA ViewerStartsInv ==
    ASSUME QInv, NEW c \in Cell, ViewerStarts(c)
    PROVE  QInv'
  <1>1. /\ Quiet /\ c \in DOMAIN shown
        /\ UNCHANGED <<document, results, queue, blame, status, page, due, trigger, commands,
                       history>>
        BY DEF ViewerStarts
  <1>2. PICK k \in Task : /\ task[k] = NoTask
                          /\ task' = [task EXCEPT ![k] = [phase |-> "view", cell |-> c,
                                                          text |-> shown[c]]]
        BY DEF ViewerStarts
  <1>3. DocumentTyped' /\ Existing' = Existing
        BY <1>1, SameDocument DEF QInv, Shape
  <1>4. PICK r : r = [phase |-> "view", cell |-> c, text |-> shown[c]]
        OBVIOUS
  <1>5. r \in TaskState /\ r.phase = "view"
        BY <1>1, <1>4 DEF TaskState, QInv, Shape, PageTyped
  <1>6. /\ task' \in [Task -> TaskState] /\ task'[k] = r
        /\ \A m \in Task \ {k} : task'[m] = task[m]
        BY <1>2, <1>4, <1>5 DEF QInv, Shape, PageTyped
  <1>7. Shape'
        BY <1>1, <1>3, <1>6
        DEF QInv, Shape, ResultsTyped, QueueTyped, PageTyped, results, page, history
  <1>8. \A m \in Task : TaskOf(m)' => TaskOf(m) /\ task'[m].cell = task[m].cell
        BY <1>5, <1>6 DEF TaskOf, Phases
  <1>9. ASSUME NEW m \in Task, NEW d \in DOMAIN status, Serves(m, d) PROVE Serves(m, d)'
    <2>1. m # k
          BY <1>2, <1>9 DEF Serves, NoTask
    <2> QED
          BY <1>1, <1>6, <1>9, <2>1 DEF Serves
  <1>10. Mounted' /\ BusyCellHasTask' /\ BlamedOnFailure' /\ Cascade' /\ FrontHeld'
         BY <1>1, <1>8, <1>9, TasksStep DEF page, history
  <1> QED
        BY <1>7, <1>10 DEF QInv

LEMMA CancelRunInv ==
    ASSUME QInv, NEW c \in Cell, CancelRun(c)
    PROVE  QInv'
  <1>1. /\ UNCHANGED <<document, results, queue, blame, status, page, due, trigger, history>>
        /\ task' = [k \in Task |-> IF task[k].phase = "execute"
                                   THEN [task[k] EXCEPT !.phase = "aborted"] ELSE task[k]]
        /\ commands' \in 0 .. MaxCommands
        BY CommandStep DEF CancelRun
  <1>2. DocumentTyped' /\ Existing' = Existing
        BY <1>1, SameDocument DEF QInv, Shape
  <1>3. "execute" \in Phases /\ "aborted" \in Phases
        BY DEF Phases
  <1>4. ASSUME NEW k \in Task
        PROVE  /\ task'[k] \in TaskState
               /\ \/ task'[k] = task[k] /\ task[k].phase # "execute"
                  \/ /\ task[k].phase = "execute" /\ task'[k].phase = "aborted"
                     /\ task'[k].cell = task[k].cell
    <2>1. CASE task[k].phase = "execute"
      <3>1. PICK r : r = [task[k] EXCEPT !.phase = "aborted"]
            OBVIOUS
      <3>2. r \in TaskState /\ r.phase = "aborted" /\ r.cell = task[k].cell
            BY <1>3, <2>1, <3>1, TaskFields, NextPhase
      <3>3. task'[k] = r
            BY <1>1, <2>1, <3>1
      <3> QED
            BY <2>1, <3>2, <3>3
    <2>2. CASE task[k].phase # "execute"
      <3>1. task'[k] = task[k]
            BY <1>1, <2>2
      <3> QED
            BY <2>2, <3>1 DEF QInv, Shape, PageTyped
    <2> QED
          BY <2>1, <2>2
  <1>5. task' \in [Task -> TaskState]
    <2>1. task' = [k \in Task |-> task'[k]]
          BY <1>1
    <2> QED
          BY <1>4, <2>1
  <1>6. Shape'
        BY <1>1, <1>2, <1>5
        DEF QInv, Shape, ResultsTyped, QueueTyped, PageTyped, results, page, history
  <1>7. \A m \in Task : TaskOf(m)' => TaskOf(m) /\ task'[m].cell = task[m].cell
        BY <1>3, <1>4 DEF TaskOf
  <1>8. \A m \in Task, d \in DOMAIN status : Serves(m, d) => Serves(m, d)'
        BY <1>1, <1>4 DEF Serves
  <1>9. Mounted' /\ BusyCellHasTask' /\ BlamedOnFailure' /\ Cascade' /\ FrontHeld'
        BY <1>1, <1>7, <1>8, TasksStep DEF page, history
  <1> QED
        BY <1>6, <1>9 DEF QInv

LEMMA CancelCompileInv ==
    ASSUME QInv, NEW c \in Cell, CancelCompile(c)
    PROVE  QInv'
  <1>1. /\ Quiet /\ editing /\ c \in Existing
        /\ UNCHANGED <<document, results, queue, blame, task, page, due, trigger, asked>>
        /\ status' = [status EXCEPT ![c] = "Idle"] /\ halted' = halted \cup {c}
        /\ commands' \in 0 .. MaxCommands
        BY CommandStep DEF CancelCompile
  <1>2. DocumentTyped' /\ Existing' = Existing
        BY <1>1, SameDocument DEF QInv, Shape
  <1>3. due = {} /\ trigger = {} /\ Doomed = {}
        /\ (queue # <<>> => status[Head(queue)] \in Busy \/ Head(queue) \in halted)
        BY <1>1, CalmParts
  <1>4. /\ DOMAIN status = Existing /\ DOMAIN status' = Existing
        /\ status' \in [Existing -> Status]
        /\ status'[c] = "Idle" /\ \A d \in Existing \ {c} : status'[d] = status[d]
        BY <1>1 DEF QInv, Shape, PageTyped, Status
  <1>5. \A d \in Existing : status'[d] \in Busy => status[d] \in Busy /\ status'[d] = status[d]
        BY <1>4 DEF Busy
  <1>6. Shape'
    <2>1. ResultsTyped' /\ QueueTyped'
          BY <1>1, <1>2 DEF QInv, Shape, ResultsTyped, QueueTyped, results
    <2>2. PageTyped'
          BY <1>1, <1>2, <1>4 DEF QInv, Shape, PageTyped, page
    <2> QED
          BY <1>2, <2>1, <2>2 DEF Shape
  <1>7. Mounted'
        BY <1>1, <1>2 DEF QInv, Mounted, TaskOf, page
  <1>8. BusyCellHasTask'
    <2>1. \A d \in DOMAIN status' : status'[d] \in Busy =>
              /\ d \in DOMAIN status /\ status[d] \in Busy
              /\ \A m \in Task : Serves(m, d) => Serves(m, d)'
          BY <1>1, <1>4, <1>5 DEF Serves
    <2> QED
          BY <2>1, BusyKept DEF QInv
  <1>9. BlamedOnFailure'
    <2>1. \A d \in DOMAIN status' : status'[d] = "Success" => status[d] = "Success"
          BY <1>4
    <2> QED
          BY <1>1, <1>4, <2>1, BlameKept DEF QInv
  <1>10. Doomed' = {}
         BY <1>1, <1>3, <1>4, <1>5 DEF Doomed
  <1>11. FrontHeld'
    <2>1. queue # <<>> => Head(queue) \in Existing
          BY FrontOfQueue DEF QInv, Shape
    <2> QED
          BY <1>1, <1>3, <1>4, <2>1 DEF FrontHeld
  <1> QED
        BY <1>6, <1>7, <1>8, <1>9, <1>10, <1>11 DEF QInv, Cascade

-----------------------------------------------------------------------------
(***************************************************************************)
(* A deleted cell, and the other mode.                                     *)
(***************************************************************************)

LEMMA DeleteInv ==
    ASSUME QInv, NEW c \in Cell, Delete(c)
    PROVE  QInv'
  <1>1. Quiet /\ commands' \in 0 .. MaxCommands
        BY CommandStep DEF Delete
  <1>2. /\ c \in Existing
        /\ order' = Without(order, {c}) /\ src' = Restrict(src, Existing \ {c})
        /\ shared' = shared \ {c} /\ stale' = stale \ {c}
        /\ outputs' = Restrict(outputs, DOMAIN outputs \ {c})
        /\ timer' = TimerAfter(stale')
        /\ queue' = Without(queue, {c})
        /\ blame' = IF reactive
                    THEN Restrict(blame, {d \in DOMAIN blame : d # c /\ blame[d] # c}) ELSE <<>>
        /\ due' = Notified({"queue", "blame"})
        /\ status' = Restrict(status, DOMAIN status \ {c})
        /\ task' = [k \in Task |-> IF task[k].phase \notin {"free", "view"} /\ task[k].cell = c
                                   THEN NoTask ELSE task[k]]
        /\ asked' = asked \ {c} /\ halted' = halted \ {c}
        /\ UNCHANGED <<reactive, editing, shown, trigger>>
        BY DEF Delete, QueueScrubbed, StatusDisposed
  <1>3. due = {} /\ trigger = {} /\ Doomed = {} /\ due' = IF editing THEN {"queue", "blame"} ELSE {}
        BY <1>1, <1>2, CalmParts DEF Notified
  <1>4. order' \in Seq(Cell) /\ IsInjective(order') /\ Existing' = Existing \ {c}
        BY <1>2, WithoutMembers DEF QInv, Shape, DocumentTyped, Existing
  <1>5. DocumentTyped'
    <2>1. src' = [d \in Existing \ {c} |-> src[d]]
          BY <1>2 DEF Restrict
    <2>2. src' \in [Existing \ {c} -> Text]
          BY <2>1 DEF QInv, Shape, DocumentTyped
    <2> QED
          BY <1>2, <1>4, <2>2 DEF QInv, Shape, DocumentTyped
  <1>6. ResultsTyped'
    <2>1. outputs' = [d \in DOMAIN outputs \ {c} |-> outputs[d]]
          BY <1>2 DEF Restrict
    <2> QED
          BY <1>2, <1>4, <2>1 DEF QInv, Shape, ResultsTyped
  <1>7. /\ blame' \in [DOMAIN blame' -> Existing \ {c}] /\ DOMAIN blame' \subseteq DOMAIN blame \ {c}
        /\ \A d \in DOMAIN blame' : blame'[d] = blame[d]
    <2>1. CASE reactive
      <3> DEFINE S == {d \in DOMAIN blame : d # c /\ blame[d] # c}
      <3>1. /\ blame' = [d \in S |-> blame[d]]
            /\ S \subseteq DOMAIN blame \ {c} /\ \A d \in S : blame[d] # c
            BY <1>2, <2>1 DEF Restrict
      <3> HIDE DEF S
      <3> QED
            BY <3>1 DEF QInv, Shape, QueueTyped
    <2>2. CASE ~reactive
          BY <1>2, <2>2
    <2> QED
          BY <2>1, <2>2
  <1>8. QueueTyped'
    <2>1. /\ queue' \in Seq(Cell) /\ IsInjective(queue')
          /\ ToSet(queue') = ToSet(queue) \ {c}
          BY <1>2, WithoutMembers DEF QInv, Shape, QueueTyped
    <2> QED
          BY <1>4, <1>7, <2>1 DEF QInv, Shape, QueueTyped
  <1>9. /\ status \in [IF editing THEN Existing ELSE {} -> Status]
        /\ DOMAIN status' = DOMAIN status \ {c}
        /\ \A d \in DOMAIN status' : status'[d] = status[d]
        /\ status' \in [IF editing THEN Existing \ {c} ELSE {} -> Status]
    <2>1. status' = [d \in DOMAIN status \ {c} |-> status[d]]
          BY <1>2 DEF Restrict
    <2> QED
          BY <2>1 DEF QInv, Shape, PageTyped
  <1>10. ASSUME NEW k \in Task
         PROVE  /\ task'[k] \in TaskState
                /\ \/ task'[k] = NoTask /\ (TaskOf(k) => task[k].cell = c)
                   \/ task'[k] = task[k] /\ (TaskOf(k) => task[k].cell # c)
    <2>1. CASE task[k].phase \notin {"free", "view"} /\ task[k].cell = c
          BY <1>2, <2>1, FreeTask
    <2>2. CASE ~ (task[k].phase \notin {"free", "view"} /\ task[k].cell = c)
      <3>1. task'[k] = task[k]
            BY <1>2, <2>2
      <3>2. TaskOf(k) => task[k].cell # c
            BY <2>2 DEF TaskOf, Phases
      <3> QED
            BY <3>1, <3>2 DEF QInv, Shape, PageTyped
    <2> QED
          BY <2>1, <2>2
  <1>11. task' \in [Task -> TaskState]
    <2>1. task' = [k \in Task |-> task'[k]]
          BY <1>2
    <2> QED
          BY <1>10, <2>1
  <1>12. PageTyped'
    <2>1. timer' \in BOOLEAN
          BY <1>2 DEF TimerAfter, QInv, Shape, PageTyped
    <2> QED
          BY <1>1, <1>2, <1>3, <1>4, <1>9, <1>11, <2>1 DEF QInv, Shape, PageTyped
  <1>13. Mounted'
    <2>1. ASSUME NEW k \in Task, TaskOf(k)' PROVE editing /\ task'[k].cell \in Existing \ {c}
      <3>1. task'[k] # NoTask
            BY <2>1, FreeTask DEF TaskOf
      <3>2. task'[k] = task[k] /\ TaskOf(k)
            BY <1>10, <2>1, <3>1 DEF TaskOf
      <3> QED
            BY <1>10, <3>1, <3>2 DEF QInv, Mounted
    <2> QED
          BY <1>2, <1>3, <1>4, <2>1 DEF Mounted
  <1>14. BusyCellHasTask'
    <2>1. ASSUME NEW d \in DOMAIN status', NEW k \in Task, Serves(k, d) PROVE Serves(k, d)'
      <3>1. d # c /\ status'[d] = status[d]
            BY <1>9
      <3>2. TaskOf(k) /\ task[k].cell = d
            BY <2>1 DEF Serves, TaskOf, Phases
      <3>3. task'[k] = task[k]
            BY <1>10, <3>1, <3>2
      <3> QED
            BY <2>1, <3>1, <3>3 DEF Serves
    <2> QED
          BY <1>9, <2>1, BusyKept DEF QInv
  <1>15. BlamedOnFailure'
         BY <1>7, <1>9 DEF QInv, BlamedOnFailure
  <1>16. Doomed' = {}
         BY <1>3, <1>7, <1>9 DEF Doomed
  <1>17. FrontHeld'
         BY <1>2, <1>3 DEF FrontHeld
  <1> QED
        BY <1>5, <1>6, <1>8, <1>12, <1>13, <1>14, <1>15, <1>16, <1>17
        DEF QInv, Shape, Cascade

LEMMA ToggleViewInv ==
    ASSUME QInv, ToggleView
    PROVE  QInv'
  <1>1. Quiet /\ commands' \in 0 .. MaxCommands
        BY CommandStep DEF ToggleView
  <1>2. /\ editing' = ~editing
        /\ shown' = IF editing' THEN <<>> ELSE src
        /\ status' = [c \in IF editing' THEN Existing ELSE {} |-> "Idle"]
        /\ task' = [k \in Task |-> IF task[k].phase = "view" THEN task[k] ELSE NoTask]
        /\ due' = IF editing' THEN {"queue", "blame"} ELSE {}
        /\ halted' = {}
        /\ UNCHANGED <<document, results, queue, blame, reactive, timer, trigger, asked>>
        BY DEF ToggleView, WatchedFirst
  <1>3. DocumentTyped' /\ Existing' = Existing
        BY <1>2, SameDocument DEF QInv, Shape
  <1>4. trigger = {}
        BY <1>1, CalmParts
  <1>5. /\ editing' \in BOOLEAN
        /\ shown' \in [DOMAIN shown' -> Text]
        /\ status' \in [IF editing' THEN Existing ELSE {} -> Status]
        /\ \A c \in DOMAIN status' : status'[c] = "Idle"
        BY <1>2 DEF QInv, Shape, PageTyped, DocumentTyped, Status
  <1>6. ASSUME NEW k \in Task PROVE task'[k] \in TaskState /\ ~ TaskOf(k)'
    <2>1. CASE task[k].phase = "view"
      <3>1. task'[k] = task[k]
            BY <1>2, <2>1
      <3> QED
            BY <2>1, <3>1 DEF QInv, Shape, PageTyped, TaskOf, Phases
    <2>2. CASE task[k].phase # "view"
      <3>1. task'[k] = NoTask
            BY <1>2, <2>2
      <3> QED
            BY <3>1, FreeTask DEF TaskOf
    <2> QED
          BY <2>1, <2>2
  <1>7. task' \in [Task -> TaskState]
    <2>1. task' = [k \in Task |-> task'[k]]
          BY <1>2
    <2> QED
          BY <1>6, <2>1
  <1>8. Shape'
    <2>1. ResultsTyped' /\ QueueTyped'
          BY <1>2, <1>3 DEF QInv, Shape, ResultsTyped, QueueTyped, results
    <2>2. PageTyped'
          BY <1>1, <1>2, <1>3, <1>4, <1>5, <1>7 DEF QInv, Shape, PageTyped
    <2> QED
          BY <1>3, <2>1, <2>2 DEF Shape
  <1>9. Mounted'
        BY <1>2, <1>4, <1>6 DEF Mounted
  <1>10. BusyCellHasTask' /\ BlamedOnFailure'
         BY <1>5 DEF BusyCellHasTask, BlamedOnFailure
  <1>11. Doomed' = {}
         BY <1>5 DEF Doomed, Busy
  <1>12. FrontHeld'
         BY <1>2 DEF FrontHeld
  <1> QED
        BY <1>8, <1>9, <1>10, <1>11, <1>12 DEF QInv, Cascade

-----------------------------------------------------------------------------
(***************************************************************************)
(* The theorems.                                                           *)
(***************************************************************************)

LEMMA InitQInv == Init => QInv
  <1> SUFFICES ASSUME Init PROVE QInv
      OBVIOUS
  <1> DEFINE P(c) == CHOOSE i \in DOMAIN InitialOrder : InitialOrder[i] = c
  <1>1. /\ order = InitialOrder /\ Existing = ToSet(InitialOrder)
        /\ shared = {} /\ stale = {} /\ outputs = <<>> /\ queue = <<>> /\ blame = <<>>
        /\ src = [c \in Existing |-> InitialText[P(c)]]
        /\ status = [c \in Existing |-> "Idle"] /\ task = [k \in Task |-> NoTask]
        /\ reactive \in BOOLEAN /\ timer = FALSE /\ editing = TRUE /\ shown = <<>>
        /\ due = {} /\ trigger = {} /\ commands = 0 /\ asked = {} /\ halted = {}
        BY DEF Init, Existing
  <1>2. /\ InitialOrder \in Seq(Cell) /\ IsInjective(InitialOrder)
        /\ InitialText \in Seq(Text) /\ Len(InitialText) = Len(InitialOrder)
        BY OrderAssumption
  <1>3. \A c \in Existing : P(c) \in DOMAIN InitialText
    <2>1. \A c \in Existing : P(c) \in DOMAIN InitialOrder
      <3>1. \A c \in Existing : \E i \in DOMAIN InitialOrder : InitialOrder[i] = c
            BY <1>1 DEF ToSet
      <3> QED
            BY <3>1
    <2>2. DOMAIN InitialOrder = DOMAIN InitialText
          BY <1>2
    <2> QED
          BY <2>1, <2>2
  <1> HIDE DEF P
  <1>4. src \in [Existing -> Text]
    <2>1. \A c \in Existing : InitialText[P(c)] \in Text
          BY <1>2, <1>3
    <2> QED
          BY <1>1, <2>1
  <1>5. DocumentTyped
        BY <1>1, <1>2, <1>4 DEF DocumentTyped
  <1>6. ResultsTyped /\ QueueTyped
    <2>1. /\ queue \in Seq(Cell) /\ IsInjective(queue) /\ ToSet(queue) = {}
          BY <1>1 DEF IsInjective, ToSet
    <2> QED
          BY <1>1, <2>1 DEF ResultsTyped, QueueTyped
  <1>7. PageTyped
    <2>1. task \in [Task -> TaskState]
          BY <1>1, FreeTask
    <2>2. status \in [Existing -> Status]
          BY <1>1 DEF Status
    <2>3. shown \in [DOMAIN shown -> Text] /\ commands \in 0 .. MaxCommands
          BY <1>1, BoundAssumption
    <2> QED
          BY <1>1, <2>1, <2>2, <2>3 DEF PageTyped
  <1>8. Mounted
        BY <1>1, FreeTask DEF Mounted, TaskOf
  <1>9. BusyCellHasTask /\ BlamedOnFailure
        BY <1>1 DEF BusyCellHasTask, BlamedOnFailure
  <1>10. Cascade /\ FrontHeld
         BY <1>1 DEF Cascade, FrontHeld, Doomed
  <1> QED
        BY <1>5, <1>6, <1>7, <1>8, <1>9, <1>10 DEF QInv, Shape

LEMMA StutterInv == QInv /\ UNCHANGED vars => QInv'
  <1> SUFFICES ASSUME QInv, UNCHANGED vars PROVE QInv'
      OBVIOUS
  <1>1. UNCHANGED <<document, results, queue, blame, status, task, page, due, trigger, commands,
                    history>>
        BY DEF vars
  <1>2. DocumentTyped' /\ Existing' = Existing
        BY <1>1, SameDocument DEF QInv, Shape
  <1>3. Shape'
        BY <1>1, <1>2
        DEF QInv, Shape, ResultsTyped, QueueTyped, PageTyped, results, page, history
  <1>4. Mounted' /\ BusyCellHasTask' /\ BlamedOnFailure' /\ Cascade' /\ FrontHeld'
        BY <1>1, TasksStep DEF page, history, TaskOf, Serves
  <1> QED
        BY <1>3, <1>4 DEF QInv

LEMMA NextQInv == QInv /\ [Next]_vars => QInv'
  <1> SUFFICES ASSUME QInv, [Next]_vars PROVE QInv'
      OBVIOUS
  <1>1. CASE Effects
        BY <1>1, QueueWatchersInv, BlameWatchersInv, RunEffectInv DEF Effects
  <1>2. CASE Answer
        BY <1>2, CompiledInv, StoredInv, ExecutedInv, ExecutionFailedInv, AbortedInv, ViewerEndsInv
        DEF Answer, Answered
  <1>3. CASE \E c \in Cell : CellCommand(c) \/ ViewerStarts(c)
        BY <1>3, RunInv, CancelCompileInv, CancelRunInv, RunAllBelowInv, PressButtonInv,
           MoveSliderInv, AgentRunInv, EditInv, ToggleSharedInv, MoveUpInv, DeleteInv,
           ViewerStartsInv
        DEF CellCommand
  <1>4. CASE ToggleReactive \/ ToggleView \/ TimerFires
        BY <1>4, ToggleReactiveInv, ToggleViewInv, TimerFiresInv
  <1>5. CASE UNCHANGED vars
        BY <1>5, StutterInv
  <1> QED
        BY <1>1, <1>2, <1>3, <1>4, <1>5 DEF Next

\* The invariant holds of every state the page reaches.
THEOREM QueueInvariant == Spec => []QInv
  BY InitQInv, NextQInv, PTL DEF Spec

LEMMA QueueSoundOfInv == QInv => QueueSound
  <1> SUFFICES ASSUME QInv PROVE QueueSound
      OBVIOUS
  <1>1. TypeOK
    <2>1. ASSUME NEW k \in Task
          PROVE  \/ task[k] = NoTask
                 \/ /\ task[k].phase \in {"compile", "store", "execute", "aborted", "view"}
                    /\ task[k].cell \in Existing \/ task[k].phase = "view"
                    /\ task[k].text \in Text
      <3>1. CASE task[k] = NoTask
            BY <3>1
      <3>2. CASE task[k] # NoTask
        <4>1. task[k] \in [phase : Phases \cup {"view"}, cell : Cell, text : Text]
              BY <3>2 DEF QInv, Shape, PageTyped, TaskState
        <4>2. task[k].phase \in Phases \cup {"view"} /\ task[k].text \in Text
              BY <4>1
        <4>3. task[k].phase \in Phases => task[k].cell \in Existing
              BY DEF QInv, Mounted, TaskOf
        <4> QED
              BY <4>2, <4>3 DEF Phases
      <3> QED
            BY <3>1, <3>2
    <2> QED
          BY <2>1 DEF TypeOK, QInv, Shape, DocumentTyped, ResultsTyped, PageTyped
  <1>2. NothingOfDeletedCells
        BY DEF NothingOfDeletedCells, Range, QInv, Shape, QueueTyped
  <1> QED
        BY <1>1, <1>2 DEF QueueSound, QInv

LEMMA NothingHangsOfInv == QInv => NothingHangs
  BY CalmParts DEF NothingHangs, FrontIsAtWork, QInv

\* Types; the queue and the blame name cells of the notebook, none twice; and
\* no cell is blocked by one that has succeeded since.
THEOREM QueueIsSound == Spec => []QueueSound
  BY QueueInvariant, QueueSoundOfInv, PTL

\* A cell that shows a compile or a run has one, and while the page waits for an
\* event the front of the queue is at work, unless its compile was cancelled.
THEOREM NothingHangsEver == Spec => []NothingHangs
  BY QueueInvariant, NothingHangsOfInv, PTL

-----------------------------------------------------------------------------
(***************************************************************************)
(* What no step does.                                                      *)
(***************************************************************************)

\* The commands of the user and the agents are counted.
LEMMA CommandsCount ==
    ASSUME QInv, (\E c \in Cell : CellCommand(c)) \/ ToggleReactive \/ ToggleView
    PROVE  commands' # commands
  <1>1. Command
    <2>1. ASSUME NEW c \in Cell, CellCommand(c) PROVE Command
      <3>1. ASSUME NEW t \in Text, Edit(c, t) PROVE Command
            BY <3>1 DEF Edit
      <3> QED
          BY <2>1, <3>1 DEF CellCommand, Run, CancelCompile, CancelRun, RunAllBelow, PressButton,
                     MoveSlider, AgentRun, ToggleShared, MoveUp, Delete
    <2> QED
          BY <2>1 DEF ToggleReactive, ToggleView
  <1> QED
        BY <1>1, CommandStep

Dropped(c) == Queued(c) /\ ~Queued(c)'

LEMMA NoDrop ==
    ASSUME QInv, [Next]_vars, NEW c \in asked \cap asked', Dropped(c), commands' = commands
    PROVE  c \in shared
  <1>1. ToSet(queue') # ToSet(queue) /\ queue' # queue /\ c \in ToSet(queue) /\ c \notin ToSet(queue')
        BY DEF Dropped, Queued
  <1>2. CASE QueueWatchers
    <2>1. queue # <<>> /\ Head(queue) \in shared /\ queue' = Tail(queue)
          BY <1>1, <1>2 DEF QueueWatchers
    <2> QED
          BY <1>1, <2>1, FrontOfQueue DEF QInv, Shape
  <1>3. CASE BlameWatchers
        BY <1>1, <1>3 DEF BlameWatchers
  <1>4. ASSUME NEW d \in Cell, RunEffect(d) PROVE FALSE
    <2> DEFINE S == DependsOn(d) \ DOMAIN outputs
    <2>1. queue' = MergedRunQueue(d, S)
          BY <1>1, <1>4 DEF RunEffect
    <2>2. d \in Existing
          BY <1>4 DEF RunEffect, QInv, Shape, PageTyped
    <2> HIDE DEF S
    <2>3. ToSet(queue) \subseteq ToSet(MergedRunQueue(d, S))
          BY <2>2, MergedTyped DEF QInv, Shape
    <2> QED
          BY <1>1, <2>1, <2>3
  <1>5. ASSUME NEW d, FailAndReport(d) PROVE FALSE
    <2>1. PICK D : D = Dependents(d) \cup {d}
          OBVIOUS
    <2>2. queue' = Without(queue, D) /\ asked' = asked \ D
          BY <1>5, <2>1 DEF FailAndReport
    <2>3. ToSet(queue') = ToSet(queue) \ D
          BY <2>2, WithoutMembers DEF QInv, Shape, QueueTyped
    <2> QED
          BY <1>1, <2>2, <2>3
  <1>6. ASSUME NEW k \in Task, Compiled(k) PROVE FALSE
        BY <1>1, <1>5, <1>6 DEF Compiled
  <1>7. ASSUME NEW k \in Task, ExecutionFailed(k) PROVE FALSE
        BY <1>5, <1>7 DEF ExecutionFailed
  <1>8. ASSUME NEW k \in Task, Stored(k) \/ ViewerEnds(k) PROVE FALSE
        BY <1>1, <1>8 DEF Stored, ViewerEnds
  <1>9. ASSUME NEW k \in Task, Executed(k) PROVE FALSE
    <2>1. PICK d : d = task[k].cell
          OBVIOUS
    <2>2. asked' = asked \ {d} /\ queue' = Advanced(d)
          BY <1>9, <2>1 DEF Executed
    <2>3. AtFront(d) /\ queue' = Tail(queue) /\ queue # <<>>
          BY <1>1, <2>2 DEF Advanced, AtFront
    <2>4. ToSet(queue') = ToSet(queue) \ {d}
          BY <2>3, FrontOfQueue DEF QInv, Shape, AtFront
    <2> QED
          BY <1>1, <2>2, <2>4
  <1>10. ASSUME NEW k \in Task, Aborted(k) PROVE FALSE
         BY <1>1, <1>10 DEF Aborted
  <1>11. ASSUME NEW d \in Cell, ViewerStarts(d) PROVE FALSE
         BY <1>1, <1>11 DEF ViewerStarts
  <1>12. CASE (\E d \in Cell : CellCommand(d)) \/ ToggleReactive \/ ToggleView
         BY <1>12, CommandsCount
  <1>13. CASE TimerFires
    <2>1. queue = <<>>
          BY <1>1, <1>13 DEF TimerFires, Enqueue
    <2> QED
          BY <1>1, <2>1 DEF ToSet
  <1>14. CASE UNCHANGED vars
         BY <1>1, <1>14 DEF vars
  <1> QED
        BY <1>2, <1>3, <1>4, <1>6, <1>7, <1>8, <1>9, <1>10, <1>11, <1>12, <1>13, <1>14
        DEF Next, Effects, Answer, Answered

\* An agent's queued request leaves the queue only with an answer, for a cell
\* that was made shared, or by a command.
THEOREM RequestsAreNotDropped == Spec => NoSilentDrop
  <1>1. QInv /\ [Next]_vars =>
            [\A c \in asked \cap asked' :
                Queued(c) /\ ~Queued(c)' => c \in shared \/ commands' # commands]_vars
        BY NoDrop DEF Dropped
  <1> QED
        BY <1>1, QueueInvariant, PTL DEF Spec, NoSilentDrop

\* A run that ends with a text which is no longer the cell's.
Overtaken(c) == \E k \in Task : /\ task[k].phase \in {"execute", "view"}
                                /\ task[k].cell = c /\ task[k].text # src[c]

LEMMA MarkStep ==
    ASSUME QInv, [Next]_vars, NEW c \in Existing, Outdated(c)', ~Outdated(c)
    PROVE  Overtaken(c) \/ c \in shared
  <1> SUFFICES ASSUME c \notin shared, ~Overtaken(c) PROVE FALSE
      OBVIOUS
  <1>1. /\ c \in DOMAIN outputs' /\ c \notin stale' /\ outputs'[c] # src'[c]
        /\ c \in DOMAIN outputs /\ c \notin stale => outputs[c] = src[c]
        /\ c \in Existing'
        BY DEF Outdated, Runnable
  \* It is enough that the step takes nothing from the marks, and writes neither
  \* the text nor the output of the cell.
  <1>2. ASSUME stale \subseteq stale', src'[c] = src[c],
               c \in DOMAIN outputs' => c \in DOMAIN outputs /\ outputs'[c] = outputs[c]
        PROVE  FALSE
        BY <1>1, <1>2
  <1>3. ASSUME UNCHANGED <<document, results>> PROVE FALSE
        BY <1>2, <1>3 DEF document, results
  <1>4. CASE QueueWatchers \/ BlameWatchers
        BY <1>3, <1>4 DEF QueueWatchers, BlameWatchers
  <1>5. ASSUME NEW d \in Cell, RunEffect(d) PROVE FALSE
    <2> DEFINE S == DOMAIN outputs \ CellsFrom(Position(d))
    <2>1. UNCHANGED stale /\ UNCHANGED src /\ (UNCHANGED outputs \/ outputs' = Restrict(outputs, S))
          BY <1>5 DEF RunEffect, document
    <2>2. S \subseteq DOMAIN outputs
          OBVIOUS
    <2> HIDE DEF S
    <2>3. c \in DOMAIN outputs' => c \in DOMAIN outputs /\ outputs'[c] = outputs[c]
          BY <2>1, <2>2 DEF Restrict
    <2> QED
          BY <1>2, <2>1, <2>3
  <1>6. ASSUME NEW k \in Task, Compiled(k) \/ ExecutionFailed(k) \/ Stored(k) \/ Aborted(k)
        PROVE  FALSE
        BY <1>3, <1>6 DEF Compiled, ExecutionFailed, Stored, Aborted
  <1>7. ASSUME NEW k \in Task, task[k].phase \in {"execute", "view"}, UNCHANGED src,
               outputs' = [d \in DOMAIN outputs \cup {task[k].cell} |->
                               IF d = task[k].cell THEN task[k].text ELSE outputs[d]],
               stale \subseteq stale' \cup {task[k].cell}
        PROVE  FALSE
    <2>1. CASE c = task[k].cell
      <3>1. outputs'[c] = task[k].text
            BY <1>7, <2>1
      <3>2. task[k].text = src[c]
            BY <1>7, <2>1 DEF Overtaken
      <3> QED
            BY <1>1, <1>7, <3>1, <3>2
    <2>2. CASE c # task[k].cell
      <3>1. c \in DOMAIN outputs /\ outputs'[c] = outputs[c]
            BY <1>1, <1>7, <2>2
      <3> QED
            BY <1>1, <1>7, <2>2, <3>1
    <2> QED
          BY <2>1, <2>2
  <1>8. ASSUME NEW k \in Task, Executed(k) PROVE FALSE
        BY <1>7, <1>8 DEF Executed, document
  <1>9. ASSUME NEW k \in Task, ViewerEnds(k) PROVE FALSE
    <2>1. CASE UNCHANGED outputs
          BY <1>3, <1>9, <2>1 DEF ViewerEnds, results
    <2>2. CASE outputs' = [d \in DOMAIN outputs \cup {task[k].cell} |->
                               IF d = task[k].cell THEN task[k].text ELSE outputs[d]]
          BY <1>7, <1>9, <2>2 DEF ViewerEnds, document
    <2> QED
          BY <1>9, <2>1, <2>2 DEF ViewerEnds
  <1>10. ASSUME NEW d \in Cell, ViewerStarts(d) PROVE FALSE
         BY <1>3, <1>10 DEF ViewerStarts
  <1>11. ASSUME NEW d \in Cell, NEW t \in Text, Edit(d, t) PROVE FALSE
    <2>1. /\ d \in Existing /\ src' = [src EXCEPT ![d] = t]
          /\ stale' = stale \cup MarkedBy(d) /\ UNCHANGED outputs
          BY <1>11 DEF Edit
    <2>2. CASE c = d
      <3>1. Position(d) \in 1 .. Len(order) /\ order[Position(d)] = d /\ Len(order) \in Nat
            BY <2>1, Places DEF QInv, Shape
      <3>2. PICK i : i = Position(d)
            OBVIOUS
      <3>3. i \in 1 .. Len(order) + 1 /\ i \in i .. Len(order) /\ order[i] = d
            BY <3>1, <3>2
      <3>4. d \in Runnable
            BY <2>1, <2>2 DEF Runnable
      <3>5. d \in ToSet(FromOn(i))
            BY <3>3, <3>4, FromOnTyped DEF QInv, Shape
      <3>6. d \in MarkedBy(d)
            BY <2>2, <3>2, <3>5 DEF MarkedBy
      <3> QED
            BY <1>1, <2>1, <2>2, <3>6
    <2>3. CASE c # d
      <3>1. src'[c] = src[c]
            BY <2>1, <2>3 DEF QInv, Shape, DocumentTyped
      <3> QED
            BY <1>2, <2>1, <3>1
    <2> QED
          BY <2>2, <2>3
  <1>12. ASSUME NEW d \in Cell, Delete(d) PROVE FALSE
    <2>1. /\ order' = Without(order, {d}) /\ src' = Restrict(src, Existing \ {d})
          /\ stale' = stale \ {d} /\ outputs' = Restrict(outputs, DOMAIN outputs \ {d})
          BY <1>12 DEF Delete
    <2>2. Existing' = Existing \ {d}
          BY <2>1, WithoutMembers DEF QInv, Shape, DocumentTyped, Existing
    <2>3. c # d
          BY <1>1, <2>2
    <2>4. /\ src'[c] = src[c]
          /\ c \in DOMAIN outputs /\ outputs'[c] = outputs[c]
          BY <1>1, <2>1, <2>2, <2>3 DEF Restrict
    <2> QED
          BY <1>1, <2>1, <2>3, <2>4
  <1>13. ASSUME NEW d \in Cell, MoveSlider(d) \/ ToggleShared(d) \/ MoveUp(d) PROVE FALSE
         BY <1>2, <1>13 DEF MoveSlider, ToggleShared, MoveUp, document, results
  <1>14. ASSUME NEW d \in Cell, \/ Run(d) \/ CancelCompile(d) \/ CancelRun(d)
                                \/ RunAllBelow(d) \/ PressButton(d) \/ AgentRun(d)
         PROVE  FALSE
         BY <1>3, <1>14 DEF Run, CancelCompile, CancelRun, RunAllBelow, PressButton, AgentRun
  <1>15. CASE ToggleReactive \/ ToggleView \/ TimerFires
         BY <1>3, <1>15 DEF ToggleReactive, ToggleView, TimerFires
  <1>16. CASE UNCHANGED vars
         BY <1>3, <1>16 DEF vars
  <1> QED
        BY <1>4, <1>5, <1>6, <1>8, <1>9, <1>10, <1>11, <1>12, <1>13, <1>14, <1>15, <1>16
        DEF Next, Effects, Answer, Answered, CellCommand

\* No step makes an output differ from its cell's text without a mark, but the
\* end of a run that an edit has overtaken, and a cell that was shared.
THEOREM EditsAreMarked == Spec => EditsLeaveMark
  <1>1. QInv /\ [Next]_vars =>
            [\A c \in Existing :
                Outdated(c)' /\ ~Outdated(c) =>
                    \/ \E k \in Task : /\ task[k].phase \in {"execute", "view"}
                                       /\ task[k].cell = c /\ task[k].text # src[c]
                    \/ c \in shared]_vars
        BY MarkStep DEF Overtaken
  <1> QED
        BY <1>1, QueueInvariant, PTL DEF Spec, EditsLeaveMark
=============================================================================
