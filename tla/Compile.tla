------------------------------ MODULE Compile -------------------------------
(***************************************************************************)
(* The compile service of one server: compiles and live checks of cells    *)
(* from any number of pages, the lock each takes for its cell, the price   *)
(* and the slots of a build, the workspace a cell is scaffolded into, the  *)
(* artifact cargo leaves for it, and the cache of built cells.             *)
(* crates/ironpad-app/src/server_fns.rs and src/compiler/.                 *)
(*                                                                         *)
(* A Source stands for all that the content hash covers, and for the hash: *)
(* source, manifest, types of the cells above, shared code, target.  The   *)
(* cell's id is no part of it.  Ordinary cells only: a Linux cell has no   *)
(* glue.  The clients share one token bucket.                              *)
(***************************************************************************)
EXTENDS Naturals, FiniteSets

CONSTANTS
    Request,        \* calls of compile_cell and check_cell, each made once
    Cell,           \* cell ids as the clients spell them
    Artifact,       \* names of cargo's outputs
    ArtifactOf,     \* the output of a cell: its id with '-' read as '_'
    Source,         \* what a cell is built from
    Compiles,       \* the sources the compiler accepts
    Asks,           \* what a request may ask for
    MaxBuilds,      \* slots for compiles, and as many for checks
    Burst,          \* tokens of a full bucket
    MaxFaults,      \* bound: dropped calls, restarts, wipes and failed stores
    Nothing         \* no file, no lock, no answer

ASSUME ArtifactAssumption == ArtifactOf \in [Cell -> Artifact]
ASSUME SourceAssumption ==
    /\ Compiles \subseteq Source
    /\ Nothing \notin Source \cup Request
ASSUME AskAssumption ==
    Asks \subseteq [kind : {"compile", "check"}, cell : Cell, source : Source, force : BOOLEAN]
ASSUME BoundAssumption == MaxBuilds \in Nat \ {0} /\ Burst \in Nat /\ MaxFaults \in Nat

VARIABLES
    pc,         \* where each request is
    ask,        \* what it asked
    answer,     \* what it was told
    table,      \* CompileLocks.locks: the mutex of each key, named by its maker
    mutexOf,    \* the mutex a request holds or waits for
    ahead,      \* requests to be served by that mutex before this one
    tokens,     \* the client's bucket
    workspace,  \* the source last scaffolded for a cell id
    artifact,   \* what cargo last built under an output name
    got,        \* the blob in a request's hands
    blob, glue, \* the cache: {hash}.wasm and {hash}.js
    strays,     \* writes that outlive the call they belonged to
    faults,
    intruded    \* history: a stray write landed in somebody's critical section

locks    == <<table, mutexOf, ahead>>
disk     == <<workspace, artifact, blob, glue>>
vars     == <<pc, ask, answer, locks, tokens, disk, got, strays, faults, intruded>>

Outside  == {"new", "done"}
Building == {"scaffold", "cargo", "collect", "storeWasm", "storeGlue"}
Checking == {"scaffoldCheck", "check"}
Inside   == {"lookup", "lookupGlue", "admit", "queue"} \cup Building \cup Checking
Pc       == Outside \cup {"lock"} \cup Inside

Answer(as, of, js) == [as |-> as, of |-> of, glue |-> js]
Verdicts == {"hit", "built", "failed", "error", "rateLimited", "atCapacity",
             "skipped", "clean", "errors", "timedOut", "dropped", "lost"}

Here(r) == ask[r].source
Out(r)  == ArtifactOf[ask[r].cell]

LockKeyRaw(c) == c
LockKey(c)    == ArtifactOf[c]
LockKeys      == {LockKey(c) : c \in Cell}

Init ==
    /\ pc = [r \in Request |-> "new"]
    /\ ask = [r \in Request |-> Nothing]
    /\ answer = [r \in Request |-> Nothing]
    /\ table = [k \in LockKeys |-> Nothing]
    /\ mutexOf = [r \in Request |-> Nothing]
    /\ ahead = [r \in Request |-> {}]
    /\ tokens = Burst
    /\ workspace = [c \in Cell |-> Nothing]
    /\ artifact = [a \in Artifact |-> Nothing]
    /\ got = [r \in Request |-> Nothing]
    /\ blob = [s \in Source |-> Nothing] /\ glue = [s \in Source |-> Nothing]
    /\ strays = {} /\ faults = 0 /\ intruded = FALSE

-----------------------------------------------------------------------------
(***************************************************************************)
(* The per-cell lock.  A mutex lives as long as the table or a request     *)
(* refers to it, and serves its requests in the order they came.           *)
(***************************************************************************)

Users(m) == {q \in Request : mutexOf[q] = m}

\* Mutation: entries are pruned although requests still refer to them.
InUseNever(m) == m = Nothing

\* An entry's strong count: somebody other than the table refers to it.
InUse(m) == m # Nothing /\ Users(m) # {}

Pruned(k) == [x \in LockKeys |-> IF x = k \/ InUse(table[x]) THEN table[x] ELSE Nothing]

\* cell_lock: prune, then find or make the mutex of k.  Its requests so far go first.
CellLock(r, k) ==
    LET mutex == IF table[k] = Nothing THEN r ELSE table[k]
    IN  /\ table' = [Pruned(k) EXCEPT ![k] = mutex]
        /\ mutexOf' = [mutexOf EXCEPT ![r] = mutex]
        /\ ahead' = [ahead EXCEPT ![r] = Users(mutex)]

\* The guard, or the place in the line, is given up.
Unlock(r) ==
    /\ mutexOf' = [mutexOf EXCEPT ![r] = Nothing]
    /\ ahead' = [q \in Request |-> IF q = r THEN {} ELSE ahead[q] \ {r}]
    /\ UNCHANGED table

\* Mutation: a refused compile keeps its guard.
FinishHolding(r, a) ==
    /\ pc' = [pc EXCEPT ![r] = "done"]
    /\ answer' = [answer EXCEPT ![r] = a]
    /\ got' = [got EXCEPT ![r] = Nothing]
    /\ IF a.as = "rateLimited" THEN UNCHANGED locks ELSE Unlock(r)

\* The call returns; its guard and permit are dropped.
Finish(r, a) ==
    /\ pc' = [pc EXCEPT ![r] = "done"]
    /\ answer' = [answer EXCEPT ![r] = a]
    /\ got' = [got EXCEPT ![r] = Nothing]
    /\ Unlock(r)

At(r, here) == pc[r] = here
Goto(r, next) ==
    /\ pc' = [pc EXCEPT ![r] = next]
    /\ UNCHANGED <<ask, answer, locks>>

-----------------------------------------------------------------------------
(***************************************************************************)
(* A call arrives.                                                         *)
(***************************************************************************)

Keep == UNCHANGED <<tokens, disk, strays, faults, intruded>>

Compile(r, a) ==
    /\ At(r, "new") /\ a.kind = "compile"
    /\ ask' = [ask EXCEPT ![r] = a]
    /\ CellLock(r, LockKey(a.cell))
    /\ pc' = [pc EXCEPT ![r] = "lock"]
    /\ UNCHANGED <<answer, got>> /\ Keep

\* try_acquire: a mutex that nobody holds or waits for.
Free(k) == ~InUse(table[k])

CheckSlotFree == Cardinality({q \in Request : pc[q] \in Checking}) < MaxBuilds

\* A live check of a busy cell, or with every check slot taken, is skipped: its
\* reference to the mutex is gone at once, the entry it may have made is not.
Check(r, a) ==
    LET k == LockKey(a.cell)
    IN  /\ At(r, "new") /\ a.kind = "check"
        /\ ask' = [ask EXCEPT ![r] = a]
        /\ \/ /\ Free(k) /\ CheckSlotFree
              /\ CellLock(r, k)
              /\ pc' = [pc EXCEPT ![r] = "scaffoldCheck"]
              /\ UNCHANGED answer
           \/ /\ ~(Free(k) /\ CheckSlotFree)
              /\ table' = [Pruned(k) EXCEPT ![k] = IF table[k] = Nothing THEN r ELSE table[k]]
              /\ pc' = [pc EXCEPT ![r] = "done"]
              /\ answer' = [answer EXCEPT ![r] = Answer("skipped", Nothing, Nothing)]
              /\ UNCHANGED <<mutexOf, ahead>>
        /\ UNCHANGED got /\ Keep

Enter(r) ==
    /\ At(r, "lock") /\ ahead[r] = {}
    /\ Goto(r, IF ask[r].force THEN "admit" ELSE "lookup")
    /\ UNCHANGED got /\ Keep

-----------------------------------------------------------------------------
(***************************************************************************)
(* The cache, and admission to a build.                                    *)
(***************************************************************************)

\* try_cache_hit reads the blob and then, if there is one, the glue.
Lookup(r) ==
    /\ At(r, "lookup")
    /\ Goto(r, IF blob[Here(r)] = Nothing THEN "admit" ELSE "lookupGlue")
    /\ got' = [got EXCEPT ![r] = blob[Here(r)]]
    /\ Keep

Hit(r) ==
    /\ At(r, "lookupGlue")
    /\ Finish(r, Answer("hit", got[r], glue[Here(r)]))
    /\ UNCHANGED ask /\ Keep

Charge(r) ==
    /\ At(r, "admit") /\ tokens > 0
    /\ tokens' = tokens - 1
    /\ Goto(r, "queue")
    /\ UNCHANGED <<got, disk, strays, faults, intruded>>

RateLimited(r) ==
    /\ At(r, "admit") /\ tokens = 0
    /\ Finish(r, Answer("rateLimited", Nothing, Nothing))
    /\ UNCHANGED ask /\ Keep

TakeSlot(r) ==
    /\ At(r, "queue")
    /\ Cardinality({q \in Request : pc[q] \in Building}) < MaxBuilds
    /\ Goto(r, "scaffold")
    /\ UNCHANGED got /\ Keep

\* The queue timeout.
AtCapacity(r) ==
    /\ At(r, "queue")
    /\ Finish(r, Answer("atCapacity", Nothing, Nothing))
    /\ UNCHANGED ask /\ Keep

Refill ==
    /\ tokens < Burst
    /\ tokens' = tokens + 1
    /\ UNCHANGED <<pc, ask, answer, locks, disk, got, strays, faults, intruded>>

-----------------------------------------------------------------------------
(***************************************************************************)
(* The build.                                                              *)
(***************************************************************************)

Scaffold(r) ==
    /\ pc[r] \in {"scaffold", "scaffoldCheck"}
    /\ workspace' = [workspace EXCEPT ![ask[r].cell] = Here(r)]
    /\ Goto(r, IF pc[r] = "scaffold" THEN "cargo" ELSE "check")
    /\ UNCHANGED <<artifact, blob, glue, got, tokens, strays, faults, intruded>>

\* cargo reads the workspace; what the compiler refuses is answered, not cached.
Cargo(r) ==
    /\ At(r, "cargo")
    /\ LET source == workspace[ask[r].cell]
       IN  IF source \in Compiles
             THEN /\ artifact' = [artifact EXCEPT ![Out(r)] = source]
                  /\ Goto(r, "collect") /\ UNCHANGED got
             ELSE /\ Finish(r, Answer("failed", source, Nothing))
                  /\ UNCHANGED <<ask, artifact>>
    /\ UNCHANGED <<workspace, blob, glue, tokens, strays, faults, intruded>>

\* wasm-bindgen makes blob and glue of the artifact; wasm-opt rewrites the blob.
Collect(r) ==
    /\ At(r, "collect")
    /\ artifact[Out(r)] # Nothing
    /\ got' = [got EXCEPT ![r] = artifact[Out(r)]]
    /\ Goto(r, "storeWasm") /\ Keep

\* The scaffold cannot be written, a tool cannot be run or runs out of time,
\* an artifact is not where it should be.
BuildError(r) ==
    /\ pc[r] \in {"scaffold", "scaffoldCheck", "cargo", "collect", "check"}
    /\ Finish(r, Answer("error", Nothing, Nothing))
    /\ UNCHANGED ask /\ Keep

CheckEnds(r) ==
    /\ At(r, "check")
    /\ \/ LET source == workspace[ask[r].cell]
          IN  Finish(r, Answer(IF source \in Compiles THEN "clean" ELSE "errors", source, Nothing))
       \/ Finish(r, Answer("timedOut", Nothing, Nothing))
    /\ UNCHANGED ask /\ Keep

\* Mutation: the glue is never stored.
StoreWasmAlone(r) ==
    /\ At(r, "storeWasm")
    /\ blob' = [blob EXCEPT ![Here(r)] = got[r]]
    /\ Finish(r, Answer("built", got[r], got[r]))
    /\ UNCHANGED <<ask, glue, workspace, artifact, tokens, strays, faults, intruded>>

\* store_blob: two files, each written whole.
StoreWasm(r) ==
    /\ At(r, "storeWasm")
    /\ blob' = [blob EXCEPT ![Here(r)] = got[r]]
    /\ Goto(r, "storeGlue")
    /\ UNCHANGED <<glue, workspace, artifact, got, tokens, strays, faults, intruded>>

StoreGlue(r) ==
    /\ At(r, "storeGlue")
    /\ glue' = [glue EXCEPT ![Here(r)] = got[r]]
    /\ Finish(r, Answer("built", got[r], got[r]))
    /\ UNCHANGED <<ask, blob, workspace, artifact, tokens, strays, faults, intruded>>

-----------------------------------------------------------------------------
(***************************************************************************)
(* Faults.                                                                 *)
(***************************************************************************)

Fault == faults < MaxFaults /\ faults' = faults + 1

\* A file cannot be stored: what is built is answered all the same.
StoreFails(r) ==
    /\ pc[r] \in {"storeWasm", "storeGlue"} /\ Fault
    /\ Finish(r, Answer("built", got[r], got[r]))
    /\ UNCHANGED <<ask, disk, tokens, strays, intruded>>

\* What a call leaves running when it is dropped: the scaffold on the blocking
\* pool, which no one can stop, or the compiler under a cargo that was killed.
Orphan(r) ==
    CASE pc[r] \in {"scaffold", "scaffoldCheck"} ->
            {[into |-> "workspace", name |-> ask[r].cell, source |-> Here(r)]}
      [] pc[r] = "cargo" /\ workspace[ask[r].cell] \in Compiles ->
            {[into |-> "artifact", name |-> Out(r), source |-> workspace[ask[r].cell]]}
      [] OTHER -> {}

\* The client is gone and the call is dropped where it waits.
Dropped(r) ==
    /\ pc[r] \notin Outside /\ Fault
    /\ \E left \in SUBSET Orphan(r) : strays' = strays \cup left
    /\ Finish(r, Answer("dropped", Nothing, Nothing))
    /\ UNCHANGED <<ask, tokens, disk, intruded>>

\* The key of the lock under which w should have been written.
KeyOf(w) == IF w.into = "workspace" THEN ArtifactOf[w.name] ELSE w.name

StrayLands(w) ==
    /\ strays' = strays \ {w}
    /\ workspace' = IF w.into = "workspace" THEN [workspace EXCEPT ![w.name] = w.source]
                                            ELSE workspace
    /\ artifact' = IF w.into = "artifact" THEN [artifact EXCEPT ![w.name] = w.source]
                                          ELSE artifact
    /\ intruded' = (intruded \/ \E r \in Request : pc[r] \in Inside /\ Out(r) = KeyOf(w))
    /\ UNCHANGED <<pc, ask, answer, locks, tokens, blob, glue, got, faults>>

\* The process ends, with all it runs, and starts anew on the same disk.
Restart ==
    /\ Fault
    /\ pc' = [r \in Request |-> IF pc[r] = "new" THEN "new" ELSE "done"]
    /\ answer' = [r \in Request |-> IF pc[r] \in Outside THEN answer[r]
                                                         ELSE Answer("lost", Nothing, Nothing)]
    /\ table' = [k \in LockKeys |-> Nothing]
    /\ mutexOf' = [r \in Request |-> Nothing]
    /\ ahead' = [r \in Request |-> {}]
    /\ got' = [r \in Request |-> Nothing]
    /\ tokens' = Burst /\ strays' = {}
    /\ UNCHANGED <<ask, disk, intruded>>

Files(file) == {x \in DOMAIN file : file[x] # Nothing}
Without(file, gone) == [x \in DOMAIN file |-> IF x \in gone THEN Nothing ELSE file[x]]

\* The administrator, or the valve at boot, clears a tier; a clear that fails
\* half-way leaves the rest of it.
Wipe ==
    /\ Fault
    /\ \/ /\ \E gone \in SUBSET Files(workspace) : workspace' = Without(workspace, gone)
          /\ UNCHANGED <<artifact, blob, glue>>
       \/ /\ \E gone \in SUBSET Files(artifact) : artifact' = Without(artifact, gone)
          /\ UNCHANGED <<workspace, blob, glue>>
       \/ /\ \E gone \in SUBSET Files(blob), js \in SUBSET Files(glue) :
                 blob' = Without(blob, gone) /\ glue' = Without(glue, js)
          /\ UNCHANGED <<workspace, artifact>>
    /\ UNCHANGED <<pc, ask, answer, locks, tokens, got, strays, intruded>>

-----------------------------------------------------------------------------
Arrives(r) == \E a \in Asks : Compile(r, a) \/ Check(r, a)

Proceeds(r) ==
    \/ Enter(r) \/ Lookup(r) \/ Hit(r)
    \/ Charge(r) \/ RateLimited(r) \/ TakeSlot(r) \/ AtCapacity(r)
    \/ Scaffold(r) \/ Cargo(r) \/ Collect(r) \/ BuildError(r) \/ CheckEnds(r)
    \/ StoreWasm(r) \/ StoreGlue(r)

Next ==
    \/ \E r \in Request : Arrives(r) \/ Proceeds(r) \/ StoreFails(r) \/ Dropped(r)
    \/ Refill \/ Restart \/ Wipe
    \/ \E w \in strays : StrayLands(w)

Spec == Init /\ [][Next]_vars

\* Every call runs on: its mutex is fair, its waits and its tools are timed.
Fairness == \A r \in Request : WF_vars(Proceeds(r))
FairSpec == Spec /\ Fairness

-----------------------------------------------------------------------------
(***************************************************************************)
(* Properties.                                                             *)
(***************************************************************************)

AnswerType == [as : Verdicts, of : Source \cup {Nothing}, glue : Source \cup {Nothing}]

StrayType == [into : {"workspace"}, name : Cell, source : Source]
             \cup [into : {"artifact"}, name : Artifact, source : Source]

\* The types of the variables.
TypeOK ==
    /\ pc \in [Request -> Pc]
    /\ ask \in [Request -> Asks \cup {Nothing}]
    /\ answer \in [Request -> AnswerType \cup {Nothing}]
    /\ table \in [LockKeys -> Request \cup {Nothing}]
    /\ mutexOf \in [Request -> Request \cup {Nothing}]
    /\ ahead \in [Request -> SUBSET Request]
    /\ tokens \in 0..Burst
    /\ workspace \in [Cell -> Source \cup {Nothing}]
    /\ artifact \in [Artifact -> Source \cup {Nothing}]
    /\ got \in [Request -> Source \cup {Nothing}]
    /\ blob \in [Source -> Source \cup {Nothing}]
    /\ glue \in [Source -> Source \cup {Nothing}]
    /\ strays \subseteq StrayType
    /\ faults \in 0..MaxFaults /\ intruded \in BOOLEAN

\* Two requests whose cells share an output of cargo are never both between
\* taking the lock and leaving, although idle locks are pruned from the table
\* and made again: CompileLocks's promise (compiler/mod.rs).
OneInside ==
    \A q, r \in Request :
        q # r /\ pc[q] \in Inside /\ pc[r] \in Inside => Out(q) # Out(r)

\* Nobody is told of a build of something he did not ask for, and the cache
\* holds under a hash what was built from its inputs, if no write of a dropped
\* call landed in the critical section of another.  Also when ids differ only
\* in '-' and '_', after restarts and after wipes.
OwnInputsOnly ==
    ~intruded =>
        /\ \A s \in Source : {blob[s], glue[s]} \subseteq {s, Nothing} \cap (Compiles \cup {Nothing})
        /\ \A r \in Request : answer[r] # Nothing =>
               {answer[r].of, answer[r].glue} \subseteq {Here(r), Nothing}

\* The same, whatever calls are dropped: "Held for the whole compile" is meant
\* to rule out that one source's output is cached under another's hash
\* (server_fns.rs, compile_cell_core).
CacheIsTrue ==
    \A s \in Source : {blob[s], glue[s]} \subseteq {s, Nothing}

\* A cached blob lacks its glue only while a call is about to store it, or
\* after a fault (compiler/cache.rs, store_blob).
GluelessOnlyInPassing ==
    \A s \in Source :
        blob[s] # Nothing /\ glue[s] = Nothing =>
            faults > 0 \/ \E r \in Request : At(r, "storeGlue") /\ Here(r) = s

\* Every call is answered: no guard or permit is left behind on any path, and
\* a call that waits for its cell gets its turn.  (No call is made twice, so
\* each one that is made is among those served at some later time.)
EveryCallAnswered ==
    []<>(\A r \in Request : pc[r] \in Outside)
=============================================================================
