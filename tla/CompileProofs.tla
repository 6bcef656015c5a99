--------------------------- MODULE CompileProofs ----------------------------
(***************************************************************************)
(* Proofs about Compile, for any number of calls, cells and sources, any   *)
(* spelling of the cells' ids, any number of slots and any faults.         *)
(***************************************************************************)
EXTENDS Compile, TLAPS

USE DEF LockKey, LockKeys, Here, Out, At

LEMMA InitType == Init => TypeOK
<1> SUFFICES ASSUME Init PROVE TypeOK
  OBVIOUS
<1> USE DEF Init
<1>1. pc \in [Request -> Pc]
  BY DEF Pc, Outside
<1>2. tokens \in 0..Burst /\ faults \in 0..MaxFaults
  BY BoundAssumption
<1>3. QED
  BY <1>1, <1>2 DEF TypeOK

LEMMA AnswerTyped ==
    ASSUME NEW as \in Verdicts, NEW of \in Source \cup {Nothing}, NEW js \in Source \cup {Nothing}
    PROVE  Answer(as, of, js) \in AnswerType
BY DEF Answer, AnswerType

\* What every request asks is well formed, once it has asked.
LEMMA AskTyped ==
    ASSUME NEW a \in Asks
    PROVE  a.cell \in Cell /\ a.source \in Source /\ ArtifactOf[a.cell] \in Artifact
           /\ LockKey(a.cell) \in LockKeys
BY AskAssumption, ArtifactAssumption

\* A request that has arrived asked for something.
Asked == \A r \in Request : pc[r] # "new" => ask[r] \in Asks

LEMMA NextAsked == ASSUME TypeOK, Asked, [Next]_vars PROVE Asked'
<1> USE DEF Asked, TypeOK
<1>1. ASSUME NEW r \in Request, NEW a \in Asks, Compile(r, a) \/ Check(r, a) PROVE Asked'
  BY <1>1 DEF Compile, Check
<1>2. ASSUME NEW r \in Request, Proceeds(r) PROVE Asked'
  BY <1>2 DEF Proceeds, Enter, Lookup, Hit, Charge, RateLimited, TakeSlot, AtCapacity,
              Scaffold, Cargo, Collect, BuildError, CheckEnds, StoreWasm, StoreGlue,
              Goto, Finish
<1>3. ASSUME NEW r \in Request, StoreFails(r) \/ Dropped(r) PROVE Asked'
  BY <1>3 DEF StoreFails, Dropped, Finish, Outside
<1>4. CASE Refill \/ Wipe \/ (\E w \in strays : StrayLands(w)) \/ UNCHANGED vars
  BY <1>4 DEF Refill, Wipe, StrayLands, vars
<1>5. CASE Restart
  BY <1>5 DEF Restart
<1>6. QED
  BY <1>1, <1>2, <1>3, <1>4, <1>5 DEF Next, Arrives

-----------------------------------------------------------------------------
(* Types *)

\* Leaving keeps the types of what it touches.
LEMMA FinishTyped ==
    ASSUME TypeOK, NEW r \in Request, NEW a \in AnswerType, Finish(r, a)
    PROVE  /\ pc' \in [Request -> Pc]
           /\ answer' \in [Request -> AnswerType \cup {Nothing}]
           /\ table' \in [LockKeys -> Request \cup {Nothing}]
           /\ mutexOf' \in [Request -> Request \cup {Nothing}]
           /\ ahead' \in [Request -> SUBSET Request]
           /\ got' \in [Request -> Source \cup {Nothing}]
BY DEF Finish, Unlock, TypeOK, Pc, Outside

LEMMA CellLockTyped ==
    ASSUME TypeOK, NEW r \in Request, NEW k \in LockKeys, CellLock(r, k)
    PROVE  /\ table' \in [LockKeys -> Request \cup {Nothing}]
           /\ mutexOf' \in [Request -> Request \cup {Nothing}]
           /\ ahead' \in [Request -> SUBSET Request]
BY DEF CellLock, Pruned, Users, TypeOK

LEMMA NextType == ASSUME TypeOK, Asked, [Next]_vars PROVE TypeOK'
<1> USE DEF TypeOK, locks, disk, Keep, Outside, Pc, Inside, Building, Checking
<1>1. ASSUME NEW r \in Request, NEW a \in Asks, Compile(r, a) PROVE TypeOK'
  <2>1. LockKey(a.cell) \in LockKeys
    BY AskTyped
  <2>2. QED
    BY <1>1, <2>1, CellLockTyped DEF Compile
<1>2. ASSUME NEW r \in Request, NEW a \in Asks, Check(r, a) PROVE TypeOK'
  <2>1. LockKey(a.cell) \in LockKeys
    BY AskTyped
  <2>2. Answer("skipped", Nothing, Nothing) \in AnswerType
    BY AnswerTyped DEF Verdicts
  <2>3. CASE Free(LockKey(a.cell)) /\ CheckSlotFree
    <3>1. CellLock(r, LockKey(a.cell))
      BY <1>2, <2>3 DEF Check
    <3>2. /\ table' \in [LockKeys -> Request \cup {Nothing}]
          /\ mutexOf' \in [Request -> Request \cup {Nothing}]
          /\ ahead' \in [Request -> SUBSET Request]
      BY <2>1, <3>1, CellLockTyped
    <3>3. ask' \in [Request -> Asks \cup {Nothing}]
      BY <1>2 DEF Check
    <3>4. UNCHANGED <<answer, got, tokens, disk, strays, faults, intruded>>
      BY <1>2, <2>3 DEF Check
    <3>5. pc' = [pc EXCEPT ![r] = "scaffoldCheck"]
      BY <1>2, <2>3 DEF Check
    <3>6. QED
      BY <3>2, <3>3, <3>4, <3>5
  <2>4. CASE ~(Free(LockKey(a.cell)) /\ CheckSlotFree)
    <3>1. table' \in [LockKeys -> Request \cup {Nothing}]
      <4> DEFINE k == LockKey(a.cell)
                 mutex == IF table[k] = Nothing THEN r ELSE table[k]
      <4>1. table' = [Pruned(k) EXCEPT ![k] = mutex]
        BY <1>2, <2>4 DEF Check
      <4>2. k \in LockKeys
        BY <2>1
      <4>3. mutex \in Request \cup {Nothing}
        BY <4>2
      <4>4. Pruned(k) \in [LockKeys -> Request \cup {Nothing}]
        BY DEF Pruned
      <4> HIDE DEF k, mutex
      <4>5. QED
        BY <4>1, <4>2, <4>3, <4>4
    <3>2. ask' \in [Request -> Asks \cup {Nothing}]
      BY <1>2 DEF Check
    <3>3. UNCHANGED <<mutexOf, ahead, got, tokens, disk, strays, faults, intruded>>
      BY <1>2, <2>4 DEF Check
    <3>4. /\ pc' = [pc EXCEPT ![r] = "done"]
          /\ answer' = [answer EXCEPT ![r] = Answer("skipped", Nothing, Nothing)]
      BY <1>2, <2>4 DEF Check
    <3>5. QED
      BY <2>2, <3>1, <3>2, <3>3, <3>4
  <2>5. QED
    BY <2>3, <2>4
<1>3. ASSUME NEW r \in Request, Proceeds(r) PROVE TypeOK'
  <2>1. CASE Enter(r) \/ Charge(r) \/ TakeSlot(r)
    BY <1>3, <2>1, BoundAssumption DEF Enter, Charge, TakeSlot, Goto
  <2>2. ASSUME At(r, "lookup") \/ At(r, "lookupGlue") \/ pc[r] \in Building \cup Checking
        PROVE  ask[r].source \in Source /\ ask[r].cell \in Cell /\ Out(r) \in Artifact
    BY <2>2, AskTyped DEF Asked
  <2>3. CASE Lookup(r)
    BY <2>2, <2>3 DEF Lookup, Goto
  <2>4. CASE Hit(r)
    <3>1. Answer("hit", got[r], glue[Here(r)]) \in AnswerType
      BY <2>2, <2>4, AnswerTyped DEF Hit, Verdicts
    <3>2. QED
      BY <2>4, <3>1, FinishTyped DEF Hit
  <2>5. CASE RateLimited(r) \/ AtCapacity(r) \/ BuildError(r)
    <3>1. \A as \in {"rateLimited", "atCapacity", "error"} : Answer(as, Nothing, Nothing) \in AnswerType
      BY AnswerTyped DEF Verdicts
    <3>2. QED
      BY <2>5, <3>1, FinishTyped DEF RateLimited, AtCapacity, BuildError
  <2>6. CASE Scaffold(r)
    BY <2>2, <2>6 DEF Scaffold, Goto
  <2>7. CASE Cargo(r)
    <3>1. workspace[ask[r].cell] \in Source \cup {Nothing} /\ Out(r) \in Artifact
      BY <2>2, <2>7 DEF Cargo
    <3>2. Answer("failed", workspace[ask[r].cell], Nothing) \in AnswerType
      BY <3>1, AnswerTyped DEF Verdicts
    <3>3. CASE workspace[ask[r].cell] \in Compiles
      BY <2>7, <3>1, <3>3 DEF Cargo, Goto
    <3>4. CASE workspace[ask[r].cell] \notin Compiles
      BY <2>7, <3>2, <3>4, FinishTyped DEF Cargo
    <3>5. QED
      BY <3>3, <3>4
  <2>8. CASE Collect(r)
    BY <2>2, <2>8 DEF Collect, Goto
  <2>9. CASE CheckEnds(r)
    <3>1. workspace[ask[r].cell] \in Source \cup {Nothing}
      BY <2>2, <2>9 DEF CheckEnds
    <3>2. \A as \in {"clean", "errors", "timedOut"}, of \in {workspace[ask[r].cell], Nothing} :
              Answer(as, of, Nothing) \in AnswerType
      BY <3>1, AnswerTyped DEF Verdicts
    <3>3. PICK a \in AnswerType : Finish(r, a)
      BY <2>9, <3>2 DEF CheckEnds
    <3>4. QED
      BY <2>9, <3>3, FinishTyped DEF CheckEnds
  <2>10. CASE StoreWasm(r)
    BY <2>2, <2>10 DEF StoreWasm, Goto
  <2>11. CASE StoreGlue(r)
    <3>1. Answer("built", got[r], got[r]) \in AnswerType
      BY AnswerTyped DEF Verdicts
    <3>2. QED
      BY <2>2, <2>11, <3>1, FinishTyped DEF StoreGlue
  <2>12. QED
    BY <1>3, <2>1, <2>3, <2>4, <2>5, <2>6, <2>7, <2>8, <2>9, <2>10, <2>11 DEF Proceeds
<1>4. ASSUME NEW r \in Request, StoreFails(r) PROVE TypeOK'
  <2>1. Answer("built", got[r], got[r]) \in AnswerType
    BY AnswerTyped DEF Verdicts
  <2>2. faults' \in 0..MaxFaults
    BY <1>4, BoundAssumption DEF StoreFails, Fault
  <2>3. QED
    BY <1>4, <2>1, <2>2, FinishTyped DEF StoreFails
<1>5. ASSUME NEW r \in Request, Dropped(r) PROVE TypeOK'
  <2>1. Answer("dropped", Nothing, Nothing) \in AnswerType
    BY AnswerTyped DEF Verdicts
  <2>2. ask[r].cell \in Cell /\ ask[r].source \in Source /\ Out(r) \in Artifact
    BY <1>5, AskTyped DEF Dropped, Asked
  <2>3. Orphan(r) \subseteq StrayType
    BY <2>2, SourceAssumption DEF Orphan, StrayType
  <2>4. strays' \subseteq StrayType
    BY <1>5, <2>3 DEF Dropped
  <2>5. faults' \in 0..MaxFaults
    BY <1>5, BoundAssumption DEF Dropped, Fault
  <2>6. QED
    BY <1>5, <2>1, <2>4, <2>5, FinishTyped DEF Dropped
<1>6. ASSUME NEW w \in strays, StrayLands(w) PROVE TypeOK'
  <2>1. w.into = "workspace" => w.name \in Cell /\ w.source \in Source
    BY DEF StrayType
  <2>2. w.into = "artifact" => w.name \in Artifact /\ w.source \in Source
    BY DEF StrayType
  <2>3. QED
    BY <1>6, <2>1, <2>2 DEF StrayLands
<1>7. CASE Refill
  BY <1>7, BoundAssumption DEF Refill
<1>8. CASE Restart
  <2>1. Answer("lost", Nothing, Nothing) \in AnswerType
    BY AnswerTyped DEF Verdicts
  <2>2. QED
    BY <1>8, <2>1, BoundAssumption DEF Restart, Fault
<1>9. CASE Wipe
  BY <1>9, BoundAssumption DEF Wipe, Fault, Files, Without
<1>10. CASE UNCHANGED vars
  BY <1>10 DEF vars
<1>11. QED
  BY <1>1, <1>2, <1>3, <1>4, <1>5, <1>6, <1>7, <1>8, <1>9, <1>10 DEF Next, Arrives

\* The variables of the compile service keep their types.
THEOREM TypeCorrect == Spec => [](TypeOK /\ Asked)
<1>1. Init => Asked
  BY DEF Init, Asked
<1>2. QED
  BY InitType, NextType, NextAsked, <1>1, PTL DEF Spec

-----------------------------------------------------------------------------
(***************************************************************************)
(* Mutual exclusion.                                                       *)
(***************************************************************************)

Key(r) == LockKey(ask[r].cell)

\* A request refers to a mutex from its arrival until it leaves.
Referring == \A r \in Request : pc[r] \notin Outside <=> mutexOf[r] # Nothing

\* Inside, everybody who came first has left.
First == \A r \in Request : pc[r] \in Inside => ahead[r] = {}

\* Of two requests with one mutex, one has the other ahead of it.
Lined ==
    \A q, r \in Request :
        q # r /\ mutexOf[r] # Nothing /\ mutexOf[q] = mutexOf[r]
            => q \in ahead[r] \/ r \in ahead[q]

\* The table never loses a mutex that is in use.
Tabled == \A r \in Request : mutexOf[r] # Nothing => table[Key(r)] = mutexOf[r]

\* A request that is to arrive has not made a mutex yet.
Fresh ==
    \A r \in Request : pc[r] = "new" =>
        /\ \A k \in LockKeys : table[k] # r
        /\ \A q \in Request : mutexOf[q] # r

LockInv == Referring /\ First /\ Lined /\ Tabled /\ Fresh

LEMMA LockInvExcludes ==
    ASSUME TypeOK, Asked, LockInv PROVE OneInside
<1> SUFFICES ASSUME NEW q \in Request, NEW r \in Request, q # r,
                    pc[q] \in Inside, pc[r] \in Inside, Out(q) = Out(r)
             PROVE  FALSE
  BY DEF OneInside
<1>1. mutexOf[q] # Nothing /\ mutexOf[r] # Nothing
  BY DEF LockInv, Referring, Outside, Inside, Building, Checking
<1>2. mutexOf[q] = mutexOf[r]
  BY <1>1 DEF LockInv, Tabled, Key
<1>3. QED
  BY <1>1, <1>2 DEF LockInv, First, Lined

\* A request that has its mutex moves on without touching the locks.
LEMMA GotoLock ==
    ASSUME TypeOK, LockInv, NEW r \in Request, NEW next \in Inside, Goto(r, next),
           pc[r] \in Inside \/ ahead[r] = {}, pc[r] \notin Outside
    PROVE  LockInv'
<1> USE DEF Goto, locks, TypeOK, LockInv
<1>1. next \notin Outside
  BY DEF Inside, Outside, Building, Checking
<1>2. Referring' /\ Fresh'
  BY <1>1 DEF Referring, Fresh, Outside
<1>3. First' /\ Lined' /\ Tabled'
  BY DEF First, Lined, Tabled, Key
<1>4. QED
  BY <1>2, <1>3

\* Leaving gives the mutex up and makes room for those behind.
LEMMA FinishLock ==
    ASSUME TypeOK, LockInv, NEW r \in Request, NEW a, Finish(r, a), UNCHANGED ask,
           pc[r] \notin Outside
    PROVE  LockInv'
<1> USE DEF Finish, Unlock, TypeOK, LockInv
<1>1. Referring' /\ Fresh'
  BY SourceAssumption DEF Referring, Fresh, Outside
<1>2. First'
  BY DEF First, Inside, Building, Checking
<1>3. Lined'
  BY DEF Lined
<1>4. Tabled'
  BY DEF Tabled, Key
<1>5. QED
  BY <1>1, <1>2, <1>3, <1>4

\* Pruning spares what is in use, and only a key without users gets a new mutex.
LEMMA PrunedKeeps ==
    ASSUME TypeOK, LockInv, NEW q \in Request, NEW k \in LockKeys, NEW r \in Request,
           mutexOf[q] # Nothing, Key(q) \in LockKeys
    PROVE  [Pruned(k) EXCEPT ![k] = IF table[k] = Nothing THEN r ELSE table[k]][Key(q)]
               = mutexOf[q]
<1>1. table[Key(q)] = mutexOf[q]
  BY DEF LockInv, Tabled
<1>2. InUse(table[Key(q)])
  BY <1>1 DEF InUse, Users
<1>3. QED
  BY <1>1, <1>2 DEF Pruned, TypeOK

\* A request takes its place at the mutex of its key.
LEMMA CellLockLock ==
    ASSUME TypeOK, Asked, LockInv, NEW r \in Request, NEW a \in Asks,
           pc[r] = "new", CellLock(r, LockKey(a.cell)), ask' = [ask EXCEPT ![r] = a],
           NEW next \in Pc \ Outside, pc' = [pc EXCEPT ![r] = next],
           next \in Inside => Free(LockKey(a.cell))
    PROVE  LockInv'
<1> DEFINE k == LockKey(a.cell)
           mutex == IF table[k] = Nothing THEN r ELSE table[k]
<1>k. k \in LockKeys
  BY AskTyped
<1>m. mutex \in Request /\ mutex # Nothing /\ mutexOf' = [mutexOf EXCEPT ![r] = mutex]
      /\ ahead' = [ahead EXCEPT ![r] = Users(mutex)]
      /\ table' = [Pruned(k) EXCEPT ![k] = mutex]
  BY <1>k, SourceAssumption DEF CellLock, TypeOK
<1> HIDE DEF k
<1>1. Referring'
  BY <1>m DEF LockInv, Referring, TypeOK
<1>2. First'
  <2>1. ASSUME next \in Inside PROVE Users(mutex) = {}
    <3>1. CASE table[k] = Nothing
      BY <3>1 DEF Users, LockInv, Fresh
    <3>2. CASE table[k] # Nothing
      BY <2>1, <3>2 DEF Free, InUse, k
    <3>3. QED
      BY <3>1, <3>2
  <2>2. QED
    BY <1>m, <2>1 DEF LockInv, First, TypeOK
<1>3. Lined'
  <2>1. mutexOf[r] = Nothing
    BY DEF LockInv, Referring, Outside
  <2>2. ASSUME NEW q \in Request, q # r, mutexOf'[q] = mutexOf'[r] PROVE q \in ahead'[r]
    BY <1>m, <2>2 DEF Users, TypeOK
  <2>3. ASSUME NEW q \in Request, NEW p \in Request, q # r, p # r
        PROVE  /\ mutexOf'[q] = mutexOf[q] /\ mutexOf'[p] = mutexOf[p]
               /\ ahead'[q] = ahead[q] /\ ahead'[p] = ahead[p]
    BY <1>m, <2>3 DEF TypeOK
  <2>4. QED
    BY <2>2, <2>3 DEF LockInv, Lined
<1>4. Tabled'
  <2>1. ASSUME NEW q \in Request, q # r, mutexOf'[q] # Nothing
        PROVE  table'[Key(q)'] = mutexOf'[q]
    <3>1. mutexOf'[q] = mutexOf[q] /\ Key(q)' = Key(q)
      BY <1>m, <2>1 DEF TypeOK, Key
    <3>2. Key(q) \in LockKeys
      <4>1. ask[q] \in Asks
        BY <2>1, <3>1 DEF LockInv, Referring, Asked, Outside
      <4>2. QED
        BY <4>1, AskTyped DEF Key
    <3>3. QED
      BY <1>k, <1>m, <2>1, <3>1, <3>2, PrunedKeeps
  <2>2. table'[Key(r)'] = mutexOf'[r]
    <3>1. Key(r)' = k
      BY DEF Key, k, TypeOK
    <3>2. QED
      BY <1>k, <1>m, <3>1 DEF Pruned, TypeOK
  <2>3. QED
    BY <2>1, <2>2 DEF Tabled
<1>5. Fresh'
  <2> SUFFICES ASSUME NEW q \in Request, pc'[q] = "new"
               PROVE  /\ \A x \in LockKeys : table'[x] # q
                      /\ \A p \in Request : mutexOf'[p] # q
    BY DEF Fresh
  <2>1. q # r /\ pc[q] = "new"
    BY DEF TypeOK, Outside
  <2>2. q # Nothing /\ q # mutex
    BY <1>k, <2>1, SourceAssumption DEF LockInv, Fresh
  <2>3. ASSUME NEW x \in LockKeys PROVE table'[x] # q
    BY <1>k, <1>m, <2>1, <2>2 DEF LockInv, Fresh, Pruned, TypeOK
  <2>4. QED
    BY <1>m, <2>1, <2>2, <2>3 DEF LockInv, Fresh, TypeOK
<1>6. QED
  BY <1>1, <1>2, <1>3, <1>4, <1>5 DEF LockInv

LEMMA NextLock == ASSUME TypeOK, Asked, LockInv, [Next]_vars PROVE LockInv'
<1> USE DEF Outside, Inside, Building, Checking, Keep, locks
<1>1. ASSUME NEW r \in Request, NEW a \in Asks, Compile(r, a) PROVE LockInv'
  BY <1>1, CellLockLock DEF Compile, Pc
<1>2. ASSUME NEW r \in Request, NEW a \in Asks, Check(r, a) PROVE LockInv'
  <2>1. CASE Free(LockKey(a.cell)) /\ CheckSlotFree
    BY <1>2, <2>1, CellLockLock DEF Check, Pc
  <2>2. CASE ~(Free(LockKey(a.cell)) /\ CheckSlotFree)
    <3> DEFINE k == LockKey(a.cell)
    <3>1. k \in LockKeys
      BY AskTyped
    <3>2. /\ pc[r] = "new" /\ pc' = [pc EXCEPT ![r] = "done"] /\ ask' = [ask EXCEPT ![r] = a]
          /\ UNCHANGED <<mutexOf, ahead>>
          /\ table' = [Pruned(k) EXCEPT ![k] = IF table[k] = Nothing THEN r ELSE table[k]]
      BY <1>2, <2>2 DEF Check
    <3> HIDE DEF k
    <3>3. mutexOf[r] = Nothing
      BY <3>2 DEF LockInv, Referring
    <3>4. Referring' /\ First' /\ Lined'
      BY <3>2 DEF LockInv, Referring, First, Lined, TypeOK
    <3>5. ASSUME NEW q \in Request, mutexOf[q] # Nothing PROVE table'[Key(q)'] = mutexOf[q]
      <4>1. q # r /\ ask[q] \in Asks
        BY <3>3, <3>5 DEF LockInv, Referring, Asked
      <4>2. Key(q)' = Key(q) /\ Key(q) \in LockKeys
        BY <3>2, <4>1, AskTyped DEF Key, TypeOK
      <4>3. QED
        BY <3>1, <3>2, <3>5, <4>2, PrunedKeeps
    <3>6. Tabled'
      BY <3>2, <3>5 DEF Tabled
    <3>7. Fresh'
      BY <3>1, <3>2, SourceAssumption DEF LockInv, Fresh, Pruned, TypeOK
    <3>8. QED
      BY <3>4, <3>6, <3>7 DEF LockInv
  <2>3. QED
    BY <2>1, <2>2
<1>3. ASSUME NEW r \in Request, Proceeds(r) PROVE LockInv'
  <2>1. CASE Enter(r)
    BY <2>1, GotoLock DEF Enter
  <2>2. CASE Lookup(r) \/ Charge(r) \/ TakeSlot(r) \/ Scaffold(r) \/ Collect(r) \/ StoreWasm(r)
    BY <2>2, GotoLock DEF Lookup, Charge, TakeSlot, Scaffold, Collect, StoreWasm
  <2>3. CASE Hit(r) \/ RateLimited(r) \/ AtCapacity(r) \/ BuildError(r) \/ StoreGlue(r)
    BY <2>3, FinishLock DEF Hit, RateLimited, AtCapacity, BuildError, StoreGlue
  <2>4. CASE CheckEnds(r)
    BY <2>4, FinishLock DEF CheckEnds
  <2>5. CASE Cargo(r)
    <3>1. CASE workspace[ask[r].cell] \in Compiles
      BY <2>5, <3>1, GotoLock DEF Cargo
    <3>2. CASE workspace[ask[r].cell] \notin Compiles
      BY <2>5, <3>2, FinishLock DEF Cargo
    <3>3. QED
      BY <3>1, <3>2
  <2>6. QED
    BY <1>3, <2>1, <2>2, <2>3, <2>4, <2>5 DEF Proceeds
<1>4. ASSUME NEW r \in Request, StoreFails(r) \/ Dropped(r) PROVE LockInv'
  BY <1>4, FinishLock DEF StoreFails, Dropped
<1>5. CASE Refill \/ Wipe \/ (\E w \in strays : StrayLands(w)) \/ UNCHANGED vars
  <2>1. UNCHANGED <<pc, ask, locks>>
    BY <1>5 DEF Refill, Wipe, StrayLands, vars
  <2>2. QED
    BY <2>1 DEF LockInv, Referring, First, Lined, Tabled, Fresh, Key
<1>6. CASE Restart
  BY <1>6, SourceAssumption DEF Restart, LockInv, Referring, First, Lined, Tabled, Fresh
<1>7. QED
  BY <1>1, <1>2, <1>3, <1>4, <1>5, <1>6 DEF Next, Arrives

LEMMA InitLock == Init => Asked /\ LockInv
BY SourceAssumption
   DEF Init, Asked, LockInv, Referring, First, Lined, Tabled, Fresh, Outside, Inside,
       Building, Checking

\* Of two calls whose cells share an output of cargo, at most one is between
\* taking its lock and leaving, however idle locks come and go in the table.
THEOREM MutualExclusion == Spec => []OneInside
<1>1. Spec => [](TypeOK /\ Asked /\ LockInv)
  BY InitType, InitLock, NextType, NextAsked, NextLock, PTL DEF Spec
<1>2. TypeOK /\ Asked /\ LockInv => OneInside
  BY LockInvExcludes
<1>3. QED
  BY <1>1, <1>2, PTL

-----------------------------------------------------------------------------
(***************************************************************************)
(* What is built, answered and cached is of the inputs asked for.          *)
(***************************************************************************)

\* The tool about to run finds the source of its own call, or none.
Working ==
    /\ \A r \in Request : pc[r] \in {"cargo", "check"} =>
           workspace[ask[r].cell] \in {Here(r), Nothing}
    /\ \A r \in Request : pc[r] = "collect" =>
           Here(r) \in Compiles /\ artifact[Out(r)] \in {Here(r), Nothing}

\* What a call holds in its hands is its own.
Held ==
    /\ \A r \in Request : pc[r] = "lookupGlue" => got[r] = Here(r)
    /\ \A r \in Request : pc[r] \in {"storeWasm", "storeGlue"} =>
           Here(r) \in Compiles /\ got[r] = Here(r)

Own(r, a)  == {a.of, a.glue} \subseteq {Here(r), Nothing}
Told       == \A r \in Request : answer[r] # Nothing => Own(r, answer[r])
OwnFile(s, x) == x = Nothing \/ (x = s /\ s \in Compiles)
Cached     == \A s \in Source : OwnFile(s, blob[s]) /\ OwnFile(s, glue[s])

Truth == ~intruded => Working /\ Held /\ Told /\ Cached

LEMMA TruthImplies == ASSUME TypeOK, Truth PROVE OwnInputsOnly
BY DEF Truth, Told, Own, Cached, OwnFile, OwnInputsOnly

\* Leaving with one's own answer.
LEMMA FinishTruth ==
    ASSUME TypeOK, Truth, NEW r \in Request, NEW a, Finish(r, a), ~intruded => Own(r, a),
           UNCHANGED <<ask, disk, intruded>>
    PROVE  Truth'
<1> SUFFICES ASSUME ~intruded PROVE Working' /\ Held' /\ Told' /\ Cached'
  BY DEF Truth
<1>1. Working' /\ Held' /\ Cached'
  BY DEF Truth, Finish, Working, Held, Cached, TypeOK, disk
<1>2. Told'
  BY DEF Truth, Finish, Told, Own, TypeOK
<1>3. QED
  BY <1>1, <1>2

\* Nobody is told anything before he asks.
Unasked == \A r \in Request : pc[r] = "new" => answer[r] = Nothing

LEMMA NextUnasked == ASSUME TypeOK, Unasked, [Next]_vars PROVE Unasked'
<1> USE DEF Unasked, TypeOK, Outside
<1>1. ASSUME NEW r \in Request, NEW a \in Asks, Compile(r, a) \/ Check(r, a) PROVE Unasked'
  BY <1>1 DEF Compile, Check
<1>2. ASSUME NEW r \in Request, Proceeds(r) PROVE Unasked'
  BY <1>2 DEF Proceeds, Enter, Lookup, Hit, Charge, RateLimited, TakeSlot, AtCapacity,
              Scaffold, Cargo, Collect, BuildError, CheckEnds, StoreWasm, StoreGlue,
              Goto, Finish
<1>3. ASSUME NEW r \in Request, StoreFails(r) \/ Dropped(r) PROVE Unasked'
  BY <1>3 DEF StoreFails, Dropped, Finish
<1>4. CASE Refill \/ Wipe \/ (\E w \in strays : StrayLands(w)) \/ UNCHANGED vars
  BY <1>4 DEF Refill, Wipe, StrayLands, vars
<1>5. CASE Restart
  BY <1>5 DEF Restart
<1>6. QED
  BY <1>1, <1>2, <1>3, <1>4, <1>5 DEF Next, Arrives

\* An arrival changes nothing but what is asked, by one who holds nothing.
LEMMA ArrivesTruth ==
    ASSUME TypeOK, Truth, NEW r \in Request, NEW a \in Asks, pc[r] = "new",
           ask' = [ask EXCEPT ![r] = a],
           NEW next \in {"lock", "scaffoldCheck", "done"}, pc' = [pc EXCEPT ![r] = next],
           UNCHANGED <<got, disk, intruded>>,
           \A q \in Request : q # r => answer'[q] = answer[q],
           answer'[r] # Nothing => answer'[r].of = Nothing /\ answer'[r].glue = Nothing
    PROVE  Truth'
<1> SUFFICES ASSUME ~intruded PROVE Working' /\ Held' /\ Told' /\ Cached'
  BY DEF Truth
<1>1. \A q \in Request : q # r => ask'[q] = ask[q] /\ pc'[q] = pc[q]
  BY DEF TypeOK
<1>2. pc'[r] \notin {"cargo", "check", "collect", "lookupGlue", "storeWasm", "storeGlue"}
  BY DEF TypeOK
<1>3. Working' /\ Held' /\ Cached'
  BY <1>1, <1>2 DEF Truth, Working, Held, Cached, disk
<1>4. Told'
  BY <1>1 DEF Truth, Told, Own
<1>5. QED
  BY <1>3, <1>4

LEMMA NextTruth ==
    ASSUME TypeOK, Asked, Unasked, OneInside, Truth, [Next]_vars PROVE Truth'
<1> USE DEF Keep, Inside, Building, Checking
<1>1. ASSUME NEW r \in Request, NEW a \in Asks, Compile(r, a) PROVE Truth'
  BY <1>1, ArrivesTruth DEF Compile, Unasked
<1>2. ASSUME NEW r \in Request, NEW a \in Asks, Check(r, a) PROVE Truth'
  <2>1. CASE Free(LockKey(a.cell)) /\ CheckSlotFree
    BY <1>2, <2>1, ArrivesTruth DEF Check, Unasked
  <2>2. CASE ~(Free(LockKey(a.cell)) /\ CheckSlotFree)
    <3>1. answer' = [answer EXCEPT ![r] = Answer("skipped", Nothing, Nothing)]
      BY <1>2, <2>2 DEF Check
    <3>2. QED
      BY <1>2, <2>2, <3>1, ArrivesTruth DEF Check, Answer, TypeOK
  <2>3. QED
    BY <2>1, <2>2
<1>3. ASSUME NEW r \in Request, Enter(r) \/ Charge(r) \/ TakeSlot(r) PROVE Truth'
  <2>1. UNCHANGED <<ask, answer, got, disk, intruded>>
    BY <1>3 DEF Enter, Charge, TakeSlot, Goto
  <2>2. PICK next \in {"lookup", "admit", "queue", "scaffold"} : pc' = [pc EXCEPT ![r] = next]
    BY <1>3 DEF Enter, Charge, TakeSlot, Goto
  <2>3. QED
    BY <2>1, <2>2 DEF Truth, Working, Held, Told, Own, Cached, TypeOK, disk
<1>4. ASSUME NEW r \in Request, Lookup(r) PROVE Truth'
  <2> SUFFICES ASSUME ~intruded PROVE Working' /\ Held' /\ Told' /\ Cached'
    BY <1>4 DEF Truth, Lookup
  <2>1. Here(r) \in Source
    BY <1>4, AskTyped DEF Lookup, Asked
  <2>2. Working' /\ Told' /\ Cached'
    BY <1>4 DEF Lookup, Goto, Truth, Working, Told, Own, Cached, TypeOK, disk
  <2>3. Held'
    BY <1>4, <2>1 DEF Lookup, Goto, Truth, Held, Cached, OwnFile, TypeOK
  <2>4. QED
    BY <2>2, <2>3
<1>5. ASSUME NEW r \in Request, Hit(r) PROVE Truth'
  <2>1. Here(r) \in Source
    BY <1>5, AskTyped DEF Hit, Asked
  <2>2. ~intruded => Own(r, Answer("hit", got[r], glue[Here(r)]))
    BY <1>5, <2>1 DEF Hit, Truth, Held, Cached, OwnFile, Own, Answer
  <2>3. QED
    BY <1>5, <2>2, FinishTruth DEF Hit
<1>6. ASSUME NEW r \in Request, RateLimited(r) \/ AtCapacity(r) \/ BuildError(r) \/ Dropped(r)
      PROVE  Truth'
  <2>1. \A as \in Verdicts : Own(r, Answer(as, Nothing, Nothing))
    BY DEF Own, Answer
  <2>2. PICK as \in Verdicts : Finish(r, Answer(as, Nothing, Nothing))
    BY <1>6 DEF RateLimited, AtCapacity, BuildError, Dropped, Verdicts
  <2>3. UNCHANGED <<ask, disk, intruded>>
    BY <1>6 DEF RateLimited, AtCapacity, BuildError, Dropped
  <2>4. QED
    BY <2>1, <2>2, <2>3, FinishTruth
<1>7. ASSUME NEW r \in Request, Scaffold(r) PROVE Truth'
  <2> SUFFICES ASSUME ~intruded PROVE Working' /\ Held' /\ Told' /\ Cached'
    BY <1>7 DEF Truth, Scaffold
  <2>1. ask[r].cell \in Cell
    BY <1>7, AskTyped DEF Scaffold, Asked
  <2>2. ASSUME NEW q \in Request, q # r, pc[q] \in {"cargo", "check"}
        PROVE  ask[q].cell # ask[r].cell
    BY <1>7, <2>2 DEF Scaffold, OneInside
  <2>3. Working'
    BY <1>7, <2>1, <2>2 DEF Scaffold, Goto, Truth, Working, TypeOK
  <2>4. Held' /\ Told' /\ Cached'
    BY <1>7 DEF Scaffold, Goto, Truth, Held, Told, Own, Cached, TypeOK
  <2>5. QED
    BY <2>3, <2>4
<1>8. ASSUME NEW r \in Request, Cargo(r) PROVE Truth'
  <2>1. CASE workspace[ask[r].cell] \notin Compiles
    <3>1. ~intruded => Own(r, Answer("failed", workspace[ask[r].cell], Nothing))
      BY <1>8 DEF Cargo, Truth, Working, Own, Answer
    <3>2. QED
      BY <1>8, <2>1, <3>1, FinishTruth DEF Cargo, disk
  <2>2. CASE workspace[ask[r].cell] \in Compiles
    <3> SUFFICES ASSUME ~intruded PROVE Working' /\ Held' /\ Told' /\ Cached'
      BY <1>8 DEF Truth, Cargo
    <3>1. workspace[ask[r].cell] = Here(r) /\ Here(r) \in Compiles
      BY <1>8, <2>2, SourceAssumption DEF Cargo, Truth, Working
    <3>2. Out(r) \in Artifact
      BY <1>8, AskTyped DEF Cargo, Asked
    <3>3. ASSUME NEW q \in Request, q # r, pc[q] = "collect" PROVE Out(q) # Out(r)
      BY <1>8, <3>3 DEF Cargo, OneInside
    <3>4. /\ artifact' = [artifact EXCEPT ![Out(r)] = Here(r)]
          /\ pc' = [pc EXCEPT ![r] = "collect"]
          /\ UNCHANGED <<ask, answer, got, workspace, blob, glue>>
      BY <1>8, <2>2, <3>1 DEF Cargo, Goto
    <3>5. Working'
      BY <3>1, <3>2, <3>3, <3>4 DEF Truth, Working, TypeOK
    <3>6. Held' /\ Told' /\ Cached'
      BY <3>4 DEF Truth, Held, Told, Own, Cached, TypeOK
    <3>7. QED
      BY <3>5, <3>6
  <2>3. QED
    BY <2>1, <2>2
<1>9. ASSUME NEW r \in Request, Collect(r) PROVE Truth'
  <2> SUFFICES ASSUME ~intruded PROVE Working' /\ Held' /\ Told' /\ Cached'
    BY <1>9 DEF Truth, Collect
  <2>1. artifact[Out(r)] = Here(r) /\ Here(r) \in Compiles
    BY <1>9 DEF Collect, Truth, Working
  <2>2. Held'
    BY <1>9, <2>1 DEF Collect, Goto, Truth, Held, TypeOK
  <2>3. Working' /\ Told' /\ Cached'
    BY <1>9 DEF Collect, Goto, Truth, Working, Told, Own, Cached, TypeOK, disk
  <2>4. QED
    BY <2>2, <2>3
<1>10. ASSUME NEW r \in Request, CheckEnds(r) PROVE Truth'
  <2>1. ~intruded => \A as \in Verdicts, of \in {workspace[ask[r].cell], Nothing} :
                         Own(r, Answer(as, of, Nothing))
    BY <1>10 DEF CheckEnds, Truth, Working, Own, Answer
  <2>2. PICK as \in Verdicts, of \in {workspace[ask[r].cell], Nothing} :
                 Finish(r, Answer(as, of, Nothing))
    BY <1>10 DEF CheckEnds, Verdicts
  <2>3. QED
    BY <1>10, <2>1, <2>2, FinishTruth DEF CheckEnds
<1>11. ASSUME NEW r \in Request, StoreWasm(r) PROVE Truth'
  <2> SUFFICES ASSUME ~intruded PROVE Working' /\ Held' /\ Told' /\ Cached'
    BY <1>11 DEF Truth, StoreWasm
  <2>1. got[r] = Here(r) /\ Here(r) \in Compiles
    BY <1>11 DEF StoreWasm, Truth, Held
  <2>2. Cached'
    BY <1>11, <2>1 DEF StoreWasm, Truth, Cached, OwnFile, TypeOK
  <2>3. Working' /\ Held' /\ Told'
    BY <1>11, <2>1 DEF StoreWasm, Goto, Truth, Working, Held, Told, Own, TypeOK
  <2>4. QED
    BY <2>2, <2>3
<1>12. ASSUME NEW r \in Request, StoreGlue(r) PROVE Truth'
  <2> SUFFICES ASSUME ~intruded PROVE Working' /\ Held' /\ Told' /\ Cached'
    BY <1>12 DEF Truth, StoreGlue
  <2>1. got[r] = Here(r) /\ Here(r) \in Compiles
    BY <1>12 DEF StoreGlue, Truth, Held
  <2>2. Cached'
    BY <1>12, <2>1 DEF StoreGlue, Truth, Cached, OwnFile, TypeOK
  <2>3. Own(r, Answer("built", got[r], got[r]))
    BY <2>1 DEF Own, Answer
  <2>4. Working' /\ Held'
    BY <1>12 DEF StoreGlue, Finish, Truth, Working, Held, TypeOK
  <2>5. Told'
    BY <1>12, <2>3 DEF StoreGlue, Finish, Truth, Told, Own, TypeOK
  <2>6. QED
    BY <2>2, <2>4, <2>5
<1>13. ASSUME NEW r \in Request, StoreFails(r) PROVE Truth'
  <2>1. ~intruded => Own(r, Answer("built", got[r], got[r]))
    BY <1>13 DEF StoreFails, Truth, Held, Own, Answer
  <2>2. QED
    BY <1>13, <2>1, FinishTruth DEF StoreFails
<1>14. ASSUME NEW w \in strays, StrayLands(w) PROVE Truth'
  <2> SUFFICES ASSUME ~intruded' PROVE Working' /\ Held' /\ Told' /\ Cached'
    BY DEF Truth
  <2>1. ~intruded /\ \A r \in Request : pc[r] \in Inside => Out(r) # KeyOf(w)
    BY <1>14 DEF StrayLands
  <2>2. Held' /\ Told' /\ Cached'
    BY <1>14, <2>1 DEF StrayLands, Truth, Held, Told, Own, Cached
  <2>3. ASSUME NEW r \in Request, pc[r] \in {"cargo", "check"}
        PROVE  workspace'[ask[r].cell] = workspace[ask[r].cell]
    <3>1. w.into = "workspace" => ask[r].cell # w.name
      BY <2>1, <2>3 DEF KeyOf
    <3>2. QED
      BY <1>14, <3>1 DEF StrayLands, TypeOK
  <2>4. ASSUME NEW r \in Request, pc[r] = "collect" PROVE artifact'[Out(r)] = artifact[Out(r)]
    <3>1. w.into = "artifact" => Out(r) # w.name
      BY <2>1, <2>4 DEF KeyOf
    <3>2. QED
      BY <1>14, <3>1 DEF StrayLands, TypeOK
  <2>5. Working'
    BY <1>14, <2>1, <2>3, <2>4 DEF StrayLands, Truth, Working
  <2>6. QED
    BY <2>2, <2>5
<1>15. CASE Wipe
  <2> SUFFICES ASSUME ~intruded PROVE Working' /\ Held' /\ Told' /\ Cached'
    BY <1>15 DEF Truth, Wipe
  <2>1. UNCHANGED <<pc, ask, answer, got>>
    BY <1>15 DEF Wipe, locks
  <2>2. /\ \A c \in Cell : workspace'[c] \in {workspace[c], Nothing}
        /\ \A a \in Artifact : artifact'[a] \in {artifact[a], Nothing}
        /\ \A s \in Source : blob'[s] \in {blob[s], Nothing} /\ glue'[s] \in {glue[s], Nothing}
    BY <1>15 DEF Wipe, Without, TypeOK
  <2>3. \A r \in Request : pc[r] # "new" => ask[r].cell \in Cell /\ Out(r) \in Artifact
    BY AskTyped DEF Asked
  <2>4. Working'
    BY <2>1, <2>2, <2>3 DEF Truth, Working
  <2>5. Held' /\ Told' /\ Cached'
    BY <2>1, <2>2 DEF Truth, Held, Told, Own, Cached, OwnFile
  <2>6. QED
    BY <2>4, <2>5
<1>16. CASE Restart
  <2> SUFFICES ASSUME ~intruded PROVE Working' /\ Held' /\ Told' /\ Cached'
    BY <1>16 DEF Truth, Restart
  <2>1. \A r \in Request : pc'[r] \in Outside
    BY <1>16 DEF Restart, Outside
  <2>2. Working' /\ Held'
    BY <2>1 DEF Working, Held, Outside
  <2>3. Cached' /\ Told'
    BY <1>16 DEF Restart, Truth, Cached, Told, Own, Answer, disk
  <2>4. QED
    BY <2>2, <2>3
<1>17. CASE Refill \/ UNCHANGED vars
  BY <1>17 DEF Refill, vars, Truth, Working, Held, Told, Own, Cached, disk
<1>18. QED
  BY <1>1, <1>2, <1>3, <1>4, <1>5, <1>6, <1>7, <1>8, <1>9, <1>10, <1>11, <1>12, <1>13,
     <1>14, <1>15, <1>16, <1>17 DEF Next, Arrives, Proceeds

LEMMA InitTruth == Init => Unasked /\ Truth
BY DEF Init, Unasked, Truth, Working, Held, Told, Own, Cached, OwnFile

\* Every answer and every cached file is of the inputs it stands for, however
\* cells' ids are spelled, however calls, restarts and wipes interleave, unless
\* a write of a dropped call landed in another's critical section.
THEOREM BuildsAreOwn == Spec => []OwnInputsOnly
<1>1. TypeOK /\ Asked /\ LockInv => OneInside
  BY LockInvExcludes
<1>2. Spec => [](TypeOK /\ Asked /\ LockInv /\ Unasked /\ Truth)
  BY InitType, InitLock, InitTruth, NextType, NextAsked, NextLock, NextUnasked, NextTruth,
     <1>1, PTL DEF Spec
<1>3. TypeOK /\ Truth => OwnInputsOnly
  BY TruthImplies
<1>4. QED
  BY <1>2, <1>3, PTL

-----------------------------------------------------------------------------
(***************************************************************************)
(* A blob is never without its glue for long.                              *)
(***************************************************************************)

\* A call that is about to store holds what it stores.
HandsFull == \A r \in Request : pc[r] \in {"storeWasm", "storeGlue"} => got[r] # Nothing

Paired == HandsFull /\ GluelessOnlyInPassing

\* The first fault excuses everything from then on.
LEMMA FaultPairs ==
    ASSUME TypeOK, Fault PROVE GluelessOnlyInPassing'
<1>1. faults \in Nat /\ faults' = faults + 1
  BY BoundAssumption DEF TypeOK, Fault
<1>2. faults' > 0
  BY <1>1
<1>3. QED
  BY <1>2 DEF GluelessOnlyInPassing

\* A step that touches neither cache nor count, and takes nobody from storeGlue.
LEMMA QuietPairs ==
    ASSUME GluelessOnlyInPassing, UNCHANGED <<blob, glue, faults>>,
           \A r \in Request : pc[r] = "storeGlue" => pc'[r] = "storeGlue" /\ ask'[r] = ask[r]
    PROVE  GluelessOnlyInPassing'
BY DEF GluelessOnlyInPassing

LEMMA NextHandsFull ==
    ASSUME TypeOK, HandsFull, [Next]_vars PROVE HandsFull'
<1> USE DEF HandsFull, TypeOK
<1>1. ASSUME NEW r \in Request, NEW a \in Asks, Compile(r, a) \/ Check(r, a) PROVE HandsFull'
  BY <1>1 DEF Compile, Check
<1>2. ASSUME NEW r \in Request, Proceeds(r) PROVE HandsFull'
  <2>1. CASE Collect(r)
    BY <2>1 DEF Collect, Goto
  <2>2. CASE StoreWasm(r)
    BY <2>2 DEF StoreWasm, Goto
  <2>3. CASE Scaffold(r) \/ Enter(r) \/ Lookup(r) \/ Charge(r) \/ TakeSlot(r)
    BY <2>3 DEF Scaffold, Enter, Lookup, Charge, TakeSlot, Goto
  <2>4. CASE \E a : Finish(r, a)
    BY <2>4 DEF Finish
  <2>5. CASE Cargo(r)
    <3>1. CASE workspace[ask[r].cell] \in Compiles
      BY <2>5, <3>1 DEF Cargo, Goto
    <3>2. CASE workspace[ask[r].cell] \notin Compiles
      BY <2>4, <2>5, <3>2 DEF Cargo
    <3>3. QED
      BY <3>1, <3>2
  <2>6. QED
    BY <1>2, <2>1, <2>2, <2>3, <2>4, <2>5
       DEF Proceeds, Hit, RateLimited, AtCapacity, BuildError, CheckEnds, StoreGlue
<1>3. ASSUME NEW r \in Request, StoreFails(r) \/ Dropped(r) PROVE HandsFull'
  BY <1>3 DEF StoreFails, Dropped, Finish
<1>4. CASE Refill \/ Wipe \/ (\E w \in strays : StrayLands(w)) \/ UNCHANGED vars
  BY <1>4 DEF Refill, Wipe, StrayLands, vars
<1>5. CASE Restart
  BY <1>5 DEF Restart
<1>6. QED
  BY <1>1, <1>2, <1>3, <1>4, <1>5 DEF Next, Arrives

LEMMA NextPaired ==
    ASSUME TypeOK, Asked, Paired, [Next]_vars PROVE Paired'
<1> SUFFICES GluelessOnlyInPassing'
  BY NextHandsFull DEF Paired
<1>g. GluelessOnlyInPassing
  BY DEF Paired
<1>1. ASSUME NEW r \in Request, NEW a \in Asks, Compile(r, a) \/ Check(r, a)
      PROVE  GluelessOnlyInPassing'
  <2>1. UNCHANGED <<blob, glue, faults>>
    BY <1>1 DEF Compile, Check, Keep, disk
  <2>2. \A q \in Request : pc[q] = "storeGlue" => pc'[q] = "storeGlue" /\ ask'[q] = ask[q]
    BY <1>1 DEF Compile, Check, TypeOK
  <2>3. QED
    BY <1>g, <2>1, <2>2, QuietPairs
<1>2. ASSUME NEW r \in Request, Proceeds(r), ~ StoreWasm(r), ~ StoreGlue(r)
      PROVE  GluelessOnlyInPassing'
  <2>1. UNCHANGED <<ask, blob, glue, faults>>
    BY <1>2 DEF Proceeds, Enter, Lookup, Hit, Charge, RateLimited, TakeSlot, AtCapacity,
                Scaffold, Cargo, Collect, BuildError, CheckEnds, Goto, Keep, disk
  <2>2. pc[r] # "storeGlue" /\ \A q \in Request : q # r => pc'[q] = pc[q]
    BY <1>2 DEF Proceeds, Enter, Lookup, Hit, Charge, RateLimited, TakeSlot, AtCapacity,
                Scaffold, Cargo, Collect, BuildError, CheckEnds, Goto, Finish, TypeOK
  <2>3. QED
    BY <1>g, <2>1, <2>2, QuietPairs
<1>3. ASSUME NEW r \in Request, StoreWasm(r) PROVE GluelessOnlyInPassing'
  <2>1. /\ blob' = [blob EXCEPT ![Here(r)] = got[r]] /\ UNCHANGED <<ask, glue, faults>>
        /\ pc' = [pc EXCEPT ![r] = "storeGlue"] /\ pc[r] = "storeWasm"
    BY <1>3 DEF StoreWasm, Goto
  <2>2. pc'[r] = "storeGlue" /\ Here(r)' = Here(r)
    BY <2>1 DEF TypeOK
  <2>3. ASSUME NEW s \in Source, blob'[s] # Nothing, glue'[s] = Nothing, ~ (faults' > 0)
        PROVE  \E q \in Request : pc'[q] = "storeGlue" /\ Here(q)' = s
    <3>1. CASE s = Here(r)
      BY <2>2, <3>1
    <3>2. CASE s # Here(r)
      <4>1. blob[s] # Nothing /\ glue[s] = Nothing /\ ~ (faults > 0)
        BY <2>1, <2>3, <3>2 DEF TypeOK
      <4>2. PICK q \in Request : pc[q] = "storeGlue" /\ Here(q) = s
        BY <1>g, <4>1 DEF GluelessOnlyInPassing
      <4>3. pc'[q] = "storeGlue" /\ Here(q)' = s
        BY <2>1, <4>2 DEF TypeOK
      <4>4. QED
        BY <4>3
    <3>3. QED
      BY <3>1, <3>2
  <2>4. QED
    BY <2>3 DEF GluelessOnlyInPassing
<1>4. ASSUME NEW r \in Request, StoreGlue(r) PROVE GluelessOnlyInPassing'
  <2>1. /\ glue' = [glue EXCEPT ![Here(r)] = got[r]] /\ UNCHANGED <<ask, blob, faults>>
        /\ \A q \in Request : q # r => pc'[q] = pc[q]
        /\ pc[r] = "storeGlue"
    BY <1>4 DEF StoreGlue, Finish, TypeOK
  <2>2. got[r] # Nothing /\ Here(r) \in Source
    BY <2>1, AskTyped DEF Paired, HandsFull, Asked
  <2>3. ASSUME NEW s \in Source, blob'[s] # Nothing, glue'[s] = Nothing, ~ (faults' > 0)
        PROVE  \E q \in Request : pc'[q] = "storeGlue" /\ Here(q)' = s
    <3>1. s # Here(r) /\ glue[s] = Nothing
      BY <2>1, <2>2, <2>3 DEF TypeOK
    <3>2. PICK q \in Request : pc[q] = "storeGlue" /\ Here(q) = s
      BY <1>g, <2>1, <2>3, <3>1 DEF GluelessOnlyInPassing
    <3>3. pc'[q] = "storeGlue" /\ Here(q)' = s
      BY <2>1, <3>1, <3>2
    <3>4. QED
      BY <3>3
  <2>4. QED
    BY <2>3 DEF GluelessOnlyInPassing
<1>5. ASSUME NEW r \in Request, StoreFails(r) \/ Dropped(r) PROVE GluelessOnlyInPassing'
  BY <1>5, FaultPairs DEF StoreFails, Dropped
<1>6. CASE Restart \/ Wipe
  BY <1>6, FaultPairs DEF Restart, Wipe
<1>7. CASE Refill \/ (\E w \in strays : StrayLands(w)) \/ UNCHANGED vars
  BY <1>g, <1>7, QuietPairs DEF Refill, StrayLands, vars, disk
<1>8. QED
  BY <1>1, <1>2, <1>3, <1>4, <1>5, <1>6, <1>7 DEF Next, Arrives

\* Until the first fault a cached blob lacks its glue only while the call that
\* stored it is about to store the glue too.
THEOREM BlobsHaveGlue == Spec => []GluelessOnlyInPassing
<1>1. Init => Paired
  BY DEF Init, Paired, HandsFull, GluelessOnlyInPassing
<1>2. Paired => GluelessOnlyInPassing
  BY DEF Paired
<1>3. QED
  BY InitType, NextType, NextAsked, InitLock, NextPaired, <1>1, <1>2, PTL DEF Spec
=============================================================================
