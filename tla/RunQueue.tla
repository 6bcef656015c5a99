------------------------------ MODULE RunQueue ------------------------------
(***************************************************************************)
(* How an editor page runs cells: the run queue with its watchers, the     *)
(* compile and execute pipeline, cancellation, the blame of failed cells   *)
(* and the reactive timer.                                                 *)
(* crates/ironpad-app/src/pages/notebook_editor/{state,pipeline,cell_item} *)
(* and components/{run_flow,executor,output_render}.rs.                    *)
(*                                                                         *)
(* The page is single threaded.  Signals notify effects (due, trigger),    *)
(* which run before the next event does; a compile or an execution is a    *)
(* task the page awaits while other events are handled.                    *)
(*                                                                         *)
(* An edit here reaches the notebook at once; what lies between a          *)
(* keystroke and the notebook is the matter of module Notebook.            *)
(***************************************************************************)
EXTENDS CellDeps, Lists, FiniteSets

CONSTANTS
    Text,          \* what the scanner reports of the texts a cell may have
    InitialText,   \* the texts of the cells when the page opens, in order
    Cell,          \* cell ids
    InitialOrder,  \* the cells of the notebook, in order
    Task,          \* bound: compile and execution tasks at a time
    MaxCommands    \* bound: commands of the user and the agents

ASSUME TextAssumption  == Text \subseteq SlotRefs
ASSUME OrderAssumption == /\ InitialOrder \in Seq(Cell) /\ IsInjective(InitialOrder)
                          /\ InitialText \in Seq(Text)
                          /\ Len(InitialText) = Len(InitialOrder)
ASSUME BoundAssumption == MaxCommands \in Nat

VARIABLES
    order,     \* cells: the manifest list
    shared,    \* the cells that are compiled into every other one
    src,       \* the text of each cell
    stale,     \* cell_stale
    outputs,   \* cell_outputs: the text a cell's output was computed from
    queue,     \* run_all_queue
    blame,     \* cell_blocked_by
    status,    \* cell_status of each mounted cell
    task,      \* what each task is doing
    reactive,  \* reactive_mode
    timer,     \* reactive_timer is set
    editing,   \* ~is_view_mode: the cells are mounted
    shown,     \* in View mode: the texts when it was entered
    due,       \* the signals whose watchers are still to run
    trigger,   \* the cells whose run effect is still to run
    commands,  \* commands given so far
    \* history, read by no guard
    asked,     \* cells an agent asked to run and has not heard of since
    halted     \* cells whose compile the user cancelled, not dispatched since

document == <<order, shared, src>>
results  == <<stale, outputs>>
page     == <<reactive, timer, editing, shown>>
history  == <<asked, halted>>
vars     == <<document, results, queue, blame, status, task, page, due, trigger,
              commands, history>>

NoTask == [phase |-> "free"]
Busy   == {"Compiling", "Running"}

Existing      == ToSet(order)
Runnable      == Existing \ shared
Position(c)   == CHOOSE i \in DOMAIN order : order[i] = c
FromOn(i)     == Only(SubSeq(order, i, Len(order)), Runnable)
CellsFrom(i)  == ToSet(SubSeq(order, i, Len(order)))
Queued(c)     == c \in ToSet(queue)
AtFront(c)      == queue # <<>> /\ Head(queue) = c
InOrder(S)    == Only(order, S)

\* The cells c transitively consumes, by the texts of now.
DependsOn(c) ==
    LET dep == DepIndices([i \in DOMAIN order |-> src[order[i]]],
                          {i \in DOMAIN order : order[i] \in Runnable})
    IN  {order[j] : j \in dep[Position(c)]}

\* No effect and no rejected promise is waiting: the next event is handled.
Quiet == due = {} /\ trigger = {} /\ \A k \in Task : task[k].phase # "aborted"

\* The watchers of these signals are to run; View mode has unmounted them.
Notified(signals) == IF editing THEN due \cup signals ELSE due

Room == \E k \in Task : task[k] = NoTask

Command ==
    /\ Quiet
    /\ commands < MaxCommands
    /\ commands' = commands + 1

Init ==
    /\ order = InitialOrder
    /\ shared = {}
    /\ src = [c \in ToSet(InitialOrder) |-> InitialText[CHOOSE i \in DOMAIN InitialOrder :
                                                            InitialOrder[i] = c]]
    /\ stale = {} /\ outputs = <<>>
    /\ queue = <<>> /\ blame = <<>>
    /\ status = [c \in ToSet(InitialOrder) |-> "Idle"]
    /\ task = [k \in Task |-> NoTask]
    /\ reactive \in BOOLEAN /\ timer = FALSE /\ editing = TRUE /\ shown = <<>>
    /\ due = {} /\ trigger = {}
    /\ commands = 0
    /\ asked = {} /\ halted = {}

-----------------------------------------------------------------------------
(***************************************************************************)
(* The effects.                                                            *)
(***************************************************************************)

\* The queue watchers of all the cells.  A shared cell at the front gives its
\* place up at once; any other front cell that is not at work is triggered.
QueueWatchers ==
    /\ "queue" \in due /\ editing
    /\ IF queue # <<>> /\ Head(queue) \in shared
       THEN /\ queue' = Tail(queue)
            /\ UNCHANGED <<status, due, trigger>>
       ELSE /\ status' = [c \in DOMAIN status |->
                            IF Queued(c) /\ ~AtFront(c)
                            THEN IF status[c] \in Busy THEN status[c] ELSE "Queued"
                            ELSE IF ~Queued(c) /\ status[c] = "Queued" THEN "Idle" ELSE status[c]]
            /\ trigger' = trigger \cup {c \in Existing : AtFront(c) /\ status[c] \notin Busy}
            /\ due' = due \ {"queue"}
            /\ UNCHANGED queue
    /\ UNCHANGED <<document, results, blame, task, page, commands, history>>

\* The blocked-by watchers of all the cells.
BlameWatchers ==
    /\ "blame" \in due /\ editing
    /\ status' = [c \in DOMAIN status |->
                    IF c \in DOMAIN blame THEN "Blocked"
                    ELSE IF status[c] = "Blocked" THEN "Idle" ELSE status[c]]
    /\ due' = due \ {"blame"}
    /\ UNCHANGED <<document, results, queue, blame, task, page, trigger, commands, history>>

\* merged_run_queue: the front keeps its place unless it is the target.
MergedRunQueue(c, unexecuted) ==
    LET wanted == ToSet(queue) \cup unexecuted \cup {c}
        pinned == {f \in Existing \ {c} : AtFront(f)}
    IN  (IF pinned = {} THEN <<>> ELSE <<Head(queue)>>) \o InOrder(wanted \ pinned)

\* The run effect: refuse, join the queue behind what is missing, or start.
RunEffect(c) ==
    /\ c \in trigger
    /\ trigger' = trigger \ {c}
    /\ LET unexecuted == DependsOn(c) \ DOMAIN outputs
       IN  \/ /\ c \in shared \/ status[c] \in Busy
              /\ UNCHANGED <<outputs, queue, blame, status, task, due, halted>>
           \/ /\ c \notin shared /\ status[c] \notin Busy
              /\ unexecuted # {} \/ (queue # <<>> /\ ~AtFront(c))
              /\ queue' = MergedRunQueue(c, unexecuted)
              /\ due' = Notified({"queue"})
              /\ UNCHANGED <<outputs, blame, status, task, halted>>
           \/ /\ c \notin shared /\ status[c] \notin Busy
              /\ unexecuted = {} /\ (queue = <<>> \/ AtFront(c))
              /\ \E k \in Task :
                    /\ task[k] = NoTask
                    /\ task' = [task EXCEPT ![k] = [phase |-> "compile", cell |-> c,
                                                    text |-> src[c]]]
              /\ status' = [status EXCEPT ![c] = "Compiling"]
              /\ blame' = Restrict(blame, DOMAIN blame \ {c})
              /\ due' = IF c \in DOMAIN blame THEN Notified({"blame"}) ELSE due
              /\ outputs' = Restrict(outputs, DOMAIN outputs \ CellsFrom(Position(c)))
              /\ halted' = halted \ {c}
              /\ UNCHANGED queue
    /\ UNCHANGED <<document, stale, page, commands, asked>>

-----------------------------------------------------------------------------
(***************************************************************************)
(* The tasks.                                                              *)
(***************************************************************************)

\* Mutation: the finished cell keeps the front.
NotAdvanced(c) == queue

\* advance_queue: only the cell at the front gives its place up.
Advanced(c) == IF AtFront(c) THEN Tail(queue) ELSE queue

\* The stale map was written: in reactive mode the timer is set anew.
TimerAfter(st) == timer \/ (reactive /\ st # {})

\* fail_and_report: the failed cell leaves the queue, and so do those that
\* consume it; they are blamed on it and reported, the others stay.
Dependents(c) == {q \in ToSet(queue) \cap Existing : q # c /\ c \in DependsOn(q)}

\* Mutation: the blocked dependents are not reported.
FailUnreported(c) ==
    /\ queue' = Without(queue, Dependents(c) \cup {c})
    /\ blame' = [d \in DOMAIN blame \cup Dependents(c) |->
                    IF d \in Dependents(c) THEN c ELSE blame[d]]
    /\ due' = Notified({"queue", "blame"})
    /\ asked' = asked \ {c}

FailAndReport(c) ==
    /\ queue' = Without(queue, Dependents(c) \cup {c})
    /\ blame' = [d \in DOMAIN blame \cup Dependents(c) |->
                    IF d \in Dependents(c) THEN c ELSE blame[d]]
    /\ due' = Notified({"queue", "blame"})
    /\ asked' = asked \ (Dependents(c) \cup {c})

\* The compile answer: dropped unless the cell is compiling; then the blob is
\* stored, or executed at once if it came from the store; or the cell failed.
Compiled(k) ==
    LET c == task[k].cell IN
    /\ Quiet
    /\ task[k].phase = "compile"
    /\ \/ /\ status[c] # "Compiling"
          /\ task' = [task EXCEPT ![k] = NoTask]
          /\ UNCHANGED <<status, queue, blame, due, asked>>
       \/ /\ status[c] = "Compiling"
          /\ status' = [status EXCEPT ![c] = "Running"]
          /\ \E next \in {"store", "execute"} : task' = [task EXCEPT ![k].phase = next]
          /\ UNCHANGED <<queue, blame, due, asked>>
       \/ /\ status[c] = "Compiling"
          /\ status' = [status EXCEPT ![c] = "Error"]
          /\ task' = [task EXCEPT ![k] = NoTask]
          /\ FailAndReport(c)
    /\ UNCHANGED <<document, results, page, trigger, commands, halted>>

Stored(k) ==
    /\ Quiet
    /\ task[k].phase = "store"
    /\ task' = [task EXCEPT ![k].phase = "execute"]
    /\ UNCHANGED <<document, results, queue, blame, status, page, due, trigger,
                   commands, history>>

\* clear_blame_held_by.
BlameLifted(c) == Restrict(blame, {d \in DOMAIN blame : blame[d] # c})

\* The execution returned a result: whatever the status is by then.
Executed(k) ==
    LET c == task[k].cell IN
    /\ Quiet
    /\ task[k].phase = "execute"
    /\ task' = [task EXCEPT ![k] = NoTask]
    /\ outputs' = [d \in DOMAIN outputs \cup {c} |-> IF d = c THEN task[k].text ELSE outputs[d]]
    /\ status' = [status EXCEPT ![c] = "Success"]
    /\ stale' = stale \ {c}
    /\ timer' = TimerAfter(stale')
    /\ blame' = BlameLifted(c)
    /\ queue' = Advanced(c)
    /\ due' = Notified({"queue"} \cup IF blame' = blame THEN {} ELSE {"blame"})
    /\ asked' = asked \ {c}
    /\ UNCHANGED <<document, reactive, editing, shown, trigger, commands, halted>>

ExecutionFailed(k) ==
    LET c == task[k].cell IN
    /\ Quiet
    /\ task[k].phase = "execute"
    /\ task' = [task EXCEPT ![k] = NoTask]
    /\ status' = [status EXCEPT ![c] = "Error"]
    /\ FailAndReport(c)
    /\ UNCHANGED <<document, results, page, trigger, commands, halted>>

\* Mutation: a cancelled run leaves the cell as it was.
StillRunning(c) == status

Idled(c) == [status EXCEPT ![c] = "Idle"]

\* AbortError: the user cancelled, and the whole queue goes, reported.
Aborted(k) ==
    LET c == task[k].cell IN
    /\ due = {} /\ trigger = {}
    /\ task[k].phase = "aborted"
    /\ task' = [task EXCEPT ![k] = NoTask]
    /\ status' = Idled(c)
    /\ queue' = <<>>
    /\ due' = Notified({"queue"})
    /\ asked' = asked \ (ToSet(queue) \cup {c})
    /\ UNCHANGED <<document, results, blame, page, trigger, commands, halted>>

-----------------------------------------------------------------------------
(***************************************************************************)
(* The user and the agents.                                                *)
(***************************************************************************)

\* The run button of a cell that is not at work, and Ctrl+Enter of any cell.
Run(c) ==
    /\ Command /\ Room /\ editing /\ c \in Existing
    /\ trigger' = {c}
    /\ UNCHANGED <<document, results, queue, blame, status, task, page, due, history>>

\* The button of a compiling cell: the answer is not waited for any longer.
CancelCompile(c) ==
    /\ Command /\ editing /\ c \in Existing /\ status[c] = "Compiling"
    /\ status' = [status EXCEPT ![c] = "Idle"]
    /\ halted' = halted \cup {c}
    /\ UNCHANGED <<document, results, queue, blame, task, page, due, trigger, asked>>

\* The button of a running cell terminates the worker, with every execution in it.
CancelRun(c) ==
    /\ Command /\ editing /\ c \in Existing /\ status[c] = "Running"
    /\ task' = [k \in Task |-> IF task[k].phase = "execute"
                               THEN [task[k] EXCEPT !.phase = "aborted"] ELSE task[k]]
    /\ UNCHANGED <<document, results, queue, blame, status, page, due, trigger, history>>

\* Run All is RunAllBelow of the first cell: the queue is replaced.
Enqueue(ids) ==
    /\ ids # <<>>
    /\ queue' = ids
    /\ due' = Notified({"queue"})

RunAllBelow(c) ==
    /\ Command /\ Room /\ editing /\ c \in Existing
    /\ Enqueue(FromOn(Position(c)))
    /\ UNCHANGED <<document, results, blame, status, task, page, trigger, history>>

\* The button widget in a cell's output runs what is below the cell.
PressButton(c) ==
    /\ Command /\ Room /\ editing /\ c \in Existing \cap DOMAIN outputs
    /\ Enqueue(FromOn(Position(c) + 1))
    /\ UNCHANGED <<document, results, blame, status, task, page, trigger, history>>

\* A slider in a cell's output: what is below the cell is outdated.
MoveSlider(c) ==
    /\ Command /\ editing /\ c \in Existing \cap DOMAIN outputs
    /\ stale' = stale \cup ToSet(FromOn(Position(c) + 1))
    /\ timer' = TimerAfter(stale')
    /\ UNCHANGED <<document, outputs, queue, blame, status, task, reactive, editing, shown,
                   due, trigger, history>>

\* request_cell_run, refused in View mode and for cells that do not run.
AgentRun(c) ==
    /\ Command /\ Room /\ editing /\ c \in Runnable
    /\ queue' = IF Queued(c) THEN queue ELSE Append(queue, c)
    /\ due' = Notified({"queue"})
    /\ asked' = asked \cup {c}
    /\ UNCHANGED <<document, results, blame, status, task, page, trigger, halted>>

\* Mutation: the cells below are marked, the edited one is not.
MarkedBelowOnly(c) == ToSet(FromOn(Position(c) + 1))

\* What may read a text: mark_downstream_stale, mark_all_code_cells_stale.
MarkedBy(c) == ToSet(FromOn(IF c \in shared THEN 1 ELSE Position(c)))

\* cell_update with a text: what may read it is stale.
Edit(c, t) ==
    /\ Command /\ c \in Existing /\ t # src[c]
    /\ src' = [src EXCEPT ![c] = t]
    /\ stale' = stale \cup MarkedBy(c)
    /\ timer' = TimerAfter(stale')
    /\ UNCHANGED <<order, shared, outputs, queue, blame, status, task, reactive, editing,
                   shown, due, trigger, history>>

\* cell_update of the shared flag: every cell is compiled with other sources.
ToggleShared(c) ==
    /\ Command /\ c \in Existing
    /\ shared' = IF c \in shared THEN shared \ {c} ELSE shared \cup {c}
    /\ stale' = stale \cup ToSet(FromOn(1))
    /\ timer' = TimerAfter(stale')
    /\ UNCHANGED <<order, src, outputs, queue, blame, status, task, reactive, editing,
                   shown, due, trigger, history>>

\* cell_reorder, by one place.  Unlike cell_update it notifies the notebook signal,
\* which re-sets reactive_mode, and with the mode off that clears the blame.
MoveUp(c) ==
    /\ Command /\ c \in Existing /\ Position(c) > 1
    /\ LET i == Position(c)
       IN  order' = [order EXCEPT ![i - 1] = order[i], ![i] = order[i - 1]]
    /\ blame' = IF reactive THEN blame ELSE <<>>
    /\ due' = Notified({"blame"})
    /\ UNCHANGED <<shared, src, results, queue, status, task, page, trigger, history>>

\* Mutation: a deleted cell is left at the front of the queue.
OnlyWaitingScrubbed(c) == IF AtFront(c) THEN queue ELSE Without(queue, {c})

QueueScrubbed(c) == Without(queue, {c})

\* The cell's component is disposed of, and its signals with it.
StatusDisposed(c) == Restrict(status, DOMAIN status \ {c})

\* cell_delete and scrub_deleted_cell; the cell's signals and with them whatever
\* its tasks would still have done are gone.
Delete(c) ==
    /\ Command /\ Room /\ c \in Existing
    /\ order' = Without(order, {c})
    /\ src' = Restrict(src, Existing \ {c})
    /\ shared' = shared \ {c}
    /\ stale' = stale \ {c}
    /\ outputs' = Restrict(outputs, DOMAIN outputs \ {c})
    /\ timer' = TimerAfter(stale')
    /\ queue' = QueueScrubbed(c)
    /\ blame' = IF reactive
                THEN Restrict(blame, {d \in DOMAIN blame : d # c /\ blame[d] # c}) ELSE <<>>
    /\ due' = Notified({"queue", "blame"})
    /\ status' = StatusDisposed(c)
    /\ task' = [k \in Task |-> IF task[k].phase \notin {"free", "view"} /\ task[k].cell = c
                               THEN NoTask ELSE task[k]]
    /\ asked' = asked \ {c} /\ halted' = halted \ {c}
    /\ UNCHANGED <<reactive, editing, shown, trigger>>

ToggleReactive ==
    /\ Command /\ editing
    /\ reactive' = ~reactive
    /\ blame' = IF reactive' THEN blame ELSE <<>>
    /\ due' = Notified({"blame"})
    /\ UNCHANGED <<document, results, queue, status, task, timer, editing, shown, trigger,
                   history>>

WatchedFirst == {"queue", "blame"}

\* View mode unmounts the cells and shows the texts of this moment; Edit mode
\* mounts the cells anew, and their watchers run for the first time.
ToggleView ==
    /\ Command
    /\ editing' = ~editing
    /\ shown' = IF editing' THEN <<>> ELSE src
    /\ status' = [c \in IF editing' THEN Existing ELSE {} |-> "Idle"]
    /\ task' = [k \in Task |-> IF task[k].phase = "view" THEN task[k] ELSE NoTask]
    /\ due' = IF editing' THEN WatchedFirst ELSE {}
    /\ halted' = {}
    /\ UNCHANGED <<document, results, queue, blame, reactive, timer, trigger, asked>>

\* The viewer of View mode runs the cells it shows, one at a time, on a queue of its
\* own; it writes its results into the page's outputs, also after it was left.
ViewerStarts(c) ==
    /\ Quiet /\ ~editing /\ c \in DOMAIN shown
    /\ \A k \in Task : task[k].phase # "view"
    /\ \E k \in Task : /\ task[k] = NoTask
                       /\ task' = [task EXCEPT ![k] = [phase |-> "view", cell |-> c,
                                                       text |-> shown[c]]]
    /\ UNCHANGED <<document, results, queue, blame, status, page, due, trigger, commands,
                   history>>

ViewerEnds(k) ==
    /\ Quiet /\ task[k].phase = "view"
    /\ task' = [task EXCEPT ![k] = NoTask]
    /\ \/ outputs' = [d \in DOMAIN outputs \cup {task[k].cell} |->
                         IF d = task[k].cell THEN task[k].text ELSE outputs[d]]
       \/ UNCHANGED outputs
    /\ UNCHANGED <<document, stale, queue, blame, status, page, due, trigger, commands,
                   history>>

\* The reactive timer: the stale cells are queued, unless a run is in progress.
TimerFires ==
    /\ Quiet /\ Room /\ timer
    /\ timer' = FALSE
    /\ LET ids == InOrder(Runnable \cap stale)
       IN  IF queue = <<>> /\ ids # <<>>
           THEN Enqueue(ids)
           ELSE UNCHANGED <<queue, due>>
    /\ UNCHANGED <<document, results, blame, status, task, reactive, editing, shown, trigger,
                   commands, history>>

\* What a task the page awaits, or one of View mode, comes back with.
Answered(k) ==
    \/ Compiled(k) \/ Stored(k) \/ Executed(k) \/ ExecutionFailed(k)
    \/ Aborted(k) \/ ViewerEnds(k)

Answer == \E k \in Task : Answered(k)

CellCommand(c) ==
    \/ Run(c) \/ CancelCompile(c) \/ CancelRun(c)
    \/ RunAllBelow(c) \/ PressButton(c) \/ MoveSlider(c) \/ AgentRun(c)
    \/ \E t \in Text : Edit(c, t)
    \/ ToggleShared(c) \/ MoveUp(c) \/ Delete(c)

Effects == QueueWatchers \/ BlameWatchers \/ \E c \in Cell : RunEffect(c)

Next ==
    \/ Effects
    \/ Answer
    \/ \E c \in Cell : CellCommand(c) \/ ViewerStarts(c)
    \/ ToggleReactive \/ ToggleView
    \/ TimerFires

\* Effects run; the compile service and the worker answer each task.
Fairness == WF_vars(Effects) /\ \A k \in Task : WF_vars(Answered(k))

Spec     == Init /\ [][Next]_vars
FairSpec == Spec /\ Fairness

-----------------------------------------------------------------------------
Status == {"Idle", "Queued", "Compiling", "Running", "Success", "Error", "Blocked"}

TypeOK ==
    /\ order \in Seq(Cell) /\ shared \subseteq Existing
    /\ src \in [Existing -> Text]
    /\ stale \subseteq Existing
    /\ outputs \in [DOMAIN outputs -> Text]
    /\ status \in [IF editing THEN Existing ELSE {} -> Status]
    /\ \A k \in Task : \/ task[k] = NoTask
                       \/ /\ task[k].phase \in {"compile", "store", "execute", "aborted", "view"}
                          /\ task[k].cell \in Existing \/ task[k].phase = "view"
                          /\ task[k].text \in Text
    /\ reactive \in BOOLEAN /\ timer \in BOOLEAN /\ editing \in BOOLEAN
    /\ shown \in [DOMAIN shown -> Text]
    /\ due \subseteq {"queue", "blame"} /\ trigger \subseteq Existing
    /\ commands \in 0 .. MaxCommands
    /\ asked \subseteq Existing /\ halted \subseteq Existing

At(c, phases) == \E k \in Task : task[k].phase \in phases /\ task[k].cell = c

\* The queue and the blame never name a cell that was deleted, which no watcher
\* could advance or clear, though a compile of it may have been out; and no cell
\* is queued twice, though agents, buttons and the cascade all write the queue.
NothingOfDeletedCells ==
    /\ IsInjective(queue)
    /\ ToSet(queue) \cup DOMAIN blame \cup Range(blame) \subseteq Existing

\* A cell that shows a compile or a run has one: no interleaving of cancel,
\* answer, failure and remount leaves a spinner that nothing will end.
BusyCellHasTask ==
    \A c \in DOMAIN status :
        /\ status[c] = "Compiling" => At(c, {"compile"})
        /\ status[c] = "Running"   => At(c, {"store", "execute", "aborted"})

\* The front of the queue is being executed whenever the page waits for an event,
\* unless the user cancelled its compile.
FrontIsAtWork ==
    Quiet /\ editing /\ queue # <<>>
        => status[Head(queue)] \in Busy \/ Head(queue) \in halted

\* Both: nothing waits for what will not come.
NothingHangs == BusyCellHasTask /\ FrontIsAtWork

\* No cell is blocked by one that has succeeded since.
BlamedOnFailure ==
    \A d \in DOMAIN blame : blame[d] \in DOMAIN status => status[blame[d]] # "Success"

\* The queue and what it leaves behind stay in order: types, no cell that was
\* deleted, no blame on a cell that has succeeded.
QueueSound == TypeOK /\ NothingOfDeletedCells /\ BlamedOnFailure

\* An agent's queued request never leaves the queue silently because of what a
\* cell's run or a watcher does; a cell made shared, or a user who starts
\* another Run All, is the exception.
NoSilentDrop ==
    [][\A c \in asked \cap asked' :
          Queued(c) /\ ~Queued(c)' => c \in shared \/ commands' # commands]_vars

Outdated(c) == c \in DOMAIN outputs \cap (Runnable \ stale) /\ outputs[c] # src[c]

\* An output differs from its cell's text without a stale mark only when a run, the
\* editor's or the viewer's, that began before the edit has ended after it, or the
\* cell was shared when it was edited.
EditsLeaveMark ==
    [][\A c \in Existing :
          Outdated(c)' /\ ~Outdated(c) =>
              \/ \E k \in Task : /\ task[k].phase \in {"execute", "view"}
                                 /\ task[k].cell = c /\ task[k].text # src[c]
              \/ c \in shared]_vars

\* Whatever is queued leaves the queue, unless View mode has unmounted the runners
\* or the user cancelled the compile of the cell in front.
QueueDrains ==
    \A c \in Cell : Queued(c) ~> ~Queued(c) \/ ~editing \/ Head(queue) \in halted

\* As state.rs states it: cell_stale "tracks which cells have stale (outdated)
\* execution results".
OutdatedIsStale == \A c \in Existing : ~Outdated(c)

\* As state.rs states it: "the cell at position [0] is the one currently being
\* executed".
FrontIsExecuted ==
    Quiet /\ editing /\ queue # <<>> => status[Head(queue)] \in Busy
=============================================================================
