# ironpad in TLA+

ironpad is a Rust notebook that runs in the browser: cells are compiled on a
server to WebAssembly and executed in the page, and command-line agents can
attach to an open notebook through a WebSocket relay.  This directory holds
TLA+ models of the parts of it whose correctness depends on the order of
events, the TLC configurations that check them, and machine-checked proofs.

Paths below are relative to the repository root.

## 1. Inventory

| component | state | operations | interacts with |
|---|---|---|---|
| **Relay: host registry and agent sessions** (`crates/ironpad-server/src/{state,sessions,ws}.rs`) | `hosts`, `notebook_secrets`, `sessions` maps, each behind its own `RwLock`; two tasks per host connection | claim, register, unregister a host; create, validate, expire, sweep, end a session; forget an idle binding | host browsers (WebSocket), guests, the sweeper task of `main.rs` |
| **Relay: guests and routing** (same files) | `guests` and `pending_queries` maps, a bounded channel per connection, two tasks per guest | register and unregister a guest, check a permission, track and resolve a request, broadcast an Event, answer one guest, end a session's guests | the registry, CLI daemons |
| **Notebook document and editor panes** (`ironpad-app/src/model.rs`, `pages/notebook_editor/{cell_item,mod}.rs`, `ironpad-common/src/{protocol,notebook_ops}.rs`) | the notebook, a version per cell, a derived list of manifests, stale flags; per pane its text, a dirty flag and a debounce timer | `apply` a mutation (add, update, delete, reorder, metadata); type, save, flush, refresh a pane | agents through the session, run queue, draft save |
| **Event mirror and agent requests** (`ironpad-app/src/session/connection.rs`, `ironpad-cli/src/{daemon,ipc,main}.rs`) | an event buffer of 64 and a generation; in the daemon a cached copy and the requests in flight | drain events, replay an event onto the cache, forward a request with a timeout, wait for a run | relay, notebook document |
| **Run queue and pipeline** (`ironpad-app/src/pages/notebook_editor/{state,pipeline,cell_item}.rs`, `components/{run_flow,executor}.rs`, `ironpad-common/src/cell_deps.rs`) | the queue of cells to run, a status per cell, stale flags, who is blocked by whom, a pending auto-run timer | request a run, run all, compile, execute, advance, cascade, cancel, delete a queued cell, move a widget | compile service, notebook document |
| **Draft save and publish** (`notebook_editor/{state,sharing,history}.rs`, `ironpad-app/src/{server_fns,db}.rs`) | debounce epoch, saves in flight, the draft and the published copies in SurrealDB with their sizes and the manifest of blobs | save a draft, retry, save durably before a push, push, discard, unpublish, delete | database, quota |
| **Compile service** (`ironpad-app/src/compiler/{mod,admission,cache,build}.rs`, `server_fns.rs`, `ironpad-server/src/cache_valve.rs`) | compile locks per cell id, token buckets and a semaphore, a workspace and a cargo output per cell, the on-disk cache | compile, check, look up, store, prune a lock, wipe a tier | cargo, wasm-bindgen, file system |
| **Cell scaffolding and diagnostics** (`ironpad-app/src/compiler/{scaffold,diagnostics}.rs`, `ironpad-common/src/{types,cache_key,cell_deps}.rs`) | none: pure functions | generate the file and the manifest around a cell, assemble shared cells, map a compiler message back to a line of the editor, compute the cache key | compile service; the browser computes the key as well |
| **Accounts and login sessions** (`ironpad-server/src/auth.rs`, `ironpad-app/src/{auth,db,server_fns}.rs`) | users, session rows and grants in SurrealDB; a cookie per browser | sign in and out, resolve and renew a session, revoke, sweep; create, read, hide, grant, revoke a shared notebook | database, every server function |
| **Optimisation and toolchain** (`compiler/{optimize,toolchain}.rs`) | none | call an external tool | compile service |
| **Fetch proxy, Open Graph, crawl, oEmbed, HTTP policy, telemetry, configuration** | none that outlives a request | answer a request | |
| **Cell runtime, viewer, widgets, pages** (`ironpad-cell`, the rest of `ironpad-app`, `ironpad-frontend`) | per page | render | |

What is hard, and what makes each component correct:

* **Registry.** No operation holds two of the three locks, so every handler is
  a sequence of steps other connections interleave with; `abort()` on a tokio
  task does not stop it while it runs on another worker thread.  It is correct
  when only the holder of a notebook's secret can replace its host, when a late
  cleanup never evicts the successor, when a session token reaches only holders
  of the secret, and when an abandoned notebook becomes claimable again.
* **Guests.** Sessions end three ways (the host leaves, `EndSession`, expiry),
  each racing with guests that connect, send and leave; channels are full; the
  list of sessions a broadcast goes to is read under another lock than the one
  the broadcast takes.  It is correct when an answer reaches the guest that
  asked and nobody else, when a guest without the read permission sees nothing
  but its own acknowledgements, when no acknowledgement is swallowed by a race,
  and when a guest whose session ended is told and disconnected.
* **Notebook document and panes.** The version a mutation is checked against
  lives in one map and the version readers see in another; the manifests are
  rebuilt for some mutations only; an agent's edit meets a pane that is dirty,
  clean, or clean with its save still due.  It is correct when a version names
  one text, when no cell is lost from the order, when the panes show the model
  or will be saved to it, and when an edit outdates the results that depend on
  it.
* **Mirror.** A daemon replays events on a snapshot it fetched while events were
  already coming; the host's socket breaks and its edits wait in a buffer; a
  request times out while its answer is on the way.  It is correct when the
  mirror differs from the notebook only by what is on its way, when an agent
  reads its own writes, when a verdict is what happened, and when no accepted
  edit replaces a text its author had not seen.
* **Run queue.** Results arrive for cells that were edited, deleted or
  cancelled meanwhile; watchers run after the event that notified them; agents,
  buttons and the cascade write one queue.  It is correct when nothing hangs at
  its front, when no cell shows a run that is not under way, when an edit leaves
  a mark whatever ends after it, and when no agent's request is dropped silently.
* **Draft save.** Saves of one page are on the wire together and arrive in any
  order, two pages edit one notebook, acts interleave with saves, connections
  break.  It is correct when no edit is lost on its way, when a push publishes
  what its page showed, and when the row always has a content with its size.
* **Compile service.** Two compiles of one cell share a directory, two cells whose
  ids differ in `-` and `_` share an output of cargo; dropping a call does not
  stop what it left on the blocking pool; a cache entry is two files (blob and
  glue) written one after the other.  It is correct when what is cached and
  answered was built from its own inputs, and when every call is answered.
* **Scaffolding.** Lines are put above a cell and counted elsewhere; the cache key
  must change whenever what is built does.
* **Accounts.** A page's calls share a cookie and a renewal; a call's session, the
  row and the grants are read in statements of their own.  It is correct when an
  active visitor stays signed in, when what has ended stays ended, and when a
  reader is told what was the case.

## 2. Modules

| module | models |
|---|---|
| `HostRegistry` | the registry: `handle_host`, `handle_host_control`, `SessionStore`, and the host half of `WsState` |
| `Relay` | extends `HostRegistry` with guests, channels, requests and the teardown of a session |
| `RelayProofs` | theorems about `HostRegistry` and `Relay`, for any connections, notebooks, secrets, guests, requests and capacities |
| `Lists` | the list operators of the notebook and of the queue, as recursive functions |
| `ListProofs` | induction over the natural numbers, and what those operators return, for any list |
| `NotebookOps` | the document and the structural operations and patches that browser and daemon share |
| `Notebook` | `NotebookModel::apply` under the edits of the browser and of agents, and the editor panes |
| `NotebookProofs` | theorems about `Notebook`, for any cells, texts and agents |
| `Mirror` | extends `NotebookOps` with the host's event bridge, the relay as lossy queues, and the daemons |
| `MirrorProofs` | theorems about `Mirror`, for any agents, permissions, requests, cells and bounds |
| `CellDeps` | which outputs a text reads, and the type tags a cache key keeps |
| `RunQueue` | extends `CellDeps` with the queue, the watchers, the pipeline and the reactive timer of a page |
| `RunQueueProofs` | theorems about `RunQueue`, for any cells, texts, tasks and number of commands |
| `AccountNotebook` | what an account notebook promises owner and readers: the abstract specification |
| `DraftSync` | the pages and the row that implement it |
| `DraftSyncProofs` | theorems about `DraftSync`, for any pages, texts, sizes and bounds |
| `Compile` | the compile service of one server |
| `CompileProofs` | theorems about `Compile`, for any calls, cells and sources |
| `CellScaffold`, `CacheKey` | the pure functions around a cell: generated lines, shared cells, diagnostics, manifest; the hashed bytes |
| `Accounts` | sessions, cookies, and the acts on one shared notebook |
| `AccountsProofs` | theorems about `Accounts`, for any people, tokens, calls and times |
| `MCRelay`, `MCNotebook`, `MCMirror`, `MCRunQueue`, `MCDraftSync`, `MCCompile`, `MCScaffold`, `MCAccounts` | instances for TLC: symmetry sets, scenarios, bounds, and the checks of the pure functions |

How they compose: `Relay` extends `HostRegistry` and implements it; `Mirror` and
`Notebook` share `NotebookOps` (and with `RunQueue` the operators of `Lists`), and `Mirror` stands on `Relay`'s queues and
`Notebook`'s versions as its header says; `RunQueue`, `CellScaffold` and
`CacheKey` share `CellDeps`; `DraftSync` implements `AccountNotebook`;
`Compile` takes a `Source` for all that `CacheKey` hashes.

### HostRegistry

One action is one lock acquisition, or one task transition between two of them.
`task[c]` is the program counter of connection `c`'s main task (`handle_host`):

    idle -> handshake -> claimed -> running -> closing -> unregistered
         -> ending -> forgetHosts -> forgetSessions -> forgetRemove -> done

and `recv[c]` that of its read task.  `Admit`/`Refuse` is the cap check of
`ws_host_handler`, `ClaimAccepted`/`ClaimRejected` is `claim_host`, `Register`
is `register_host`, the three `Select...` actions are the ways `select!` ends,
`Unregister`, `Invalidate` and the three `Forget...` actions are the cleanup.
`CreateSession`, `ReplyCreated` and `EndSession` belong to the read task.
`RecvCloses` and `RecvAborted` are the only ways it stops: an aborted task that
is running carries on with the frame it holds and with frames that are ready,
so the model lets it run on next to the cleanup until it stops.

`latest`, `holder`, `exposed` and `late` are history variables; no guard reads
them.  `exposed` collects the connections whose binding `forget_secret_if_idle`
removed while their claim still stood, `late` the sessions created by a read
task after its connection's sessions were invalidated.

### Relay

Each action of `HostRegistry` is taken up as `R_...` with what it does to the
guests.  `Tell` and `Drop` are the two halves of `end_session_guests`, run by
any of the three enders (`Ender`).  `job[c]` walks an Event or Response through
`resolve_query`, `readable_session_ids`, the broadcast, `guest_can_read` and
the direct answer.  `gtask`/`grecv` are a guest's main and read tasks;
`ValidateToken`, `GuestAdmit` and `RegisterGuest` are separate because the
upgrade lies between them.  A request is a `MsgId` with a `kind` chosen at the
start; its content never matters.

`RegistryImplemented` is `HostRegistry!Spec` itself, checked as a property of
`RelaySpec`: every step of the relay is a registry step or leaves the registry
alone, so what is proved of the registry holds of the relay (`RegistryKept`,
`RegistrySafe`).

### NotebookOps and Notebook

A document is `[order, cell, meta]`: the order of the ids, what each cell holds
(`text` stands for source and Cargo.toml, which are saved and versioned alike),
and the notebook's shared source.  `Inserted`, `Removed`, `Reordered` and
`Patched` are the functions of `notebook_ops.rs`.

Each mutation of `NotebookModel::apply` is one definition of `Notebook`
(`CellAdd`, `CellUpdate`, `CellDelete`, `CellReorder`, `NotebookUpdateMeta`),
with the order of its checks (`UpdateVerdict` compares the version before it
looks for the cell, `DeleteVerdict` the other way round).  The browser's actions
wrap them with the version read in the same handler, as the handlers do;
`RemoteEdit` takes any mutation with any version from an agent, and refreshes
the panes when `is_remote_content_edit` says so.  `Type`, `SaveTimer` and `Flush`
are the three ways of a pane's text: keystroke, debounce, Ctrl+S.  Restoring a
pane (`Refreshed`) writes to Monaco, whose change event marks the pane dirty
and starts its timer, as a keystroke would.

The page is single threaded, so one handler with the effects it queues is one
step.  `RunSucceeds` stands for the run pipeline: a cell that is stale or has
not run may succeed at any moment.  `typed` and `executed` are history
variables; `executed` only bounds `RunSucceeds`.

### Mirror

The host's page keeps the document and its buffer (`unsent`); `up[a]` and
`down[a]` are the relay's two queues of agent `a`.  A drained event goes to every
agent that may read, and the acknowledgement of a mutation to its sender.
`Outage` and `Reopen` are a broken host connection with what its buffer does;
`Connect`, `AnswerGet`, `Receive` and `Resolve` are the daemon's start and its
receive loop (`Receive` brings the mirror up to date, `Resolve` hands the answer
to whoever waits: two steps, because the table of waiting requests has a lock of
its own).  `Ask` reads the version from the mirror, `Forward` sends, `TimeOut`
gives up.  `whole` and `applied` are history.

### CellDeps and RunQueue

`CellDeps` computes a cell's dependencies from what the scanner reports of its
text (`[slots, all]`).  In `RunQueue`, `queue` is `run_all_queue`, `status[c]` the
status a mounted cell shows, and `task[k]` one compile or execution the page
awaits.  A write to a signal adds to `due` the watchers it notifies;
`WatchedFirst` says which of the watchers the browser runs first, and no other
event is handled before `due` and `trigger` are empty (`Quiet`).  `FinishOk` and
its like are what `pipeline.rs` does with a result.  View mode's runs
(`ViewerStarts`, `ViewerEnds`) write the editor's outputs.

### AccountNotebook and DraftSync

A page's `armed` flag is the newest scheduled save; `wire[p]` its saves, each
with the stages of a request (`sent`, `admitted`, then an answer) and a flag
whether the page still waits for it.  `SaveFires`, `SaveAnswered`, `DurableSave`
are the page; `SaveAdmitted` and `SaveWritten` the server's two steps with the
quota between them; `RequestLost`, `AnswerLost`, `ActLost` the network.
`login[p]` is whether the page's browser holds a live session of the owner:
`SessionEnds` is not told to the page, `SignsIn` is the user, and `Editable` what a
page gets that is loaded meanwhile.  `IsOwner` stands before every handler, `Fits` and
`WithinQuota` before a save; only the last answers with words the page takes for a
refusal (`refused`), the other two are to it a failure like a lost request (`failed`)
and are retried.
`PushRead` and `Promote` are the two halves of a push.  `Content`
(`draft ?? published`) and `pub` are the refinement mapping to
`AccountNotebook`'s `working` and `readers`.

### Compile

`pc[r]` is where the call `r` is: waiting for its cell's lock, looking up the
cache, in admission, then scaffold, cargo, collecting, storing the blob and the
glue.  `table`, `mutexOf` and `ahead` are the pruned table of mutexes with their
queues.  A dropped call releases its lock and leaves a `stray` write behind, for
`spawn_blocking` is not cancelled.  `intruded` is history: a stray write landed
while somebody else was inside.

### CellScaffold and CacheKey

Functions from what the detectors report of a cell to a sequence of lines, each
of which knows its origin; `MCScaffold` states what they are for.

### Accounts

A call is an HTTP request that walks through its database statements: `Lookup`
and `Renew` resolve the cookie's session, then the call reads (`ReadRow`,
`CheckReader`), passes the owner's gate and writes (`Gate`, `Saved`, `Pushed`,
...), or creates the notebook and publishes it (`Created` ... `RolledBack`).
`Arrive` is the answer in the browser, with the re-issued cookie if there is one.
`visit`, `slipped` and `saw` are history: the last visit with a token, the
tokens of which a renewal did not reach the browser, and what was the case while
a read was under way.

## 3. Runs

| run | instance | distinct states | shows |
|---|---|---|---|
| `host_registry` | 2 connections, 2 notebooks, 2 secrets, 1 session, cap 1, fair | 156 k | the registry invariants, `EvictionNeedsSecret`; a replaced host's sessions end |
| `relay` | 1 host, 1 guest that reads and writes, 1 mutation, channels of 1, fair | 186 k | told before dropped, no swallowed acknowledgement; guests of an ended session leave |
| `relay_two_guests` | 2 guests that both read or both write, 1 request | 565 k | answers and content reach only whom they may |
| `relay_reconnect` | 2 connections, 1 guest, no requests | 502 k | the relay implements the registry |
| `notebook` | 1 cell and a second that comes and goes, 2 texts, versions up to 2, agents carrying versions 0 to 3, fair | 108 k | order, manifests, versions, panes, stale marks; typed text is saved |
| `run_queue` | 2 cells, 2 tasks, 4 commands, fair | 460 k | nothing hangs or is dropped silently, edits leave a mark; the queue drains |
| `draft` | two pages, undisturbed, with 1 edit and 2 acts or 2 edits and 1 act; one page with 2 edits, 1 act, 1 reload, 1 fault; one page, undisturbed, with 3 edits, of which the first is too large to be saved; fair | 578 k | row, sizes and promise hold, no edit is lost, a push publishes what was shown; the autosave of a signed-in owner ends |
| `mirror` | 1 agent, buffer of 1, 2 edits, 1 outage, 1 lost frame, 1 request, fair | 150 k | the mirror follows the notebook and catches up |
| `mirror_requests` | a reader and writer and a write-only agent, 2 requests, 1 edit, 1 lost frame | 2.0 M | own writes are read, verdicts are true, no blind overwrite |
| `compile` | 3 calls, 3 cells of which two share an output, 2 slots, 1 token, 1 fault, fair | 1.09 M | one call inside, builds are of their own inputs, blobs have their glue; every call is answered |
| `accounts` | one person, two tokens, two calls, four renewal intervals; then the notebook in one instant, an owner with two calls and a reader | 869 k | active visitors stay signed in, what has ended stays ended, readers are told the truth |
| `find_dropped_compile` | 3 calls to compile one cell, edited between the first and the second, 1 fault | 16 k until found | a cache entry of another call's source, see section 6 |

Why the bounds are enough.  The registry's invariants are proved for any number
of connections and secrets; the run has the least with an incumbent and a
successor or an intruder, and two notebooks so that the cap's exemption of
hosted notebooks matters.  One session suffices because sessions are only read
one at a time or as the set of one connection.  A channel of one is full after
one frame.  Two guests of one session are the least where an answer can go
astray.  In `relay_two_guests` and `relay_reconnect` the constraint
`EndsWithHostOnly` leaves sessions to end with their host, `GuestsInTime` guests
to register before that, `ReadersOnlyAsk` readers to send queries; `relay` covers
the other ends.  Symmetry is used in safety runs only, over sets that are
compared by equality alone.

For the notebook, two cells are the least with one below another and with a
reorder list that is partial, outdated or reversed.  Two texts tell an edit from
a rewrite of the same text.  Version 2 lets a cell be edited, saved, and edited
again by an agent whose version is too old, right or too high.  `MaxVersion`
bounds who starts an edit, not the save that follows.

For the mirror, a buffer of one with two edits overflows; one loss is enough to
make a mirror stray, and two requests are the least with an answer that meets
another's wait.  For the run queue, two cells have a dependency, a failure that
blocks and a cascade; two tasks are a late result and a new one; four commands
are run, cancel, edit, run again; the first free task is taken (`FirstFree`), which
only renames them.  For the drafts, two texts after the first one
let a save be overtaken by a newer one, and a third lets the notebook grow too large
and shrink again between them; the byte sizes differ so that the quota
and the lag of sizes show; the three scenarios of `MCDraftSync` share the bounds,
which one instance with all would not survive.  For compiles, three calls are
two that meet and one that comes when the table is pruned; the calls are used
in the order of their numbers (`InOrder`), which only renames them; a `Source`
that fails, two that build, and a fault at any point.  For accounts, a session
lives three intervals and is renewed after one, so that it can be young, due,
renewed by another call, and expired; the notebook's part needs no time, since
nothing there depends on it, and the versions published are two so that a reader
may be served an old or a new one.

`CHECK_DEADLOCK FALSE` everywhere: connections are finite in number and end, and
ids, versions, commands and requests run out, so every behaviour of an instance
may stop.

The pure functions are checked by assumptions that TLC evaluates over all small
inputs when it starts a run: in `MCRunQueue` that dependencies are what a cell
reaches by direct reads (`DependenciesAreReached`) and that only the slots a text
reads matter for its key (`OnlyReadSlotsMatter`); in `MCScaffold`, with the run
`compile`, that a message about a cell's line comes home to that line
(`MessagesComeHome`), that names are bound to their outputs (`NamesAreBound`),
that a shared cell's slice is its own (`SlicesAreOwn`), that the cell's
dependency wins (`CellsDependencyWins`), that autodiff has its one profile
(`AutodiffHasItsProfile`), and that equal keys build the same
(`EqualKeysBuildTheSame`).

### Fairness

`FairSpec` of `HostRegistry` and `RelayFairness` state what the tokio runtime gives:
a task that is ready is polled (weak fairness of each task's own steps), an
aborted task that is not running again and again stops at one of its yield
points (strong fairness of the two ways it stops, because a frame it handles
disables them for a while), a forwarder writes what it holds, the sweeper runs
every five minutes.  Nothing makes a browser or an agent send, answer or hang
up, and nothing makes a session expire.

`FairSpec` of `Notebook` is weak fairness of `SaveTimer`: a timeout that is set
fires.  Every keystroke starts it anew, so this also says that the user pauses for
a second now and then.  `FairSpec` of `Mirror`: the page and the daemons handle what
arrives and the relay passes it on; nothing is assumed of users, agents,
timeouts or the return of a connection.  `Fairness` of `RunQueue`: some
effect runs as long as one is due, and each task is answered one way or the
other; the user does nothing for us.  `Fairness` of `DraftSync`: timers fire, the server works
on what it has, answers arrive or fail; nobody has to sign in, and sessions end
as often as the bound on faults allows.  `Fairness` of `Compile`: each call proceeds
when it can (a queue for a lock or a slot is first in, first out, so no call
needs strong fairness).  `Accounts` states none.

## 4. Proofs

Every safety invariant and every action property of a passing run is the
statement of a theorem, so the runs show on a small instance what is proved for
every value of the constants, from the named assumptions of the modules alone.

### HostRegistry and Relay

`RelayProofs` proves, in its first part, of `HostRegistry`:

| theorem | statement |
|---|---|
| `TypeCorrect` | `Spec => []TypeOK` |
| `HostSecretSafe` | `Spec => []BoundUnlessExposed` |
| `EvictionSafe` | `Spec => EvictionNeedsSecret` |
| `CurrentHostSafe` | `Spec => []CurrentHostStays` |
| `TokenSafe` | `Spec => []TokenStaysWithSecret` |
| `IdleForgottenSafe` | `Spec => []IdleForgottenUnlessLate` |

The only assumptions are the four named ones of `HostRegistry`: the sentinels
are outside their sets and `MaxHosts` is a natural number.

The inductive invariant `IInv` adds to the checked invariants what they rest on:

* `AttachedBound`: a connection between its claim and the invalidation of its
  sessions that is not `exposed` sees its own secret bound.  `BoundUnlessExposed`
  is its restriction to claimants; the invariant must reach one step further
  (`unregistered`) because the sessions still stand there.
* `LatestOwn`: the connection registered last for a notebook asked for that
  notebook.
* `ReadAfterRegister`: a read task exists only for a registered connection.
* `ReplyOwn`: a session a read task owes a reply for is its own.
* `TimelyOwner`: a session that is present and not `late` belongs to a
  connection that is registered and not yet invalidated.
* `BindingHasReason`: a notebook that is bound has a connection that will still
  come to forget it, a live session, or a late one.  This is what makes
  `IdleForgottenUnlessLate` inductive: each cleanup that skips the removal does
  so because of a host or session that keeps the obligation alive.

`Init => IInv` and `IInv /\ [Next]_vars => IInv'` are proved action by action;
every theorem follows from them with one PTL step.

Its second part proves of `Relay`, for any connections, guests, requests,
permission sets and capacities, from the named assumptions of both modules:

| theorem | statement |
|---|---|
| `RegistryKept` | `RelaySpec => RegistryImplemented`: `Relay` implements `HostRegistry` |
| `RegistrySafe` | what is proved of the registry alone, of `RelaySpec` |
| `RoutingSafe` | `RelaySpec => []RoutingSound` |
| `BlindGuestsSafe` | `RelaySpec => []BlindGuestsSeeOwnAcksOnly` |
| `ToldSafe` | `RelaySpec => TimelyGuestsToldBeforeDropped` |
| `BroadcastSafe` | `RelaySpec => BroadcastReachedOrigin` |

`RInv` joins `IInv` and the relay's types with what each holder of a request knows
of it: the read task of a guest (`FramesSound`), a host's queue, browser and job
(`ForHost`: sent by a permitted guest of this notebook), the pending table, and the
channels (`MsgFits`).  `JobFits` follows an Event through its separate locks: the
sessions it lists could be read, and include the origin's for as long as that is
live.  `EndsSound` says that the guests of the session an ender has told know, or
came late.  All of it survives other actors because of `Stable`: permissions and
owner of a session that exists, the session of a guest and the sender of a
request never change, and a session does not come back to life.  The implementation
needs `JobInLoop`: an aborted job is a registry step only in the read loop.

### Lists

`ListProofs` derives `Induction` over the natural numbers from the library's
minimum of a well-founded set, and with it what `Only`, `Without`, `Inserted` and the other
list operators return: their length, their members in order, that they list
nothing twice.  This is why those operators are recursive functions: what a
recursive function computes for every list can be proved this way, whereas the
library's theorems about `SelectSeq` or a fold take an operator as a parameter.

### Notebook

`NotebookProofs` proves, from the named assumptions of the two modules (the
initial order is a list without repetition, the marks for "unchanged" and "on
top" are no text and no cell):

| theorem | statement |
|---|---|
| `NotebookInvariant` | `Spec => []NInv` |
| `VersionsSafe` | `Spec => []VersionsAgree` |
| `VersionsNameTexts` | `Spec => VersionNamesText` |
| `DocumentIsSound` | `Spec => []DocumentSound` |
| `PanesFollow` | `Spec => []PanesFollowModel` |
| `EditsMarkDownstream` | `Spec => EditMarksDownstream` |

`NInv` has three parts.  `IInv` is about versions: `VersionsAgree`, that listed
cells are used ids (so an add never revives one), and that the document has its
shape (`DocShape`, which the prover needs to see through `EXCEPT`).  `ModelSound`
is about the document: the order lists each cell once, the manifests are those
of the current order and texts, and finitely many ids are used.  `PanesSound`
says that every listed cell has a pane which shows the model's text or will save
its own.  `Kept` says what a step preserves and what it may do to a cell; one
lemma per mutation shows it for `apply`, `ApplyKeeps` joins them, and each action
of the browser and the agents is `apply` of a sound mutation or leaves document
and versions alone.  `EditMarksDownstream` needs the order: what is below a cell
after the edit was below it before, and was marked or is marked now.

### Mirror

`MirrorProofs` proves, for any finite set of agents and any permissions,
requests, cells, texts, buffer, edits, losses and outages:

| theorem | statement |
|---|---|
| `MirrorInvariant` | `Spec => []MInv` |
| `MirrorIsSound` | `Spec => []MirrorSound` |
| `AgentsReadOwnWrites` | `Spec => []ReadsOwnWrites` |
| `VerdictsAreTrue` | `Spec => []VerdictsTrue` |
| `EditsAreInformed` | `Spec => NoBlindOverwrite` |

The argument follows an agent's *course*: the notebooks its mirror passes through
as it replays, one after the other, the frames on their way to it.  That a course
exists is an induction over those frames.  `MInv` says that every point of every
course is a notebook (`Coherent`), that the course of an agent which lost nothing
ends at the host's notebook (`Following`), that
along a course whatever an event told of is shown from there on (`Telling`), and what
an agent was told in answer all along (`Answered`), that the text an agent saw is
the host's as long as the version it names is (`Seen`), that a request is under way
once (`Sending`), and
what the stage of a request says of what the host did with it (`Verdicts`).
`MirrorSound` follows from `Coherent` and `Following` at the ends of the courses,
`ReadsOwnWrites` from `Answered` at their start.  `AgentAssumption` (there are finitely many agents) is needed where
the frames lost in one broadcast are counted.

### RunQueue

`RunQueueProofs` proves, for any cells, texts, tasks and number of commands:

| theorem | statement |
|---|---|
| `QueueInvariant` | `Spec => []QInv` |
| `QueueIsSound` | `Spec => []QueueSound` |
| `NothingHangsEver` | `Spec => []NothingHangs` |
| `RequestsAreNotDropped` | `Spec => NoSilentDrop` |
| `EditsAreMarked` | `Spec => EditsLeaveMark` |

`NothingHangs` is true of quiet states, and a quiet state is reached through
watchers that run one after the other; so `QInv` says of every state between
what its watchers will do.  Beside the types (`Shape`) and what is mounted where
(`Mounted`: no watcher and no task of the page is left in View mode): a busy cell
has the task that will end it (`BusyCellHasTask`); only a cell that failed or was
blocked is blamed (`BlamedOnFailure`); the front of the queue is at work,
cancelled, or about to be triggered once the queue's watcher ran (`FrontHeld`);
and no cell at work that is about to be blocked, nor one that consumes its
output, is queued or triggered (`Cascade`).  `Cascade` survives only because what a
cell consumes is transitive (a cell that consumes a blocked one's consumer was
taken from the queue as well), which is an induction over the cells above it.

### AccountNotebook and DraftSync

`DraftSyncProofs` proves, for any pages, versions, sizes, quota, upload limit, acts and faults:

| theorem | statement |
|---|---|
| `TypeCorrect` | `Spec => []TypeOK` |
| `ContentKept`, `SlotsKept`, `RowKept` | `Spec => []NeverNowhere`, `[]SlotsInStep`, `[]RowSound` |
| `PromiseKept` | `Spec => NotebookPromise`: `DraftSync` implements `AccountNotebook` |
| `NothingLost` | `Spec => []NoSilentLoss` |
| `SomePageKept` | `Spec => []SomePageIsTrue` |
| `PushIsCurrent` | `Spec => PushPublishesClicked` |

`RowInv` joins the types, `Showing` (a page that sends, waits or acts shows a
notebook), `Reading` (a push has read a content before it promotes), `Gone` (a
deleted notebook has nothing in either slot) and `NeverNowhere`.  The refinement
needs it at one point: a save of an existing row must not find both slots empty.
`LossInv` says that what is in the row was counted (`RowSaved`), that a page was told
what became of its saves (`ToldTrue`), and that a page's text has arrived, is
scheduled, or is in a save the page waits for (`Heeded`); it holds because every
step that clears the schedule sends, and every step that ends a wait either
records the text or schedules again.

The last two theorems are about the order in which saves arrive, and rest on
`WireInv`.  Saves carry numbers (`Numbered`), and of each page it says: its saves
differ in age, at most one of them is a durable one that is waited for, and what
nobody waits for has not been settled (`Tidy`); a save that is not late brings
what the page shows, unless that has yet to be sent, was refused, or is in a
younger save (`Fresh`); while a push
waits, every text older than the clicked one is unheard and late, or becomes
late with the durable save (`Behind`); a durable save belongs to a push
(`Durable`); and numbers only grow (`Growing`).  `SomeTends` is `SomePageIsTrue` made
inductive: some page shows the content of the row, will send it, was refused it,
has it on the wire, waits for the answer of a discard, or is signed out and shows
nothing.  `Public` is what a push rests on: once its durable save landed, what
this page puts in the row is what was clicked or newer, so that anything older
in the row is another page's.  The runs' instances start in the states of
`MCInit`, of which those with both pages open are `Init` with some edits and acts
used up.

### Compile

`CompileProofs` proves, for any calls, cells, sources, slots and tokens:

| theorem | statement |
|---|---|
| `TypeCorrect` | `Spec => []TypeOK` |
| `MutualExclusion` | `Spec => []OneInside` |
| `BuildsAreOwn` | `Spec => []OwnInputsOnly` |
| `BlobsHaveGlue` | `Spec => []GluelessOnlyInPassing` |

`LockInv` says who refers to a mutex (`Referring`), that only the one with nobody
ahead is inside (`First`), that those ahead wait for the same mutex (`Lined`), that
a key in use is in the table with the mutex its calls hold (`Tabled`), and that a
mutex named after a call that has not arrived is nobody's (`Fresh`).  `Truth` adds, as long
as nothing `intruded`, what lies in the workspace and in cargo's output of the
one inside (`Working`), in its hands (`Held`), in its answer (`Told`) and in the
cache (`Cached`).  `BlobsHaveGlue` needs that a call about to store has something in
its hands (`HandsFull`).

### Accounts

`AccountsProofs` proves, for any people, tokens, calls, lifetimes and times:

| theorem | statement |
|---|---|
| `SessionsSafe` | `Spec => []SessionsSound`: the types, and active visitors stay signed in |
| `EndedSafe` | `Spec => EndedStaysEnded` |
| `AnswersSafe` | `Spec => []AnswersTrue` |

Its assumptions are `TimeAssumption` (a session is renewed before it ends) and
`OwnerAssumption`.  `SessionsInv` adds to the types what a call knows at each of
its places (`Caller`: nobody is known to it before the lookup, and a token belongs to
the one who calls), that a session outlasts by lifetime less renewal interval
every call it let in (`Due`), and that the cookie lasts as long as the row or one
that does is on its way (`Carried`).  The last is what calls that share a renewal
rest on: only one of them brings the new cookie, and whichever answers first,
the visit counts only with what the row was then.  `ReadersInv` adds what a read
has seen at each of its places (`Reader`), and that without a row nothing is
published.  The run starts in two states of its own (`MCInit`), the proofs in `Init`.

### What the proofs corrected, and what is only model-checked

Three definitions changed because a proof did not go through.  In `RunQueue`, a
write to a signal while the page is in View mode notified watchers that are not
mounted then, and the model stood still (`Notified` now names the mounted ones).  In
`RunQueue` and `Notebook`, alternatives that overlapped in a `CASE` now stand in the
order of the code's conditions.  In `DraftSync`, the history variable `writer` named the
page whose save was written last, even if that save left the content as it was;
with an old save that lands unheard on another page's equal text, which takes
more edits than the runs have, `PushPublishesClicked` was false.  `writer` is now the
page that changed the content last.

Only model-checked: all liveness, because the prover handles neither `ENABLED` nor
fairness; and the pure functions of `CellScaffold`, `CacheKey` and `CellDeps`, which are
checked over all small inputs (of `CellDeps`, the transitivity that `RunQueue` needs
is proved).  The modules proved about declare no RECURSIVE operator.

## 5. What is left out

* The content of frames, serialisation, malformed frames (logged and skipped).
* The instants of time, outside `Accounts`: timeouts may fire and a session may
  expire at any moment.  In `Accounts` the unit of time is coarse, and the clock
  does not move between a session's lookup and its renewal.
* Lock poisoning; a restart of the relay (all its state is in memory, so it is
  `Init`).
* Labels, collapse defaults, titles and the other metadata that no compilation
  reads: an edit of one is the patch or the metadata without a text.
* Cells that are not Code cells, and loading another notebook; in `Notebook`, View
  mode, which unmounts the panes (`RunQueue` has it).
* A reorder list that names a cell twice; `reorder_cells` takes the first.
* `cells.run` and its wait for a result; the daemon's socket, start and exit.
* The values cells pass to one another, panics of the worker, frames of a
  simulation.
* Notebooks kept in the browser only, the local history, blobs of a published
  notebook and the snapshot of their manifest beyond whose it is.
* Warm-up builds, Linux cells, optimisation, the toolchain's version.  The
  detection of a cell's kind and features in its text, and the parsing of TOML
  and of rustc's JSON, are given to `CellScaffold`.
* In `DraftSync`, a version has one size, although a durable save embeds the outputs
  and the autosave does not; the cap over all accounts is folded into `Cap`.
* The OAuth exchange, user profiles, the pinned administrator, database failures
  on a read, `auth.rs:80` among them, which answers as to nobody.  A renewal
  with no response to write its cookie to (`auth.rs:152`), or with one whose headers
  are gone, is `slipped`.
* Not modelled at all, because no state of theirs outlives a request or a frame:
  the fetch proxy, the public pages, crawl files and images, the HTTP policy,
  telemetry, configuration, the cell runtime, the viewer's widgets and layout.

## 6. Where the code and its comments part

One disagreement is a run that ends with a counterexample, `find_dropped_compile`:
`scaffold_request` writes the workspace on the blocking pool, and dropping the call
releases the cell's lock and not the write.  A compile of a cell is dropped while
it scaffolds; the cell is edited and compiled again, takes the lock, misses the
cache and scaffolds; the first call's write lands over it; cargo builds the first
source, and the result is cached under the hash of the second, which the comment
at `server_fns.rs:239` says the lock prevents.  There is a second way, which needs two
cells whose ids differ in `-` and `_` only: a dropped call kills its cargo
(`kill_on_drop`, `build.rs:30`), but not the rustc below it, which goes on writing
into the output they share.

The others are definitions of the modules; to see a counterexample, check the
definition in place of the properties of the cfg named with it.

| definition | cfg | what happens |
|---|---|---|
| `IdleForgotten` | `HostRegistry` | a notebook whose last session is ended or swept after its host's cleanup keeps its binding until the server restarts |
| `RemovedSessionsGuestsLeave` | `Relay`, PROPERTY | a guest validated before the session went and registered after its guests were dropped is never disconnected |
| `IdlePaneChangesNothing` | `Notebook`, PROPERTY | a pane refreshed with an agent's edit counts as dirty for a second; a second edit in that second is not shown and is reverted by the pane's save |
| `SharedChangeMarksStale` | `Notebook`, PROPERTY | adding or deleting a shared cell changes what every cell is compiled with and marks none of them |
| `OutdatedIsStale` | `RunQueue` | a run that ends after its cell was edited clears the mark of the edit, so an outdated output shows as current |
| `FrontIsExecuted` | `RunQueue` | a cell whose compile was cancelled stays at the front of the queue, idle, and what is queued behind it waits |
| `DiscardRemountsPublished` | `DraftSync`, PROPERTY | an autosave that lands after a discard is what the page comes back with, under the toast "Back to the published copy." |
| `CleanMeansPublished` | `DraftSync` | the push button is disabled as up to date although another page's draft, or a late save, is there to be published |
| `RefusalToldOnce` | `DraftSync` | a refusal for the quota is told again after every new save, where "Say it ONCE" is meant |
| `RefusalsEndTheRetries` | `DraftSync`, PROPERTY | a save refused because the session ended, or because the notebook is too large, is sent again every five seconds without end, where the retry is meant for all "UNLESS the server refused it, which no retry can change" (`state.rs:690`) |
| `MirrorNeverDisagrees` | `Mirror` | after a dropped event a mirror and the notebook disagree for good |
| `UploadIsAlone` | `Accounts` | while a shared notebook is being created, the account lists it; a save from another page passes the gate, and the rollback deletes it with the row |
| `GrantsHaveTheirNotebook` | `Accounts` | a grant that passed the gate before a deletion is written after it and stays |

The following windows are in the models as well, and the checked properties
exclude them by name (`exposed`, `late`, `lateGuests`, `overtaken`, `lagged`,
`stray`, `slipped`); they are smaller, or follow from a design document rather
than from a comment in the code:

* A session can outlive its connection (`late`).  `handle_host` aborts the read
  task without awaiting it; if it was in the middle of `CreateSession`, the
  session appears after the cleanup, although `sessions.rs:44` says the session
  is invalidated when the connection drops.
* The window of `forget_secret_if_idle` is wider than its comment says: a reconnect
  can claim, register and create a session in it, and loses its binding (`exposed`).
* A guest that registers between the two halves of `end_session_guests` is
  dropped without notice (`lateGuests`).
* A guest's aborted read task can track a request after the purge of
  `unregister_guest`; that entry of `pending_queries` is never removed.
* The caps are checked before the upgrade and not at registration: a burst
  overshoots them.  At the very instant `expires_at == now`, `validate_token`
  (`sessions.rs:115`) and the sweep disagree.
* The debounced save is checked against the version of the moment it fires, so
  an edit an agent made while the user was typing is overwritten without the
  `VersionConflict` that `.prds/agentic-collaboration/0003-cell-versioning.md`
  promises.

Met while reading, and not in a model: a manifest that names `wasm-bindgen` itself
yields the key twice; a dependency value over several lines is split into
entries whose continuation lines collide by name; a live check's answer is shown
although the text changed since; the row of a session slid outside a server
function is not followed by the cookie at the next call, as `auth.rs:139` says,
but at the next renewal; the administrator's pin is read and then written; an old token's late
`Set-Cookie` may replace a new login's cookie.

## 7. Plan

Done, in the order of their weight: `HostRegistry` and `Relay`; `NotebookOps` and
`Notebook`; `Mirror`; `RunQueue`; `DraftSync` under `AccountNotebook`; `Compile` with
`CellScaffold` and `CacheKey`; `Accounts`; the proofs of section 4, which state every
safety invariant and action property of the runs.

Open, in this order: the wait of `cells.run` for a result, composed of `Mirror` and
`RunQueue`; the administrator's pin and the quota beside `Accounts`; blobs of a
published notebook; proofs about the functions of `CellScaffold`.
