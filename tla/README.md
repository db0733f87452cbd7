# CopySecureFast in TLA+

Specifications of CopySecureFast: the job queue of the `csfd` daemon, the copy
engine it drives, the Python client, the queue window and the tray that show the
queue, the settings menu, and the Thunar helper with its clipboard.
TLC checks them on small instances; TLAPS proves every safety property that these
runs find to hold, and the refinements, for every value of the constants.

## 1. Inventory

| component | state | operations | talks to |
|---|---|---|---|
| vocabulary (`types.rs`, `protocol.py`) | – | filters of pause, resume, cancel | all |
| queue database (`queue/db.rs`) | table `jobs` in `queue.db` | insert, two updates, scan, get, purge (unused) | worker, handlers; one mutex |
| worker loop (`rpc/server.rs`) | the job of this iteration | scan, mark running, announce, arm signal, run, store, announce, clean up | database, engine, events, signals map |
| request handlers (`rpc/server.rs`) | the request in progress | enqueue, pause, resume, cancel, get_queue, set_throttle, ping | database, signals map, events |
| copy engine (`ops/copy.rs`) | two files, one `JobItem` | rename, or open, create, copy blocks, unlink | signal byte |
| daemon process (`main.rs`) | – | start, restart, spawn the tray | all of the daemon |
| client library (`csf_client`) | socket, reader thread, one queue for responses and events | call, retry, close, drain | daemon, over a Unix socket |
| queue window (`csf_ui`) | rows | snapshot, apply event, control calls | client library |
| tray (`csf_ui/tray.py`) | the client, what the last poll said | poll, show, pause, resume and cancel all | client library |
| settings (`csf_config.py`, `settings_menu.py`, `throttle_popover.py`) | settings file, menu built once per tray, autostart entry, limit in the daemon | load, save, toggles, speed items, slider | settings file, client library |
| Thunar helper (`thunar-extension`) | clipboard file | copy, cut, paste | client library, clipboard file |
| Thunar extension (`extension.py`) | – | drop, copy and move to a folder | client library |

What is hard in it:

* worker, engine and handlers run on different threads and share the table,
  the signals map and one byte per job; the handlers act on snapshots;
* the worker drops the results of its database writes, and the daemon may die
  between any two of them;
* a move across devices is a copy and an unlink, stopped or killed anywhere;
* the client has one queue for responses and events, no request numbers, a
  timeout, a retry that sends a request again, and a reader that may be dead;
* the window knows the queue from one snapshot and from events that may be
  older than the snapshot, rotated by a waiting call, or lost in a full channel;
* the widgets of a row are given to other rows, with the handlers they have;
* every start of the daemon spawns a tray, none ends with it, and all of them save
  through one temporary file settings that they read at different times;
* helper processes share a clipboard file without a lock and choose target names
  by looking at a disk that queued jobs have still to change.

`PROJECT.json` lists each hazard at its line with the properties that cover it.

## 2. Modules

| module | models | checked with | proofs |
|---|---|---|---|
| `JobStates` | job states, verbs, signal values | – | – |
| `JobLifecycle` | what the daemon promises about the rows | as `LifecycleSpec` of `JobQueue` | – |
| `JobNews` | what it promises those who learn of the rows from its events | as `NewsSpec` of `JobQueue`, `DaemonAsPromised` of `QueueWindow` | – |
| `JobQueue` | database, worker, engine control, handlers, restarts | `MCJobQueue` | `JobQueueProofs` |
| `CopyOp` | the engine's system calls on the two files | `MCCopyOp` | `CopyOpProofs` |
| `DaemonClient` | client library, window's calls and timer, the daemon's end of the connection | `MCDaemonClient` | `DaemonClientProofs` |
| `QueueWindow` | rows of the window over `DaemonClient` and the daemon's table | through `MCTray` | `TrayProofs` |
| `Tray` | the tray's poll and menu over `DaemonClient`; both views of the queue | `MCTray` | `TrayProofs` |
| `RowButtons` | slots of the window's list and the handlers of their buttons | `MCRowButtons` | – |
| `Settings` | settings file, menus of several trays, autostart entry, limit | `MCSettings` | `SettingsProofs` |
| `Clipboard` | helper processes, clipboard file, target names, drops, the jobs they queue | `MCClipboard` | `ClipboardProofs` |
| `Counting` | how often members of a set occur in a list | – | `ListLemmas` |

`QueueWindow` extends `DaemonClient`, `Tray` extends `QueueWindow`: the same calls
and events with contents, seen by one client or the other. `JobQueue`,
`QueueWindow` and `Clipboard` share `JobStates`. `JobQueue` and `QueueWindow` meet
in `JobNews`: the first implements it, the second lives with any daemon that does.

### JobQueue

One step is one access to something shared: a call of `QueueDb` (atomic under
its mutex), a load or store of a signal, one event sent, one block copied.
`state` is the table: the index of a job is its rowid, `"absent"` is no row.
`wpc` walks through the body of `worker_loop` (`Scan`, `Mark`, `EmitStarted`,
`Arm`, `Persist`, `EmitOutcome`, `Cleanup`), `epc` through `CopyOp::run` in its
blocking thread. `sig` is the signals map, `"none"` where it has no entry.
`req` is what each connection's handler still has to do: the jobs left from the
snapshot of `control_job`, or the items left of `enqueue_items`.

* `Mark` and `Persist` may lose their write: `let _ = db.update_...` drops
  the result and the loop continues.
* `StoreSignal` joins `signal_for` and the store. Between the two only
  `Cleanup` could matter: the store would then reach a byte nobody reads, as
  it does in the model when it comes after `Cleanup` and makes a new entry.
* `EngineRename`/`EngineOpen` and `EngineBlock`/`EngineEof` leave open what the
  source file and the file system decide; `CopyOp` has that.
* `get_all_jobs` is documented as "no particular order"; SQLite scans a table
  without ORDER BY in rowid order, and the rows are never deleted. `QueueOrder`
  and `LifecycleSpec` rest on this.
* Progress events change no state and always carry the byte count of the
  insert; they are left out, as are the throttle, which no code reads, and the
  replies.
* `asked` and `starts` are history: what was signalled, how often a run was begun.

### JobLifecycle

One variable, the state column: rows are appended in order, the oldest
pending row starts, a started row settles, a settled row never changes. A row
may settle without having been seen running, for the write of the start may be
lost. `JobQueue` implements it with the mapping `st <- state`.

### JobNews

`JobLifecycle` with the events: each write of the worker makes one event `owed`,
and it is sent before the next write; inserting announces nothing. A lost write
or a death of the daemon makes it `faulty`: an event may then be sent for a write
that was not made, or never, and a row may settle without having run. Until then
one row is running at a time. In `JobQueue` the owed event is read off the
worker's program counter (`Owed`), `faulty` off the counters of the faults; the
daemon of `QueueWindow` is this one without faults.

### CopyOp

Content is "the first n blocks of what path p held". One run at a time, as the
worker does it, with any source, destination, operation and hash option;
between two system calls the signal may change, the call may fail
(`errors`, at most `MaxErrors` a run) or the process may be killed (`Killed`).
`Rename` is a move on one device, `EnterCopyFile` with a move is one across
devices. Source and destination may be equal; the properties named with
`Distinct` are about different files, `CopyOpOntoItself.cfg` about equal ones.

### DaemonClient

`cpc` walks through `_send_and_await`, `queue` is `self._events`. `conn`
distinguishes no socket, a connection whose handler has not subscribed to
events yet, one that is served, and one the daemon has left. The reader ends
at the end of the stream (`ReaderAtEof`) or after `recv_timeout` without a line
(`ReaderTimesOut`); nothing starts another one while the socket is open.
`Deadline` is a call that no reader can answer any more; `Slow`, at most
`MaxSlow` times, a call whose answer is late. `Close` gives up the connection:
lines already written are still read by a live reader, and the handler of the
old connection may still execute one request (`orphans`). `drain_events` is
one step: the reader can only append meanwhile. `Emit` puts an event in the
subscription of the handler (`rx`), which holds `Capacity` of them (1024 in the
code) and loses the oldest beyond that (`lagged`); `Forward` is the branch of
`handle_connection` that writes the next one to the socket, at any distance in
time from `Emit`. Requests, responses and events
are numbers: what they carry is not compared.

### QueueWindow

Extends `DaemonClient`: the same calls and events, now with contents. `table` is
the daemon's table, written by `Insert` and `Advance` as `JobQueue` does
without its faults; `said` is what each event says; `owed` the event the worker
has still to send for its last write. The first call is `get_queue`: the
handler's `Answer` reads the table or, if `get_all_jobs` fails, answers with an
error (`GetQueue`, `server.rs:230-239`); `LoadQueue` shows what it was answered
(`_reconcile`). The client does not look whether a response is an error: one has
no `jobs`, so it is an empty queue and no failed attempt (`JobsIn`,
`daemon.py:242-245`), and the rows of the window go.
`DrainEvents` applies `_apply_event` to what the timer drained, one event after
the other (`Shown`). A window whose
snapshot failed is built without rows and its timer and buttons run as well.
`polls` names the calls that are `get_queue`, `shots` the tables that handlers
have answered them with, a retry included, and `unread` those that were answered
with an error.

### Tray

A behaviour is one of the window or one of the tray (`view`), over the same
daemon and client. The tray's timer calls `get_queue` (`TickCall`) and shows
whatever response it is given (`TickAnswered`): one to a control call has no
`jobs` and shows an empty queue. Its client queues events like the window's, and
nothing drains them; at most `MaxPiled` come in a behaviour. The main thread is
one, so a poll and a menu call never overlap. A poll comes every 500 ms, so the
reader goes 5 s without a line only while a call waits for its answer; the model
lets it fall silent then and at no other time.

### RowButtons

`Gtk.ListView` is external: it has a slot of widgets for each row that fits, and
gives a slot another row by unbind and bind. `Bind` connects one handler more,
`Unbind` disconnects none, `Click` calls all. The three buttons of a slot are
alike, so there is one; rows are of jobs whose state shows it.

### Settings

Each tray has a program counter that walks through the handler of a menu item:
`save` as three steps (`Open` truncates the temporary file, `Write`, `Rename`),
then for a speed item `SetThrottle` and `ToggleAutostart`, for the autostart
toggle `ToggleAutostart`. Every call on a file may raise and end the handler but
not the tray (`SaveRaises`, `EntryRaises`). A tray may end anywhere (`End`) and
start again (`Start`, which reads the file for its menu: `built`). `fd` is the file a tray
writes to, which another tray's `Rename` may have made the settings file, or
replaced. `verify_hash` stands for the two toggles without a side effect. The
editor may save any settings or something broken; `Slide` is the popover,
`CommandLine` the helper's `throttle`. Each sets the limit with a call of the
client: a request that it has given up is `late`, and the daemon may execute it
at any time (`LateThrottle`). `wish`, `calm`, `overlap`, `synced` are
history: the last choice of each setting, whether a handler was cut off, met
another or used stale settings, whether two saves overlapped, whether the limit
was last set from the menu.

### Clipboard

Each menu action is a process of `Helpers` with its own program counter.
`copy` and `cut` are `Mark`, `Truncate`, `Write` (`write_text` truncates before
it writes); `paste` is `Paste` (load), `Build` (skip what is gone, name the
targets), `Enqueued` or `EnqueueFails`, and for a cut the same two steps that
empty the clipboard. `Drop` is the Thunar extension: no clipboard, and no look at
the destination. Files have one name and a list of `(n)` suffixes, in two
directories, loose or in a folder whose files keep their names. `RunJob` runs
the queue in order with `CopyOp`'s result for a run that completes; `forced`,
`sent`, `cut`, `origin` are history.

## 3. Runs

| run | instance | question |
|---|---|---|
| `queue` | 2 jobs, batches of 2, 1 block, 1 handler, 1 crash, 1 lost write, fairness | does it implement `JobLifecycle` and `JobNews`, in order, with stops and announcements only where they belong, what do faults cost, and does every other job settle? |
| `copy_runs` | 2 paths, files of up to 2 blocks, 2 failing calls, fairness | what do the files hold whenever a run stops? |
| `client_calls` | 2 calls, 3 events, a channel of 1, 1 late answer, 1 crash, fairness | are answers and events mixed up, lost or doubled, and do calls end? |
| `queue_views` | 1 job, 2 calls, 2 events (1 for the tray), a channel of 1, 1 late answer, fairness | do snapshot and events keep the window at the table, which poll does the tray show, whether or not the table can be read, and is the daemon they live with the one of `JobNews`? |
| `clipboard_pastes` | 2 helpers (symmetric), 2 directories, 1 suffix, 3 menu actions | do concurrent copies, cuts, pastes and drops lose or move anything they should not? |
| `settings_menu` | 2 trays (symmetric), 2 speeds, 2 menu choices, 2 changes from elsewhere | is the file whole and does it hold what was chosen, with the entry and the limit? |
| `early_cancel`, `paused_forever`, `restart_orphans` | 1 job | violated: see section 6 |
| `copy_onto_itself`, `client_events`, `recycled_buttons` | 1 block; 1 call, 1 event; 2 jobs, 1 slot | violated: see section 6 |

Why the bounds are enough: the properties of `JobQueue` speak of one job or of
two jobs in an order, and the worker holds one job at a time. One handler may
signal a job or enqueue at any point of the worker's loop; that several do no
more is not left to TLC: the theorems about the safety properties of this run
hold for any set of `Clients`, and only `JobsSettle` is about one. One lost
write and one crash are the two faults at which `RerunNeedsTwoFaults` is tight.
In `CopyOp` two blocks are the first size with a proper prefix that is not
empty. In `DaemonClient` two calls are what a leftover answer needs, two events
what a rotation needs or a full channel of one, and a third overtakes a rotated
pair; a second attempt doubles what one failure leaves behind.
`QueueWindow` has no step that relates two rows, so one job is enough; its two
events are the start and the outcome, in the order sent or, after the second
call rotated them, in the other. The tray's two calls are a poll and the one
that is answered with the first one's response. In `Clipboard` three menu
actions are a mark and two pastes, or two marks and a paste; one number for a
free name makes it run out, as 999 do in the code. In `Settings` two choices are
what a stale save needs, two trays and two choices what an overlap needs, and
two changes from elsewhere let an editor and the popover or the command line, or
two of a kind, come between them; a call given up adds a third, executed late.
The theorems of section 5 have no bounds.

Deadlock is checked except for `DaemonClient`, `Tray`, `Clipboard` and
`RowButtons`: when calls, events, menu actions or clicks are used up, or the user
just does nothing, they rest.
In `JobQueue` handlers may always ask something, so a full table is no deadlock;
in `Settings` the daemon may always be restarted.

## 4. Fairness

* `JobQueue`: weak fairness of the worker, of the engine and of the work of each
  handler that has begun: tokio polls tasks that are ready and the blocking
  pool runs the engine's thread. Failures, crashes, requests and lost writes
  are not fair, so nothing depends on their happening. A scan whose read fails
  is left out: the worker waits and scans again, so a failed read is a stutter,
  and the fairness of `Scan` says that reads do not fail for ever.
* `CopyOp`: weak fairness of the engine; failing calls and kills are not fair.
* `DaemonClient`: weak fairness of the daemon's tasks, of the reader and of the
  main thread, and strong fairness of `Deadline`: a waiting call leaves and
  re-enters the point where it looks at the clock, and the clock does pass the
  deadline. `Slow`, `Crash`, `Call`, `Emit` and `ReaderTimesOut` are not fair.
* `Tray` (`FairViewsSpec`): the same for behaviours of the window, and weak
  fairness of `Announce`: the worker sends the event it owes. Inserting, starting
  and ending jobs are not fair, nor is anything of the tray: its property is a
  safety property.
* `Settings`, `Clipboard`, `RowButtons`: none; no property needs it.

## 5. Proofs

Every invariant, action property and refinement that a passing run checks is
proved for every value of the constants. The assumptions are that the bounds
are natural numbers and the channel holds an event, that the stand-ins for a
missing file and for missing settings are no path and no setting, and that 0 is
among the speeds offered. Each proof is
an inductive invariant, with one lemma for a conjunct and one step for an action;
TLC checked the invariants on the instances of section 3 before they were proved.

`JobQueueProofs`, nine theorems about `JobQueue`:

* `TypeCorrect` strengthens `TypeOK` with what the program counters say of each
  other (`PcOK`: the worker holds a job exactly outside `scan`, the engine runs
  only while the worker awaits it, and has an outcome when it is done) and with
  `ReqOK`: only a control request has signals left to store.
* `QueueOrderCorrect` needs that rows are contiguous (`Contiguous`), that the
  row of the worker's job follows its program counter unless a write was lost
  (`CurState`), and that no older job is pending (`CurIsOldest`).
* `Refinement` follows from the same invariant: each write of `state` is
  `Submit`, `Start` or `Settle` of `JobLifecycle`, every other step a stutter.
  `TerminalCorrect` is the same argument about rows in a terminal state;
  `StateWritten` says that only the three writing calls change the column.
* `RerunCorrect` counts: every run begun is paid for by the faults before it
  (`FaultsPaid`), with the run in progress as the one exception (`Untried`).
* `StopCorrect` follows a signal from the handler that stored it (`Attributed`)
  through the byte and the `JobItem` to the table; `AnnouncedCorrect` an outcome
  from the table to the event (`PersistedFirst`); `ReachableCorrect` the entry
  from `Arm` to `Cleanup` (`EntryKept`).
* `NewsRefinement` maps each step to one of `JobNews`. Without a fault only the
  worker's job is running (`OneRuns`), so a start finds no other running row.

`CopyOpProofs` proves the six safety properties of `CopyOp` for any set of paths
and files of any length, from one invariant: the type invariant, the count of
copied blocks (`Counted`), what the two files hold at each program counter in
terms of `before` and `offset` (`Placed`), and what they hold after each outcome
(`Outcomes`).

`DaemonClientProofs`, six theorems about any number of calls and events, and any
capacity of the channel. All of it counts, for lists are turned round and drained
in ways no statement about positions survives:

* `EventsOnceCorrect`: the copies of an event in all the lists it passes through
  are at most one (`EventsOnce`); each action moves a copy or drops it.
* `ResponsesCorrect`, `ExecutedOnceCorrect`: an execution is paid for by a request
  sent (`RequestsAsked`), a request by an attempt (`Attempts`), a response by an
  execution.
* `LeftoversCorrect`: what is under way is at most the failures and the attempt
  being made (`UnderWay`). `OwnAnswerCorrect`: before the first failure it belongs
  to the call that waits (`OwnUnderWay`), so nothing else can be its answer.

`TrayProofs`, seven theorems about the two views, for any number of jobs:

* `ViewsUseClient`: every step of a view is one of `DaemonClient` or a stutter, so
  the six theorems about the client hold of both views.
* `NeverAheadCorrect`: rows, snapshots, events sent and owed are all behind the
  table (`NothingAhead`), which only moves forward.
* `PollFreshCorrect`: nothing drains the tray's queue, so responses arrive in the
  order of their requests (`AnswersInOrder`); each call made since takes an old
  one away or has failed (`OldUsedUp`). The response to a poll holds a table read
  for it, or nothing if that read failed (`ResponseHolds`).
* `WindowAgreesCorrect`: the last news of each job is its state (`NewsOfTable`);
  the answer to `get_queue` holds at least what was sent before the handler
  subscribed (`Subscribed`); each event drained in order moves the row of its
  job from one to the other (`RowsTold`). A gap between snapshot and subscription
  would break `Subscribed`. If the read failed a job may be without a row until
  its start is told, and an outcome leaves it so (`RowRight`); the theorem then
  still says that every row there is shows its job.
* `DaemonRefinement` and `EveryPromisedStep` say that the daemon of `QueueWindow`
  is `JobNews` without faults, no more and no less: each of its steps is one of
  `JobNews`, and each fault-free step of `JobNews` is one it can take. With
  `NewsRefinement` this links the views to `JobQueue`: until a write is lost or the
  daemon dies, what the views are proved to do with the table and its events
  they do with those of `JobQueue`; a handler that fails to read the table is no
  fault in this sense, for `QueueWindow` has it itself. The composition itself is read off the two
  refinements; there is no theorem about a joint specification.

`SettingsProofs`: the type invariant, and `FileWholeCorrect` from `SavesApart` (as
long as no two saves overlapped, the temporary file is of one tray and whole when
it is renamed); `ChoicesCorrect`, `EntryCorrect` and `LimitCorrect` from `Carried`
(while all is calm one handler runs, and carries every choice made so far).

`ClipboardProofs`: the type invariant with `Selected` (what is saved or pasted was
selected once, so it is finite and its names leave room for a suffix);
`OnlyCutCorrect` from `Marked` (the operation of a cut is kept only with files that
were cut, in the file, in every process and in every batch); `ContentCorrect` from
`QueueIsRest` and `TargetsFree` (a target that was free and is nobody else's stays
free until its job runs).

`ListLemmas` holds what these share: the count of members of a set in a list
under append, concatenation, tail, and a split of the set. Where an argument
goes through a list step by step (`ShownInduction`) it is an induction over a set
of numbers (`UpTo`), from the well-foundedness of the subsets of a finite set.

Only model-checked: liveness (`JobsSettle`, `RunEnds`, `CallsEnd`,
`WindowCatchesUp`), which needs fairness and ENABLED, out of the prover's reach.

## 6. Where the code differs from what it says

* `early_cancel`: a pending job that is cancelled (the request is counted as
  accepted) completes, for the worker resets the byte before the run
  (`server.rs:384`).
* `paused_forever`: resume and cancel of a paused job change a byte nobody
  reads (`server.rs:303`).
* `restart_orphans`: a job running when the daemon dies stays `running`
  (`server.rs:366`).
* `copy_onto_itself`: the source is truncated before it is read (`copy.rs:161`).
* `client_events`: five seconds of silence end the reader thread and with it
  the live updates of the window (`csf_client/daemon.py:187`).
* `recycled_buttons`: the buttons of a slot keep the handlers of every row that
  was bound to it (`queue_window.py:425`, `429`): after scrolling, a click on
  cancel also cancels jobs that are out of sight.

Some properties that hold name, in their conditions, what the code loses:
`ChoicesKept` and `LimitIsSaved` a speed item that saves stale settings
(`settings_menu.py:167`) and saves that overlap (`csf_config.py:84`); `EntryKept`
only that an entry asked for is there, for the autostart toggle never removes
one (`settings_menu.py:185`) although `settings_menu.py:9` says "creates/removes";
that speed items save stale settings is the menu being built once per tray, where
`settings_menu.py:14` says "every time the user right-clicks"; `WindowCatchesUp`
and `WindowAgrees` a rotated or lost event and a `get_queue` answered with an
error; `PollFresh` the same error, which shows as an empty queue, and answers left
by a failed attempt; `ContentKept` two jobs for one target and a taken name.
Removing the condition makes TLC show the loss.

## 7. Plan

Done: the modules of section 2, and the proofs of section 5. Left:

1. A joint specification of `JobQueue` and the client, in place of the two
   refinements that meet in `JobNews`.
2. What recycled slots still guarantee in `RowButtons`: the row one sees is
   among those a click reaches.
3. A second worker over the table of the first, after a daemon took its socket.

## 8. Not modelled

* Two daemons on one `queue.db` (`server.rs:104`): it needs a second worker in
  `JobQueue`, whose proofs rest on there being one.
* `subscribe` of the client and `purge_finished` of the database: no caller.
* Progress events, speeds, remaining times and totals: numbers that decide no
  step and that no property is about.
* Paste to a destination that is not a directory, a folder handed to the
  extension: the daemon is then given a directory as a source, which a move on one
  device renames and a copy fails to read.
* The contents of JSON messages, the layout of the windows, logging, argument
  parsing, packaging, and the tests.
