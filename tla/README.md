# Formal model of abxbus

abxbus is an asyncio event bus: events are emitted on buses, queued, processed by
handlers, forwarded to other buses, and awaited by handlers that emitted them. This
directory holds TLA+ modules that model its Python implementation (`src/abxbus/`),
TLC configurations that check them on small instances, and TLAPS proofs.

## Inventory of the system

| Part | State | Operations | What is hard |
|---|---|---|---|
| `lock_manager.py`: `ReentrantLock`, `LockManager` | a semaphore of one permit, a depth per lock in every asyncio context | `__aenter__`, `__aexit__`, `mark_held_in_current_context`, the three context managers around events, handlers and handler contexts | contexts are copied into created tasks, so "holds the lock" and "acquired the semaphore" differ; cancellation while waiting |
| `event_bus.py`: queue and run loop | `pending_event_queue`, `in_flight_event_ids`, `processing_event_ids`, `_is_running`, `_on_idle` | `emit`, `_run_loop_weak`, `step`, `_process_event`, `_finalize_local_event_processing` | the run loop, queue-jump tasks and other buses process the same event at the same time |
| `event_bus.py`: completion | — | `_mark_event_complete_if_ready`, `_mark_event_tree_complete_if_ready`, `_propagate_parent_completion` | an event is complete when its handlers, its awaited children and all buses it was forwarded to are done; who notices last must look |
| `base_event.py`: `BaseEvent` | status, completion signal, path, parent, results, children | `now`, `wait`, `emit`, `_mark_started`, `_mark_completed`, `_create_pending_handler_results`, `_run_handlers` | `now()` jumps the queue without the event lock, or joins a step in progress |
| `base_event.py`: `EventResult` | status, result, error, children of one handler's run | `run_handler`, `_call_handler`, `update` | timeouts race results; first-result mode cancels the others; cancellation leaves in the middle |
| `event_bus.py` parallel events, `destroy`, `wait_until_idle` | `_parallel_event_tasks`, `_on_idle` | `_start_parallel_event_task_from_queue`, `destroy`, `wait_until_idle` | two claimants of one queue entry; lost wake-ups; what was queued at shutdown |
| `event_history.py`, history and TTL in `event_bus.py` | ordered map of events, retained ids, TTL deadlines | `trim_event_history`, `retain`, `find`, `filter`, `_trim_event_history_if_needed` | eviction order under ancestry; waiters with timeouts |
| `helpers.py`: `CleanShutdownQueue` | items, sleeping getters, shutdown flag | `get`, `put_nowait`, `remove_item`, `shutdown` | a woken getter that is cancelled; shutdown with sleeping getters |
| `retry.py` | in-process semaphores, slot files shared by processes, held names per context | `retry`, acquire and release of each kind | takeover of a dead process's slot; copied contexts; cancellation |
| bridges | cursors and offsets into a shared table or file, the columns known of a table, connections and listeners | `start`, `emit`, `_listen_loop`, `close` | rows that arrive out of order; partial lines; columns that somebody else has added; `close` against a `start` under way |
| middlewares, logging, schemas | — | hooks at every transition | the hooks suspend the bus between two steps of its own logic |
| TypeScript, Go and Rust ports | the same design | | separate implementations, not modelled |

Buses interact through shared event objects: forwarding (`bus.on('*', other.emit)`)
puts the same object in a second queue, and completion on one bus reads the queues and
in-flight sets of all of them.  Handlers interact with the bus by emitting and awaiting
children; the awaiting task holds the event lock by its context, and the child must be
processed by somebody in that same context, or nobody can.

What makes each part correct: the lock's permit is never lost, doubled or released by
somebody else; a handler runs at most once for an event; a settled result is final; an
event is complete only when all buses and all awaited children are done with it, and
every event completes; queue order holds but for awaited descendants; a bus that looks
idle is idle; nobody waits for ever; a queued event is with somebody at all times; the
history keeps what can be reached from what is unfinished and nothing past its bounds; a
permit of `@retry` comes back whatever happens to the call; what one process writes the
others read, once and in order.

## Modules

| Module | Contents |
|---|---|
| `ReentrantLock` | the lock over tasks, contexts and scopes |
| `MCReentrantLock` | its instance: two run loops, two created tasks |
| `SequenceLemmas` | lemmas on `Append`, `Front`, `Tail`, `RemoveAt`, `RemoveFirst` and `Range` |
| `ReentrantLock_proof` | type correctness, permit conservation, mutual exclusion |
| `EventBus` | buses, events, handlers, queue-jump, completion, forwarding |
| `MCEventBus` | its instances |
| `HandlerRuns` | one event's handlers on its buses: modes, deadlines, cancellation |
| `MCHandlerRuns` | its instances |
| `EventLife` | abstract: what the buses together promise of an event |
| `EventBus_proof` | type correctness; no lock is lost; no handler runs twice, results are final, completion is quiet; which handlers run at a time under one lock |
| `EventBus_life_proof` | the life of an event: `EventBus` implements `EventLife`; what a complete event guarantees; every event completes; a bus keeps the order of its events under one lock |
| `HandlerRuns_proof` | the safety of the modes: settled when done, nobody left running, serial exclusion, nothing late |
| `EventHistory` | the history as a data type: trimming by size and time, retaining, finding |
| `BusLife` | one bus around its handlers: queue, consumers, waiters, history, destroy, restart |
| `MCBusLife` | its configurations |
| `BusLife_proof` | an event is kept until it is complete, handled once, and an idle bus has none; what the history keeps, evicts and finds |
| `Retry` | calls of one function under `@retry`: permits, contexts, attempts, slot files |
| `MCRetry` | its configurations |
| `Retry_proof` | permits are conserved, returned and passed on; slot files are their owners' |
| `Bridge` | processes that forward events through one medium |
| `MCBridge` | its configurations |
| `Bridge_proof` | what a bridge knows of the columns; a closed bridge is quiet; what arrives, how often and in which order |

### ReentrantLock

One action per way through `__aenter__` and `__aexit__` (`EnterNested`, `EnterFree`,
`EnterWait`, `EnterResume`, `Exit`), the marked context of a handler (`MarkHeld`,
`ResetMark`), task creation with its copied context (`CreateTask`), the end of a task and
cancellation in the semaphore's queue. `depth[t]` is `held_lock_depths[lock_id]` of task
t's context; `scopes[t]` are the `async with` blocks and marks it has open. The semaphore
is asyncio's: a permit is handed to the oldest waiter, and a woken waiter that is
cancelled hands it on. `holder` and `ancestors` are history variables: whose acquisition a
context's depth stems from, and the chain of creators; no guard reads them.

Two constants say what the surrounding code may do. `Bypass`: handlers run in a marked
context although the event lock is not held, as `now()` does on its fast path. `Detach`: a
scope may end before a task created in it, as a handler does that is abandoned at its
timeout, or user code that starts a task. Mutual exclusion needs both to be FALSE, and
this is a fact about the code and not of the model: with `Detach` a task that kept its
copied depth enters the lock while somebody else holds it. The conservation of the permit
needs neither. The run has both FALSE; the proof of the conservation is for all values.

### EventBus

A task is a bus's run loop or a *jumper*, the task that `now()` creates to run
`_process_self_on_all_buses`. A handler body runs inside the task that called it. asyncio
switches tasks only where one suspends, so `cpu` names the task that is between two
suspensions and nobody else may step: `RunOn` keeps it, `Suspend` gives it up, and `Hook`
does so when the bus has middlewares. Each function of the code is one or a few actions
in the order of the code:

    LoopGet  EnterLock  LockGranted  Check                _run_loop_weak, step, event lock
    Select  Create  NextHandler  HandlerLockGranted       _process_event, _run_handlers
    Start  HReturn  HForward  HEmit  HAwait  HResume      run_handler and what handlers do
    
    HLeave                                                the handler goes on without a now()
    HCancel  HAwaitCancelled                              CancelledError in a handler
    End  Unlock  Propagate  LoopAgain                     completion and propagation
    ExtAwait  JumpTake  JumpJoin  JumpYield  JumpGiveUp
    JumpDone  JumpAgain                                   now()
    ExtEmit                                               emit() from outside

A handler may have several `now()` under way at once (`asyncio.gather`, tasks of its own):
in "await" `kids` is the set of their tasks, and while there are some, other parts of the
handler may emit and call `now()` again. `HResume` is the return of one of them. `HLeave`
is a handler that goes on while a task of its `now()` still runs: after `now(timeout)`, after
`now(first_result)`, or because nobody awaits it. So a handler has waited for, or left,
every `now()` it began before it returns. A `now()` that was left, or was called outside of
handlers, is *loose*: no handler stands still for it, and what it puts first runs next to
the rest. `FifoPerBus` and `SerialUnderOneLock` exempt what a loose `now()` does.
A forwarding handler emits (`HForward`), and its result is settled in a later step, after
others may have run ("sent", `HReturn`).

`JumpTake` is the fast path of `now()`: the event is taken from the queue and processed
without the event lock. `JumpJoin` is the slow path: another task has it, and `step` is
called behind the lock, in a context (`held`) that the jumper inherited from the handler.
`InUse`, `ResultsReady`, `Completable` and `CompletableTree` are the conditions of
`_mark_completed` with its `current_bus` argument; `Complete` sets status and signal.

Abstractions, and why they are sound for the properties here:

* Payloads, results and timestamps are left out; a result is its status.
* The handler's choices are nondeterministic: what it emits (from `Emits`), whether it
  awaits it, whether it returns or raises. The settled result is `completed` or `error`.
* Events are emitted from outside once per event; an object emitted twice by user code is
  left out. Emitting a completed event only adds a bus to its path.
* The scan of `now()` over the buses takes them in any order, since `all_instances` is a
  weak set, and it may give up at any round: every number of rounds up to 1000 is covered.
* Two bounds in the constants: `MayLeave = FALSE` has no `HLeave`, and `MayRepeat = FALSE`
  has no second `now()` on an event that one is under way for. The runs with two buses have
  both FALSE, to keep them small; the proofs are for any value.
* The wait for the slow-event monitor is a suspension, as in the default configuration.
* The parent lookup in `_propagate_parent_completion` takes any bus whose history has the
  parent: the code takes the first of a weak set.
* Left out here: timeouts, parallel handlers and completion mode `first`, which are in
  `HandlerRuns`; parallel events, history bounds, `destroy` and the queue's getters, which
  are in `BusLife`; and the recursion check of `_would_create_loop`.

`EventLife` is the abstract specification that `EventBus` implements. It knows nothing of
buses, queues, locks and tasks: an event has a result per handler that goes from nothing
to pending, started and settled, a set of children that its handlers await, and is
finished at most once, when no result is open and every awaited child is finished before
or with it. The refinement mapping (`Life` in `EventBus`) takes `finished` from the
completion signal and `awaited` from the children marked `event_blocks_parent_completion`;
`_mark_event_tree_complete_if_ready` finishes a whole tree at once, which is why
`EventLife!Finish` takes a set.

### HandlerRuns

`EventBus` has many events whose handlers simply run; `HandlerRuns` has one event and
follows its handlers on every bus through the modes: serial or parallel, all results or
the first, with or without deadlines for the event and for a handler. `mode`, chosen
freely in `Init`, is what the event and the buses are configured with. Per bus there is
the task that processes the event, per handler its `run_handler` (a task of its own in
parallel mode, else a part of the bus's), and its body, the task that `_call_handler`
creates:

    Begin  NextRun  Returned                      _run_handlers, one after the other
    AwaitAll  AwaitFirst  Gathered                _run_handlers, in parallel
    EventTimer  Finalize  Close                   _process_event, _finalize_event_timeout
    FirstStep  LockGranted  LockCancelled         run_handler and the event's handler lock
    HandlerTimer  Wake  Unwound                   _call_handler, _run_with_slow_monitor
    BodyEnds  BodyAsked                           the handler's own code

What is hard here is where a cancellation lands. `asyncio.timeout` cancels the task that
processes the event once, and asyncio passes that on to whatever the task waits for: an
`asyncio.wait`, one of the runs, the body itself when it has no deadline, or the shield
around it when it has. `cancel` and `interrupted` hold requests that are not delivered
yet; a request that comes while `cancel_and_await` waits for the slow-handler monitor
(`run` is "unwind") is swallowed by it. A body that is cancelled may ignore it for ever.

Abstractions: a value is a winning one ("value"), one that does not win ("nothing", which
stands for None and for an event) or an exception; a handler that is abandoned stays
"asked", whatever it does then; middlewares, the cancellation of a processing task from
outside, the lock's re-entry from a body, and what a deadline does to the children's
results are left out. The event's deadline may also pass while the task is about to be
done ("closing"), where it has no effect.

### EventHistory and BusLife

`EventHistory` has no variables: the history of a bus is a record, and the operations of
`event_history.py` and the trimming code of `event_bus.py` are functions of it, of the
completion times and of the time now. `TrimSize` is the loop over leaves of
`trim_event_history`, and `EvictFirst` one round of it (a completed, unretained event
without children in the history goes; its parent joins the queue of leaves when its last
child went), `TrimDue` is when the batching lets it run, `TrimTtl` the deadline table with
its sorted queue of pairs, of which stale ones are skipped (`Confirms`), and `Retrack` the
rebuild after the bus's time to live was edited.

`BusLife` is one bus around its handlers; an event has a single body here, since what
handlers do is in `EventBus` and `HandlerRuns`. Consumers of the queue are the run loop,
a caller of `step()` without an event, and for a parallel event one task made by `emit()`
and one made by the loop, of which the first only processes what it can remove from the
queue. `at` is where each of them is:

    Emit  EmitRejected  EmitCompleted               emit()
    LoopTake  LoopSleep                             _run_loop_weak and the queue's get()
    StepCall  StepWoken  StepTimeout  StepTook      step() without an event, with its wait
    OwnTask  OwnTaskGone                            _start_parallel_event_task_from_queue
    Begin  End  Interrupted  NotBegun               step() on an event, cancelled or not
    IdleCheck  IdleSleep  HooksBegin  HooksEnd      wait_until_idle, middleware tasks
    Find  FindTimeout                               find() and its waiters
    Tick  EditTtl  RetainIt  LetGo                  time, event_ttl edited, retain
    Destroy  Restart                                destroy; model_dump, exit, validate

The getters of `CleanShutdownQueue` are futures in a row; `put_nowait` wakes the first,
and one that is cancelled after it was woken tells nobody (`StepTimeout` sets the history
variable `lostWake`). `Restart` is a dump of the bus, the end of the process and
`EventBus.validate` in another: the queue and the history come back, marks, waiters and
tasks do not. `cfg`, chosen in `Init`, says which of these uses a behaviour makes.

An event may be emitted by anyone at any time (`MayEmit`): by the body of its parent, by a
task that the parent has left behind, or by code that has kept a complete parent, as
`tests/test_history_ancestry.py:28-31` does. The parent may be gone from the history by
then, or may never come to this bus. The one order left out is a child that comes here
before its own parent does.

Abstractions: one value of the bus for the events' time to live and one for the results',
where the code also has values per event and per handler; `find` by type and `child_of`; a
body ends whenever it likes; one event is retained at a time, twice at most; the trim behind
the soft limit at the end of `emit` (`event_bus.py:1384-1393`) is left out, because the trim
just before it has either started the count of changes again or was not due, and then this
one is not; `Batch` is the divisor that puts trimming off (the code has a tenth of the
history's length, at least 1).

### Retry

Calls of one function under `@retry` with a semaphore. A call is made in a context (a task
or a thread): a new one, a copy of another's, or the one of the code that waits for it;
`heldIn` is the context variable with the keys held there, which makes a nested call pass
without a permit. `kind` tells the wrappers apart: an async function, a plain one in a
thread of its own, a plain one on the loop's thread, and a plain one that returns something
to await, whose call goes on in `finalize_async_result`, maybe in another context, or never.

    CallFresh  CallCopied  CallInline               the wrapper looks for the key
    Acquire  Sleep  WaitRunsOut  GiveUp             _RetrySemaphore
    CancelWait  CancelBackoff                       cancellation of an async call
    TryCreate  WriteOwner  Look  Unlink  NextRound  slot files of the machine
    EndAttempt  FailAttempt  NextAttempt            _execute_with_retries
    EndPlainPart  AwaitIt  Drop                     a plain function's awaitable
    ReadToken  RemoveFile  Crash                    slot files again; kill -9

Every step between two system calls on a slot file is an action, so that two processes
interleave between reading an owner, asking for its process and removing the file.
Abstractions: clocks (what may time out may do so whenever it waits), delays between
attempts, which exceptions match; a call in scope `multiprocess` is a process; process
numbers are not reused; a file that names no owner is stale only if its process is dead
(the code waits until it is 5 minutes old, and a live process writes its owner much
sooner).

### Bridge

Processes with one bridge each over one medium. `life`, `starter`, `closed` and `listener`
are the two ways into `start()` (the task of `_ensure_started`, a caller), its progress, and
`close()` in its two halves around the await of the cancelled task; `open` are the bridges
that have their connection for writing. `close()` bars nothing: `on()`, `emit()` and
`start()` look at whether the bridge runs (`EnsureStarted`) and start it again during or
after a `close()`. What such a bridge has depends on how far the two get: `CloseEnds` closes
what the new start has opened in the meantime, all, some or none of it (`Lost`), and a
`start()` of a caller may find the listener that is being cancelled and make no other
(`NoListener`). The history variable `reopened` keeps who was to start again. An `emit()`
that waits for a `start()` is cancelled with it, and one whose `start()` is over goes on
(`LeftWaiting`). Postgres has one operation of a connection at a time: two emits collide,
and an emit with the statements of the start that has just opened its connection, where
either may fail (`Collide`, `StartCollides`, `StartFails`). What NATS and Postgres have sent
is heard while `close()` drains. `emitting[m]` is where `emit()` of an event is; `table` and
`cache` are the columns of the shared table and those a bridge knows; `file` is made of
parts of lines, because a line longer than the buffer is written by two calls; `cursor`,
`pending` and `inbox` are what a reader has left to read. `excused` and `owed` are history
variables for `EverythingArrives`. Abstractions: an event is its key (created_at and id),
its columns, and whether it parses; the servers (Postgres, Redis, NATS) deliver in order to
those that have subscribed; the deduplication by inbound buses and the resending of what a
bridge itself received are left out, so an echo is not modelled; nobody truncates the file
(`bridge_jsonl.py:115-116,145`); reading the columns of a table and remembering them is one
step. Bounds: `conf` says which events are emitted, and a bridge is closed once.

## What the runs check

Instances of `EventBus` (all in `MCEventBus`): *family* has one bus, a parent whose
handler may emit and await a child, and an unrelated event; *tree* adds a second level of
children and an unrelated event; *forward* has two buses that forward one event to each
other and an event of their own; *relay* forwards a parent to a bus that is busy; *cross*
has a parent on each of two buses whose children are forwarded to the other bus; *fan* has
three buses, and one handler that awaits two children at once, which are forwarded to the
other two.

| Run | Instance | Properties | Result |
|---|---|---|---|
| `ReentrantLock_structured` | 4 tasks, 3 scopes each | `MutualExclusion`, `PermitConserved`, `WaitersHaveHolder` | hold |
| `EventBus_one_bus` | tree, 2 jumpers, a `now()` from outside, `MayLeave`, `MayRepeat` | `FifoPerBus`, `AtMostOnce`, `AwaitedIsComplete` | hold |
| `EventBus_forwarding` | forward, 1 jumper, middlewares | `CompleteMeansHandled`, `CompleteMeansConsumed`, `NothingForgotten` | hold |
| `EventBus_cross` | cross, a lock per bus, 2 jumpers, cancellation | `NoLockLeaked`, `KeepsPromise`, `EveryEventCompletes` | hold |
| `EventBus_global_serial` | fan, one lock, 2 jumpers | `SerialUnderOneLock`, `EveryEventCompletes` | hold |
| `HandlerRuns_modes` | 2 buses, 3 handlers, all modes | `DoneMeansSettled`, `NoneLeftRunning`, `LateResultsIgnored`, `DeadlinesEndEvents` | hold |
| `BusLife_uses` | 3 events, 12 uses of a bus | `TypeOK`, `HandledOnce`, `EventKept`, `FindMissesNothing`, `HistoryBounded`, `IdleMeansDone`, `EvictsOnlySpent`, `SweepsTheExpired`, `EveryEventCompletes`, `StartedCompletes`, `IdleWaiterReturns` | hold |
| `Retry_uses` | 3 calls, limit 1, 5 sets of arguments | `PermitsConserved`, `PermitReturned`, `NoSleeperForgotten`, `SlotsExclusive`, `EveryCallEnds` | hold |
| `Bridge_media` | 2 processes, 3 events, 5 media | `ArrivesOnce`, `SameOrder`, `ColumnsKnown`, `ClosedIsQuiet`, `EverythingArrives`, `EveryEmitEnds` | hold |
| `EventBus_relay_completes_early` | relay | `CompleteMeansConsumed` | violated |
| `EventBus_rerun_behind_hooks` | family, 2 jumpers, middlewares | `AtMostOnce` | violated |
| `Retry_slot_taken_twice` | 3 processes, limit 1, one dies | `WithinLimit` | violated |

What is a theorem for every instance is not checked by a run again where another property
of the run implies it: `TypeOK` of the proved modules; `CompleteMeansQuiet`,
`SettledIsFinal` and `ParentAfterAwaitedChild`, which `KeepsPromise` implies; and
`SerialBodies`, `LateEmitsIgnored` and `CancelledForReason` of `HandlerRuns`. TLC held all of
them before they were proved.

Bounds. Two jumpers are the least with which two `now()` calls and the run loop contend for
one event, an awaiting handler can await from within an awaited child, or two children at
once. Three buses are the least on which two awaited children run next to each other under
one lock while a third event waits. Two buses are the least for forwarding and for a wait in
both directions. Three to four events give a parent, a child, a grandchild or a second
parent, and an unrelated event that can be overtaken. `runs` counts to 2, which stands for
"more than once". In `ReentrantLock`, two root tasks contend, a created task can itself
create one, and three nested scopes give an acquisition, a mark in it and a nested block in
that. In `HandlerRuns`, two handlers on one bus are the least of which one wins or is still
to run, and the handler of the second bus contends for the lock; the first bus takes every
mode, the second is serial, with or without a deadline, but where the first is parallel only
one of the two has one. One handler of each bus has a deadline of its own. In `Retry`, one
permit and three calls give a holder, a sleeper and one that takes the permit past it, or
one that nests; four contexts leave room for a copy. In `BusLife` there are a parent, a
child and an unrelated event, the clock goes to 2 with a time to live of 0 or 1, an event is
emitted twice, and a history holds none, one, two or everything; a configuration combines
the uses that can meet, not all of them at once. In `Bridge`, two processes write in turns,
the second event is older than the first, and one message is no event. The two tasks of each
kind are interchangeable in `ReentrantLock`, so symmetry is used there and nowhere else.
Deadlock is not checked because every instance ends: all events are processed and nobody
emits more, calls or closes; `NothingForgotten`, `NoLockLeaked`, `EveryCallEnds` and the
properties named `Every...` say that it ends as it should.

Fairness. `EveryEventCompletes` is checked under strong fairness of each task's own steps
(`Runs`). asyncio runs its ready tasks in the order in which they became ready, so a task
that is ready again and again runs; strong rather than weak, because a step is disabled
while another task has the cpu. Handlers are assumed to return, not to emit or to await. A
jumper is not assumed to give up polling. With cancellation the property is conditional:
where a `CancelledError` has ended a run loop or a `now()`, what was left is not run.
`DeadlinesEndEvents` is checked under weak fairness of the bus's tasks, the runs and the
timers, each of which stays enabled until it is taken; the bodies have no fairness, so a
handler may hang. It is stated for configurations in which every handler has a deadline:
where one has none, a bus whose own deadline was swallowed may wait for the handler lock as
long as that handler runs. `BusLife` assumes weak fairness of all progress together: as long
as a task can run, asyncio runs one. `Bridge` does so for what bridges do (starts go on,
loops poll, servers deliver, `close()` ends) and for what emits do, apart: either can go on
while the other stands still. It is enough because none of these steps can be repeated for
ever without an end (a `start()` is made again only by a new call or fails only while an
emit writes), and it says less than fairness of each. Idle waiters have weak fairness of
their own. Nothing outside is assumed to happen: no emit, step(), timeout, tick or close.
`Retry` assumes weak fairness of each call's own progress (a started call goes on, a
function returns, a coroutine is awaited or dropped), and strong fairness of the one step
that depends on age: a file that stays without owner is taken for stale in the end.

### What the violated runs show

* `EventBus_relay_completes_early`. `_propagate_parent_completion` ignores, when it
  decides whether a parent may complete, the queue of whichever bus it found the parent
  on (`event_bus.py:2187`). If that bus still has the parent in its queue, the parent is
  complete before that bus has run its handlers, against the comment at
  `base_event.py:1828`.
* `EventBus_rerun_behind_hooks`. With a middleware that suspends, the handlers of an event
  are selected before and recorded after an `await` (`event_bus.py:2404`); a second task
  selects them again and they run twice. Without middlewares this cannot happen, which
  is the theorem `HandlersRunAtMostOnce`.
* `Retry_slot_taken_twice`. A process finds a slot file of a dead process and unlinks it by
  name (`retry.py:334`). Between its look and its unlink another process may have done the
  same and made the slot its own: its file goes, a third creates the slot again, and two run
  under a limit of one, against `docs/api/retry.mdx:104`.

Conditions of the passing runs say where else the code does less than one might expect.

Events and buses. A second `now()` on an event in progress steps it again, finds all
handlers started, and `_finalize_local_event_processing` discards the marks of the first
(`event_bus.py:1991`), so that the bus looks idle while a handler runs. A handler that lets
a `CancelledError` out ends the run loop of its bus (`event_bus.py:1936`); the queued events
wait until something is emitted there, hence the condition in `EveryEventCompletes`. An
event's deadline that passes while a slow-handler monitor is being cancelled is swallowed by
`cancel_and_await` (`helpers.py:89`), and the next handlers start behind it. Also,
`_finalize_event_timeout` settles the results of all buses, also those whose handlers
another bus is running, and `update(result=...)` then turns such a result to `completed` and
keeps its error, so `LateResultsIgnored` exempts the deadlines of other buses; `FifoPerBus`
holds of buses that do not forward, since a bus starts its next event while the one it
forwarded is unfinished elsewhere (`EventBus_forwarding` violates it). The order of a bus is
not kept between children that one handler awaits at once: their tasks take them from the
queue without the event lock (`base_event.py:1028-1038`) and run them side by side, as
`docs/concurrency/immediate-execution.mdx:152` has it; nor by a `now()` that is left or
called elsewhere. And `MutualExclusion` of the lock needs `Detach` to be FALSE, as said
above.

One bus. A `step()` whose wait times out after it was woken loses the wake-up
(`helpers.py:169`), and the loop sleeps over a queued event until the next emit: `lostWake`
in `EveryEventCompletes` and `IdleWaiterReturns`. A history with `max_history_drop=False`
evicts nothing by size, although the comment at `event_bus.py:1313` says that completed
entries are evicted first: a full one rejects every emit until a time to live ends. And none
evicts an event that is not complete, whatever its size and the pressure, although
`docs/features/event-history-store.mdx:47-49` says that trimming can drop uncompleted
entries and calls this the contract to rely on: `EvictsOnlySpent` states what
`trim_event_history` does, which only ever takes completed leaves, and a history of
uncompleted events outgrows its size. `HistoryBounded` says so too (what cannot be evicted
does not count). A reader of the docs gets more than they promise, not less. A rejected
event keeps the bus's label in `event_path`. `wait_until_idle` on a bus destroyed meanwhile
raises AttributeError ("error"). What is queued at `destroy` never completes; what was
waiting for the event lock is completed without having run; what a `step()` had just taken
is dropped. After `validate` nothing runs until the next emit or wait, events that were
being processed stay incomplete (`orphans`), and restored or re-emitted events are not
marked in flight, so `wait_until_idle` may return between the `get` of a `step()` and its
mark (`JustTaken`). A parallel event emitted again while it is pending can be run twice at
the same time. An event whose parent has been evicted, by then or to make room for the event
itself, comes into the history without it. An event emitted again that closes a gap in a
line of descent does so behind the back of a `find(child_of=...)` that waits, which is told
of that event and not of those below it; and the end of its second run counts no change, so
that a history may stay longer than its size in a drained bus. The last two do not happen
without such an event, and the run's buses emit events again only where the history drops
nothing by size or is empty.

Retry. A coroutine from a plain function that is dropped keeps its permit, and so does one
awaited in another context, where resetting the mark raises before the release
(`PermitReturned`). A plain function on the loop's thread that waits for a permit of one of
the loop's tasks stops the loop (`LoopStuck`). A task made inside a call inherits the mark
and runs past the limit after the call has ended.

Bridges. A row that is committed with a key behind the reader's cursor is never read, since
keys are made before the insert (`bridge_sqlite.py:161`). A column that another process or
thread has added since the cache was filled makes the ALTER TABLE of an emit fail (SQLite).
In a file, a line that is no event makes the rest of that poll disappear, and a long line
can be torn by another writer. Redis's listener ends at the first message that is no event
while `_running` stays. With Postgres, an emit that meets another, or a start, on the same
connection fails, or the start does. An `on()`, `emit()` or `start()` that comes while
`close()` is under way or when it is over starts the bridge again
(`bridge_redis.py:83-86,138-169`, and likewise the others): it listens, with an inbound bus
that is destroyed and takes nothing, or counts as running without a listener or a
connection, where every emit fails. `ClosedIsQuiet` and `ColumnsKnown` exempt such bridges
(`reopened`). A `start()` run by its caller survives a `close()`, and leaves a listener.

## What is proved

All proofs are for any finite or infinite sets of tasks, buses, events and handlers, and
for any finite set of calls of a decorated function, from the named assumptions in the
modules.

`ReentrantLock_proof`. The type invariant is inductive. `PermitConserved` is not: one has
to know that a depth is positive only within the acquisition it stems from. The
strengthening says, per task, that its depth counts its open scopes plus what it
inherited, that a task sleeping in the semaphore has depth 0, that "sem" can only be the
outermost scope, and that `granted` and `waiters` hold distinct tasks that are not
holders. `Exclusion`, under `~Bypass` and `~Detach`, adds that a live task with a positive
depth has its `holder` among its `ancestors` or is it, and that creators outlive the tasks
they create.

`EventBus_proof`. `TypeOK` includes what a task at each place has (an event, a bus, a
handler), which makes it inductive. `NoLockLeaked` follows from who has to do with a lock
(`LockInv`): its owner is inside `step()` with the event lock, or in the call of a handler,
or sleeps in the `acquire()` that has just handed it the lock (`OwnersUse`); those queued
for it sleep in that `acquire()`, each once, and none is the owner (`WaitersWant`,
`WaitersDiffer`). A step either keeps everybody's place relative to the locks
(`LocksStay`), or takes, queues for, finds or passes one lock (`LockTaken`, `LockQueued`,
`LockFound`, `LockPassed`). At rest every task is outside, so nobody owns or awaits
anything. It holds with middlewares and cancellation too.

The second part of the module is under `Middlewares = FALSE`. `AtMostOnce` needs to relate
three places of the program. The invariant is the conjunction of: a task between select and
create has the cpu (`MidwayAlone`), so what it selected is still selectable
(`ChoiceFresh`); a task that runs a handler holds the event's handler lock
(`CallerHoldsLock`); a handler is running for an event exactly when its result is
`started` (`RunningIsStarted`, `StartedIsRunning`); a handler on a task's list has an
entry (`ChosenHasResult`); a handler that has run has a result that is not pending
(`RunsShown`); and a set signal means that all results are settled (`SignalSettled`). The
first is what middlewares break. `CompletedEventsAreQuiet` and `SettledResultsAreFinal`
follow from the same invariant.

`OneHandlerRuns` is about a lock that all buses share (`OneLock`): `global-serial`, and one
bus alone. A task of `now()` has the lock from the context of the handler that called it, so
that several tasks count it as held. Its invariant (`ForestInv`) is that the tasks are a
forest: each task of `now()` is awaited by at most one handler, and what is awaited exists
(`KidsThere`, `OneParent`), whoever has no handler above it is a bus or a loose `now()`
(`Rooted`), and who was let in by the lock owns it, as a bus inside of `step()` always is
(`Permit`). A task that awaits runs no body, so of two tasks that do, neither is above the
other: their ways up meet at a handler that awaits two `now()` at once, or end at a loose
one, for only one bus owns the lock. The theorem allows middlewares, forwarding and
`CancelledError`. It does not hold of a lock that some buses have and others do not, since a
task of `now()` may take its event on another bus, whose lock it does not have. That
handlers do run side by side under one lock is no artefact: in *fan* TLC reaches states in
which both children run.

`EventBus_life_proof`, under `Middlewares = FALSE`. `ParentAfterAwaitedChild` says that when
an event's signal is set, so are those of its awaited children. It needs that a child
becomes awaited only while its parent has a result that is started and the parent's signal
is not set, which comes from the invariants of `EventBus_proof` (`RunningIsStarted`,
`SignalSettled`), and that a tree is completed only as a whole (`CompletableTree`). The
refinement `BusesKeepPromise` is then a case per action: each changes results by one step of
`EventLife`, finishes a set of events, or leaves the three mapped variables alone.

The rest of the module is about what completion means. It first says how tasks can move at
all: `Moved` lists the ways from one task state to the next, `Kinds` the kinds of steps by
what they do to queues, in-flight sets, results and status. On these rest four invariants,
each on top of the earlier ones.

- `SInv`, for `AwaitedIsComplete`. `now()` also gives up when no bus has the event. That
  this never leaves an incomplete event needs that an event with the status "pending" is
  in the queue or in-flight set of some bus (`PendingInUse`), and that a result that is
  pending although no handler has begun belongs to a task that has the cpu
  (`PendingIsPicked`).
- `HInv`, for `CompleteMeansHandled`. A bus in an event's path either has the event to
  process or has chosen its handlers (`OpenIsHere`), and a task that is past its choice
  has handled the event there (`PastHandled`), so what is in nobody's set is handled. The
  theorem assumes `Unmixed`, that no event is both forwarded and a parent. The tree walk
  leaves one bus of the parent out of account (`event_bus.py:2187`), and without the
  assumption the parent can be complete while that bus has not begun: the run
  `EventBus_relay_completes_early` shows it.
- `CInv`, for `CompleteMeansConsumed`. An event is in a queue at most once and not after
  it was taken (`QueuedOnce`, `QueuedUntaken`), because each bus learns of it once
  (`ForwardersFresh`). This assumes, besides `Unmixed`, that of the handlers for an event
  at most one forwards it to a given bus (`OneForwarder`): with two, the second `emit`
  queues it again.
- `RInv`, for `NothingForgotten`, under `MayCancel = FALSE` and for finitely many events.
  Completion is noticed by whoever happens to be last, and the argument is about who has
  to look: an event that could be completed now (`Ready`) is owed for by a task that still
  has to look at it, at an event below it, or on the way up to it (`NothingOwed`, `Owes`).
  A step that makes an event ready leaves a task owing (`ReadyComes`, `OwedPropagate`,
  `OwedUnlock`). Besides, what a bus has in its sets is queued there or with a task
  (`UsedByTask`), and a pending result waits for a task (`PendingHasTask`). At rest no task
  owes, so no incomplete event is ready; but families have no cycle (`NoCycle`), so of the
  incomplete events one is lowest (`Lowest`, by well-founded induction over the finite
  set), and that one would be ready. With `MayCancel` it fails for good reason: a cancelled
  run loop leaves its event to nobody.
- `FInv`, for `FifoPerBus`, under `OneLock`, without forwarding and under
  `MayCancel = FALSE`. That a bus has one loop is not enough, for `now()` takes events out
  of the middle of the queue. The argument puts the forest and `RInv` together. An event
  that the bus has taken and that is not complete is still with a task, or one below it is
  (from `NothingOwed`, `UsedByTask`, and that an awaited child has a task,
  `AwaitedHasTask`). That task is at an event of this bus, since children stay on the bus
  of their parents (`ChildThere`). By `OneHandlerRuns` it stands in one of three ways to the
  task whose handler runs: above it or below, and then their events are
  (`UnderIsBelow`, because every task awaits a child of its event, `AwaitsChild`); beside
  it, and then both are for what one handler awaits at once (`SideBySideOrder`), for
  different children or for one, where the handler lock keeps them apart; or one of them
  works for a loose `now()`, which is exempt. With forwarding the property is false: a bus
  goes on to its next event while the one that it forwarded is unfinished elsewhere.

`HandlerRuns_proof`. All safety properties of the passing run are theorems, for any buses
and handlers and every assignment of modes, and so is the action property
`LateResultsIgnored`. None is inductive. The argument goes by who can still change a
result. A serial bus runs the head of its `todo` and nobody else, and holds the event's
handler lock while it does (`SerialRunsHead`, `RunsUnderLock`), which gives `SerialBodies`.
What has left `todo` is over and settled (`TodoIsOpen`, `EndedIsSettled`), and while a
parallel bus waits for a first result nothing on it has been cancelled
(`AwaitFirstUndisturbed`), so that a bus that only has to close has settled results
(`ClosingIsOver`): this gives `DoneMeansSettled` and, since a body that runs undisturbed is
waited for (`RunningIsAwaited`), `NoneLeftRunning` and `LateEmitsIgnored`. A result is open
until its run is over, unless a deadline of another bus settled it (`OpenUntilOver`), which
rests on the deadline being known before anything is cancelled for it
(`CancelledByDeadline`); and a winning result stays one (`CompletedIsEnded`,
`WinnerIsKnown`), for `CancelledForReason`. The serial loop's order of registration is a
minimum of a set of numbers, which exists by well-foundedness (`Least`).

`Retry_proof`. One invariant gives all of its safety properties. A step is first put down
to one call and one of eleven kinds (`StepKinds`); then each kind is shown to move at most
one body and one permit (`StepCounts`), from which conservation follows by counting
(`BodyCounted`, `PermitsCounted`). That a call which begins, waits or gives up has no
permit (`HoldersPlaced`), and that nobody waits for a counter under a scope of files
(`InPlace`), is what keeps permits from being taken twice. `NoSleeperForgotten` is
inductive: a permit is taken by a woken thread or by somebody else, and in both cases the
woken threads lose no more than the permits. `SlotsExclusive` needs that a call between
`os.open` and the write has an empty file of its own, that one on its way out has its
permit, and that without a dead process nobody unlinks (`OwnSlot`).

`Bridge_proof`. `ColumnsKnown` is about a running bridge, but what it claims starts when
`start()` reads the columns, a step before (`ColumnsExplained`), and rests on an emit adding
columns of its own event alone and only where there is a table (`ColumnsSought`).
`ClosedIsQuiet` needs that from the beginning of `close()` on a `start()` that goes on is a
caller's or was begun later (`Quiet`), and what of the bridge may be left until `close()`
ends: the subscriptions of Postgres and NATS (`Leftover`).

`ArrivesOnce` and `SameOrder` follow from a second invariant, `RInv`, that has two halves.
The file and the table of SQLite are read by position (`Keyed`): each event that was
written has one key, the place where its line ends or its row's key (`EndsOnce`, `Key`), and
what a bridge has handed on has rising keys, none of them behind the cursor
(`ReadsInOrder`); what a poll adds lies behind it (`PollLinesKeeps`, `PollRowsKeeps`). A
line in two parts ends once, and `pending` never holds an end, so that one that is read in
two polls is handed on once. From Postgres, Redis and NATS a subscriber hears: what it has
handed on and what is still in its inbox are one sequence, without repetition, and no two
subscribers have two events in different orders (`HearsOnce`, `HearAlike`), for an event is
sent in one step to all, and what a subscriber loses leaves the rest in order
(`BroadcastKeeps`, `ThinKeeps`).

`BusLife_proof`. The invariant (`BusInv`) says where an event can be: in the queue, or with
one who took it out (`Claims`) and who has marked it as in process from when he asks for the
lock (`Marked`). Of an event that was emitted once there is one such place (`Single`,
`OneCopy`): as long as the queue has it, nobody claims it and it has not run; as long as
somebody claims it, nobody else does. Steps are of few kinds, and each kind has a lemma for
all three: nothing is taken (`Quiet`), one is taken (`Take`, by `Tail` or `RemoveFirst`, both
a sequence without one place, `WithoutOne`), emitted (`Emitted`), begun, finished, or cut off
by a restart. That the moves of tasks fit a kind needs to know who sleeps in the queue
(`Sleepers`), that nothing exists before the first emit (`NotYet`) and that a destroyed bus
has nobody in the queue (`Closed`). `EventKept` is part of the invariant and `HandledOnce`
follows from it. For `IdleMeansDone`, only its own look at the bus tells a caller that the
bus is idle, though whoever sets the flag wakes it (`ToldByCheck`), and by `Marked` and
`Single` a bus without marks, tasks and a queue has nobody with an event but a `step()` that
has not marked it (`NobodyWorks`).

The rest of the module is about the history. `EventHistory` is written with loops as
recursive functions of the number of rounds; such a function exists and every round follows
from the one before (`Rounds`, `EveryRound` in `SequenceLemmas`, by well-foundedness of the
natural numbers), so that what a loop returns can be proved without an induction theorem.
`OnlyOfSeq` says what a filter over the history gives, `EnteredOfSeq` what a dump has,
and `TrimSizeRounds` what is left when the loop over leaves ends: in every round the leaves
are exactly what may be evicted from the rest, what is gone was spent and has no child in
the rest (`RoundOK`), and the rounds suffice since each makes the list shorter. For the
time to live, each deadline of the table is in the sorted queue (`Queued`), and the table is
right for the policy it was made for (`Current`, `RightOn`); an edit of `event_ttl` makes
the two differ, `Retrack` repairs it (`RetrackTimes`), and then what `TrimTtl` takes out is
what has expired (`TrimTtlTimes`).

On that rests `HistoryInv`: each event is in the history once and was emitted, its parent,
if it comes to this bus, was emitted before it (`ParentsFirst`), the deadlines are as above,
and until a restart everything that is not complete is in flight (`Flying`). `TypeOK`,
`SweepsTheExpired` and `EvictsOnlySpent` follow for every bus; the last allows one child to
find its parent gone, the event that comes with the same step, for its parent may be
complete and be what makes room. The other two properties are about buses to which no event
is emitted again (`Afresh`); TLC violates each of them on a bus that does so, for the
reasons given above. There an event that comes was never here and is not complete
(`EmitsAfresh`). `FindMissesNothing` needs that an event that comes makes no other a
descendant of anything: whoever is in the history has no gap above it that a new event could
close (`NoNewChild`). For `HistoryBounded` three bounds are inductive together: a history
that may not drop had room for what came (`Never`), one of size zero has nothing complete
(`Zero`), and one that may drop is trimmed at the last moment (`AtLast`), because only the
end of a task can drain the bus (`WasDrained`, from `Flying`) and every end counts a change.
Only the third needs `Afresh`, hence the weaker hypothesis `DropsAfresh`.

Exempt in the properties and so neither checked nor proved: the order and the exclusion of
what a loose `now()` runs, and bridges started again behind a `close()`, for
`ClosedIsQuiet`. Only model-checked: `FindMissesNothing` on the bus of size zero that emits
events again; and liveness, which TLAPS cannot prove.

## Plan

Done: the modules above, their runs, the refinement of `EventLife` and the proofs. Next:

1. Parallel events together with forwarding and awaited children.
2. Registration of handlers while events run.

## Not modelled

Logging, schemas and typed events (no state). Middlewares beyond their suspension: what they
write is I/O. Handler registration: `Rank` is the order of registration, and `on`/`off` while
events run are only seen as the middleware tasks they start. The Tachyon, HTTP and socket
bridges: the first wraps a database this repository does not contain, the others send one
request per event and keep no cursor. `log_tree` and the other printers. The recursion check
of `_would_create_loop`: no instance has a handler that runs for an event and its ancestor.
Times to live of single events and handlers. The TypeScript, Go and Rust ports, which are
separate implementations of the same design.
