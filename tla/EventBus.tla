------------------------------ MODULE EventBus ------------------------------
(***************************************************************************)
(* Buses that queue, forward and process events: src/abxbus/event_bus.py   *)
(* with the completion and queue-jump logic of base_event.py.              *)
(*                                                                         *)
(* asyncio runs one task at a time and switches only where a task suspends *)
(* in an `await`.  cpu is the task that is running between two of its      *)
(* suspensions, so every function of the code is an action of its own and  *)
(* nothing else runs between two actions that the code runs in one go.     *)
(*                                                                         *)
(* A bus is its own run loop task.  A jumper is the task that now() creates*)
(* to process an event ahead of the queues.  A handler's body runs while   *)
(* the task that called it waits for it, and is part of that task here; it *)
(* may have several now() under way at once, and go on without one of them *)
(* (now(timeout), now(first_result), a task of its own).                   *)
(* Handlers run serially; deadlines of handlers and events, history        *)
(* trimming and destroy() are not in this module.                          *)
(***************************************************************************)
EXTENDS Naturals, Sequences, SequencesExt

CONSTANTS
    Bus, Event, Handler, Jumper, Lock,
    NoBus, NoEvent, NoHandler, NoTask,
    HandlersFor,   \* [Bus -> [Event -> SUBSET Handler]]: handlers_by_key
    Rank,          \* [Handler -> Nat]: order of registration
    Target,        \* [Handler -> Bus or NoBus]: the bus a forwarding handler emits on
    LockOf,        \* [Bus -> Lock]: bus-serial (a lock each) or global-serial (shared)
    Root,          \* [Bus -> SUBSET Event]: the events emitted on it from outside
    Emits,         \* [Handler -> SUBSET Event]: the events its body may emit
    Watched,       \* events that now() is called on outside of handlers
    Middlewares,   \* TRUE: buses have middlewares, whose hooks may suspend
    MayCancel,     \* TRUE: handlers may end in CancelledError
    MayLeave,      \* TRUE: handlers may go on without a now() that they began
    MayRepeat      \* TRUE: several now() of one child may be under way at once

Task == Bus \cup Jumper

ASSUME NamesAssumption ==
    /\ Bus \cap Jumper = {} /\ Lock \cap Event = {}
    /\ NoBus \notin Bus /\ NoEvent \notin Event
    /\ NoHandler \notin Handler /\ NoTask \notin Task
ASSUME HandlerAssumption ==
    /\ HandlersFor \in [Bus -> [Event -> SUBSET Handler]]
    /\ Rank \in [Handler -> Nat]
    /\ Target \in [Handler -> Bus \cup {NoBus}]
ASSUME LockAssumption == LockOf \in [Bus -> Lock]
ASSUME EmitAssumption ==
    /\ Root \in [Bus -> SUBSET Event] /\ Watched \subseteq Event
    /\ Emits \in [Handler -> SUBSET Event]
ASSUME FlagAssumption == {Middlewares, MayCancel, MayLeave, MayRepeat} \subseteq BOOLEAN

VARIABLES
    queue,      \* pending_event_queue of each bus
    inflight,   \* in_flight_event_ids
    processing, \* processing_event_ids
    status,     \* event_status; "new" before the first emit
    signal,     \* event_completed_signal is set
    result,     \* status of event_results[h]; "none" when there is no entry
    runs,       \* history variable: times h was started for e (2: or more)
    path,       \* event_path; the buses whose history holds the event
    parent,     \* event_parent_id
    link,       \* the handler whose result has the event in event_children
    blocks,     \* event_blocks_parent_completion
    owner,      \* who holds each event lock, and each event's handler lock
    waiting,    \* who sleeps in the acquire() of each lock, oldest first
    held,       \* event locks each task's context counts as held
    task,       \* where each task is
    cpu         \* the task that is running between two suspensions

busVars == <<queue, inflight, processing>>
eventVars == <<status, signal, path, parent, link, blocks>>
resultVars == <<result, runs>>
lockVars == <<owner, waiting, held>>
vars == <<busVars, eventVars, resultVars, lockVars, task, cpu>>

Status == {"new", "pending", "started", "completed"}
ResultStatus == {"none", "pending", "started", "completed", "error"}
Terminal == {"completed", "error"}

PC == {"get", "poll", "idle", "lock", "lockwait", "check", "select", "create",
       "next", "hwait", "start", "body", "await", "sent", "end", "unlock", "prop",
       "after", "sigwait", "done", "failed", "dead"}

\* Places at which a task has an event to process on a bus.
Working == {"lock", "lockwait", "check", "select", "create", "next", "hwait",
            "start", "body", "await", "sent", "end", "unlock", "prop", "after"}

TaskState ==
    [pc : PC, ev : Event \cup {NoEvent}, bus : Bus \cup {NoBus},
     todo : SUBSET Handler, cur : Handler \cup {NoHandler},
     how : {"none", "owned", "nested", "bypass"}, claimed : SUBSET Bus,
     kids : SUBSET Jumper, up : Event \cup {NoEvent}, exc : BOOLEAN]

Fresh(p) ==
    [pc |-> p, ev |-> NoEvent, bus |-> NoBus, todo |-> {}, cur |-> NoHandler,
     how |-> "none", claimed |-> {}, kids |-> {}, up |-> NoEvent, exc |-> FALSE]

Init ==
    /\ queue = [b \in Bus |-> <<>>]
    /\ inflight = [b \in Bus |-> {}]
    /\ processing = [b \in Bus |-> {}]
    /\ status = [e \in Event |-> "new"]
    /\ signal = [e \in Event |-> FALSE]
    /\ result = [e \in Event |-> [h \in Handler |-> "none"]]
    /\ runs = [e \in Event |-> [h \in Handler |-> 0]]
    /\ path = [e \in Event |-> {}]
    /\ parent = [e \in Event |-> NoEvent]
    /\ link = [e \in Event |-> NoHandler]
    /\ blocks = [e \in Event |-> FALSE]
    /\ owner = [l \in Lock \cup Event |-> NoTask]
    /\ waiting = [l \in Lock \cup Event |-> <<>>]
    /\ held = [t \in Task |-> {}]
    /\ task = [t \in Task |-> Fresh(IF t \in Bus THEN "get" ELSE "idle")]
    /\ cpu = NoTask

-----------------------------------------------------------------------------
(* Scheduling: t runs when nobody does, until one of its steps suspends. *)

At(t, p) == task[t].pc = p /\ cpu \in {NoTask, t}

RunOn(t) == cpu' = t
Suspend == cpu' = NoTask
\* A call of the middleware hooks.
Hook(t) == cpu' = IF Middlewares THEN NoTask ELSE t

Goto(t, p) == task' = [task EXCEPT ![t].pc = p]

\* asyncio.Semaphore hands the permit to its oldest waiter.
Released(l) ==
    /\ owner' = [owner EXCEPT ![l] = IF waiting[l] = <<>> THEN NoTask ELSE Head(waiting[l])]
    /\ waiting' = [waiting EXCEPT ![l] = IF @ = <<>> THEN @ ELSE Tail(@)]

-----------------------------------------------------------------------------
(* Completion *)

\* Mutant: events still in a queue are not counted.
InUseUnqueued(b, e) == e \in inflight[b] \cap processing[b]

InUse(b, e) == e \in inflight[b] \cup processing[b] \cup Range(queue[b])

\* The events below e, down the children in L.
Below(e, L) ==
    {d \in L : \A S \in SUBSET L :
        (\A c \in L : parent[c] \in S \cup {e} => c \in S) => d \in S}

Linked == {c \in Event : link[c] # NoHandler}
Blocking == {c \in Linked : blocks[c]}

\* Mutants: the handlers, or the other buses, are not asked.
ResultsReadyAnyhow(e, ignored) == \A b \in Bus \ ignored : ~InUse(b, e)
ResultsReadyHere(e, ignored) == \A h \in Handler : result[e][h] \in Terminal \cup {"none"}

\* The handlers of e are done and no bus but those ignored has it to process.
ResultsReady(e, ignored) ==
    /\ \A h \in Handler : result[e][h] \in Terminal \cup {"none"}
    /\ \A b \in Bus \ ignored : ~InUse(b, e)

\* _mark_completed on one event.
Completable(e, ignored) ==
    /\ status[e] # "completed"
    /\ \/ signal[e]
       \/ /\ ResultsReady(e, ignored)
          /\ \A d \in Below(e, Blocking) : status[d] = "completed"

\* _mark_completed on the tree under root, children first.  Only the root may
\* still be in use on the bus b that finalizes it.
CompletableTree(root, b) ==
    {d \in {root} \cup Below(root, Linked) :
        /\ status[d] # "completed"
        /\ \/ signal[d]
           \/ \A x \in {d} \cup Below(d, Blocking) :
                 \/ status[x] = "completed" \/ signal[x]
                 \/ ResultsReady(x, IF x = root THEN {b} ELSE {})}

\* The events of S are marked complete, on all buses.
Complete(S) ==
    /\ status' = [e \in Event |-> IF e \in S THEN "completed" ELSE status[e]]
    /\ signal' = [e \in Event |-> e \in S \/ signal[e]]
    /\ UNCHANGED <<path, parent, link, blocks>>

-----------------------------------------------------------------------------
(* Emitting *)

\* emit() on bus b, by a handler of event p under result h or from outside.
\* A completed event is only noted in the history; a run loop that died is
\* started again.
Emit(b, e, p, h) ==
    /\ path' = [path EXCEPT ![e] = @ \cup {b}]
    /\ parent' = [parent EXCEPT ![e] = p]
    /\ link' = [link EXCEPT ![e] = h]
    /\ IF status[e] = "completed"
       THEN UNCHANGED <<queue, inflight, status>>
       ELSE /\ queue' = [queue EXCEPT ![b] = Append(@, e)]
            /\ inflight' = [inflight EXCEPT ![b] = @ \cup {e}]
            /\ status' = [status EXCEPT ![e] = IF @ = "new" THEN "pending" ELSE @]
    /\ UNCHANGED <<processing, signal, blocks>>

Restarted(b, r) == IF r[b].pc = "dead" THEN [r EXCEPT ![b] = Fresh("get")] ELSE r

ExtEmit(b, e) ==
    /\ cpu = NoTask
    /\ e \in Root[b] /\ status[e] = "new"
    /\ Emit(b, e, NoEvent, NoHandler)
    /\ task' = Restarted(b, task)
    /\ UNCHANGED <<resultVars, lockVars, cpu>>

-----------------------------------------------------------------------------
(* The run loop takes the head of its queue *)

LoopGet(b) ==
    /\ At(b, "get")
    /\ queue[b] # <<>>
    /\ LET e == Head(queue[b]) IN
       /\ queue' = [queue EXCEPT ![b] = Tail(@)]
       /\ processing' = [processing EXCEPT ![b] = @ \cup {e}]
       /\ task' = [task EXCEPT ![b] = [Fresh("lock") EXCEPT !.ev = e, !.bus = b]]
    /\ RunOn(b)
    /\ UNCHANGED <<inflight, eventVars, resultVars, lockVars>>

\* step(): the event lock, re-entered when the context already holds it.
EnterLock(t) ==
    /\ At(t, "lock")
    /\ LET l == LockOf[task[t].bus] IN
       \/ /\ l \in held[t]
          /\ task' = [task EXCEPT ![t].pc = "check", ![t].how = "nested"]
          /\ RunOn(t)
          /\ UNCHANGED lockVars
       \/ /\ l \notin held[t] /\ owner[l] = NoTask
          /\ owner' = [owner EXCEPT ![l] = t]
          /\ held' = [held EXCEPT ![t] = @ \cup {l}]
          /\ task' = [task EXCEPT ![t].pc = "check", ![t].how = "owned"]
          /\ RunOn(t)
          /\ UNCHANGED waiting
       \/ /\ l \notin held[t] /\ owner[l] # NoTask
          /\ waiting' = [waiting EXCEPT ![l] = Append(@, t)]
          /\ Goto(t, "lockwait")
          /\ Suspend
          /\ UNCHANGED <<owner, held>>
    /\ UNCHANGED <<busVars, eventVars, resultVars>>

LockGranted(t) ==
    /\ At(t, "lockwait")
    /\ LET l == LockOf[task[t].bus] IN
       /\ owner[l] = t
       /\ held' = [held EXCEPT ![t] = @ \cup {l}]
    /\ task' = [task EXCEPT ![t].pc = "check", ![t].how = "owned"]
    /\ RunOn(t)
    /\ UNCHANGED <<busVars, eventVars, resultVars, owner, waiting>>

\* An event completed while its step waited for the lock is not processed.
Check(t) ==
    /\ At(t, "check")
    /\ Goto(t, IF signal[task[t].ev] THEN "unlock" ELSE "select")
    /\ RunOn(t)
    /\ UNCHANGED <<busVars, eventVars, resultVars, lockVars>>

-----------------------------------------------------------------------------
(* _process_event *)

\* Mutant: handlers that have a result run again.
WouldCreateLoopByPath(e, h) == Target[h] \in path[e]

WouldCreateLoop(e, h) ==
    \/ Target[h] \in path[e]
    \/ result[e][h] \in {"started"} \cup Terminal
    \/ result[e][h] = "pending" /\ status[e] = "started"

Select(t) ==
    /\ At(t, "select")
    /\ LET e == task[t].ev IN
       task' = [task EXCEPT ![t].pc = "create",
                            ![t].todo = {h \in HandlersFor[task[t].bus][e] : ~WouldCreateLoop(e, h)}]
    /\ Hook(t)
    /\ UNCHANGED <<busVars, eventVars, resultVars, lockVars>>

\* _create_pending_handler_results resets the selected results and reopens a
\* completed event.  Without handlers the slow-event monitor is awaited next.
Create(t) ==
    /\ At(t, "create")
    /\ LET e == task[t].ev  hs == task[t].todo IN
       IF hs = {}
       THEN Goto(t, "end") /\ Suspend /\ UNCHANGED <<result, status>>
       ELSE /\ result' = [result EXCEPT ![e] =
                             [h \in Handler |-> IF h \in hs THEN "pending" ELSE @[h]]]
            /\ status' = [status EXCEPT ![e] = IF @ = "completed" THEN "pending" ELSE @]
            /\ Goto(t, "next")
            /\ Hook(t)
    /\ UNCHANGED <<busVars, signal, path, parent, link, blocks, runs, lockVars>>

\* The next handler in order of registration, under the event's handler lock.
NextHandler(t) ==
    /\ At(t, "next")
    /\ LET e == task[t].ev  hs == task[t].todo IN
       \/ /\ hs = {}
          /\ Goto(t, "end") /\ Suspend
          /\ UNCHANGED lockVars
       \/ \E h \in hs :
          /\ \A g \in hs : Rank[h] <= Rank[g]
          /\ IF owner[e] = NoTask
             THEN /\ owner' = [owner EXCEPT ![e] = t]
                  /\ task' = [task EXCEPT ![t].pc = "start", ![t].cur = h, ![t].todo = hs \ {h}]
                  /\ RunOn(t)
                  /\ UNCHANGED <<waiting, held>>
             ELSE /\ waiting' = [waiting EXCEPT ![e] = Append(@, t)]
                  /\ task' = [task EXCEPT ![t].pc = "hwait", ![t].cur = h, ![t].todo = hs \ {h}]
                  /\ Suspend
                  /\ UNCHANGED <<owner, held>>
    /\ UNCHANGED <<busVars, eventVars, resultVars>>

HandlerLockGranted(t) ==
    /\ At(t, "hwait")
    /\ owner[task[t].ev] = t
    /\ Goto(t, "start")
    /\ RunOn(t)
    /\ UNCHANGED <<busVars, eventVars, resultVars, lockVars>>

\* run_handler: a result somebody else has settled is not run again.
Start(t) ==
    /\ At(t, "start")
    /\ LET e == task[t].ev  h == task[t].cur IN
       IF result[e][h] \in Terminal
       THEN /\ Released(e)
            /\ task' = [task EXCEPT ![t].pc = "next", ![t].cur = NoHandler]
            /\ Hook(t)
            /\ UNCHANGED <<resultVars, status>>
       ELSE /\ result' = [result EXCEPT ![e][h] = "started"]
            /\ runs' = [runs EXCEPT ![e][h] = IF @ < 2 THEN @ + 1 ELSE @]
            /\ status' = [status EXCEPT ![e] = IF @ = "pending" THEN "started" ELSE @]
            /\ Goto(t, "body")
            /\ Suspend
            /\ UNCHANGED <<owner, waiting>>
    /\ UNCHANGED <<busVars, signal, path, parent, link, blocks, held>>

\* The handler has returned or raised: its result is settled, its lock released.
Settle(t, r) ==
    LET e == task[t].ev  h == task[t].cur IN
    /\ result' = [result EXCEPT ![e][h] = r]
    /\ Released(e)
    /\ UNCHANGED <<runs, held>>

Returned(t) == [task EXCEPT ![t].pc = "next", ![t].cur = NoHandler]

-----------------------------------------------------------------------------
(* What handlers do *)

InBody(t) == At(t, "body") /\ cpu = NoTask
\* Of a handler that awaits, other parts may go on: asyncio.gather, its own tasks.
InHandler(t) == (At(t, "body") \/ At(t, "await")) /\ cpu = NoTask

\* A forwarding handler: `bus.on('*', other_bus.emit)`.
HForward(t) ==
    /\ InBody(t)
    /\ LET e == task[t].ev  b == Target[task[t].cur] IN
       /\ b # NoBus
       /\ Emit(b, e, parent[e], link[e])
       /\ task' = Restarted(b, [task EXCEPT ![t].pc = "sent"])
    /\ UNCHANGED <<resultVars, lockVars, cpu>>

\* event.emit(child) in a handler.
HEmit(t, c) ==
    /\ InHandler(t)
    /\ Target[task[t].cur] = NoBus
    /\ c \in Emits[task[t].cur] /\ status[c] = "new"
    /\ LET e == task[t].ev  h == task[t].cur IN
       Emit(task[t].bus, c, e, IF result[e][h] \in {"pending", "started"} THEN h ELSE NoHandler)
    /\ task' = Restarted(task[t].bus, task)
    /\ UNCHANGED <<resultVars, lockVars, cpu>>

\* Mutant: the task of now() starts with a clean context.
HAwaitCleanContext(t, c, j) ==
    /\ InHandler(t)
    /\ parent[c] = task[t].ev /\ link[c] = task[t].cur
    /\ status[c] # "completed"
    /\ MayRepeat \/ \A k \in Jumper : task[k].ev # c
    /\ task[j].pc = "idle"
    /\ blocks' = [blocks EXCEPT ![c] = TRUE]
    /\ task' = [task EXCEPT ![t].pc = "await", ![t].kids = @ \cup {j},
                            ![j] = [Fresh("poll") EXCEPT !.ev = c]]
    /\ UNCHANGED <<busVars, status, signal, path, parent, link, resultVars, lockVars, cpu>>

\* child.now() in the handler that emitted it: the child blocks the parent, and
\* a task that inherits the handler's context processes it.
HAwait(t, c, j) ==
    /\ InHandler(t)
    /\ parent[c] = task[t].ev /\ link[c] = task[t].cur
    /\ status[c] # "completed"
    /\ MayRepeat \/ \A k \in Jumper : task[k].ev # c
    /\ task[j].pc = "idle"
    /\ blocks' = [blocks EXCEPT ![c] = TRUE]
    /\ held' = [held EXCEPT ![j] = held[t] \cup {LockOf[task[t].bus]}]
    /\ task' = [task EXCEPT ![t].pc = "await", ![t].kids = @ \cup {j},
                            ![j] = [Fresh("poll") EXCEPT !.ev = c]]
    /\ UNCHANGED <<busVars, status, signal, path, parent, link, resultVars, owner, waiting, cpu>>

\* The handler no longer waits for j.
Without(t, j) ==
    [task EXCEPT ![t].pc = IF task[t].kids = {j} THEN "body" ELSE "await", ![t].kids = @ \ {j}]

HResume(t) ==
    /\ At(t, "await") /\ cpu = NoTask
    /\ \E j \in task[t].kids :
       /\ task[j].pc = "done"
       /\ held' = [held EXCEPT ![j] = {}]
       /\ task' = [Without(t, j) EXCEPT ![j] = Fresh("idle")]
    /\ UNCHANGED <<busVars, eventVars, resultVars, owner, waiting, cpu>>

\* now() returned or raised without its task, or nobody waits for it.
HLeave(t) ==
    /\ MayLeave
    /\ At(t, "await") /\ cpu = NoTask
    /\ \E j \in task[t].kids : task' = Without(t, j)
    /\ UNCHANGED <<busVars, eventVars, resultVars, lockVars, cpu>>

HReturn(t) ==
    /\ cpu = NoTask
    /\ \/ At(t, "body") /\ Target[task[t].cur] = NoBus /\ \E r \in Terminal : Settle(t, r)
       \/ At(t, "sent") /\ Settle(t, "completed")
    /\ task' = Returned(t)
    /\ Hook(t)
    /\ UNCHANGED <<busVars, eventVars>>

\* Mutant: the handler lock is kept.
InterruptedLocked(t) ==
    /\ result' = [result EXCEPT ![task[t].ev][task[t].cur] = "error"]
    /\ Suspend
    /\ UNCHANGED <<busVars, eventVars, runs, lockVars>>

\* CancelledError leaves the handler, the other handlers and step().
Interrupted(t) ==
    /\ Settle(t, "error")
    /\ Suspend
    /\ UNCHANGED <<busVars, eventVars>>

HCancel(t) ==
    /\ MayCancel
    /\ InBody(t)
    /\ Target[task[t].cur] = NoBus
    /\ Interrupted(t)
    /\ task' = [task EXCEPT ![t].pc = "unlock", ![t].cur = NoHandler, ![t].todo = {}, ![t].exc = TRUE]

\* Other now() of the handler are left to themselves.
HAwaitCancelled(t) ==
    /\ At(t, "await") /\ cpu = NoTask
    /\ Interrupted(t)
    /\ \E j \in task[t].kids :
       /\ task[j].pc = "failed"
       /\ task' = [task EXCEPT ![t].pc = "unlock", ![t].cur = NoHandler, ![t].todo = {}, ![t].exc = TRUE,
                               ![t].kids = {}, ![j] = Fresh("idle")]

-----------------------------------------------------------------------------
(* The end of an event on a bus *)

\* _mark_event_complete_if_ready
End(t) ==
    /\ At(t, "end")
    /\ LET e == task[t].ev IN
       IF Completable(e, {task[t].bus})
       THEN /\ Complete({e})
            /\ inflight' = [b \in Bus |-> inflight[b] \ {e}]
            /\ Hook(t)
       ELSE UNCHANGED <<inflight, eventVars>> /\ RunOn(t)
    /\ Goto(t, "unlock")
    /\ UNCHANGED <<queue, processing, resultVars, lockVars>>

\* Mutant: a step that was let in by its context releases the lock too.
UnlockNested(t) ==
    /\ At(t, "unlock")
    /\ LET e == task[t].ev  b == task[t].bus  l == LockOf[b] IN
       /\ IF task[t].how \in {"owned", "nested"}
          THEN Released(l) /\ held' = [held EXCEPT ![t] = @ \ {l}]
          ELSE UNCHANGED lockVars
       /\ processing' = [processing EXCEPT ![b] = @ \ {e}]
       /\ inflight' = [inflight EXCEPT ![b] = @ \ {e}]
       /\ task' = [task EXCEPT ![t].pc = "prop", ![t].up = e, ![t].how = "none"]
    /\ RunOn(t)
    /\ UNCHANGED <<queue, eventVars, resultVars>>

\* Mutant: the event stays in flight.
UnlockInFlight(t) ==
    /\ At(t, "unlock")
    /\ LET e == task[t].ev  b == task[t].bus  l == LockOf[b] IN
       /\ IF task[t].how = "owned"
          THEN Released(l) /\ held' = [held EXCEPT ![t] = @ \ {l}]
          ELSE UNCHANGED lockVars
       /\ processing' = [processing EXCEPT ![b] = @ \ {e}]
       /\ task' = [task EXCEPT ![t].pc = "prop", ![t].up = e, ![t].how = "none"]
    /\ RunOn(t)
    /\ UNCHANGED <<queue, inflight, eventVars, resultVars>>

\* Leaving the event lock, then _finalize_local_event_processing.
Unlock(t) ==
    /\ At(t, "unlock")
    /\ LET e == task[t].ev  b == task[t].bus  l == LockOf[b]
           newly == CompletableTree(e, b) IN
       /\ IF task[t].how = "owned"
          THEN Released(l) /\ held' = [held EXCEPT ![t] = @ \ {l}]
          ELSE UNCHANGED lockVars
       /\ processing' = [processing EXCEPT ![b] = @ \ {e}]
       /\ inflight' = [a \in Bus |-> inflight[a] \ (newly \cup IF a = b THEN {e} ELSE {})]
       /\ Complete(newly)
       /\ task' = [task EXCEPT ![t].pc = "prop", ![t].up = e, ![t].how = "none"]
       /\ IF newly = {} THEN RunOn(t) ELSE Hook(t)
    /\ UNCHANGED <<queue, resultVars>>

\* _propagate_parent_completion, one ancestor at a time.  The parent is looked
\* up in the history of some bus, and that bus is the one whose own queue and
\* in-flight sets are ignored.
Propagate(t) ==
    /\ At(t, "prop")
    /\ LET above == parent[task[t].up] IN
       IF above = NoEvent
       THEN /\ Goto(t, "after") /\ RunOn(t)
            /\ UNCHANGED <<inflight, eventVars>>
       ELSE /\ task' = [task EXCEPT ![t].up = above]
            /\ \E pb \in path[above] :
               IF Completable(above, {pb})
               THEN /\ Complete({above})
                    /\ inflight' = [b \in Bus |-> inflight[b] \ {above}]
                    /\ Hook(t)
               ELSE UNCHANGED <<inflight, eventVars>> /\ RunOn(t)
    /\ UNCHANGED <<queue, processing, resultVars, lockVars>>

\* The run loop turns to its queue, or ends after a CancelledError; a jumper
\* looks again for its event.
LoopAgain(b) ==
    /\ At(b, "after")
    /\ task' = [task EXCEPT ![b] = Fresh(IF task[b].exc THEN "dead" ELSE "get")]
    /\ cpu' = IF queue[b] = <<>> \/ task[b].exc THEN NoTask ELSE b
    /\ UNCHANGED <<busVars, eventVars, resultVars, lockVars>>

JumpAgain(j) ==
    /\ At(j, "after")
    /\ IF task[j].exc
       THEN Goto(j, "failed") /\ Suspend
       ELSE task' = [task EXCEPT ![j] = [Fresh("poll") EXCEPT !.ev = task[j].ev, !.claimed = task[j].claimed]]
            /\ RunOn(j)
    /\ UNCHANGED <<busVars, eventVars, resultVars, lockVars>>

-----------------------------------------------------------------------------
(* Queue-jump: _process_self_on_all_buses *)

\* now() called outside the handlers.
ExtAwait(j, e) ==
    /\ cpu = NoTask
    /\ e \in Watched
    /\ task[j].pc = "idle" /\ status[e] \in {"pending", "started"}
    /\ task' = [task EXCEPT ![j] = [Fresh("poll") EXCEPT !.ev = e]]
    /\ UNCHANGED <<busVars, eventVars, resultVars, lockVars, cpu>>

Polling(j) == At(j, "poll") /\ ~signal[task[j].ev]

\* Mutant: only the head of the queue is taken.
JumpTakeHead(j, b) ==
    /\ Polling(j)
    /\ LET e == task[j].ev IN
       /\ queue[b] # <<>> /\ Head(queue[b]) = e
       /\ queue' = [queue EXCEPT ![b] = Tail(@)]
       /\ processing' = [processing EXCEPT ![b] = @ \cup {e}]
       /\ task' = [task EXCEPT ![j].pc = "select", ![j].bus = b, ![j].how = "bypass"]
    /\ RunOn(j)
    /\ UNCHANGED <<inflight, eventVars, resultVars, lockVars>>

\* Mutant: whatever is next in the queue is processed.
JumpTakeNext(j, b) ==
    /\ Polling(j)
    /\ task[j].ev \in Range(queue[b])
    /\ LET e == Head(queue[b]) IN
       /\ queue' = [queue EXCEPT ![b] = Tail(@)]
       /\ processing' = [processing EXCEPT ![b] = @ \cup {e}]
       /\ task' = [task EXCEPT ![j].pc = "select", ![j].ev = e, ![j].bus = b, ![j].how = "bypass"]
    /\ RunOn(j)
    /\ UNCHANGED <<inflight, eventVars, resultVars, lockVars>>

\* The event is in bus b's queue: take it out and process it without the lock.
JumpTake(j, b) ==
    /\ Polling(j)
    /\ LET e == task[j].ev IN
       /\ \E i \in 1..Len(queue[b]) :
             /\ queue[b][i] = e /\ \A k \in 1..(i - 1) : queue[b][k] # e
             /\ queue' = [queue EXCEPT ![b] = RemoveAt(@, i)]
       /\ processing' = [processing EXCEPT ![b] = @ \cup {e}]
       /\ task' = [task EXCEPT ![j].pc = "select", ![j].bus = b, ![j].how = "bypass"]
    /\ RunOn(j)
    /\ UNCHANGED <<inflight, eventVars, resultVars, lockVars>>

\* Another task of bus b has the event: step() it once, behind the event lock.
CanJoin(j, b) ==
    LET e == task[j].ev IN
    e \notin Range(queue[b]) /\ e \in processing[b] /\ b \notin task[j].claimed

JumpJoin(j, b) ==
    /\ Polling(j)
    /\ CanJoin(j, b)
    /\ task' = [task EXCEPT ![j].pc = "lock", ![j].bus = b, ![j].claimed = @ \cup {b}]
    /\ RunOn(j)
    /\ UNCHANGED <<busVars, eventVars, resultVars, lockVars>>

NothingToDo(j) ==
    /\ Polling(j)
    /\ \A b \in Bus : task[j].ev \notin Range(queue[b]) /\ ~CanJoin(j, b)

JumpYield(j) ==
    /\ NothingToDo(j)
    /\ cpu = j
    /\ Suspend
    /\ UNCHANGED <<busVars, eventVars, resultVars, lockVars, task>>

\* Mutant: the wait for the signal is left out.
JumpGiveUpAtOnce(j) ==
    /\ NothingToDo(j)
    /\ Goto(j, "done")
    /\ Suspend
    /\ UNCHANGED <<busVars, eventVars, resultVars, lockVars>>

\* After 1000 rounds the poll turns into a wait for the signal, or ends.
JumpGiveUp(j) ==
    /\ NothingToDo(j)
    /\ LET e == task[j].ev IN
       Goto(j, IF status[e] = "started" \/ \E b \in Bus : InUse(b, e) THEN "sigwait" ELSE "done")
    /\ Suspend
    /\ UNCHANGED <<busVars, eventVars, resultVars, lockVars>>

JumpDone(j) ==
    /\ At(j, "poll") \/ At(j, "sigwait")
    /\ signal[task[j].ev]
    /\ Goto(j, "done")
    /\ Suspend
    /\ UNCHANGED <<busVars, eventVars, resultVars, lockVars>>

-----------------------------------------------------------------------------
Process(t) ==
    \/ EnterLock(t) \/ LockGranted(t) \/ Check(t)
    \/ Select(t) \/ Create(t) \/ NextHandler(t) \/ HandlerLockGranted(t) \/ Start(t)
    \/ End(t) \/ Unlock(t) \/ Propagate(t)

Body(t) ==
    \/ HForward(t) \/ HReturn(t) \/ HResume(t) \/ HLeave(t) \/ HCancel(t) \/ HAwaitCancelled(t)
    \/ \E c \in Event : HEmit(t, c)
    \/ \E c \in Event, j \in Jumper : HAwait(t, c, j)

Jump(j) ==
    \/ JumpYield(j) \/ JumpGiveUp(j) \/ JumpDone(j) \/ JumpAgain(j)
    \/ \E b \in Bus : JumpTake(j, b) \/ JumpJoin(j, b)

Outside ==
    \/ \E b \in Bus, e \in Event : ExtEmit(b, e)
    \/ \E j \in Jumper, e \in Event : ExtAwait(j, e)

Next ==
    \/ \E t \in Task : Process(t) \/ Body(t)
    \/ \E b \in Bus : LoopGet(b) \/ LoopAgain(b)
    \/ \E j \in Jumper : Jump(j)
    \/ Outside

Spec == Init /\ [][Next]_vars

\* asyncio runs its ready tasks in the order they became ready, so a task that
\* can run again and again does run; and handlers return.
Runs(t) ==
    \/ Process(t) \/ HForward(t) \/ HReturn(t) \/ HResume(t)
    \/ t \in Bus /\ (LoopGet(t) \/ LoopAgain(t))
    \/ t \in Jumper /\ (JumpYield(t) \/ JumpDone(t) \/ JumpAgain(t))
    \/ t \in Jumper /\ \E b \in Bus : JumpTake(t, b) \/ JumpJoin(t, b)

Fairness == \A t \in Task : SF_vars(Runs(t))

FairSpec == Spec /\ Fairness
-----------------------------------------------------------------------------
(* Properties *)

\* What a task at each place is sure to have.
TaskOK(t, s) ==
    /\ s.pc \in Working => s.ev \in Event /\ s.bus \in Bus /\ (t \in Bus => s.bus = t)
    /\ s.pc \in {"hwait", "start", "body", "await", "sent"} => s.cur \in Handler
    /\ s.pc = "await" <=> s.kids # {}
    /\ s.pc = "prop" => s.up \in Event
    /\ s.pc \in {"poll", "sigwait", "done", "failed"} => t \in Jumper /\ s.ev \in Event
    /\ s.pc = "idle" => t \in Jumper
    /\ s.pc \in {"get", "dead"} => t \in Bus

TypeOK ==
    /\ queue \in [Bus -> Seq(Event)]
    /\ inflight \in [Bus -> SUBSET Event]
    /\ processing \in [Bus -> SUBSET Event]
    /\ status \in [Event -> Status]
    /\ signal \in [Event -> BOOLEAN]
    /\ result \in [Event -> [Handler -> ResultStatus]]
    /\ runs \in [Event -> [Handler -> 0..2]]
    /\ path \in [Event -> SUBSET Bus]
    /\ parent \in [Event -> Event \cup {NoEvent}]
    /\ link \in [Event -> Handler \cup {NoHandler}]
    /\ blocks \in [Event -> BOOLEAN]
    /\ owner \in [Lock \cup Event -> Task \cup {NoTask}]
    /\ waiting \in [Lock \cup Event -> Seq(Task)]
    /\ held \in [Task -> SUBSET Lock]
    /\ task \in [Task -> TaskState]
    /\ \A t \in Task : TaskOK(t, task[t])
    /\ cpu \in Task \cup {NoTask}

\* A handler runs at most once for an event, whichever tasks process the event
\* and on however many buses (_would_create_loop, EventResult.run_handler).
AtMostOnce == \A e \in Event, h \in Handler : runs[e][h] <= 1

\* An event is complete only when every bus that it was emitted on has run all
\* handlers it has for it, those that would forward it back left out.
CompleteMeansHandled ==
    \A e \in Event, b \in Bus : signal[e] /\ b \in path[e] =>
        \A h \in HandlersFor[b][e] :
            result[e][h] \in Terminal \/ Target[h] \in path[e]

\* No bus still has a completed event to process.
CompleteMeansConsumed ==
    \A e \in Event, b \in Bus : signal[e] => e \notin Range(queue[b]) \cup inflight[b]

\* No handler of a completed event is running.
CompleteMeansQuiet == \A t \in Task : task[t].pc \in {"body", "await", "sent"} => ~signal[task[t].ev]

\* An event is never complete before a child that its handler awaited.
ParentAfterAwaitedChild ==
    \A c \in Blocking : status[parent[c]] = "completed" => status[c] = "completed"

\* The tasks that work for t: those of the now() that its handler waits for, of
\* the now() of their handlers, and so on.
Under(t) ==
    {u \in Task : \A S \in SUBSET Task :
        t \in S /\ (\A w \in S : task[w].kids \subseteq S) => u \in S}

\* t and u work for different now() of one handler.
SideBySide(t, u) ==
    \E w \in Task : \E j, k \in task[w].kids : j # k /\ t \in Under(j) /\ u \in Under(k)

\* A now() that no handler waits for: called elsewhere, or left by its handler.
Loose(j) ==
    /\ j \in Jumper /\ task[j].pc \notin {"idle", "done", "failed"}
    /\ \A w \in Task : j \notin task[w].kids
Adrift(t) == \E j \in Jumper : Loose(j) /\ t \in Under(j)

\* All buses share the lock l.
OneLock(l) == l \in Lock /\ \A b \in Bus : LockOf[b] = l

\* Under one lock for all buses two tasks, let in by the lock or past it, run
\* handlers at a time only for different now() that one handler awaits at once; a
\* now() that no handler waits for is exempt.
SerialUnderOneLock ==
    (\E l \in Lock : OneLock(l)) =>
        \A t, u \in Task :
            task[t].pc = "body" /\ task[u].pc = "body" =>
                t = u \/ SideBySide(t, u) \/ Adrift(t) \/ Adrift(u)

\* When nothing can run any more, every emitted event is complete.
AtRest ==
    /\ cpu = NoTask
    /\ \A b \in Bus : task[b].pc \in {"get", "dead"}
    /\ \A j \in Jumper : task[j].pc \in {"idle", "poll", "sigwait", "done", "failed"}
    /\ \A b \in Bus : task[b].pc = "get" => queue[b] = <<>>
NothingForgotten ==
    AtRest => \A e \in Event : status[e] \in {"new", "completed"}

\* When nothing can run any more, no lock is held: one that an interrupted
\* handler kept would stop the bus, and every bus that shares it, for good.
NoLockLeaked ==
    AtRest => \A l \in Lock \cup Event : owner[l] = NoTask /\ waiting[l] = <<>>

\* Events that a bus has taken from its queue and that are not complete.
Unfinished(b) == {e \in Event : b \in path[e] /\ e \notin Range(queue[b]) /\ status[e] # "completed"}

AtOrBelow(d, e) == d = e \/ d \in Below(e, Linked)

\* d and e are for different children that one handler awaits at once.
AwaitedAtOnce(d, e) ==
    \E w \in Task : \E j, k \in task[w].kids :
        /\ task[j].ev # task[k].ev
        /\ AtOrBelow(d, task[j].ev) /\ AtOrBelow(e, task[k].ev)

\* A now() that no handler waits for has put e, or one above or below it, first.
OutOfTurn(e) ==
    \E j \in Jumper : Loose(j) /\ (AtOrBelow(e, task[j].ev) \/ AtOrBelow(task[j].ev, e))

\* A handler runs for an event only when every event its bus took before is
\* complete, or is an ancestor whose handler awaits it (FIFO processing of a
\* bus), or both are for children that a handler awaits at once; what a now()
\* that no handler waits for has put first is exempt, and nobody else.
FifoPerBus ==
    \A t \in Task : task[t].pc = "body" =>
        \A e \in Unfinished(task[t].bus) :
            \/ AtOrBelow(task[t].ev, e) \/ AwaitedAtOnce(task[t].ev, e)
            \/ OutOfTurn(e) \/ OutOfTurn(task[t].ev)

\* now() returns only when the event is complete.
AwaitedIsComplete == \A j \in Jumper : task[j].pc = "done" => signal[task[j].ev]

\* A settled result is never changed or reset.
SettledIsFinal ==
    [][\A e \in Event, h \in Handler :
          result[e][h] \in Terminal => result'[e][h] = result[e][h]]_vars

\* Every event that is emitted is completed in the end, unless a cancellation
\* ends a run loop or a now(): what was left to run then is not run.
EveryEventCompletes ==
    [](\A t \in Task : ~task[t].exc) =>
        \A e \in Event : status[e] # "new" ~> status[e] = "completed"

\* The buses keep the promise of EventLife: the signal tells that an event is
\* finished, and a child that blocks its parent is one that is awaited.
Life == INSTANCE EventLife WITH
            finished <- signal,
            awaited <- {<<parent[c], c>> : c \in Blocking}
KeepsPromise == Life!Spec
=============================================================================
