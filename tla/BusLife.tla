------------------------------ MODULE BusLife ------------------------------
(***************************************************************************)
(* What goes on around the handlers of one bus: events enter the queue and *)
(* the history, the run loop, tasks of parallel events and callers of      *)
(* step() compete for them, find() and wait_until_idle() wait, and the bus *)
(* is destroyed, or saved and restored in a new process.  What handlers do *)
(* is in EventBus and HandlerRuns; here an event has one body.             *)
(***************************************************************************)
EXTENDS EventHistory

CONSTANTS
    Finder,      \* calls of find() / filter()
    Pattern,     \* call -> what it looks for
    Idler,       \* calls of wait_until_idle()
    Configs,     \* what buses there are and what is done with them
    MaxTime, MaxEmits, MaxRestarts  \* bounds: clock, emits of one event, restarts

Uses == {"step", "idle", "find", "destroy", "clear", "restart", "hooks", "retain", "again", "ttl"}

ASSUME BusAssumption ==
    /\ Parent \in [Event -> Event \cup {None}] /\ None \notin Event \cup Nat
    /\ Event \cap {"new", "waiting", "none"} = {}
    /\ Batch \in Nat \ {0} /\ {MaxTime, MaxEmits, MaxRestarts} \subseteq Nat
    /\ Pattern \in [Finder -> [types : SUBSET Event, child_of : Event \cup {None}]]
ASSUME ConfigAssumption ==
    Configs \subseteq [policy : Policy, ttl : Moments, resultTtl : Moments,
                       events : SUBSET Event, parallel : SUBSET Event, uses : SUBSET Uses]

\* The run loop and a step() take events from the queue; an event without an
\* event lock has a task of its own, made by emit() or by the loop.
Loop == <<None, "loop">>
Step == <<None, "step">>
Runner == {Loop, Step}
Own == Event \X {"emit", "loop"}
Task == Runner \cup Own

VARIABLES
    cfg, now,
    h, done,       \* the history; when an event was completed
    emits, path,   \* accepted emits of an event; events that have the bus in event_path
    queue, inflight, processing,
    running, destroyed,
    at,            \* where a task is
    ev,            \* the event that the loop or a step() has
    getters,       \* the futures of CleanShutdownQueue.get, in order
    lock,          \* who processes an event under the event lock
    hooks,         \* the middleware task, one at most
    flag, idler,   \* _on_idle, and who waits for it
    finder,        \* what a call of find() came to
    runs,          \* how often the handlers of an event ran
    restarts,
    lostWake, orphans, pins   \* history: a cancelled getter that had been woken;
                              \* events that a restart cut off; retains that ended

historyVars == <<h, done, emits, path, now>>
queueVars == <<queue, inflight, processing, getters>>
busVars == <<running, destroyed, hooks, restarts>>
taskVars == <<at, ev, lock, runs>>
waitVars == <<flag, idler, finder>>
ghostVars == <<lostWake, orphans, pins>>
vars == <<cfg, historyVars, queueVars, busVars, taskVars, waitVars, ghostVars>>

InUse(u) == u \in cfg.uses
Parallel(e) == e \in cfg.parallel
EvOf(t) == IF t \in Runner THEN ev[t] ELSE t[1]
Complete(e) == done[e] # None

----------------------------------------------------------------------------
(* Idle or not.                                                            *)

Alive(where) == {t \in Own : where[t] # "none"}

\* Mutant: only what was marked in flight when it was emitted keeps it busy.
BusyInFlight(fl, pr, where, hk) == fl # {} \/ hk = "running"

\* _has_inflight_events_fast, over what the step leaves
Busy(fl, pr, where, hk) == fl \cup pr # {} \/ Alive(where) # {} \/ hk = "running"

\* Mutant: whoever waits is not told.
SetFlagQuietly == flag' = TRUE /\ idler' = idler

\* asyncio.Event.set wakes everybody who waits, whatever happens to the flag.
SetFlag ==
    /\ flag' = TRUE
    /\ idler' = [w \in Idler |-> IF idler[w] = "asleep" THEN "woken" ELSE idler[w]]

\* Set at the end of a task or a turn if there is nothing to do.
Reconcile(q, busy) ==
    IF ~destroyed /\ q = <<>> /\ ~busy
    THEN SetFlag ELSE UNCHANGED <<flag, idler>>

Drained == queue = <<>> /\ inflight = {}

----------------------------------------------------------------------------
(* emit                                                                    *)

\* Code anywhere: in the body of the parent, or when the parent is complete and
\* even gone from the history.  A parent that is on this bus at all came first.
MayEmit(e) ==
    /\ e \in cfg.events
    /\ emits[e] < (IF InUse("again") THEN MaxEmits ELSE 1)
    /\ Parent[e] \in cfg.events => emits[Parent[e]] > 0

\* Mutant: one find() at most is told of an event.
FoundByOne(new, e) ==
    LET told == {f \in Finder : finder[f] = "waiting" /\ Matches(new, Pattern[f], e)}
    IN  [f \in Finder |-> IF f \in told /\ f = CHOOSE g \in told : TRUE THEN e ELSE finder[f]]

\* put_nowait wakes the first getter.
Woken(where) ==
    IF getters = <<>> THEN where ELSE [where EXCEPT ![Head(getters)] = "woken"]

\* _resolve_find_waiters
Found(new, e) ==
    [f \in Finder |-> IF finder[f] = "waiting" /\ Matches(new, Pattern[f], e)
                      THEN e ELSE finder[f]]

\* What the history is when the event is about to be added.
MadeRoom ==
    LET trimmed == TrimCount(cfg.policy, h, done, Drained)
    IN  IF Full(cfg.policy, trimmed) THEN Trim(cfg.policy, trimmed, done, Drained, now)
        ELSE trimmed

\* The event carries the label of the bus that rejects it, too.
EmitRejected(e) ==
    /\ ~destroyed /\ MayEmit(e) /\ Full(cfg.policy, MadeRoom)
    /\ h' = MadeRoom
    /\ path' = path \cup {e}
    /\ UNCHANGED <<cfg, done, emits, now, queueVars, busVars, taskVars, waitVars, ghostVars>>

\* The run loop is started with the first emit, and after a restart.
StartLoop(where) == IF running THEN where ELSE [where EXCEPT ![Loop] = "top"]

Emit(e) ==
    /\ ~destroyed /\ MayEmit(e) /\ ~Full(cfg.policy, MadeRoom)
    /\ ~Complete(e)
    /\ LET new == Add(MadeRoom, e)
           where == StartLoop(Woken(at))
       IN  /\ h' = Trim(cfg.policy, new, done, FALSE, now)
           /\ finder' = Found(new, e)
           /\ at' = IF Parallel(e) /\ at[<<e, "emit">>] = "none"
                    THEN [where EXCEPT ![<<e, "emit">>] = "made"] ELSE where
    /\ emits' = [emits EXCEPT ![e] = @ + 1]
    /\ path' = path \cup {e}
    /\ queue' = Append(queue, e)
    /\ inflight' = inflight \cup {e}
    /\ getters' = IF getters = <<>> THEN getters ELSE Tail(getters)
    /\ running' = TRUE
    /\ UNCHANGED <<cfg, done, now, processing, destroyed, hooks, restarts, ev, lock, runs,
                   flag, idler, ghostVars>>

\* An event that is complete already is put into the history and not run; if
\* its time is over, it is taken out of the history.
EmitCompleted(e) ==
    /\ ~destroyed /\ MayEmit(e) /\ ~Full(cfg.policy, MadeRoom)
    /\ Complete(e)
    /\ IF (e \in path \/ Has(MadeRoom, e)) /\ Expired(MadeRoom, done, e, now)
       THEN /\ h' = Without(MadeRoom, {e})
            /\ UNCHANGED finder
       ELSE LET new == Add(MadeRoom, e)
            IN  /\ h' = Trim(cfg.policy, Track(new, done, {e}), done, Drained, now)
                /\ finder' = Found(new, e)
    /\ emits' = [emits EXCEPT ![e] = @ + 1]
    /\ path' = path \cup {e}
    /\ at' = StartLoop(at) /\ running' = TRUE
    /\ UNCHANGED <<cfg, done, now, queueVars, destroyed, hooks, restarts, ev, lock, runs,
                   flag, idler, ghostVars>>

----------------------------------------------------------------------------
(* The queue's consumers.                                                  *)

\* step(): the flag is cleared, the event marked, the lock asked for.
Enter(t, e, where) ==
    /\ flag' = FALSE /\ UNCHANGED idler
    /\ processing' = processing \cup {e}
    /\ at' = [where EXCEPT ![t] = "lock"]

\* Mutant: the loop leaves a parallel event to the task that emit() has made.
LoopTakeTrusting ==
    /\ at[Loop] \in {"top", "woken"} /\ running /\ queue # <<>>
    /\ LET e == Head(queue) IN
       /\ queue' = Tail(queue)
       /\ IF Parallel(e)
          THEN /\ at' = [at EXCEPT ![Loop] = "top"] /\ UNCHANGED <<flag, idler, ev, processing>>
          ELSE /\ Enter(Loop, e, at)
               /\ ev' = [ev EXCEPT ![Loop] = e]
    /\ UNCHANGED <<cfg, historyVars, inflight, getters, busVars, lock, runs, finder, ghostVars>>

\* get() finds something in the queue, at once or after it was woken; then the
\* loop makes a task for an event without lock, or processes it itself.
LoopTake ==
    /\ at[Loop] \in {"top", "woken"} /\ running /\ queue # <<>>
    /\ LET e == Head(queue) IN
       /\ queue' = Tail(queue)
       /\ IF Parallel(e)
          THEN /\ at[<<e, "loop">>] = "none"
               /\ flag' = FALSE /\ UNCHANGED <<idler, ev>>
               /\ processing' = processing \cup {e}
               /\ at' = [at EXCEPT ![Loop] = "top", ![<<e, "loop">>] = "made"]
          ELSE /\ Enter(Loop, e, at)
               /\ ev' = [ev EXCEPT ![Loop] = e]
    /\ UNCHANGED <<cfg, historyVars, inflight, getters, busVars, lock, runs, finder, ghostVars>>

LoopSleep ==
    /\ at[Loop] \in {"top", "woken"} /\ running /\ queue = <<>>
    /\ at' = [at EXCEPT ![Loop] = "get"]
    /\ getters' = Append(getters, Loop)
    /\ UNCHANGED <<cfg, historyVars, queue, inflight, processing, busVars, ev, lock, runs,
                   waitVars, ghostVars>>

\* step() without an event: a task gets one, for a tenth of a second.
StepCall ==
    /\ InUse("step") /\ running /\ at[Step] = "none"
    /\ IF queue = <<>>
       THEN /\ at' = [at EXCEPT ![Step] = "get"]
            /\ getters' = Append(getters, Step)
            /\ UNCHANGED <<queue, ev>>
       ELSE /\ at' = [at EXCEPT ![Step] = "took"]
            /\ ev' = [ev EXCEPT ![Step] = Head(queue)] /\ queue' = Tail(queue)
            /\ UNCHANGED getters
    /\ UNCHANGED <<cfg, historyVars, inflight, processing, busVars, lock, runs, waitVars, ghostVars>>

StepWoken ==
    /\ at[Step] = "woken"
    /\ IF queue = <<>>
       THEN /\ at' = [at EXCEPT ![Step] = "get"]
            /\ getters' = Append(getters, Step)
            /\ UNCHANGED <<queue, ev>>
       ELSE /\ at' = [at EXCEPT ![Step] = "took"]
            /\ ev' = [ev EXCEPT ![Step] = Head(queue)] /\ queue' = Tail(queue)
            /\ UNCHANGED getters
    /\ UNCHANGED <<cfg, historyVars, inflight, processing, busVars, lock, runs, waitVars, ghostVars>>

\* The time is over before the task ran: it is cancelled, woken or not, and
\* tells no other getter of what was put into the queue.
StepTimeout ==
    /\ at[Step] \in {"get", "woken"} /\ running
    /\ at' = [at EXCEPT ![Step] = "none"]
    /\ getters' = RemoveFirst(getters, Step)
    /\ lostWake' = (lostWake \/ at[Step] = "woken")
    /\ Reconcile(queue, Busy(inflight, processing, at, hooks))
    /\ UNCHANGED <<cfg, historyVars, queue, inflight, processing, busVars, ev, lock, runs,
                   finder, orphans, pins>>

\* A bus that has been destroyed since does not process the event.
StepTook ==
    /\ at[Step] = "took"
    /\ IF running
       THEN Enter(Step, ev[Step], at)
       ELSE /\ at' = [at EXCEPT ![Step] = "none"]
            /\ UNCHANGED <<processing, flag, idler>>
    /\ UNCHANGED <<cfg, historyVars, queue, inflight, getters, busVars, ev, lock, runs,
                   finder, ghostVars>>

\* Mutant: the task that emit() made does not look whether the queue has it.
OwnTaskAnyhow(e, o) ==
    /\ at[<<e, o>>] = "made" /\ ~destroyed
    /\ Enter(<<e, o>>, e, at)
    /\ queue' = SelectSeq(queue, LAMBDA d : d # e)
    /\ UNCHANGED <<cfg, historyVars, inflight, getters, busVars, ev, lock, runs, finder, ghostVars>>

\* Mutant: the head of the queue goes.
RemovedHead(e) == Tail(queue)

\* The first occurrence goes.
Removed(e) == RemoveFirst(queue, e)

\* The task of an event starts; the one that emit() made only processes what it
\* can take out of the queue.
OwnTask(e, o) ==
    /\ at[<<e, o>>] = "made" /\ ~destroyed
    /\ IF o = "emit" /\ e \notin Range(queue)
       THEN /\ at' = [at EXCEPT ![<<e, o>>] = "ended"]
            /\ UNCHANGED <<queue, processing, flag, idler>>
       ELSE /\ Enter(<<e, o>>, e, at)
            /\ queue' = IF o = "emit" THEN Removed(e) ELSE queue
    /\ UNCHANGED <<cfg, historyVars, inflight, getters, busVars, ev, lock, runs, finder, ghostVars>>

\* The done callback of such a task.
OwnTaskGone(e, o) ==
    /\ at[<<e, o>>] = "ended"
    /\ at' = [at EXCEPT ![<<e, o>>] = "none"]
    /\ Reconcile(queue, Busy(inflight, processing, at', hooks))
    /\ UNCHANGED <<cfg, historyVars, queueVars, busVars, ev, lock, runs, finder, ghostVars>>

----------------------------------------------------------------------------
(* Processing.                                                             *)

Canceled(t) == destroyed /\ t # Step

\* The lock is free or not needed.  An event that was completed meanwhile is
\* not run again.
Begin(t) ==
    /\ at[t] = "lock" /\ ~Canceled(t)
    /\ t \in Runner => lock = None
    /\ ~Complete(EvOf(t))
    /\ at' = [at EXCEPT ![t] = "body"]
    /\ lock' = IF t \in Runner THEN t ELSE lock
    /\ runs' = IF destroyed /\ InUse("clear") THEN runs
               ELSE [runs EXCEPT ![EvOf(t)] = @ + 1]
    /\ UNCHANGED <<cfg, historyVars, queueVars, busVars, ev, waitVars, ghostVars>>

\* Where a task is when its step() is over.
After(t) ==
    CASE t = Loop -> IF destroyed THEN "none" ELSE "top"
      [] t = Step -> "none"
      [] OTHER -> "ended"

\* The finally clause of step(): marks go, the event is completed if it is not
\* yet, the history is trimmed, and the bus is idle if nothing is left.
Finish(t) ==
    LET e == EvOf(t)
        fl == inflight \ {e}
        pr == processing \ {e}
        where == [at EXCEPT ![t] = After(t)]
        complete == [done EXCEPT ![e] = now]
        shut == IF destroyed THEN h ELSE Completed(cfg.policy, h, complete, e)
    IN  /\ inflight' = fl /\ processing' = pr /\ at' = where
        /\ IF Complete(e)
           THEN UNCHANGED <<done, h>>
           ELSE /\ done' = complete
                /\ h' = TrimCount(cfg.policy, [shut EXCEPT !.changes = @ + 1], complete,
                                  queue = <<>> /\ fl = {})
        /\ lock' = IF lock = t THEN None ELSE lock
        /\ Reconcile(queue, Busy(fl, pr, where, hooks))

End(t) ==
    /\ \/ at[t] = "body" /\ ~Canceled(t)
       \/ at[t] = "lock" /\ ~Canceled(t) /\ (t \in Runner => lock = None) /\ Complete(EvOf(t))
    /\ Finish(t)
    /\ UNCHANGED <<cfg, emits, path, now, queue, getters, busVars, ev, runs, finder, ghostVars>>

\* Mutant: a task that is cancelled leaves everything as it is.
InterruptedAsIs(t) ==
    /\ Canceled(t) /\ at[t] \in {"lock", "body"}
    /\ at' = [at EXCEPT ![t] = After(t)]
    /\ UNCHANGED <<cfg, historyVars, queueVars, busVars, ev, lock, runs, waitVars, ghostVars>>

\* destroy() has cancelled the loop and the tasks of events: a body ends with
\* an error, and an event that waits for the lock is completed without results.
Interrupted(t) ==
    /\ Canceled(t) /\ at[t] \in {"lock", "body"}
    /\ Finish(t)
    /\ UNCHANGED <<cfg, emits, path, now, queue, getters, busVars, ev, runs, finder, ghostVars>>

\* A loop that waits gets QueueShutDown, a task that has not begun never does.
NotBegun(t) ==
    /\ Canceled(t) /\ at[t] \in {"top", "get", "woken", "made"}
    /\ at' = [at EXCEPT ![t] = IF t = Loop THEN "none" ELSE "ended"]
    /\ UNCHANGED <<cfg, historyVars, queueVars, busVars, ev, lock, runs, waitVars, ghostVars>>

----------------------------------------------------------------------------
(* Waiting.                                                                *)

\* wait_until_idle() looks, and makes a task that waits for the flag.
IdleCheck(w) ==
    /\ InUse("idle") /\ idler[w] \in {"new", "woken"}
    /\ idler[w] = "new" => ~destroyed
    /\ IF destroyed
       THEN /\ idler' = [idler EXCEPT ![w] = "error"] /\ UNCHANGED flag
       ELSE IF queue = <<>> /\ ~Busy(inflight, processing, at, hooks)
       THEN /\ flag' = TRUE
            /\ idler' = [x \in Idler |-> IF x = w THEN "idle"
                                         ELSE IF idler[x] = "asleep" THEN "woken" ELSE idler[x]]
       ELSE /\ idler' = [idler EXCEPT ![w] = "about"] /\ UNCHANGED flag
    /\ at' = IF destroyed THEN at ELSE StartLoop(at)
    /\ running' = (running \/ ~destroyed)
    /\ UNCHANGED <<cfg, historyVars, queueVars, destroyed, hooks, restarts, ev, lock, runs,
                   finder, ghostVars>>

IdleSleep(w) ==
    /\ idler[w] = "about"
    /\ idler' = [idler EXCEPT ![w] = IF flag THEN "woken" ELSE "asleep"]
    /\ UNCHANGED <<cfg, historyVars, queueVars, busVars, taskVars, flag, finder, ghostVars>>

\* A handler registered or removed on a bus with middlewares.
HooksBegin ==
    /\ InUse("hooks") /\ ~destroyed /\ hooks = "none"
    /\ hooks' = "running" /\ flag' = FALSE
    /\ UNCHANGED <<cfg, historyVars, queueVars, running, destroyed, restarts, taskVars, idler,
                   finder, ghostVars>>

HooksEnd ==
    /\ hooks = "running"
    /\ hooks' = "ended"
    /\ Reconcile(queue, Busy(inflight, processing, at, hooks'))
    /\ UNCHANGED <<cfg, historyVars, queueVars, running, destroyed, restarts, taskVars, finder,
                   ghostVars>>

\* find(): the last match of the past, or else the first of the future.
Find(f) ==
    /\ InUse("find") /\ ~destroyed /\ finder[f] = "new"
    /\ LET past == Past(h, Pattern[f]) IN
       finder' = [finder EXCEPT ![f] = IF past = <<>> THEN "waiting" ELSE Head(past)]
    /\ UNCHANGED <<cfg, historyVars, queueVars, busVars, taskVars, flag, idler, ghostVars>>

\* The time is over, or the caller was cancelled.
FindTimeout(f) ==
    /\ finder[f] = "waiting"
    /\ finder' = [finder EXCEPT ![f] = "none"]
    /\ UNCHANGED <<cfg, historyVars, queueVars, busVars, taskVars, flag, idler, ghostVars>>

----------------------------------------------------------------------------
(* The clock, retaining, the end of a bus and its restart.                 *)

Tick ==
    /\ InUse("ttl") /\ now < MaxTime
    /\ now' = now + 1
    /\ UNCHANGED <<cfg, h, done, emits, path, queueVars, busVars, taskVars, waitVars, ghostVars>>

\* event_ttl of the bus is edited while it runs.
EditTtl ==
    /\ InUse("ttl") /\ h.ttl # 1
    /\ h' = [h EXCEPT !.ttl = 1]
    /\ UNCHANGED <<cfg, done, emits, path, now, queueVars, busVars, taskVars, waitVars, ghostVars>>

RetainIt(e) ==
    /\ InUse("retain") /\ emits[e] = 0 /\ h.retained[e] < 2
    /\ \A d \in Event \ {e} : h.retained[d] = 0
    /\ h' = Retain(h, e)
    /\ UNCHANGED <<cfg, done, emits, path, now, queueVars, busVars, taskVars, waitVars, ghostVars>>

\* Mutant: what was not retained may be let go.
LetGoAnyhow(e) ==
    /\ h' = Unretain(h, e)
    /\ pins' = pins \cup {e}
    /\ UNCHANGED <<cfg, done, emits, path, now, queueVars, busVars, taskVars, waitVars,
                   lostWake, orphans>>

LetGo(e) ==
    /\ h.retained[e] > 0
    /\ h' = Unretain(h, e)
    /\ pins' = pins \cup {e}
    /\ UNCHANGED <<cfg, done, emits, path, now, queueVars, busVars, taskVars, waitVars,
                   lostWake, orphans>>

Destroy ==
    /\ InUse("destroy") /\ ~destroyed
    /\ destroyed' = TRUE /\ running' = FALSE
    /\ queue' = <<>> /\ inflight' = {} /\ processing' = {}
    /\ getters' = <<>>
    /\ at' = [at EXCEPT ![Step] = IF @ \in {"get", "woken"} THEN "none" ELSE @]
    /\ finder' = [f \in Finder |-> IF finder[f] = "waiting" THEN "none" ELSE finder[f]]
    /\ SetFlag
    /\ h' = IF InUse("clear") THEN [h EXCEPT !.list = <<>>] ELSE h
    /\ lock' = None
    /\ UNCHANGED <<cfg, done, emits, path, now, hooks, restarts, ev, runs, ghostVars>>

\* The events of a dump: those of the history, and the queued ones not in it.
Dumped == Entered(h.list, queue)

\* The bus is dumped, the process ends, and another validates the dump: queue,
\* history and results are there; what was being processed is not in the queue.
Restart ==
    /\ InUse("restart") /\ ~destroyed /\ restarts < MaxRestarts
    /\ restarts' = restarts + 1
    /\ LET fresh == [EmptyHistory(h.ttl, h.resultTtl) EXCEPT !.list = Dumped, !.results = h.results]
       IN  h' = Track(fresh, done, Range(Dumped))
    /\ orphans' = orphans \cup {e \in Event : emits[e] > 0 /\ ~Complete(e) /\ e \notin Range(queue)}
    /\ inflight' = {} /\ processing' = {} /\ getters' = <<>>
    /\ running' = FALSE /\ hooks' = "none" /\ lock' = None
    /\ at' = [t \in Task |-> "none"]
    /\ flag' = (queue = <<>>)
    /\ idler' = [w \in Idler |-> IF idler[w] = "new" THEN "new" ELSE "idle"]
    /\ finder' = [f \in Finder |-> IF finder[f] = "waiting" THEN "none" ELSE finder[f]]
    /\ UNCHANGED <<cfg, done, emits, path, now, queue, destroyed, ev, runs, lostWake, pins>>

----------------------------------------------------------------------------
Init ==
    /\ cfg \in Configs
    /\ h = EmptyHistory(cfg.ttl, cfg.resultTtl)
    /\ done = [e \in Event |-> None]
    /\ emits = [e \in Event |-> 0] /\ path = {} /\ now = 0
    /\ queue = <<>> /\ inflight = {} /\ processing = {} /\ getters = <<>>
    /\ running = FALSE /\ destroyed = FALSE /\ hooks = "none" /\ restarts = 0
    /\ at = [t \in Task |-> "none"] /\ ev = [t \in Runner |-> None] /\ lock = None
    /\ runs = [e \in Event |-> 0]
    /\ flag = TRUE /\ idler = [w \in Idler |-> "new"] /\ finder = [f \in Finder |-> "new"]
    /\ lostWake = FALSE /\ orphans = {} /\ pins = {}

Consume == LoopTake \/ LoopSleep \/ StepWoken \/ StepTook
OwnStep == \E e \in Event, o \in {"emit", "loop"} : OwnTask(e, o) \/ OwnTaskGone(e, o)
Work(t) == Begin(t) \/ End(t) \/ Interrupted(t) \/ NotBegun(t)
Idling(w) == IdleCheck(w) \/ IdleSleep(w)

Next ==
    \/ \E e \in Event : Emit(e) \/ EmitRejected(e) \/ EmitCompleted(e) \/ RetainIt(e) \/ LetGo(e)
    \/ Consume \/ OwnStep \/ \E t \in Task : Work(t)
    \/ StepCall \/ StepTimeout \/ \E w \in Idler : Idling(w)
    \/ \E f \in Finder : Find(f) \/ FindTimeout(f)
    \/ HooksBegin \/ HooksEnd \/ Tick \/ EditTtl \/ Destroy \/ Restart

Spec == Init /\ [][Next]_vars

\* asyncio goes on as long as a task can run, and with the waiters in turn;
\* bodies and hooks end.
Progress == Consume \/ OwnStep \/ HooksEnd \/ \E t \in Task : Work(t)
FairSpec ==
    /\ Spec
    /\ WF_vars(Progress)
    /\ \A w \in Idler : WF_vars(idler[w] # "new" /\ Idling(w))

----------------------------------------------------------------------------
(* Properties.                                                             *)

\* Who has an event that is no longer in the queue: a task of its own that was
\* made by emit() has it when it has taken it out of the queue.
Claims(t, e) ==
    /\ EvOf(t) = e
    /\ \/ at[t] \in {"lock", "body"}
       \/ at[t] = "took"
       \/ at[t] = "made" /\ t[2] = "loop"
InProcess(e) == \E t \in Task : EvOf(t) = e /\ at[t] \in {"lock", "body"}
Accepted(e) == emits[e] > 0
Evicted == Range(h.list) \ Range(h'.list)

\* Every variable has a value of its type.
TypeOK ==
    /\ cfg \in Configs /\ now \in Nat
    /\ h \in History
    /\ done \in [Event -> Moments]
    /\ emits \in [Event -> Nat] /\ path \subseteq Event
    /\ queue \in Seq(Event) /\ inflight \subseteq Event /\ processing \subseteq Event
    /\ {running, destroyed, flag, lostWake} \subseteq BOOLEAN
    /\ at \in [Task -> {"none", "top", "get", "woken", "took", "made", "lock", "body", "ended"}]
    /\ ev \in [Runner -> Event \cup {None}]
    /\ getters \in Seq(Runner) /\ lock \in Runner \cup {None}
    /\ hooks \in {"none", "running", "ended"} /\ restarts \in 0 .. MaxRestarts
    /\ idler \in [Idler -> {"new", "about", "asleep", "woken", "idle", "error"}]
    /\ finder \in [Finder -> Event \cup {"new", "waiting", "none"}]
    /\ runs \in [Event -> Nat]
    /\ orphans \subseteq Event /\ pins \subseteq Event

\* An event that was emitted once is handled once at most, whether the loop,
\* a step() or a task of its own gets it first, and over a restart.
HandledOnce ==
    \A e \in Event \ orphans : emits[e] <= 1 => runs[e] <= 1

\* An event that was accepted and is not complete is in the queue, or with the
\* task that took it: none is between the two, whoever is cancelled.
EventKept ==
    ~destroyed => \A e \in Event \ orphans :
        Accepted(e) /\ ~Complete(e) =>
            e \in Range(queue) \/ \E t \in Task : Claims(t, e)

\* wait_until_idle: "no events being processed and all handlers completed".  It
\* can only be wrong about the event that a step() has just been given, if the
\* event was restored from a dump or emitted again and is not marked in flight,
\* and about the second run of an event that was emitted again.
JustTaken(e) == at[Step] = "took" /\ ev[Step] = e /\ e \notin inflight
IdleMeansDone ==
    [][\A w \in Idler : idler[w] # "idle" /\ idler'[w] = "idle" /\ restarts' = restarts =>
        /\ \A e \in Event \ orphans : Accepted(e) => Complete(e) \/ JustTaken(e)
        /\ hooks # "running" /\ \A e \in Event : InProcess(e) => emits[e] > 1]_vars

\* A find() that waits has missed nothing that the history has, and none is
\* left waiting by a bus that is destroyed.
FindMissesNothing ==
    \A f \in Finder : finder[f] = "waiting" =>
        ~destroyed /\ Past(h, Pattern[f]) = <<>>

\* Too long a history is trimmed only by events that are complete, retained by
\* nobody and have no child left in it: who can be reached by parents from
\* what is kept, is kept.  Only an event that comes with this very step may find
\* its parent gone, evicted to make room for it.
EvictsOnlySpent ==
    [][h.ttl = None /\ cfg.policy.size # 0 /\ ~destroyed' =>
        \A e \in Evicted :
            /\ done'[e] # None /\ h.retained[e] = 0
            /\ \A c \in Children(h'.list, e) : emits'[c] # emits[c]]_vars

\* A history that may not drop never has more than its size; one that may has
\* more only until the bus has drained, or by what cannot be evicted.
HistoryBounded ==
    cfg.policy.size # None /\ ~destroyed /\ restarts = 0 =>
        /\ cfg.policy.size > 0 /\ ~cfg.policy.drop => Len(h.list) <= cfg.policy.size
        /\ cfg.policy.size > 0 /\ cfg.policy.drop /\ Drained /\ pins = {} =>
                \/ Len(h.list) <= cfg.policy.size
                \/ \A e \in Range(h.list) : ~Spent(h, done, h.list, e)
        /\ cfg.policy.size = 0 => \A e \in Range(h.list) : ~Complete(e)

\* An event put into the queue sweeps out of the history those whose time is
\* over, all of them and no other, though the time to live is edited while
\* deadlines are queued.
SweepsTheExpired ==
    [][cfg.policy.size = None /\ Len(queue') > Len(queue) =>
        \A e \in Range(h.list) : Has(h', e) <=> ~Expired(h', done, e, now)]_vars

\* Every event that was accepted is completed, unless the bus was destroyed or
\* restored and not started again, or the wake-up for it was lost.
EveryEventCompletes ==
    \A e \in Event :
        Accepted(e) ~> (Complete(e) \/ destroyed \/ ~running \/ lostWake \/ e \in orphans)

\* What is being processed is completed even if the bus is destroyed; only the
\* end of the process comes between.
StartedCompletes ==
    \A e \in Event :
        InProcess(e) ~> (Complete(e) \/ e \in orphans \/ (~running /\ ~destroyed))

\* Whoever waits until the bus is idle comes back, with an error if the bus has
\* been destroyed.
IdleWaiterReturns ==
    \A w \in Idler : idler[w] # "new" ~> (idler[w] \in {"idle", "error"} \/ lostWake)
=============================================================================
