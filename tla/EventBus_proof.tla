--------------------------- MODULE EventBus_proof ---------------------------
(***************************************************************************)
(* Proofs about EventBus, for any buses, events, handlers, tasks and locks:*)
(* the type invariant; that no lock is lost; that no handler runs twice for*)
(* an event, no settled result is changed, and no handler runs for an event*)
(* that is complete; that under one lock handlers run at a time only for   *)
(* different now() of one handler.                                         *)
(***************************************************************************)
EXTENDS EventBus, SequenceLemmas

(* The type invariant, one part for each group of variables. *)

BusTypes ==
    /\ queue \in [Bus -> Seq(Event)]
    /\ inflight \in [Bus -> SUBSET Event]
    /\ processing \in [Bus -> SUBSET Event]
EventTypes ==
    /\ status \in [Event -> Status]
    /\ signal \in [Event -> BOOLEAN]
    /\ path \in [Event -> SUBSET Bus]
    /\ parent \in [Event -> Event \cup {NoEvent}]
    /\ link \in [Event -> Handler \cup {NoHandler}]
    /\ blocks \in [Event -> BOOLEAN]
ResultTypes ==
    /\ result \in [Event -> [Handler -> ResultStatus]]
    /\ runs \in [Event -> [Handler -> 0..2]]
LockTypes ==
    /\ owner \in [Lock \cup Event -> Task \cup {NoTask}]
    /\ waiting \in [Lock \cup Event -> Seq(Task)]
    /\ held \in [Task -> SUBSET Lock]
TaskTypes ==
    /\ task \in [Task -> TaskState]
    /\ \A t \in Task : TaskOK(t, task[t])
CpuType == cpu \in Task \cup {NoTask}

\* The parts together are the type invariant.
LEMMA TypeParts ==
    /\ TypeOK <=> BusTypes /\ EventTypes /\ ResultTypes /\ LockTypes /\ TaskTypes /\ CpuType
    /\ TypeOK' <=> BusTypes' /\ EventTypes' /\ ResultTypes' /\ LockTypes' /\ TaskTypes' /\ CpuType'
BY DEF TypeOK, BusTypes, EventTypes, ResultTypes, LockTypes, TaskTypes, CpuType

\* A step that leaves a group of variables alone keeps its part.
LEMMA Untouched ==
    /\ BusTypes /\ UNCHANGED busVars => BusTypes'
    /\ EventTypes /\ UNCHANGED eventVars => EventTypes'
    /\ ResultTypes /\ UNCHANGED resultVars => ResultTypes'
    /\ LockTypes /\ UNCHANGED lockVars => LockTypes'
    /\ TaskTypes /\ UNCHANGED task => TaskTypes'
    /\ CpuType /\ UNCHANGED cpu => CpuType'
<1>1. BusTypes /\ UNCHANGED busVars => BusTypes'
  BY DEF BusTypes, busVars
<1>2. EventTypes /\ UNCHANGED eventVars => EventTypes'
  BY DEF EventTypes, eventVars
<1>3. ResultTypes /\ UNCHANGED resultVars => ResultTypes'
  BY DEF ResultTypes, resultVars
<1>4. LockTypes /\ UNCHANGED lockVars => LockTypes'
  BY DEF LockTypes, lockVars
<1>5. TaskTypes /\ UNCHANGED task => TaskTypes'
  BY DEF TaskTypes, TaskOK
<1>6. CpuType /\ UNCHANGED cpu => CpuType'
  BY DEF CpuType
<1>7. QED
  BY <1>1, <1>2, <1>3, <1>4, <1>5, <1>6

\* Init satisfies the type invariant.
LEMMA TypeInit == Init => TypeOK
<1> SUFFICES ASSUME Init PROVE TypeOK
  OBVIOUS
<1>1. BusTypes
  BY DEF Init, BusTypes
<1>2. EventTypes
  BY DEF Init, EventTypes, Status
<1>3. ResultTypes
  BY DEF Init, ResultTypes, ResultStatus
<1>4. LockTypes
  BY DEF Init, LockTypes
<1>5. TaskTypes
  BY NamesAssumption DEF Init, TaskTypes, TaskState, TaskOK, Fresh, PC, Working, Task
<1>6. CpuType
  BY DEF Init, CpuType
<1>7. QED
  BY <1>1, <1>2, <1>3, <1>4, <1>5, <1>6, TypeParts

\* A new state of a task that has what its place needs.
LEMMA FreshState ==
    /\ Fresh("get") \in TaskState /\ \A t \in Bus : TaskOK(t, Fresh("get"))
    /\ Fresh("dead") \in TaskState /\ \A t \in Bus : TaskOK(t, Fresh("dead"))
    /\ Fresh("idle") \in TaskState /\ \A t \in Jumper : TaskOK(t, Fresh("idle"))
    /\ \A e \in Event, S \in SUBSET Bus :
          LET s == [Fresh("poll") EXCEPT !.ev = e, !.claimed = S] IN
          \A t \in Jumper : s \in TaskState /\ TaskOK(t, s)
    /\ \A e \in Event :
          LET s == [Fresh("poll") EXCEPT !.ev = e] IN
          \A t \in Jumper : s \in TaskState /\ TaskOK(t, s)
    /\ \A e \in Event, b \in Bus :
          LET s == [Fresh("lock") EXCEPT !.ev = e, !.bus = b] IN
          s \in TaskState /\ TaskOK(b, s)
<1>1. \A x \in PC : Fresh(x) \in TaskState
  BY DEF Fresh, TaskState
<1>2. {"get", "dead", "idle", "poll", "lock"} \subseteq PC
  BY DEF PC
<1>3. \A t \in Bus : TaskOK(t, Fresh("get")) /\ TaskOK(t, Fresh("dead"))
  BY DEF Fresh, TaskOK, Working
<1>4. \A t \in Jumper : TaskOK(t, Fresh("idle"))
  BY DEF Fresh, TaskOK, Working
<1>5. ASSUME NEW e \in Event, NEW S \in SUBSET Bus, NEW t \in Jumper
      PROVE  LET s == [Fresh("poll") EXCEPT !.ev = e, !.claimed = S] IN
             s \in TaskState /\ TaskOK(t, s)
  BY DEF Fresh, TaskState, TaskOK, PC, Working
<1>6. ASSUME NEW e \in Event, NEW t \in Jumper
      PROVE  LET s == [Fresh("poll") EXCEPT !.ev = e] IN
             s \in TaskState /\ TaskOK(t, s)
  BY DEF Fresh, TaskState, TaskOK, PC, Working
<1>7. ASSUME NEW e \in Event, NEW b \in Bus
      PROVE  LET s == [Fresh("lock") EXCEPT !.ev = e, !.bus = b] IN
             s \in TaskState /\ TaskOK(b, s)
  BY DEF Fresh, TaskState, TaskOK, PC, Working
<1>8. QED
  BY <1>1, <1>2, <1>3, <1>4, <1>5, <1>6, <1>7

\* Replacing the state of one task, or of two.
LEMMA SetTask ==
    ASSUME TaskTypes, NEW t \in Task, NEW s \in TaskState, TaskOK(t, s),
           task' = [task EXCEPT ![t] = s]
    PROVE  TaskTypes'
BY DEF TaskTypes

-----------------------------------------------------------------------------
(* The helpers of the actions keep the types. *)

\* Releasing a lock hands it to a task or to none.
LEMMA ReleasedTypes ==
    ASSUME LockTypes, NEW l \in Lock \cup Event, Released(l)
    PROVE  /\ owner' \in [Lock \cup Event -> Task \cup {NoTask}]
           /\ waiting' \in [Lock \cup Event -> Seq(Task)]
<1>1. waiting[l] \in Seq(Task)
  BY DEF LockTypes
<1>2. waiting[l] # <<>> => Head(waiting[l]) \in Task /\ Tail(waiting[l]) \in Seq(Task)
  BY <1>1
<1>3. QED
  BY <1>1, <1>2 DEF Released, LockTypes

\* Emitting keeps queues, events and their sets.
LEMMA EmitTypes ==
    ASSUME BusTypes, EventTypes, NEW b \in Bus, NEW e \in Event,
           NEW p \in Event \cup {NoEvent}, NEW h \in Handler \cup {NoHandler},
           Emit(b, e, p, h)
    PROVE  BusTypes' /\ EventTypes'
<1>1. queue[b] \in Seq(Event) /\ Append(queue[b], e) \in Seq(Event)
  BY DEF BusTypes
<1>2. BusTypes'
  <2>1. CASE status[e] = "completed"
    BY <2>1 DEF Emit, BusTypes
  <2>2. CASE status[e] # "completed"
    <3>1. queue' = [queue EXCEPT ![b] = Append(queue[b], e)]
      BY <2>2 DEF Emit
    <3>2. inflight' = [inflight EXCEPT ![b] = inflight[b] \cup {e}] /\ processing' = processing
      BY <2>2 DEF Emit
    <3>3. QED
      BY <1>1, <3>1, <3>2 DEF BusTypes
  <2>3. QED
    BY <2>1, <2>2
<1>3. status' \in [Event -> Status]
  BY DEF Emit, EventTypes, Status
<1>4. path' \in [Event -> SUBSET Bus] /\ parent' \in [Event -> Event \cup {NoEvent}]
      /\ link' \in [Event -> Handler \cup {NoHandler}]
  BY DEF Emit, EventTypes
<1>5. QED
  BY <1>2, <1>3, <1>4 DEF Emit, EventTypes

\* Completing some events keeps the events.
LEMMA CompleteTypes ==
    ASSUME EventTypes, NEW S, Complete(S)
    PROVE  EventTypes'
<1>1. status' \in [Event -> Status]
  BY DEF Complete, EventTypes, Status
<1>2. signal' \in [Event -> BOOLEAN]
  BY DEF Complete, EventTypes
<1>3. QED
  BY <1>1, <1>2 DEF Complete, EventTypes

\* Settling a handler's result keeps results and locks.
LEMMA SettleTypes ==
    ASSUME ResultTypes, LockTypes, TaskTypes, NEW t \in Task, NEW r \in ResultStatus,
           task[t].pc \in {"body", "await", "sent"}, Settle(t, r)
    PROVE  ResultTypes' /\ LockTypes'
<1> DEFINE e == task[t].ev
           h == task[t].cur
<1>1. e \in Event /\ h \in Handler
  BY DEF TaskTypes, TaskOK, Working
<1>2. result' = [result EXCEPT ![e][h] = r] /\ Released(e) /\ UNCHANGED <<runs, held>>
  BY DEF Settle
<1> HIDE DEF e, h
<1>3. ResultTypes'
  BY <1>1, <1>2 DEF ResultTypes
<1>4. LockTypes'
  BY <1>1, <1>2, ReleasedTypes DEF LockTypes
<1>5. QED
  BY <1>3, <1>4

\* A dead run loop that is started again is at the start of its loop.
LEMMA RestartedTypes ==
    ASSUME NEW b \in Bus, NEW r \in [Task -> TaskState], \A t \in Task : TaskOK(t, r[t])
    PROVE  /\ Restarted(b, r) \in [Task -> TaskState]
           /\ \A t \in Task : TaskOK(t, Restarted(b, r)[t])
<1>1. b \in Task
  BY DEF Task
<1>2. Fresh("get") \in TaskState /\ TaskOK(b, Fresh("get"))
  BY FreshState
<1>3. QED
  BY <1>1, <1>2 DEF Restarted

\* A task goes elsewhere when it has what that place needs.
LEMMA GotoTypes ==
    ASSUME TaskTypes, NEW t \in Task, NEW p \in PC, Goto(t, p),
           TaskOK(t, [task[t] EXCEPT !.pc = p])
    PROVE  TaskTypes'
<1>1. [task[t] EXCEPT !.pc = p] \in TaskState
  BY DEF TaskTypes, TaskState
<1>2. task' = [task EXCEPT ![t] = [task[t] EXCEPT !.pc = p]]
  BY DEF Goto
<1>3. QED
  BY <1>1, <1>2, SetTask

\* In particular between the places of one event on one bus, before a handler
\* is chosen and after it has returned.
LEMMA GotoWorking ==
    ASSUME TaskTypes, NEW t \in Task, task[t].pc \in Working \ {"await"},
           NEW p \in Working \ {"hwait", "start", "body", "await", "sent", "prop"}, Goto(t, p)
    PROVE  TaskTypes'
<1>1. task[t] \in TaskState /\ TaskOK(t, task[t])
  BY DEF TaskTypes
<1>2. TaskOK(t, [task[t] EXCEPT !.pc = p])
  BY <1>1 DEF TaskOK, TaskState, Working
<1>3. p \in PC
  BY DEF PC, Working
<1>4. QED
  BY <1>2, <1>3, GotoTypes

\* The scheduler's variable names a task or none.
LEMMA CpuTypes ==
    ASSUME NEW t \in Task, RunOn(t) \/ Suspend \/ Hook(t)
    PROVE  CpuType'
BY DEF RunOn, Suspend, Hook, CpuType

-----------------------------------------------------------------------------
(* Every action keeps the types. *)

\* The run loop's actions.
LEMMA LoopTypes ==
    ASSUME TypeOK, NEW b \in Bus, LoopGet(b) \/ LoopAgain(b)
    PROVE  TypeOK'
<1>1. b \in Task
  BY DEF Task
<1>2. CASE LoopGet(b)
  <2> DEFINE e == Head(queue[b])
  <2>1. queue[b] \in Seq(Event) /\ queue[b] # <<>>
    BY <1>2, TypeParts DEF LoopGet, BusTypes
  <2>2. e \in Event /\ Tail(queue[b]) \in Seq(Event)
    BY <2>1
  <2>3. /\ queue' = [queue EXCEPT ![b] = Tail(queue[b])]
        /\ processing' = [processing EXCEPT ![b] = processing[b] \cup {e}]
        /\ inflight' = inflight
        /\ task' = [task EXCEPT ![b] = [Fresh("lock") EXCEPT !.ev = e, !.bus = b]]
        /\ RunOn(b)
        /\ UNCHANGED <<eventVars, resultVars, lockVars>>
    BY <1>2 DEF LoopGet
  <2> HIDE DEF e
  <2>4. BusTypes'
    BY <2>2, <2>3, TypeParts DEF BusTypes
  <2>5. TaskTypes'
    BY <1>1, <2>2, <2>3, FreshState, SetTask, TypeParts
  <2>6. QED
    BY <1>1, <2>3, <2>4, <2>5, Untouched, CpuTypes, TypeParts
<1>3. CASE LoopAgain(b)
  <2>1. PICK s \in {Fresh("get"), Fresh("dead")} : task' = [task EXCEPT ![b] = s]
    BY <1>3 DEF LoopAgain
  <2>2. TaskTypes'
    BY <1>1, <2>1, FreshState, SetTask, TypeParts
  <2>3. CpuType'
    BY <1>1, <1>3 DEF LoopAgain, CpuType
  <2>4. QED
    BY <1>3, <2>2, <2>3, Untouched, TypeParts DEF LoopAgain
<1>4. QED
  BY <1>2, <1>3

\* The event lock.
LEMMA EnterTypes ==
    ASSUME TypeOK, NEW t \in Task, EnterLock(t) \/ LockGranted(t) \/ Check(t)
    PROVE  TypeOK'
<1> DEFINE l == LockOf[task[t].bus]
<1>1. task[t].pc \in {"lock", "lockwait", "check"} /\ task[t].pc \in Working
  BY DEF EnterLock, LockGranted, Check, At, Working
<1>2. task[t] \in TaskState /\ TaskOK(t, task[t])
  BY TypeParts DEF TaskTypes
<1>3. l \in Lock
  BY <1>1, <1>2, LockAssumption DEF TaskOK
<1>4. ASSUME NEW h \in {"owned", "nested"},
             task' = [task EXCEPT ![t].pc = "check", ![t].how = h]
      PROVE  TaskTypes'
  <2>1. [task[t] EXCEPT !.pc = "check", !.how = h] \in TaskState
    BY <1>2 DEF TaskState, PC
  <2>2. TaskOK(t, [task[t] EXCEPT !.pc = "check", !.how = h])
    BY <1>1, <1>2 DEF TaskState, TaskOK, Working
  <2>3. task' = [task EXCEPT ![t] = [task[t] EXCEPT !.pc = "check", !.how = h]]
    BY <1>4, TypeParts DEF TaskTypes
  <2>4. QED
    BY <2>1, <2>2, <2>3, SetTask, TypeParts
<1>5. CASE EnterLock(t)
  <2>1. TaskTypes' /\ LockTypes' /\ CpuType'
    <3> HIDE DEF l
    <3>1. CASE /\ task' = [task EXCEPT ![t].pc = "check", ![t].how = "nested"]
               /\ RunOn(t) /\ UNCHANGED lockVars
      BY <1>4, <3>1, Untouched, CpuTypes, TypeParts
    <3>2. CASE /\ owner' = [owner EXCEPT ![l] = t]
               /\ held' = [held EXCEPT ![t] = held[t] \cup {l}]
               /\ task' = [task EXCEPT ![t].pc = "check", ![t].how = "owned"]
               /\ RunOn(t) /\ UNCHANGED waiting
      <4>1. LockTypes'
        BY <1>3, <3>2, TypeParts DEF LockTypes
      <4>2. QED
        BY <1>4, <3>2, <4>1, CpuTypes, TypeParts
    <3>3. CASE /\ waiting' = [waiting EXCEPT ![l] = Append(waiting[l], t)]
               /\ Goto(t, "lockwait") /\ Suspend /\ UNCHANGED <<owner, held>>
      <4>1. LockTypes'
        BY <1>3, <3>3, TypeParts DEF LockTypes
      <4>2. TaskTypes'
        BY <1>1, <3>3, GotoWorking, TypeParts DEF Working
      <4>3. QED
        BY <3>3, <4>1, <4>2, CpuTypes
    <3>4. QED
      BY <1>5, <3>1, <3>2, <3>3 DEF EnterLock, l
  <2>2. QED
    BY <1>5, <2>1, Untouched, TypeParts DEF EnterLock
<1>6. CASE LockGranted(t)
  <2>1. /\ held' = [held EXCEPT ![t] = held[t] \cup {l}]
        /\ task' = [task EXCEPT ![t].pc = "check", ![t].how = "owned"]
        /\ RunOn(t) /\ UNCHANGED <<busVars, eventVars, resultVars, owner, waiting>>
    BY <1>6 DEF LockGranted
  <2> HIDE DEF l
  <2>2. LockTypes'
    BY <1>3, <2>1, TypeParts DEF LockTypes
  <2>3. QED
    BY <1>4, <2>1, <2>2, Untouched, CpuTypes, TypeParts
<1>7. CASE Check(t)
  <2>1. TaskTypes'
    <3>1. Goto(t, "unlock") \/ Goto(t, "select")
      BY <1>7 DEF Check
    <3>2. QED
      BY <1>1, <3>1, GotoWorking, TypeParts DEF Working
  <2>2. QED
    BY <1>7, <2>1, Untouched, CpuTypes, TypeParts DEF Check
<1>8. QED
  BY <1>5, <1>6, <1>7

\* Choosing and starting handlers.
LEMMA SelectTypes ==
    ASSUME TypeOK, NEW t \in Task,
           Select(t) \/ Create(t) \/ NextHandler(t) \/ HandlerLockGranted(t) \/ Start(t)
    PROVE  TypeOK'
<1> DEFINE e == task[t].ev
           h == task[t].cur
<1>1. task[t].pc \in {"select", "create", "next", "hwait", "start"} /\ task[t].pc \in Working
  BY DEF Select, Create, NextHandler, HandlerLockGranted, Start, At, Working
<1>2. task[t] \in TaskState /\ TaskOK(t, task[t])
  BY TypeParts DEF TaskTypes
<1>3. e \in Event /\ task[t].bus \in Bus /\ task[t].todo \in SUBSET Handler
  BY <1>1, <1>2 DEF TaskOK, TaskState
<1>4. CASE Select(t)
  <2> DEFINE hs == {x \in HandlersFor[task[t].bus][e] : ~WouldCreateLoop(e, x)}
             s == [task[t] EXCEPT !.pc = "create", !.todo = hs]
  <2>1. hs \in SUBSET Handler
    BY <1>3, HandlerAssumption
  <2>2. task' = [task EXCEPT ![t].pc = "create", ![t].todo = hs]
    BY <1>4 DEF Select
  <2> HIDE DEF hs
  <2>3. task' = [task EXCEPT ![t] = s]
    BY <2>2, TypeParts DEF TaskTypes
  <2>4. s \in TaskState /\ TaskOK(t, s)
    <3>1. s \in TaskState
      BY <1>1, <1>2, <2>1 DEF TaskState, PC
    <3>2. TaskOK(t, s)
      BY <1>1, <1>2, <2>1 DEF TaskOK, TaskState, Working
    <3>3. QED
      BY <3>1, <3>2
  <2> HIDE DEF s
  <2>5. TaskTypes'
    BY <2>3, <2>4, SetTask, TypeParts
  <2>6. QED
    BY <1>4, <2>5, Untouched, CpuTypes, TypeParts DEF Select
<1>5. CASE Create(t)
  <2>1. Goto(t, "end") \/ Goto(t, "next")
    BY <1>5 DEF Create
  <2>2. TaskTypes'
    BY <1>1, <2>1, GotoWorking, TypeParts DEF Working
  <2>3. CpuType'
    BY <1>5, CpuTypes DEF Create
  <2>4. CASE UNCHANGED <<result, status>>
    <3>1. EventTypes' /\ ResultTypes'
      BY <1>5, <2>4, TypeParts DEF Create, EventTypes, ResultTypes
    <3>2. QED
      BY <1>5, <2>2, <2>3, <3>1, Untouched, TypeParts DEF Create
  <2>5. CASE /\ result' = [result EXCEPT ![e] =
                  [x \in Handler |-> IF x \in task[t].todo THEN "pending" ELSE result[e][x]]]
             /\ status' = [status EXCEPT ![e] = IF status[e] = "completed" THEN "pending" ELSE status[e]]
    <3> HIDE DEF e
    <3>1. [x \in Handler |-> IF x \in task[t].todo THEN "pending" ELSE result[e][x]]
             \in [Handler -> ResultStatus]
      BY <1>3, TypeParts DEF ResultTypes, ResultStatus
    <3>2. result' \in [Event -> [Handler -> ResultStatus]]
      BY <1>3, <2>5, <3>1, TypeParts DEF ResultTypes
    <3>3. status' \in [Event -> Status]
      BY <1>3, <2>5, TypeParts DEF EventTypes, Status
    <3>4. EventTypes' /\ ResultTypes'
      BY <1>5, <3>2, <3>3, TypeParts DEF Create, EventTypes, ResultTypes
    <3>5. QED
      BY <1>5, <2>2, <2>3, <3>4, Untouched, TypeParts DEF Create
  <2>6. QED
    BY <1>5, <2>4, <2>5 DEF Create
<1>6. CASE NextHandler(t)
  <2>1. CASE Goto(t, "end") /\ Suspend /\ UNCHANGED lockVars
    <3>1. TaskTypes'
      BY <1>1, <2>1, GotoWorking, TypeParts DEF Working
    <3>2. QED
      BY <1>6, <2>1, <3>1, Untouched, CpuTypes, TypeParts DEF NextHandler
  <2>2. ASSUME NEW x \in task[t].todo, NEW p \in {"start", "hwait"},
               task' = [task EXCEPT ![t].pc = p, ![t].cur = x, ![t].todo = task[t].todo \ {x}]
        PROVE  TaskTypes'
    <3> DEFINE s == [task[t] EXCEPT !.pc = p, !.cur = x, !.todo = task[t].todo \ {x}]
    <3>1. task' = [task EXCEPT ![t] = s]
      BY <2>2, TypeParts DEF TaskTypes
    <3>2. s \in TaskState /\ TaskOK(t, s)
      <4>1. s \in TaskState
        BY <1>1, <1>2, <1>3 DEF TaskState, PC
      <4>2. TaskOK(t, s)
        BY <1>1, <1>2, <1>3 DEF TaskOK, TaskState, Working
      <4>3. QED
        BY <4>1, <4>2
    <3> HIDE DEF s
    <3>3. QED
      BY <3>1, <3>2, SetTask, TypeParts
  <2>3. ASSUME NEW x \in task[t].todo,
               owner' = [owner EXCEPT ![e] = t],
               task' = [task EXCEPT ![t].pc = "start", ![t].cur = x, ![t].todo = task[t].todo \ {x}],
               RunOn(t), UNCHANGED <<waiting, held>>
        PROVE  TypeOK'
    <3> HIDE DEF e
    <3>1. LockTypes'
      BY <1>3, <2>3, TypeParts DEF LockTypes
    <3>2. TaskTypes'
      BY <2>2, <2>3
    <3>3. QED
      BY <1>6, <2>3, <3>1, <3>2, Untouched, CpuTypes, TypeParts DEF NextHandler
  <2>4. ASSUME NEW x \in task[t].todo,
               waiting' = [waiting EXCEPT ![e] = Append(waiting[e], t)],
               task' = [task EXCEPT ![t].pc = "hwait", ![t].cur = x, ![t].todo = task[t].todo \ {x}],
               Suspend, UNCHANGED <<owner, held>>
        PROVE  TypeOK'
    <3> HIDE DEF e
    <3>1. LockTypes'
      BY <1>3, <2>4, TypeParts DEF LockTypes
    <3>2. TaskTypes'
      BY <2>2, <2>4
    <3>3. QED
      BY <1>6, <2>4, <3>1, <3>2, Untouched, CpuTypes, TypeParts DEF NextHandler
  <2>5. QED
    BY <1>6, <2>1, <2>3, <2>4 DEF NextHandler
<1>7. CASE HandlerLockGranted(t)
  <2>1. TaskOK(t, [task[t] EXCEPT !.pc = "start"])
    BY <1>2, <1>7 DEF HandlerLockGranted, At, TaskState, TaskOK, Working
  <2>2. TaskTypes'
    BY <1>7, <2>1, GotoTypes, TypeParts DEF HandlerLockGranted, PC
  <2>3. QED
    BY <1>7, <2>2, Untouched, CpuTypes, TypeParts DEF HandlerLockGranted
<1>8. CASE Start(t)
  <2>1. h \in Handler
    BY <1>2, <1>8 DEF Start, At, TaskOK
  <2>2. CASE /\ Released(e)
             /\ task' = [task EXCEPT ![t].pc = "next", ![t].cur = NoHandler]
             /\ Hook(t) /\ UNCHANGED <<resultVars, status>>
    <3> DEFINE s == [task[t] EXCEPT !.pc = "next", !.cur = NoHandler]
    <3>1. task' = [task EXCEPT ![t] = s]
      BY <2>2, TypeParts DEF TaskTypes
    <3>2. s \in TaskState /\ TaskOK(t, s)
      <4>1. s \in TaskState
        BY <1>1, <1>2 DEF TaskState, PC
      <4>2. TaskOK(t, s)
        BY <1>1, <1>2 DEF TaskOK, TaskState, Working
      <4>3. QED
        BY <4>1, <4>2
    <3> HIDE DEF s, e
    <3>3. TaskTypes'
      BY <3>1, <3>2, SetTask, TypeParts
    <3>4. LockTypes'
      BY <1>3, <1>8, <2>2, ReleasedTypes, TypeParts DEF Start, LockTypes
    <3>5. EventTypes'
      BY <1>8, <2>2, TypeParts DEF Start, EventTypes
    <3>6. QED
      BY <1>8, <2>2, <3>3, <3>4, <3>5, Untouched, CpuTypes, TypeParts DEF Start
  <2>3. CASE /\ result' = [result EXCEPT ![e][h] = "started"]
             /\ runs' = [runs EXCEPT ![e][h] = IF runs[e][h] < 2 THEN runs[e][h] + 1 ELSE runs[e][h]]
             /\ status' = [status EXCEPT ![e] = IF status[e] = "pending" THEN "started" ELSE status[e]]
             /\ Goto(t, "body") /\ Suspend /\ UNCHANGED <<owner, waiting>>
    <3>1. TaskOK(t, [task[t] EXCEPT !.pc = "body"])
      BY <1>2, <1>8 DEF Start, At, TaskState, TaskOK, Working
    <3>2. TaskTypes'
      BY <2>3, <3>1, GotoTypes, TypeParts DEF PC
    <3> HIDE DEF e, h
    <3>3. result' \in [Event -> [Handler -> ResultStatus]]
      BY <1>3, <2>1, <2>3, TypeParts DEF ResultTypes, ResultStatus
    <3>4. (IF runs[e][h] < 2 THEN runs[e][h] + 1 ELSE runs[e][h]) \in 0..2
      BY <1>3, <2>1, TypeParts DEF ResultTypes
    <3>5. runs' \in [Event -> [Handler -> 0..2]]
      BY <1>3, <2>1, <2>3, <3>4, TypeParts DEF ResultTypes
    <3>6. EventTypes'
      <4>1. status' \in [Event -> Status]
        BY <1>3, <2>3, TypeParts DEF EventTypes, Status
      <4>2. QED
        BY <1>8, <4>1, TypeParts DEF Start, EventTypes
    <3>7. LockTypes'
      BY <1>8, <2>3, TypeParts DEF Start, LockTypes
    <3>8. QED
      BY <1>8, <2>3, <3>2, <3>3, <3>5, <3>6, <3>7, Untouched, CpuTypes, TypeParts
      DEF Start, ResultTypes
  <2>4. QED
    BY <1>8, <2>2, <2>3 DEF Start
<1>9. QED
  BY <1>4, <1>5, <1>6, <1>7, <1>8

\* A task whose handler has returned is ready for the next handler.
LEMMA ReturnedTypes ==
    ASSUME TypeOK, NEW t \in Task, task[t].pc \in {"body", "sent"}
    PROVE  /\ Returned(t) \in [Task -> TaskState]
           /\ \A u \in Task : TaskOK(u, Returned(t)[u])
<1> DEFINE s == [task[t] EXCEPT !.pc = "next", !.cur = NoHandler]
<1>1. task \in [Task -> TaskState] /\ \A u \in Task : TaskOK(u, task[u])
  BY TypeParts DEF TaskTypes
<1>2. s \in TaskState /\ TaskOK(t, s)
  <2>1. task[t] \in TaskState /\ TaskOK(t, task[t])
    BY <1>1
  <2>2. s \in TaskState
    BY <2>1 DEF TaskState, PC
  <2>3. TaskOK(t, s)
    BY <2>1 DEF TaskOK, TaskState, Working
  <2>4. QED
    BY <2>2, <2>3
<1>3. Returned(t) = [task EXCEPT ![t] = s]
  BY <1>1 DEF Returned
<1> HIDE DEF s
<1>4. QED
  BY <1>1, <1>2, <1>3

\* What a handler that returns or emits does.
LEMMA BodyTypes ==
    ASSUME TypeOK, NEW t \in Task,
           HForward(t) \/ HReturn(t) \/ \E c \in Event : HEmit(t, c)
    PROVE  TypeOK'
<1>1. task[t].pc \in {"body", "await", "sent"} /\ cpu = NoTask
  BY DEF HForward, HReturn, HEmit, InBody, InHandler, At
<1>2. /\ task \in [Task -> TaskState] /\ \A u \in Task : TaskOK(u, task[u])
      /\ task[t] \in TaskState /\ TaskOK(t, task[t])
  BY TypeParts DEF TaskTypes
<1>3. task[t].ev \in Event /\ task[t].bus \in Bus /\ task[t].cur \in Handler
  BY <1>1, <1>2 DEF TaskOK, Working
<1>4. ASSUME NEW b \in Bus, task' = Restarted(b, task)
      PROVE  TaskTypes'
  <2>1. /\ Restarted(b, task) \in [Task -> TaskState]
        /\ \A u \in Task : TaskOK(u, Restarted(b, task)[u])
    BY <1>2, RestartedTypes
  <2>2. QED
    BY <1>4, <2>1 DEF TaskTypes
<1>5. CASE HForward(t)
  <2> DEFINE e == task[t].ev
             b == Target[task[t].cur]
             s == [task[t] EXCEPT !.pc = "sent"]
  <2>1. /\ b \in Bus
        /\ Emit(b, e, parent[e], link[e])
        /\ task' = Restarted(b, [task EXCEPT ![t].pc = "sent"])
        /\ UNCHANGED <<resultVars, lockVars, cpu>>
    BY <1>3, <1>5, HandlerAssumption DEF HForward
  <2>2. parent[e] \in Event \cup {NoEvent} /\ link[e] \in Handler \cup {NoHandler}
    BY <1>3, TypeParts DEF EventTypes
  <2>3. e \in Event
    BY <1>3
  <2> HIDE DEF e, b
  <2>4. BusTypes' /\ EventTypes'
    BY <2>1, <2>2, <2>3, EmitTypes, TypeParts
  <2>5. s \in TaskState /\ TaskOK(t, s)
    <3>1. task[t].pc = "body"
      BY <1>5 DEF HForward, InBody, At
    <3>2. s \in TaskState
      BY <1>2 DEF TaskState, PC
    <3>3. TaskOK(t, s)
      BY <1>2, <3>1 DEF TaskOK, TaskState, Working
    <3>4. QED
      BY <3>2, <3>3
  <2>6. [task EXCEPT ![t].pc = "sent"] = [task EXCEPT ![t] = s]
    BY <1>2
  <2> HIDE DEF s
  <2>7. TaskTypes'
    <3> DEFINE r == [task EXCEPT ![t] = s]
    <3>1. r \in [Task -> TaskState] /\ \A u \in Task : TaskOK(u, r[u])
      BY <1>2, <2>5
    <3>2. task' = Restarted(b, r)
      BY <2>1, <2>6
    <3> HIDE DEF r
    <3>3. QED
      BY <2>1, <3>1, <3>2, RestartedTypes DEF TaskTypes
  <2>8. QED
    BY <2>1, <2>4, <2>7, Untouched, TypeParts
<1>6. CASE HReturn(t)
  <2>0. task[t].pc \in {"body", "sent"}
    BY <1>6 DEF HReturn, At
  <2>1. PICK r \in Terminal : Settle(t, r)
    BY <1>6 DEF HReturn, Terminal
  <2>2. ResultTypes' /\ LockTypes'
    BY <1>1, <2>1, SettleTypes, TypeParts DEF ResultStatus, Terminal
  <2>3. TaskTypes'
    BY <1>6, <2>0, ReturnedTypes DEF HReturn, TaskTypes
  <2>4. QED
    BY <1>6, <2>2, <2>3, Untouched, CpuTypes, TypeParts DEF HReturn
<1>7. CASE \E c \in Event : HEmit(t, c)
  <2>1. PICK c \in Event : HEmit(t, c)
    BY <1>7
  <2> DEFINE h == IF result[task[t].ev][task[t].cur] \in {"pending", "started"}
                  THEN task[t].cur ELSE NoHandler
  <2>2. Emit(task[t].bus, c, task[t].ev, h)
    BY <2>1 DEF HEmit
  <2>3. h \in Handler \cup {NoHandler}
    BY <1>3
  <2> HIDE DEF h
  <2>4. BusTypes' /\ EventTypes'
    BY <1>3, <2>2, <2>3, EmitTypes, TypeParts
  <2>5. TaskTypes'
    BY <1>3, <1>4, <2>1 DEF HEmit
  <2>6. QED
    BY <2>1, <2>4, <2>5, Untouched, TypeParts DEF HEmit
<1>8. QED
  BY <1>5, <1>6, <1>7

\* A task in state s whose handler no longer waits for j.
Dropped(s, j) ==
    [s EXCEPT !.pc = IF s.kids = {j} THEN "body" ELSE "await", !.kids = s.kids \ {j}]

\* It has what its place needs.
LEMMA DroppedTypes ==
    ASSUME TaskTypes, NEW t \in Task, task[t].pc = "await", NEW j \in task[t].kids
    PROVE  /\ Dropped(task[t], j) \in TaskState /\ TaskOK(t, Dropped(task[t], j))
           /\ Without(t, j) = [task EXCEPT ![t] = Dropped(task[t], j)]
<1>1. task[t] \in TaskState /\ TaskOK(t, task[t]) /\ task \in [Task -> TaskState]
  BY DEF TaskTypes
<1>2. Dropped(task[t], j) \in TaskState
  BY <1>1 DEF Dropped, TaskState, PC
<1>3. TaskOK(t, Dropped(task[t], j))
  <2>1. CASE task[t].kids = {j}
    <3>1. Dropped(task[t], j) = [task[t] EXCEPT !.pc = "body", !.kids = {}]
      BY <2>1 DEF Dropped
    <3>2. QED
      BY <1>1, <3>1 DEF TaskOK, TaskState, Working
  <2>2. CASE task[t].kids # {j}
    <3>1. PICK S \in SUBSET Jumper : S = task[t].kids \ {j}
      BY <1>1 DEF TaskState
    <3>2. S # {}
      BY <2>2, <3>1
    <3>3. Dropped(task[t], j) = [task[t] EXCEPT !.pc = "await", !.kids = S]
      BY <2>2, <3>1 DEF Dropped
    <3>4. QED
      BY <1>1, <3>2, <3>3 DEF TaskOK, TaskState, Working
  <2>3. QED
    BY <2>1, <2>2
<1>4. Without(t, j) = [task EXCEPT ![t] = Dropped(task[t], j)]
  BY <1>1 DEF Without, Dropped
<1>5. QED
  BY <1>2, <1>3, <1>4

\* What a handler that awaits a child does, and how the wait ends.
LEMMA AwaitTypes ==
    ASSUME TypeOK, NEW t \in Task,
           \/ \E c \in Event, j \in Jumper : HAwait(t, c, j)
           \/ HResume(t) \/ HLeave(t) \/ HCancel(t) \/ HAwaitCancelled(t)
    PROVE  TypeOK'
<1>1. task \in [Task -> TaskState] /\ \A u \in Task : task[u] \in TaskState /\ TaskOK(u, task[u])
  BY TypeParts DEF TaskTypes
<1>2. \A j \in Jumper : j \in Task
  BY DEF Task
<1>0. task[t] \in TaskState /\ TaskOK(t, task[t])
  BY <1>1
<1>3. CASE \E c \in Event, j \in Jumper : HAwait(t, c, j)
  <2>1. PICK c \in Event, j \in Jumper : HAwait(t, c, j)
    BY <1>3
  <2>2. task[t].pc \in {"body", "await"} /\ task[j].pc = "idle" /\ cpu' = cpu
    BY <2>1 DEF HAwait, InHandler, At
  <2> DEFINE s == [task[t] EXCEPT !.pc = "await", !.kids = task[t].kids \cup {j}]
             r == [Fresh("poll") EXCEPT !.ev = c]
  <2>3. task' = [task EXCEPT ![t].pc = "await", ![t].kids = task[t].kids \cup {j}, ![j] = r]
    BY <1>1, <2>1 DEF HAwait
  <2>4. s \in TaskState /\ TaskOK(t, s)
    <3>1. s \in TaskState
      BY <1>0, <2>2 DEF TaskState, PC
    <3>2. TaskOK(t, s)
      BY <1>0, <2>2 DEF TaskOK, TaskState, Working
    <3>3. QED
      BY <3>1, <3>2
  <2>5. r \in TaskState /\ TaskOK(j, r)
    BY FreshState
  <2> HIDE DEF r
  <2>6. task' = [task EXCEPT ![t] = s, ![j] = r]
    BY <1>1, <1>2, <2>2, <2>3
  <2> HIDE DEF s
  <2>7. TaskTypes'
    BY <1>1, <1>2, <2>4, <2>5, <2>6 DEF TaskTypes
  <2>8. LockTypes'
    <3>1. task[t].bus \in Bus /\ LockOf[task[t].bus] \in Lock
      BY <1>1, <2>2, LockAssumption DEF TaskOK, Working
    <3>2. held' \in [Task -> SUBSET Lock]
      BY <1>2, <2>1, <3>1, TypeParts DEF HAwait, LockTypes
    <3>3. QED
      BY <2>1, <3>2, TypeParts DEF HAwait, LockTypes
  <2>9. EventTypes'
    BY <2>1, TypeParts DEF HAwait, EventTypes
  <2>10. QED
    BY <2>1, <2>7, <2>8, <2>9, Untouched, TypeParts DEF HAwait
<1>4. CASE HResume(t)
  <2> DEFINE r == Fresh("idle")
  <2>1. PICK j \in task[t].kids :
           /\ task[j].pc = "done"
           /\ held' = [held EXCEPT ![j] = {}]
           /\ task' = [Without(t, j) EXCEPT ![j] = Fresh("idle")]
    BY <1>4 DEF HResume
  <2>2. task[t].pc = "await" /\ j \in Jumper /\ j # t
    BY <1>0, <1>4, <2>1 DEF HResume, At, TaskState
  <2> DEFINE s == Dropped(task[t], j)
  <2>3. s \in TaskState /\ TaskOK(t, s)
    BY <2>2, DroppedTypes, TypeParts
  <2>4. r \in TaskState /\ TaskOK(j, r)
    BY <2>2, FreshState
  <2> HIDE DEF r
  <2>5. task' = [task EXCEPT ![t] = s, ![j] = r]
    BY <1>2, <2>1, <2>2, DroppedTypes, TypeParts DEF r
  <2> HIDE DEF s
  <2>6. TaskTypes'
    BY <1>1, <1>2, <2>1, <2>3, <2>4, <2>5 DEF TaskTypes
  <2>7. LockTypes'
    BY <1>2, <1>4, <2>1, <2>2, TypeParts DEF HResume, LockTypes
  <2>8. QED
    BY <1>4, <2>6, <2>7, Untouched, TypeParts DEF HResume
<1>10. CASE HLeave(t)
  <2>1. PICK j \in task[t].kids : task' = Without(t, j)
    BY <1>10 DEF HLeave
  <2>2. task[t].pc = "await" /\ j \in Jumper
    BY <1>0, <1>10 DEF HLeave, At, TaskState
  <2>3. TaskTypes'
    BY <2>1, <2>2, DroppedTypes, SetTask, TypeParts
  <2>4. QED
    BY <1>10, <2>3, Untouched, TypeParts DEF HLeave
<1>5. ASSUME HCancel(t) \/ HAwaitCancelled(t) PROVE Interrupted(t) /\ task[t].pc \in {"body", "await"}
  BY <1>5 DEF HCancel, HAwaitCancelled, InBody, At
<1>6. ASSUME HCancel(t) \/ HAwaitCancelled(t), TaskTypes' PROVE TypeOK'
  <2>1. ResultTypes' /\ LockTypes'
    BY <1>5, <1>6, SettleTypes, TypeParts DEF Interrupted, ResultStatus
  <2>2. QED
    BY <1>5, <1>6, <2>1, Untouched, CpuTypes, TypeParts DEF Interrupted
<1>7. CASE HCancel(t)
  <2> DEFINE s == [task[t] EXCEPT !.pc = "unlock", !.cur = NoHandler, !.todo = {}, !.exc = TRUE]
  <2>1. task' = [task EXCEPT ![t] = s]
    BY <1>1, <1>7 DEF HCancel
  <2>2. s \in TaskState /\ TaskOK(t, s)
    <3>1. s \in TaskState
      BY <1>0, <1>5, <1>7 DEF TaskState, PC
    <3>2. TaskOK(t, s)
      BY <1>0, <1>5, <1>7 DEF HCancel, InBody, At, TaskOK, TaskState, Working
    <3>3. QED
      BY <3>1, <3>2
  <2> HIDE DEF s
  <2>3. QED
    BY <1>6, <1>7, <2>1, <2>2, SetTask, TypeParts
<1>8. CASE HAwaitCancelled(t)
  <2> DEFINE s == [task[t] EXCEPT !.pc = "unlock", !.cur = NoHandler, !.todo = {}, !.exc = TRUE,
                                  !.kids = {}]
             r == Fresh("idle")
  <2>0. PICK j \in task[t].kids :
           /\ task[j].pc = "failed"
           /\ task' = [task EXCEPT ![t].pc = "unlock", ![t].cur = NoHandler, ![t].todo = {}, ![t].exc = TRUE,
                                   ![t].kids = {}, ![j] = Fresh("idle")]
    BY <1>8 DEF HAwaitCancelled
  <2>1. task[t].pc = "await" /\ j \in Jumper /\ task[j].pc = "failed"
    BY <1>0, <1>8, <2>0 DEF HAwaitCancelled, At, TaskState
  <2>2. task' = [task EXCEPT ![t].pc = "unlock", ![t].cur = NoHandler, ![t].todo = {}, ![t].exc = TRUE,
                             ![t].kids = {}, ![j] = r]
    BY <2>0
  <2>3. s \in TaskState /\ TaskOK(t, s)
    <3>1. s \in TaskState
      BY <1>0, <2>1 DEF TaskState, PC
    <3>2. TaskOK(t, s)
      BY <1>0, <2>1 DEF TaskOK, TaskState, Working
    <3>3. QED
      BY <3>1, <3>2
  <2>4. r \in TaskState /\ TaskOK(j, r)
    BY <2>1, FreshState
  <2> HIDE DEF r
  <2>5. task' = [task EXCEPT ![t] = s, ![j] = r]
    BY <1>1, <1>2, <2>1, <2>2
  <2> HIDE DEF s
  <2>6. TaskTypes'
    BY <1>1, <1>2, <2>1, <2>3, <2>4, <2>5 DEF TaskTypes
  <2>7. QED
    BY <1>6, <1>8, <2>6
<1>9. QED
  BY <1>3, <1>4, <1>7, <1>8, <1>10

\* The end of an event on a bus.
LEMMA EndTypes ==
    ASSUME TypeOK, NEW t \in Task, End(t) \/ Unlock(t) \/ Propagate(t)
    PROVE  TypeOK'
<1> DEFINE e == task[t].ev
           b == task[t].bus
<1>1. task[t].pc \in {"end", "unlock", "prop"} /\ task[t].pc \in Working
  BY DEF End, Unlock, Propagate, At, Working
<1>2. task[t] \in TaskState /\ TaskOK(t, task[t])
  BY TypeParts DEF TaskTypes
<1>3. e \in Event /\ b \in Bus
  BY <1>1, <1>2 DEF TaskOK
<1>4. CASE End(t)
  <2>1. TaskTypes'
    BY <1>1, <1>4, GotoWorking, TypeParts DEF End, Working
  <2>2. EventTypes' /\ BusTypes' /\ CpuType'
    <3>1. CASE /\ Complete({e}) /\ Hook(t)
               /\ inflight' = [a \in Bus |-> inflight[a] \ {e}]
      <4> HIDE DEF e
      <4>1. BusTypes'
        BY <1>4, <3>1, TypeParts DEF End, BusTypes
      <4>2. QED
        BY <3>1, <4>1, CompleteTypes, CpuTypes, TypeParts
    <3>2. CASE UNCHANGED <<inflight, eventVars>> /\ RunOn(t)
      <4>1. BusTypes'
        BY <1>4, <3>2, TypeParts DEF End, BusTypes
      <4>2. QED
        BY <3>2, <4>1, Untouched, CpuTypes, TypeParts
    <3>3. QED
      BY <1>4, <3>1, <3>2 DEF End
  <2>3. QED
    BY <1>4, <2>1, <2>2, Untouched, TypeParts DEF End
<1>5. CASE Unlock(t)
  <2> DEFINE l == LockOf[b]
             newly == CompletableTree(e, b)
             s == [task[t] EXCEPT !.pc = "prop", !.up = e, !.how = "none"]
  <2>1. l \in Lock
    BY <1>3, LockAssumption
  <2>2. /\ processing' = [processing EXCEPT ![b] = processing[b] \ {e}]
        /\ inflight' = [a \in Bus |-> inflight[a] \ (newly \cup IF a = b THEN {e} ELSE {})]
        /\ queue' = queue
        /\ Complete(newly)
        /\ task' = [task EXCEPT ![t].pc = "prop", ![t].up = e, ![t].how = "none"]
        /\ RunOn(t) \/ Hook(t)
        /\ UNCHANGED resultVars
    BY <1>5 DEF Unlock
  <2>3. \/ Released(l) /\ held' = [held EXCEPT ![t] = held[t] \ {l}]
        \/ UNCHANGED lockVars
    BY <1>5 DEF Unlock
  <2>4. s \in TaskState /\ TaskOK(t, s)
    <3>1. s \in TaskState
      BY <1>1, <1>2, <1>3 DEF TaskState, PC
    <3>2. TaskOK(t, s)
      BY <1>1, <1>2, <1>3 DEF TaskOK, TaskState, Working
    <3>3. QED
      BY <3>1, <3>2
  <2> HIDE DEF newly
  <2>5. task' = [task EXCEPT ![t] = s]
    BY <2>2, TypeParts DEF TaskTypes
  <2> HIDE DEF l, s, e, b
  <2>6. LockTypes'
    <3>1. CASE Released(l) /\ held' = [held EXCEPT ![t] = held[t] \ {l}]
      BY <2>1, <3>1, ReleasedTypes, TypeParts DEF LockTypes
    <3>2. QED
      BY <2>3, <3>1, Untouched, TypeParts
  <2>7. BusTypes'
    BY <1>3, <2>2, TypeParts DEF BusTypes
  <2>8. QED
    BY <2>2, <2>4, <2>5, <2>6, <2>7, SetTask, CompleteTypes, Untouched, CpuTypes, TypeParts
<1>6. CASE Propagate(t)
  <2> DEFINE p == parent[task[t].up]
  <2>1. task[t].up \in Event
    BY <1>2, <1>6 DEF Propagate, At, TaskOK
  <2>2. p \in Event \cup {NoEvent}
    BY <2>1, TypeParts DEF EventTypes
  <2>3. CASE p = NoEvent
    <3>1. Goto(t, "after") /\ RunOn(t) /\ UNCHANGED <<inflight, eventVars>>
      BY <1>6, <2>3 DEF Propagate
    <3>2. TaskTypes'
      BY <1>1, <3>1, GotoWorking, TypeParts DEF Working
    <3>3. BusTypes'
      BY <1>6, <3>1, TypeParts DEF Propagate, BusTypes
    <3>4. QED
      BY <1>6, <3>1, <3>2, <3>3, Untouched, CpuTypes, TypeParts DEF Propagate
  <2>4. CASE p # NoEvent
    <3> DEFINE s == [task[t] EXCEPT !.up = p]
    <3>1. task' = [task EXCEPT ![t].up = p]
      BY <1>6, <2>4 DEF Propagate
    <3>2. /\ \/ Complete({p}) /\ inflight' = [a \in Bus |-> inflight[a] \ {p}]
             \/ UNCHANGED <<inflight, eventVars>>
          /\ Hook(t) \/ RunOn(t)
          /\ UNCHANGED <<queue, processing, resultVars, lockVars>>
      BY <1>6, <2>4 DEF Propagate
    <3>3. s \in TaskState /\ TaskOK(t, s)
      <4>1. s \in TaskState
        BY <1>1, <1>2, <2>2, <2>4 DEF TaskState, PC
      <4>2. TaskOK(t, s)
        BY <1>1, <1>2, <2>2, <2>4 DEF TaskOK, TaskState, Working
      <4>3. QED
        BY <4>1, <4>2
    <3> HIDE DEF p
    <3>4. task' = [task EXCEPT ![t] = s]
      BY <3>1, TypeParts DEF TaskTypes
    <3> HIDE DEF s
    <3>5. BusTypes'
      BY <3>2, TypeParts DEF BusTypes
    <3>6. EventTypes'
      BY <3>2, CompleteTypes, Untouched, TypeParts
    <3>7. QED
      BY <3>2, <3>3, <3>4, <3>5, <3>6, SetTask, Untouched, CpuTypes, TypeParts
  <2>5. QED
    BY <2>3, <2>4
<1>7. QED
  BY <1>4, <1>5, <1>6

\* The tasks of now().
LEMMA JumpTypes ==
    ASSUME TypeOK, NEW j \in Jumper, Jump(j)
    PROVE  TypeOK'
<1> DEFINE e == task[j].ev
<1>1. j \in Task
  BY DEF Task
<1>2. task[j] \in TaskState /\ TaskOK(j, task[j])
  BY <1>1, TypeParts DEF TaskTypes
<1>3. task[j].pc \in {"poll", "sigwait", "after"} /\ e \in Event
  BY <1>2 DEF Jump, JumpYield, JumpGiveUp, JumpDone, JumpAgain, JumpTake, JumpJoin,
              NothingToDo, Polling, At, TaskOK, Working
<1>4. ASSUME NEW p \in {"sigwait", "done", "failed"}, Goto(j, p)
      PROVE  TaskTypes'
  <2>1. TaskOK(j, [task[j] EXCEPT !.pc = p])
    BY <1>2, <1>3 DEF TaskState, TaskOK, Working
  <2>2. QED
    BY <1>1, <1>4, <2>1, GotoTypes, TypeParts DEF PC
<1>5. CASE JumpYield(j)
  BY <1>1, <1>5, Untouched, CpuTypes, TypeParts DEF JumpYield
<1>6. CASE JumpGiveUp(j)
  <2>1. Goto(j, "sigwait") \/ Goto(j, "done")
    BY <1>6 DEF JumpGiveUp
  <2>2. QED
    BY <1>1, <1>4, <1>6, <2>1, Untouched, CpuTypes, TypeParts DEF JumpGiveUp
<1>7. CASE JumpDone(j)
  BY <1>1, <1>4, <1>7, Untouched, CpuTypes, TypeParts DEF JumpDone
<1>8. CASE JumpAgain(j)
  <2>1. CASE Goto(j, "failed") /\ Suspend
    BY <1>1, <1>4, <1>8, <2>1, Untouched, CpuTypes, TypeParts DEF JumpAgain
  <2>2. CASE /\ task' = [task EXCEPT ![j] =
                    [Fresh("poll") EXCEPT !.ev = e, !.claimed = task[j].claimed]]
             /\ RunOn(j)
    <3>1. task[j].claimed \in SUBSET Bus
      BY <1>2 DEF TaskState
    <3> DEFINE s == [Fresh("poll") EXCEPT !.ev = e, !.claimed = task[j].claimed]
    <3>8. s \in TaskState /\ TaskOK(j, s)
      BY <1>3, <3>1, FreshState
    <3>9. task' = [task EXCEPT ![j] = s]
      BY <2>2
    <3> HIDE DEF s
    <3>2. TaskTypes'
      BY <1>1, <3>8, <3>9, SetTask, TypeParts
    <3>3. QED
      BY <1>1, <1>8, <2>2, <3>2, Untouched, CpuTypes, TypeParts DEF JumpAgain
  <2>3. QED
    BY <1>8, <2>1, <2>2 DEF JumpAgain
<1>9. ASSUME NEW b \in Bus, JumpTake(j, b)
      PROVE  TypeOK'
  <2> DEFINE s == [task[j] EXCEPT !.pc = "select", !.bus = b, !.how = "bypass"]
  <2>1. PICK i \in 1..Len(queue[b]) : queue' = [queue EXCEPT ![b] = RemoveAt(queue[b], i)]
    BY <1>9 DEF JumpTake
  <2>2. queue[b] \in Seq(Event)
    BY TypeParts DEF BusTypes
  <2>3. RemoveAt(queue[b], i) \in Seq(Event)
    BY <2>2, RemoveAtOfSeq
  <2>4. /\ processing' = [processing EXCEPT ![b] = processing[b] \cup {e}]
        /\ inflight' = inflight
        /\ task' = [task EXCEPT ![j].pc = "select", ![j].bus = b, ![j].how = "bypass"]
        /\ RunOn(j) /\ UNCHANGED <<eventVars, resultVars, lockVars>>
    BY <1>9 DEF JumpTake
  <2>5. s \in TaskState /\ TaskOK(j, s)
    <3>1. s \in TaskState
      BY <1>2 DEF TaskState, PC
    <3>2. j \notin Bus
      BY NamesAssumption
    <3>3. TaskOK(j, s)
      BY <1>2, <1>3, <3>2 DEF TaskState, TaskOK, Working
    <3>4. QED
      BY <3>1, <3>3
  <2> HIDE DEF e
  <2>6. BusTypes'
    BY <1>3, <2>1, <2>3, <2>4, TypeParts DEF BusTypes
  <2>7. task' = [task EXCEPT ![j] = s]
    BY <2>4, TypeParts DEF TaskTypes
  <2> HIDE DEF s
  <2>8. QED
    BY <1>1, <2>4, <2>5, <2>6, <2>7, SetTask, Untouched, CpuTypes, TypeParts
<1>10. ASSUME NEW b \in Bus, JumpJoin(j, b)
       PROVE  TypeOK'
  <2> DEFINE s == [task[j] EXCEPT !.pc = "lock", !.bus = b, !.claimed = task[j].claimed \cup {b}]
  <2>1. task' = [task EXCEPT ![j].pc = "lock", ![j].bus = b, ![j].claimed = task[j].claimed \cup {b}]
    BY <1>10, TypeParts DEF JumpJoin, TaskTypes
  <2>2. j \notin Bus
    BY NamesAssumption
  <2>3. s \in TaskState
    BY <1>2 DEF TaskState, PC
  <2>4. TaskOK(j, s)
    BY <1>2, <1>3, <2>2 DEF TaskState, TaskOK, Working
  <2>5. task' = [task EXCEPT ![j] = s]
    BY <2>1, TypeParts DEF TaskTypes
  <2> HIDE DEF s
  <2>6. QED
    BY <1>1, <1>10, <2>3, <2>4, <2>5, SetTask, Untouched, CpuTypes, TypeParts DEF JumpJoin
<1>11. QED
  BY <1>5, <1>6, <1>7, <1>8, <1>9, <1>10 DEF Jump

\* Emissions and now() outside of handlers.
LEMMA OutsideTypes ==
    ASSUME TypeOK, Outside
    PROVE  TypeOK'
<1>1. ASSUME NEW b \in Bus, NEW e \in Event, ExtEmit(b, e)
      PROVE  TypeOK'
  <2>1. Emit(b, e, NoEvent, NoHandler)
    BY <1>1 DEF ExtEmit
  <2>2. BusTypes' /\ EventTypes'
    BY <2>1, EmitTypes, TypeParts
  <2>3. TaskTypes'
    BY <1>1, RestartedTypes, TypeParts DEF ExtEmit, TaskTypes
  <2>4. QED
    BY <1>1, <2>2, <2>3, Untouched, TypeParts DEF ExtEmit
<1>2. ASSUME NEW j \in Jumper, NEW e \in Event, ExtAwait(j, e)
      PROVE  TypeOK'
  <2>1. task' = [task EXCEPT ![j] = [Fresh("poll") EXCEPT !.ev = e]]
    BY <1>2 DEF ExtAwait
  <2>2. j \in Task
    BY DEF Task
  <2>3. TaskTypes'
    BY <2>1, <2>2, FreshState, SetTask, TypeParts
  <2>4. QED
    BY <1>2, <2>3, Untouched, TypeParts DEF ExtAwait
<1>3. QED
  BY <1>1, <1>2 DEF Outside

\* No step breaks the types.
LEMMA TypeStep == TypeOK /\ [Next]_vars => TypeOK'
<1> SUFFICES ASSUME TypeOK, [Next]_vars PROVE TypeOK'
  OBVIOUS
<1>1. ASSUME NEW t \in Task, Process(t) PROVE TypeOK'
  BY <1>1, EnterTypes, SelectTypes, EndTypes DEF Process
<1>2. ASSUME NEW t \in Task, Body(t) PROVE TypeOK'
  BY <1>2, BodyTypes, AwaitTypes DEF Body
<1>3. ASSUME NEW b \in Bus, LoopGet(b) \/ LoopAgain(b) PROVE TypeOK'
  BY <1>3, LoopTypes
<1>4. ASSUME NEW j \in Jumper, Jump(j) PROVE TypeOK'
  BY <1>4, JumpTypes
<1>5. ASSUME Outside PROVE TypeOK'
  BY <1>5, OutsideTypes
<1>6. ASSUME UNCHANGED vars PROVE TypeOK'
  <2>1. UNCHANGED <<busVars, eventVars, resultVars, lockVars, task, cpu>>
    BY <1>6 DEF vars
  <2>2. QED
    BY <2>1, Untouched, TypeParts
<1>7. QED
  BY <1>1, <1>2, <1>3, <1>4, <1>5, <1>6 DEF Next

\* Every variable keeps its type and every task has what its place needs, for
\* any buses, events and handlers.
THEOREM TypeCorrect == Spec => []TypeOK
<1>1. Init => TypeOK
  BY TypeInit
<1>2. TypeOK /\ [Next]_vars => TypeOK'
  BY TypeStep
<1>3. QED
  BY <1>1, <1>2, PTL DEF Spec

-----------------------------------------------------------------------------
(* No lock is lost: what the tasks that own and await locks are doing. *)

\* Places of a task that has entered an event lock, and a handler's lock.
Inside == {"check", "select", "create", "next", "hwait", "start", "body", "await",
           "sent", "end", "unlock"}
Calling == {"start", "body", "await", "sent"}

\* A task in state s is under lock l, or sleeps in its acquire().
Uses(s, l) ==
    \/ l \in Lock /\ s.pc \in Inside /\ s.how = "owned" /\ LockOf[s.bus] = l
    \/ l \in Event /\ s.pc \in Calling /\ s.ev = l
Wants(s, l) ==
    \/ l \in Lock /\ s.pc = "lockwait" /\ LockOf[s.bus] = l
    \/ l \in Event /\ s.pc = "hwait" /\ s.ev = l

\* A lock belongs to a task that uses it or has yet to find out that it was
\* handed over, and the tasks in its queue are others, each once.
OwnersUse ==
    \A l \in Lock \cup Event : owner[l] # NoTask => Uses(task[owner[l]], l) \/ Wants(task[owner[l]], l)
WaitersWant ==
    \A l \in Lock \cup Event : \A i \in 1..Len(waiting[l]) :
        Wants(task[waiting[l][i]], l) /\ waiting[l][i] # owner[l]
WaitersDiffer ==
    \A l \in Lock \cup Event : \A i, j \in 1..Len(waiting[l]) :
        waiting[l][i] = waiting[l][j] => i = j

LockInv == OwnersUse /\ WaitersWant /\ WaitersDiffer

-----------------------------------------------------------------------------
(* What a step does to the locks. *)

\* A task that had a lock, or was waiting for one, still has or is.
LocksKept(u) ==
    \A l \in Lock \cup Event :
        /\ Uses(task[u], l) => Uses(task'[u], l)
        /\ Wants(task[u], l) => Wants(task'[u], l)

\* So it is if it stays where it is, had no lock, or goes on below the lock.
SamePlace(u) ==
    /\ task'[u].pc = task[u].pc /\ task'[u].ev = task[u].ev
    /\ task'[u].bus = task[u].bus /\ task'[u].how = task[u].how
Outdoors(u) == task[u].pc \notin Inside \cup {"lockwait"}
GoesOn(u) ==
    /\ task[u].pc \in Inside \ {"hwait"} /\ task'[u].pc \in Inside
    /\ task[u].pc \in Calling => task'[u].pc \in Calling
    /\ task'[u].ev = task[u].ev /\ task'[u].bus = task[u].bus /\ task'[u].how = task[u].how

\* In these three cases the locks are kept.
LEMMA KeptLocks ==
    ASSUME NEW u \in Task, SamePlace(u) \/ Outdoors(u) \/ GoesOn(u)
    PROVE  LocksKept(u)
BY DEF LocksKept, Uses, Wants, SamePlace, Outdoors, GoesOn, Inside, Calling

\* The task that has a lock is a task.
LEMMA OwnersTask ==
    ASSUME LockTypes, NEW l \in Lock \cup Event
    PROVE  /\ owner[l] \in Task \cup {NoTask} /\ waiting[l] \in Seq(Task)
           /\ \A i \in 1..Len(waiting[l]) : waiting[l][i] \in Task
<1>1. owner[l] \in Task \cup {NoTask} /\ waiting[l] \in Seq(Task)
  BY DEF LockTypes
<1>2. QED
  BY <1>1

\* Nobody gets, leaves or queues for a lock.
LEMMA LocksStay ==
    ASSUME LockTypes, LockInv, UNCHANGED <<owner, waiting>>, \A u \in Task : LocksKept(u)
    PROVE  LockInv'
<1> USE DEF LockInv
<1>1. OwnersUse'
  <2> SUFFICES ASSUME NEW l \in Lock \cup Event, owner[l] # NoTask
               PROVE  Uses(task'[owner[l]], l) \/ Wants(task'[owner[l]], l)
    BY DEF OwnersUse, Uses, Wants
  <2>1. owner[l] \in Task
    BY OwnersTask
  <2>2. Uses(task[owner[l]], l) \/ Wants(task[owner[l]], l)
    BY DEF OwnersUse
  <2>3. QED
    BY <2>1, <2>2 DEF LocksKept
<1>2. WaitersWant'
  <2> SUFFICES ASSUME NEW l \in Lock \cup Event, NEW i \in 1..Len(waiting[l])
               PROVE  Wants(task'[waiting[l][i]], l) /\ waiting[l][i] # owner[l]
    BY DEF WaitersWant, Wants
  <2>1. waiting[l][i] \in Task
    BY OwnersTask
  <2>2. QED
    BY <2>1 DEF WaitersWant, LocksKept
<1>3. WaitersDiffer'
  BY DEF WaitersDiffer
<1>4. QED
  BY <1>1, <1>2, <1>3

\* A task finds out that a lock has been handed to it.
LEMMA LockFound ==
    ASSUME LockTypes, LockInv, UNCHANGED <<owner, waiting>>,
           NEW t \in Task, NEW k \in Lock \cup Event, owner[k] = t, Uses(task'[t], k),
           \A u \in Task \ {t} : SamePlace(u),
           \A l \in Lock \cup Event : Uses(task[t], l) => Uses(task'[t], l),
           \A l \in Lock \cup Event : Wants(task[t], l) => l = k
    PROVE  LockInv'
<1> USE DEF LockInv
<1>1. \A u \in Task \ {t} : LocksKept(u)
  BY KeptLocks
<1>2. OwnersUse'
  <2> SUFFICES ASSUME NEW l \in Lock \cup Event, owner[l] # NoTask
               PROVE  Uses(task'[owner[l]], l) \/ Wants(task'[owner[l]], l)
    BY DEF OwnersUse, Uses, Wants
  <2>1. owner[l] \in Task /\ (Uses(task[owner[l]], l) \/ Wants(task[owner[l]], l))
    BY OwnersTask DEF OwnersUse
  <2>2. CASE owner[l] = t
    BY <2>1, <2>2
  <2>3. CASE owner[l] # t
    BY <1>1, <2>1, <2>3 DEF LocksKept
  <2>4. QED
    BY <2>2, <2>3
<1>3. WaitersWant'
  <2> SUFFICES ASSUME NEW l \in Lock \cup Event, NEW i \in 1..Len(waiting[l])
               PROVE  Wants(task'[waiting[l][i]], l) /\ waiting[l][i] # owner[l]
    BY DEF WaitersWant, Wants
  <2>1. waiting[l][i] \in Task /\ Wants(task[waiting[l][i]], l) /\ waiting[l][i] # owner[l]
    BY OwnersTask DEF WaitersWant
  <2>2. waiting[l][i] # t
    BY <2>1
  <2>3. QED
    BY <1>1, <2>1, <2>2 DEF LocksKept
<1>4. WaitersDiffer'
  BY DEF WaitersDiffer
<1>5. QED
  BY <1>2, <1>3, <1>4

\* A task takes a lock that is free.
LEMMA LockTaken ==
    ASSUME LockTypes, LockInv, NEW t \in Task, NEW k \in Lock \cup Event, owner[k] = NoTask,
           owner' = [owner EXCEPT ![k] = t], waiting' = waiting,
           Uses(task'[t], k), \A l \in Lock \cup Event : ~Wants(task[t], l), \A u \in Task : LocksKept(u)
    PROVE  LockInv'
<1> USE DEF LockInv
<1>1. owner'[k] = t /\ \A l \in (Lock \cup Event) \ {k} : owner'[l] = owner[l]
  BY DEF LockTypes
<1>2. OwnersUse'
  <2> SUFFICES ASSUME NEW l \in Lock \cup Event, owner'[l] # NoTask
               PROVE  Uses(task'[owner'[l]], l) \/ Wants(task'[owner'[l]], l)
    BY DEF OwnersUse, Uses, Wants
  <2>1. CASE l = k
    BY <1>1, <2>1
  <2>2. CASE l # k
    <3>1. owner'[l] = owner[l] /\ owner[l] \in Task
      BY <1>1, <2>2, OwnersTask
    <3>2. Uses(task[owner[l]], l) \/ Wants(task[owner[l]], l)
      BY <3>1 DEF OwnersUse
    <3>3. QED
      BY <3>1, <3>2 DEF LocksKept
  <2>3. QED
    BY <2>1, <2>2
<1>3. WaitersWant'
  <2> SUFFICES ASSUME NEW l \in Lock \cup Event, NEW i \in 1..Len(waiting[l])
               PROVE  Wants(task'[waiting[l][i]], l) /\ waiting[l][i] # owner'[l]
    BY DEF WaitersWant, Wants
  <2>1. waiting[l][i] \in Task /\ Wants(task[waiting[l][i]], l) /\ waiting[l][i] # owner[l]
    BY OwnersTask DEF WaitersWant
  <2>2. waiting[l][i] # t
    BY <2>1
  <2>3. QED
    BY <1>1, <2>1, <2>2 DEF LocksKept
<1>4. WaitersDiffer'
  BY DEF WaitersDiffer
<1>5. QED
  BY <1>2, <1>3, <1>4

\* A task queues for a lock that another has.
LEMMA LockQueued ==
    ASSUME LockTypes, LockInv, NEW t \in Task, NEW k \in Lock \cup Event,
           owner' = owner, waiting' = [waiting EXCEPT ![k] = Append(@, t)],
           owner[k] # t, Wants(task'[t], k), \A l \in Lock \cup Event : ~Wants(task[t], l),
           \A u \in Task : LocksKept(u)
    PROVE  LockInv'
<1> USE DEF LockInv
<1>1. /\ waiting'[k] = Append(waiting[k], t)
      /\ \A l \in (Lock \cup Event) \ {k} : waiting'[l] = waiting[l]
  BY DEF LockTypes
<1>2. /\ Len(waiting'[k]) = Len(waiting[k]) + 1 /\ Len(waiting[k]) \in Nat
      /\ waiting'[k][Len(waiting[k]) + 1] = t
      /\ \A i \in 1..Len(waiting[k]) : waiting'[k][i] = waiting[k][i]
  BY <1>1, OwnersTask
<1>3. OwnersUse'
  <2> SUFFICES ASSUME NEW l \in Lock \cup Event, owner[l] # NoTask
               PROVE  Uses(task'[owner[l]], l) \/ Wants(task'[owner[l]], l)
    BY DEF OwnersUse, Uses, Wants
  <2>1. owner[l] \in Task /\ (Uses(task[owner[l]], l) \/ Wants(task[owner[l]], l))
    BY OwnersTask DEF OwnersUse
  <2>2. QED
    BY <2>1 DEF LocksKept
<1>4. \A l \in Lock \cup Event : \A i \in 1..Len(waiting[l]) :
        Wants(task'[waiting[l][i]], l) /\ waiting[l][i] # owner[l] /\ waiting[l][i] # t
  <2> TAKE l \in Lock \cup Event
  <2> TAKE i \in 1..Len(waiting[l])
  <2>1. waiting[l][i] \in Task /\ Wants(task[waiting[l][i]], l) /\ waiting[l][i] # owner[l]
    BY OwnersTask DEF WaitersWant
  <2>2. QED
    BY <2>1 DEF LocksKept
<1>5. WaitersWant'
  <2> SUFFICES ASSUME NEW l \in Lock \cup Event, NEW i \in 1..Len(waiting'[l])
               PROVE  Wants(task'[waiting'[l][i]], l) /\ waiting'[l][i] # owner[l]
    BY DEF WaitersWant, Wants
  <2>1. CASE l # k
    BY <1>1, <1>4, <2>1
  <2>2. CASE l = k /\ i = Len(waiting[k]) + 1
    BY <1>2, <2>2
  <2>3. CASE l = k /\ i # Len(waiting[k]) + 1
    <3>1. i \in 1..Len(waiting[k]) /\ waiting'[k][i] = waiting[k][i]
      BY <1>2, <2>3
    <3>2. QED
      BY <1>4, <2>3, <3>1
  <2>4. QED
    BY <2>1, <2>2, <2>3
<1>6. WaitersDiffer'
  <2> SUFFICES ASSUME NEW l \in Lock \cup Event, NEW i \in 1..Len(waiting'[l]),
                      NEW j \in 1..Len(waiting'[l]), waiting'[l][i] = waiting'[l][j]
               PROVE  i = j
    BY DEF WaitersDiffer
  <2>1. CASE l # k
    BY <1>1, <2>1 DEF WaitersDiffer
  <2>2. CASE l = k
    <3>1. \A n \in 1..Len(waiting'[k]) : n # Len(waiting[k]) + 1 =>
             n \in 1..Len(waiting[k]) /\ waiting'[k][n] = waiting[k][n] /\ waiting[k][n] # t
      BY <1>2, <1>4
    <3>2. CASE i = Len(waiting[k]) + 1 \/ j = Len(waiting[k]) + 1
      BY <1>2, <2>2, <3>1, <3>2
    <3>3. CASE i # Len(waiting[k]) + 1 /\ j # Len(waiting[k]) + 1
      BY <2>2, <3>1, <3>3 DEF WaitersDiffer
    <3>4. QED
      BY <3>2, <3>3
  <2>3. QED
    BY <2>1, <2>2
<1>7. QED
  BY <1>3, <1>5, <1>6

\* A lock goes to the first of its queue, or is free.
LEMMA LockPassed ==
    ASSUME LockTypes, LockInv, NEW k \in Lock \cup Event, Released(k),
           \A u \in Task : \A l \in Lock \cup Event :
              /\ l # k /\ Uses(task[u], l) => Uses(task'[u], l)
              /\ Wants(task[u], l) => Wants(task'[u], l)
    PROVE  LockInv'
<1> USE DEF LockInv
<1>1. /\ owner'[k] = IF waiting[k] = <<>> THEN NoTask ELSE Head(waiting[k])
      /\ waiting'[k] = IF waiting[k] = <<>> THEN <<>> ELSE Tail(waiting[k])
      /\ \A l \in (Lock \cup Event) \ {k} : waiting'[l] = waiting[l] /\ owner'[l] = owner[l]
  BY DEF LockTypes, Released
<1>2. waiting[k] # <<>> =>
        /\ Len(waiting[k]) \in Nat \ {0}
        /\ owner'[k] = waiting[k][1] /\ Len(waiting'[k]) = Len(waiting[k]) - 1
        /\ \A i \in 1..(Len(waiting[k]) - 1) : waiting'[k][i] = waiting[k][i + 1]
  BY <1>1, OwnersTask, TailOfSeq
<1>3. \A l \in Lock \cup Event : \A i \in 1..Len(waiting[l]) :
        Wants(task'[waiting[l][i]], l) /\ waiting[l][i] # owner[l]
  <2> TAKE l \in Lock \cup Event
  <2> TAKE i \in 1..Len(waiting[l])
  <2>1. waiting[l][i] \in Task /\ Wants(task[waiting[l][i]], l) /\ waiting[l][i] # owner[l]
    BY OwnersTask DEF WaitersWant
  <2>2. QED
    BY <2>1
<1>4. OwnersUse'
  <2> SUFFICES ASSUME NEW l \in Lock \cup Event, owner'[l] # NoTask
               PROVE  Uses(task'[owner'[l]], l) \/ Wants(task'[owner'[l]], l)
    BY DEF OwnersUse, Uses, Wants
  <2>1. CASE l = k
    <3>1. waiting[k] # <<>>
      BY <1>1, <2>1
    <3>2. 1 \in 1..Len(waiting[k]) /\ owner'[k] = waiting[k][1]
      BY <1>2, <3>1
    <3>3. QED
      BY <1>3, <2>1, <3>2
  <2>2. CASE l # k
    <3>1. owner'[l] = owner[l] /\ owner[l] \in Task
      BY <1>1, <2>2, OwnersTask
    <3>2. Uses(task[owner[l]], l) \/ Wants(task[owner[l]], l)
      BY <3>1 DEF OwnersUse
    <3>3. QED
      BY <2>2, <3>1, <3>2
  <2>3. QED
    BY <2>1, <2>2
<1>5. ASSUME waiting[k] = <<>> PROVE Len(waiting'[k]) = 0
  BY <1>1, <1>5
<1>6. WaitersWant'
  <2> SUFFICES ASSUME NEW l \in Lock \cup Event, NEW i \in 1..Len(waiting'[l])
               PROVE  Wants(task'[waiting'[l][i]], l) /\ waiting'[l][i] # owner'[l]
    BY DEF WaitersWant, Wants
  <2>1. CASE l # k
    BY <1>1, <1>3, <2>1
  <2>2. CASE l = k
    <3>1. waiting[k] # <<>>
      BY <1>5, <2>2
    <3>2. /\ i + 1 \in 1..Len(waiting[k]) /\ 1 \in 1..Len(waiting[k]) /\ i + 1 # 1
          /\ waiting'[k][i] = waiting[k][i + 1]
      BY <1>2, <2>2, <3>1
    <3>3. waiting[k][i + 1] # waiting[k][1]
      BY <3>2 DEF WaitersDiffer
    <3>4. QED
      BY <1>2, <1>3, <2>2, <3>1, <3>2, <3>3
  <2>3. QED
    BY <2>1, <2>2
<1>7. WaitersDiffer'
  <2> SUFFICES ASSUME NEW l \in Lock \cup Event, NEW i \in 1..Len(waiting'[l]),
                      NEW j \in 1..Len(waiting'[l]), waiting'[l][i] = waiting'[l][j]
               PROVE  i = j
    BY DEF WaitersDiffer
  <2>1. CASE l # k
    BY <1>1, <2>1 DEF WaitersDiffer
  <2>2. CASE l = k
    <3>1. waiting[k] # <<>>
      BY <1>5, <2>2
    <3>2. /\ i + 1 \in 1..Len(waiting[k]) /\ j + 1 \in 1..Len(waiting[k])
          /\ waiting[k][i + 1] = waiting[k][j + 1] /\ i \in Int /\ j \in Int
      BY <1>2, <2>2, <3>1
    <3>3. i + 1 = j + 1
      BY <3>2 DEF WaitersDiffer
    <3>4. QED
      BY <3>2, <3>3
  <2>3. QED
    BY <2>1, <2>2
<1>8. QED
  BY <1>4, <1>6, <1>7

-----------------------------------------------------------------------------
(* The steps. *)

\* A task has the fields of a task.
LEMMA TaskFields ==
    ASSUME TypeOK
    PROVE  /\ task \in [Task -> TaskState]
           /\ \A t \in Task : task[t] \in TaskState /\ TaskOK(t, task[t])
           /\ LockTypes
BY TypeParts DEF TaskTypes

\* A task in state s whose handler waits for one more now(), and one whose
\* handler was interrupted.
Awaiting(s, j) == [s EXCEPT !.pc = "await", !.kids = s.kids \cup {j}]
Broken(s) ==
    [s EXCEPT !.pc = "unlock", !.cur = NoHandler, !.todo = {}, !.exc = TRUE, !.kids = {}]

\* What they have kept.
LEMMA DroppedFields ==
    ASSUME NEW s \in TaskState, NEW j
    PROVE  LET r == Dropped(s, j) IN
           /\ r.pc \in {"body", "await"} /\ (r.pc = "body" <=> s.kids = {j}) /\ r.kids = s.kids \ {j}
           /\ r.ev = s.ev /\ r.bus = s.bus /\ r.how = s.how /\ r.todo = s.todo /\ r.cur = s.cur
           /\ r.claimed = s.claimed /\ r.up = s.up /\ r.exc = s.exc
BY DEF TaskState, Dropped

\* The same of a handler that waits for one more.
LEMMA AwaitingFields ==
    ASSUME NEW s \in TaskState, NEW j
    PROVE  LET r == Awaiting(s, j) IN
           /\ r.pc = "await" /\ r.kids = s.kids \cup {j}
           /\ r.ev = s.ev /\ r.bus = s.bus /\ r.how = s.how /\ r.todo = s.todo /\ r.cur = s.cur
           /\ r.claimed = s.claimed /\ r.up = s.up /\ r.exc = s.exc
BY DEF TaskState, Awaiting

\* The same of one that was interrupted.
LEMMA BrokenFields ==
    ASSUME NEW s \in TaskState
    PROVE  LET r == Broken(s) IN
           /\ r.pc = "unlock" /\ r.kids = {} /\ r.ev = s.ev /\ r.bus = s.bus /\ r.how = s.how
           /\ r.todo = {} /\ r.cur = NoHandler /\ r.claimed = s.claimed /\ r.up = s.up /\ r.exc = TRUE
BY DEF TaskState, Broken

\* A handler begins a now().
LEMMA AwaitShape ==
    ASSUME TypeOK, NEW t \in Task, NEW c \in Event, NEW j \in Jumper, HAwait(t, c, j)
    PROVE  /\ task[t].pc \in {"body", "await"} /\ task[j].pc = "idle" /\ j \in Task /\ j # t
           /\ task' = [task EXCEPT ![t] = Awaiting(task[t], j), ![j] = [Fresh("poll") EXCEPT !.ev = c]]
<1>1. task \in [Task -> TaskState] /\ j \in Task
  BY TaskFields DEF Task
<1>2. task[t].pc \in {"body", "await"} /\ task[j].pc = "idle"
  BY DEF HAwait, InHandler, At
<1>3. PICK r : r = [Fresh("poll") EXCEPT !.ev = c]
  OBVIOUS
<1>4. task' = [task EXCEPT ![t].pc = "await", ![t].kids = task[t].kids \cup {j}, ![j] = r]
  BY <1>1, <1>3 DEF HAwait
<1>5. task' = [task EXCEPT ![t] = Awaiting(task[t], j), ![j] = r]
  BY <1>1, <1>2, <1>4 DEF Awaiting
<1>6. QED
  BY <1>1, <1>2, <1>3, <1>5

\* One is done.
LEMMA ResumeShape ==
    ASSUME TypeOK, NEW t \in Task, HResume(t)
    PROVE  \E j \in Jumper :
              /\ task[t].pc = "await" /\ j \in task[t].kids /\ task[j].pc = "done"
              /\ j \in Task /\ j # t /\ held' = [held EXCEPT ![j] = {}]
              /\ task' = [task EXCEPT ![t] = Dropped(task[t], j), ![j] = Fresh("idle")]
<1>1. task \in [Task -> TaskState] /\ task[t] \in TaskState /\ TaskTypes
  BY TaskFields, TypeParts
<1>2. PICK j \in task[t].kids :
         /\ task[j].pc = "done"
         /\ held' = [held EXCEPT ![j] = {}]
         /\ task' = [Without(t, j) EXCEPT ![j] = Fresh("idle")]
  BY DEF HResume
<1>3. task[t].pc = "await" /\ j \in Jumper /\ j \in Task /\ j # t
  BY <1>1, <1>2 DEF HResume, At, TaskState, Task
<1>4. Without(t, j) = [task EXCEPT ![t] = Dropped(task[t], j)]
  BY <1>1, <1>3, DroppedTypes
<1>5. PICK r : r = Fresh("idle")
  OBVIOUS
<1>6. task' = [task EXCEPT ![t] = Dropped(task[t], j), ![j] = r]
  BY <1>1, <1>2, <1>3, <1>4, <1>5
<1>7. QED
  BY <1>2, <1>3, <1>5, <1>6

\* One is left to itself.
LEMMA LeaveShape ==
    ASSUME TypeOK, NEW t \in Task, HLeave(t)
    PROVE  \E j \in Jumper :
              /\ task[t].pc = "await" /\ j \in task[t].kids
              /\ task' = [task EXCEPT ![t] = Dropped(task[t], j)]
<1>1. task[t] \in TaskState /\ TaskTypes
  BY TaskFields, TypeParts
<1>2. PICK j \in task[t].kids : task' = Without(t, j)
  BY DEF HLeave
<1>3. task[t].pc = "await" /\ j \in Jumper
  BY <1>1 DEF HLeave, At, TaskState
<1>4. QED
  BY <1>1, <1>2, <1>3, DroppedTypes

\* CancelledError leaves a handler, which may have awaited others than the one
\* that was cancelled.
LEMMA CancelShape ==
    ASSUME TypeOK, NEW t \in Task
    PROVE  /\ HCancel(t) => task[t].pc = "body" /\ task' = [task EXCEPT ![t] = Broken(task[t])]
           /\ HAwaitCancelled(t) => \E j \in Jumper :
                 /\ task[t].pc = "await" /\ j \in task[t].kids /\ task[j].pc = "failed"
                 /\ j \in Task /\ j # t
                 /\ task' = [task EXCEPT ![t] = Broken(task[t]), ![j] = Fresh("idle")]
<1>1. task \in [Task -> TaskState] /\ task[t] \in TaskState /\ TaskOK(t, task[t])
  BY TaskFields
<1>2. CASE HCancel(t)
  <2>1. task[t].pc = "body" /\ task[t].kids = {}
    BY <1>1, <1>2 DEF HCancel, InBody, At, TaskOK
  <2>2. task' = [task EXCEPT ![t].pc = "unlock", ![t].cur = NoHandler, ![t].todo = {}, ![t].exc = TRUE]
    BY <1>2 DEF HCancel
  <2>3. Broken(task[t]) = [task[t] EXCEPT !.pc = "unlock", !.cur = NoHandler, !.todo = {}, !.exc = TRUE]
    BY <1>1, <2>1 DEF Broken, TaskState
  <2>4. task' = [task EXCEPT ![t] = Broken(task[t])]
    BY <1>1, <2>2, <2>3
  <2>5. QED
    BY <1>2, <2>1, <2>4 DEF HCancel, HAwaitCancelled, InBody, At
<1>3. CASE HAwaitCancelled(t)
  <2>1. PICK j \in task[t].kids :
           /\ task[j].pc = "failed"
           /\ task' = [task EXCEPT ![t].pc = "unlock", ![t].cur = NoHandler, ![t].todo = {},
                                   ![t].exc = TRUE, ![t].kids = {}, ![j] = Fresh("idle")]
    BY <1>3 DEF HAwaitCancelled
  <2>2. task[t].pc = "await" /\ j \in Jumper /\ j \in Task /\ j # t
    BY <1>1, <1>3, <2>1 DEF HAwaitCancelled, At, TaskState, Task
  <2>3. PICK r : r = Fresh("idle")
    OBVIOUS
  <2>4. task' = [task EXCEPT ![t].pc = "unlock", ![t].cur = NoHandler, ![t].todo = {},
                             ![t].exc = TRUE, ![t].kids = {}, ![j] = r]
    BY <2>1, <2>3
  <2>5. task' = [task EXCEPT ![t] = Broken(task[t]), ![j] = r]
    BY <1>1, <2>2, <2>4 DEF Broken
  <2>6. QED
    BY <1>3, <2>1, <2>2, <2>3, <2>5 DEF HCancel, InBody, At
<1>4. QED
  BY <1>2, <1>3

\* An event is forwarded.
LEMMA ForwardShape ==
    ASSUME TypeOK, NEW t \in Task, HForward(t)
    PROVE  \E b \in Bus :
              /\ task[t].pc = "body" /\ Target[task[t].cur] = b /\ cpu = NoTask
              /\ Emit(b, task[t].ev, parent[task[t].ev], link[task[t].ev])
              /\ LET s == [task[t] EXCEPT !.pc = "sent"]  r == [task EXCEPT ![t] = s] IN
                 /\ s \in TaskState /\ r \in [Task -> TaskState]
                 /\ task' = Restarted(b, r) /\ task'[t] = s
                 /\ \A u \in Task \ {t} : r[u] = task[u]
<1>1. task \in [Task -> TaskState] /\ task[t] \in TaskState /\ TaskOK(t, task[t])
  BY TaskFields
<1>2. task[t].pc = "body" /\ cpu = NoTask
  BY DEF HForward, InBody, At
<1>3. PICK b \in Bus : b = Target[task[t].cur] /\ task' = Restarted(b, [task EXCEPT ![t].pc = "sent"])
  BY <1>1, <1>2, HandlerAssumption DEF HForward, TaskOK
<1>4. Emit(b, task[t].ev, parent[task[t].ev], link[task[t].ev])
  BY <1>3 DEF HForward
<1> DEFINE s == [task[t] EXCEPT !.pc = "sent"]
           r == [task EXCEPT ![t] = s]
<1>5. s \in TaskState /\ s.pc = "sent"
  BY <1>1 DEF TaskState, PC
<1>6. [task EXCEPT ![t].pc = "sent"] = r
  BY <1>1
<1> HIDE DEF s
<1>7. r \in [Task -> TaskState] /\ \A u \in Task \ {t} : r[u] = task[u]
  BY <1>1, <1>5
<1>8. r[t] = s
  BY <1>1
<1> HIDE DEF r
<1>9. task' = Restarted(b, r) /\ task'[t] = s
  BY <1>3, <1>5, <1>6, <1>7, <1>8 DEF Restarted
<1> USE DEF s, r
<1>10. QED
  BY <1>2, <1>3, <1>4, <1>5, <1>7, <1>9

\* Between a task that moves and the others nothing is shared.
LEMMA MovesOn ==
    ASSUME TypeOK, LockInv, UNCHANGED <<owner, waiting>>,
           \A u \in Task : SamePlace(u) \/ Outdoors(u) \/ GoesOn(u)
    PROVE  LockInv'
<1>1. \A u \in Task : LocksKept(u)
  BY KeptLocks
<1>2. QED
  BY <1>1, LocksStay, TaskFields

\* A task that is outside of every lock has none and waits for none.
LEMMA OutdoorsHasNone ==
    ASSUME NEW t \in Task, Outdoors(t)
    PROVE  \A l \in Lock \cup Event : ~Uses(task[t], l) /\ ~Wants(task[t], l)
BY DEF Outdoors, Uses, Wants, Inside, Calling

\* The run loop is outside of the locks when it turns to its queue.
LEMMA LoopLocks ==
    ASSUME TypeOK, LockInv, NEW b \in Bus, LoopGet(b) \/ LoopAgain(b)
    PROVE  LockInv'
<1>1. b \in Task /\ task \in [Task -> TaskState]
  BY TaskFields DEF Task
<1>2. Outdoors(b)
  BY DEF LoopGet, LoopAgain, At, Outdoors, Inside
<1>3. \A u \in Task \ {b} : SamePlace(u)
  BY <1>1 DEF LoopGet, LoopAgain, SamePlace
<1>4. UNCHANGED <<owner, waiting>>
  BY DEF LoopGet, LoopAgain, lockVars
<1>5. QED
  BY <1>2, <1>3, <1>4, MovesOn

\* Entering the event lock.
LEMMA EnterLocks ==
    ASSUME TypeOK, LockInv, NEW t \in Task, EnterLock(t) \/ LockGranted(t) \/ Check(t)
    PROVE  LockInv'
<1> DEFINE l == LockOf[task[t].bus]
<1>1. task \in [Task -> TaskState] /\ task[t] \in TaskState /\ LockTypes
  BY TaskFields
<1>2. l \in Lock
  <2>1. task[t].pc \in Working => task[t].bus \in Bus
    BY TaskFields DEF TaskOK
  <2>2. task[t].pc \in {"lock", "lockwait"} \/ Check(t)
    BY DEF EnterLock, LockGranted, At
  <2>3. task[t].pc \in Working
    BY <2>2 DEF Check, At, Working
  <2>4. QED
    BY <2>1, <2>3, LockAssumption
<1>3. \A u \in Task \ {t} : SamePlace(u)
  <2>1. \A u \in Task \ {t} : task'[u] = task[u]
    BY <1>1 DEF EnterLock, LockGranted, Check, Goto
  <2>2. QED
    BY <2>1 DEF SamePlace
<1>4. CASE EnterLock(t)
  <2>1. Outdoors(t)
    BY <1>4 DEF EnterLock, At, Outdoors, Inside
  <2>2. \A u \in Task : LocksKept(u)
    BY <1>3, <2>1, KeptLocks
  <2>3. \A k \in Lock \cup Event : ~Uses(task[t], k) /\ ~Wants(task[t], k)
    BY <2>1, OutdoorsHasNone
  <2>4. CASE UNCHANGED lockVars
    BY <1>1, <2>2, <2>4, LocksStay DEF lockVars
  <2>5. CASE /\ owner[l] = NoTask
             /\ owner' = [owner EXCEPT ![l] = t]
             /\ task' = [task EXCEPT ![t].pc = "check", ![t].how = "owned"]
             /\ UNCHANGED waiting
    <3>1. /\ task'[t].pc = "check" /\ task'[t].how = "owned"
          /\ task'[t].bus = task[t].bus
      BY <1>1, <2>5 DEF TaskState
    <3>2. Uses(task'[t], l)
      BY <1>2, <3>1 DEF Uses, Inside
    <3> HIDE DEF l
    <3>3. QED
      BY <1>1, <1>2, <2>2, <2>3, <2>5, <3>2, LockTaken
  <2>6. CASE /\ owner[l] # NoTask /\ owner' = owner
             /\ waiting' = [waiting EXCEPT ![l] = Append(waiting[l], t)]
             /\ Goto(t, "lockwait")
    <3>1. task'[t].pc = "lockwait" /\ task'[t].bus = task[t].bus
      BY <1>1, <2>6 DEF Goto, TaskState
    <3>2. Wants(task'[t], l)
      BY <1>2, <3>1 DEF Wants
    <3> HIDE DEF l
    <3>3. owner[l] # t
      BY <1>2, <2>3, <2>6 DEF LockInv, OwnersUse
    <3>4. QED
      BY <1>1, <1>2, <2>2, <2>3, <2>6, <3>2, <3>3, LockQueued
  <2>7. QED
    BY <1>4, <2>4, <2>5, <2>6 DEF EnterLock
<1>5. CASE LockGranted(t)
  <2>1. /\ task[t].pc = "lockwait" /\ owner[l] = t /\ UNCHANGED <<owner, waiting>>
        /\ task' = [task EXCEPT ![t].pc = "check", ![t].how = "owned"]
    BY <1>5 DEF LockGranted, At
  <2>2. /\ task'[t].pc = "check" /\ task'[t].how = "owned"
        /\ task'[t].bus = task[t].bus
    BY <1>1, <2>1 DEF TaskState
  <2>3. Uses(task'[t], l)
    BY <1>2, <2>2 DEF Uses, Inside
  <2>4. \A k \in Lock \cup Event : ~Uses(task[t], k) /\ (Wants(task[t], k) => k = l)
    BY <2>1 DEF Uses, Wants, Inside, Calling
  <2> HIDE DEF l
  <2>5. QED
    BY <1>1, <1>2, <1>3, <2>1, <2>3, <2>4, LockFound
<1>6. CASE Check(t)
  <2>1. GoesOn(t)
    BY <1>1, <1>6 DEF Check, At, Goto, GoesOn, Inside, Calling, TaskState
  <2>2. QED
    BY <1>3, <1>6, <2>1, MovesOn DEF Check, lockVars
<1>7. QED
  BY <1>4, <1>5, <1>6

\* Processing the event, one handler after another under its handler lock.
LEMMA SelectLocks ==
    ASSUME TypeOK, LockInv, NEW t \in Task,
           Select(t) \/ Create(t) \/ NextHandler(t) \/ HandlerLockGranted(t) \/ Start(t)
    PROVE  LockInv'
<1> DEFINE e == task[t].ev
<1>1. task \in [Task -> TaskState] /\ task[t] \in TaskState /\ LockTypes
  BY TaskFields
<1>2. task[t].pc \in {"select", "create", "next", "hwait", "start"}
  BY DEF Select, Create, NextHandler, HandlerLockGranted, Start, At
<1>3. e \in Event
  BY <1>2, TaskFields DEF TaskOK, Working
<1>4. \A u \in Task \ {t} : SamePlace(u)
  <2>1. \A u \in Task \ {t} : task'[u] = task[u]
    BY <1>1 DEF Select, Create, NextHandler, HandlerLockGranted, Start, Goto
  <2>2. QED
    BY <2>1 DEF SamePlace
<1>5. ASSUME GoesOn(t), UNCHANGED <<owner, waiting>> PROVE LockInv'
  BY <1>4, <1>5, MovesOn
<1>6. CASE Select(t)
  <2>1. GoesOn(t)
    BY <1>1, <1>6 DEF Select, At, GoesOn, Inside, Calling, TaskState
  <2>2. QED
    BY <1>5, <1>6, <2>1 DEF Select, lockVars
<1>7. CASE Create(t)
  <2>1. GoesOn(t)
    BY <1>1, <1>7 DEF Create, At, Goto, GoesOn, Inside, Calling, TaskState
  <2>2. QED
    BY <1>5, <1>7, <2>1 DEF Create, lockVars
<1>8. CASE NextHandler(t)
  <2>1. task[t].pc = "next"
    BY <1>8 DEF NextHandler, At
  <2>2. \A u \in Task \ {t} : LocksKept(u)
    BY <1>4, KeptLocks
  <2>3. ~Uses(task[t], e) /\ \A l \in Lock \cup Event : ~Wants(task[t], l)
    BY <1>3, <2>1, NamesAssumption DEF Uses, Wants, Calling
  <2>4. CASE Goto(t, "end") /\ UNCHANGED lockVars
    <3>1. GoesOn(t)
      BY <1>1, <2>1, <2>4 DEF Goto, GoesOn, Inside, Calling, TaskState
    <3>2. QED
      BY <1>5, <2>4, <3>1 DEF lockVars
  <2>5. ASSUME NEW h, owner[e] = NoTask, owner' = [owner EXCEPT ![e] = t], UNCHANGED waiting,
               task' = [task EXCEPT ![t].pc = "start", ![t].cur = h, ![t].todo = task[t].todo \ {h}]
        PROVE  LockInv'
    <3>1. /\ task'[t].pc = "start" /\ task'[t].ev = e
          /\ task'[t].bus = task[t].bus /\ task'[t].how = task[t].how
      BY <1>1, <2>5 DEF TaskState
    <3>2. Uses(task'[t], e)
      BY <1>3, <3>1 DEF Uses, Calling
    <3>3. GoesOn(t)
      BY <2>1, <3>1 DEF GoesOn, Inside, Calling
    <3>4. \A u \in Task : LocksKept(u)
      BY <2>2, <3>3, KeptLocks
    <3> HIDE DEF e
    <3>5. QED
      BY <1>1, <1>3, <2>3, <2>5, <3>2, <3>4, LockTaken
  <2>6. ASSUME NEW h, owner[e] # NoTask, UNCHANGED owner,
               waiting' = [waiting EXCEPT ![e] = Append(waiting[e], t)],
               task' = [task EXCEPT ![t].pc = "hwait", ![t].cur = h, ![t].todo = task[t].todo \ {h}]
        PROVE  LockInv'
    <3>1. /\ task'[t].pc = "hwait" /\ task'[t].ev = e
          /\ task'[t].bus = task[t].bus /\ task'[t].how = task[t].how
      BY <1>1, <2>6 DEF TaskState
    <3>2. Wants(task'[t], e)
      BY <1>3, <3>1 DEF Wants
    <3>3. GoesOn(t)
      BY <2>1, <3>1 DEF GoesOn, Inside, Calling
    <3>4. \A u \in Task : LocksKept(u)
      BY <2>2, <3>3, KeptLocks
    <3> HIDE DEF e
    <3>5. owner[e] # t
      BY <1>3, <2>3, <2>6 DEF LockInv, OwnersUse
    <3>6. QED
      BY <1>1, <1>3, <2>3, <2>6, <3>2, <3>4, <3>5, LockQueued
  <2>7. QED
    BY <1>8, <2>4, <2>5, <2>6 DEF NextHandler
<1>9. CASE HandlerLockGranted(t)
  <2>1. /\ task[t].pc = "hwait" /\ owner[e] = t /\ Goto(t, "start")
        /\ UNCHANGED <<owner, waiting>>
    BY <1>9 DEF HandlerLockGranted, At, lockVars
  <2>2. /\ task'[t].pc = "start" /\ task'[t].ev = e
        /\ task'[t].bus = task[t].bus /\ task'[t].how = task[t].how
    BY <1>1, <2>1 DEF Goto, TaskState
  <2>3. Uses(task'[t], e)
    BY <1>3, <2>2 DEF Uses, Calling
  <2>4. \A l \in Lock \cup Event : /\ Uses(task[t], l) => Uses(task'[t], l)
                                   /\ Wants(task[t], l) => l = e
    BY <2>1, <2>2 DEF Uses, Wants, Inside, Calling
  <2> HIDE DEF e
  <2>5. QED
    BY <1>1, <1>3, <1>4, <2>1, <2>3, <2>4, LockFound
<1>10. CASE Start(t)
  <2>1. task[t].pc = "start"
    BY <1>10 DEF Start, At
  <2>2. CASE Released(e) /\ task' = [task EXCEPT ![t].pc = "next", ![t].cur = NoHandler]
    <3>1. /\ task'[t].pc = "next" /\ task'[t].ev = e
          /\ task'[t].bus = task[t].bus /\ task'[t].how = task[t].how
      BY <1>1, <2>2 DEF TaskState
    <3>2. \A l \in Lock \cup Event :
             /\ l # e /\ Uses(task[t], l) => Uses(task'[t], l)
             /\ Wants(task[t], l) => Wants(task'[t], l)
      BY <2>1, <3>1 DEF Uses, Wants, Inside, Calling
    <3>3. \A u \in Task \ {t} : LocksKept(u)
      BY <1>4, KeptLocks
    <3> HIDE DEF e
    <3>4. QED
      BY <1>1, <1>3, <2>2, <3>2, <3>3, LockPassed DEF LocksKept
  <2>3. CASE Goto(t, "body") /\ UNCHANGED <<owner, waiting>>
    <3>1. GoesOn(t)
      BY <1>1, <2>1, <2>3 DEF Goto, GoesOn, Inside, Calling, TaskState
    <3>2. QED
      BY <1>5, <2>3, <3>1
  <2>4. QED
    BY <1>10, <2>2, <2>3 DEF Start
<1>11. QED
  BY <1>2, <1>6, <1>7, <1>8, <1>9, <1>10

\* A run loop that is started again was outside of the locks.
LEMMA RestartedOutdoors ==
    ASSUME TypeOK, NEW b \in Bus, NEW r \in [Task -> TaskState], NEW u \in Task,
           r[u] = task[u], task'[u] = Restarted(b, r)[u]
    PROVE  SamePlace(u) \/ Outdoors(u)
<1>1. CASE r[b].pc = "dead" /\ u = b
  BY <1>1 DEF Outdoors, Inside
<1>2. CASE ~(r[b].pc = "dead" /\ u = b)
  <2>1. task'[u] = task[u]
    BY <1>2 DEF Restarted
  <2>2. QED
    BY <2>1 DEF SamePlace
<1>3. QED
  BY <1>1, <1>2

\* A handler that ends, in whatever way, releases its lock and keeps the event
\* lock.
LEMMA HandlerEnds ==
    ASSUME TypeOK, LockInv, NEW t \in Task, task[t].pc \in {"body", "await", "sent"},
           Released(task[t].ev),
           task'[t].pc \in {"next", "unlock"},
           task'[t].bus = task[t].bus, task'[t].how = task[t].how,
           \A u \in Task \ {t} : SamePlace(u) \/ Outdoors(u)
    PROVE  LockInv'
<1>1. task[t].ev \in Event
  BY TaskFields DEF TaskOK, Working
<1>2. \A l \in Lock \cup Event :
         /\ l # task[t].ev /\ Uses(task[t], l) => Uses(task'[t], l)
         /\ Wants(task[t], l) => Wants(task'[t], l)
  BY DEF Uses, Wants, Inside, Calling
<1>3. \A u \in Task \ {t} : LocksKept(u)
  BY KeptLocks
<1>4. QED
  BY <1>1, <1>2, <1>3, LockPassed, TaskFields DEF LocksKept

\* What a handler does.
LEMMA BodyLocks ==
    ASSUME TypeOK, LockInv, NEW t \in Task, Body(t)
    PROVE  LockInv'
<1>1. /\ task \in [Task -> TaskState] /\ task[t] \in TaskState /\ LockTypes
      /\ \A j \in Jumper : j \in Task
  BY TaskFields DEF Task
<1>2. CASE HForward(t)
  <2>1. PICK b \in Bus :
           /\ task[t].pc = "body" /\ UNCHANGED <<owner, waiting>>
           /\ LET s == [task[t] EXCEPT !.pc = "sent"]  r == [task EXCEPT ![t] = s] IN
              /\ r \in [Task -> TaskState]
              /\ task' = Restarted(b, r) /\ task'[t] = s
              /\ \A u \in Task \ {t} : r[u] = task[u]
    BY <1>2, ForwardShape DEF HForward, lockVars
  <2>2. \A u \in Task \ {t} : SamePlace(u) \/ Outdoors(u)
    BY <2>1, RestartedOutdoors
  <2>3. GoesOn(t)
    BY <1>1, <2>1 DEF GoesOn, Inside, Calling, TaskState
  <2>4. QED
    BY <2>1, <2>2, <2>3, MovesOn
<1>3. CASE HReturn(t)
  <2>1. task[t].pc \in {"body", "sent"} /\ Released(task[t].ev) /\ task' = Returned(t)
    BY <1>3 DEF HReturn, At, Settle
  <2>2. /\ \A u \in Task \ {t} : task'[u] = task[u]
        /\ task'[t].pc = "next"
        /\ task'[t].bus = task[t].bus /\ task'[t].how = task[t].how
    BY <1>1, <2>1 DEF Returned, TaskState
  <2>3. \A u \in Task \ {t} : SamePlace(u)
    BY <2>2 DEF SamePlace
  <2>4. QED
    BY <2>1, <2>2, <2>3, HandlerEnds
<1>4. CASE HCancel(t)
  <2>1. task[t].pc = "body" /\ Released(task[t].ev) /\ task' = [task EXCEPT ![t] = Broken(task[t])]
    BY <1>4, CancelShape DEF HCancel, Interrupted, Settle
  <2>2. task'[t] = Broken(task[t]) /\ \A u \in Task \ {t} : task'[u] = task[u]
    BY <1>1, <2>1
  <2>3. task'[t].pc = "unlock" /\ task'[t].bus = task[t].bus /\ task'[t].how = task[t].how
    BY <1>1, <2>2, BrokenFields
  <2>4. \A u \in Task \ {t} : SamePlace(u)
    BY <2>2 DEF SamePlace
  <2>5. QED
    BY <2>1, <2>3, <2>4, HandlerEnds
<1>5. CASE HAwaitCancelled(t)
  <2>1. PICK j \in Jumper :
           /\ task[t].pc = "await" /\ task[j].pc = "failed" /\ j \in Task /\ j # t
           /\ task' = [task EXCEPT ![t] = Broken(task[t]), ![j] = Fresh("idle")]
    BY <1>5, CancelShape
  <2>2. Released(task[t].ev)
    BY <1>5 DEF HAwaitCancelled, Interrupted, Settle
  <2>3. task'[t] = Broken(task[t]) /\ \A u \in Task \ {t, j} : task'[u] = task[u]
    BY <1>1, <2>1
  <2>4. task'[t].pc = "unlock" /\ task'[t].bus = task[t].bus /\ task'[t].how = task[t].how
    BY <1>1, <2>3, BrokenFields
  <2>5. Outdoors(j) /\ \A u \in Task \ {t, j} : SamePlace(u)
    BY <2>1, <2>3 DEF Outdoors, SamePlace, Inside
  <2>6. QED
    BY <2>1, <2>2, <2>4, <2>5, HandlerEnds
<1>6. CASE HResume(t)
  <2>1. PICK j \in Jumper :
           /\ task[t].pc = "await" /\ task[j].pc = "done" /\ j \in Task /\ j # t
           /\ task' = [task EXCEPT ![t] = Dropped(task[t], j), ![j] = Fresh("idle")]
    BY <1>6, ResumeShape
  <2>2. task'[t] = Dropped(task[t], j) /\ \A u \in Task \ {t, j} : task'[u] = task[u]
    BY <1>1, <2>1
  <2>3. /\ task'[t].pc \in {"body", "await"} /\ task'[t].ev = task[t].ev
        /\ task'[t].bus = task[t].bus /\ task'[t].how = task[t].how
    BY <1>1, <2>2, DroppedFields
  <2>4. Outdoors(j) /\ GoesOn(t) /\ \A u \in Task \ {t, j} : SamePlace(u)
    BY <2>1, <2>2, <2>3 DEF Outdoors, GoesOn, SamePlace, Inside, Calling
  <2>5. UNCHANGED <<owner, waiting>>
    BY <1>6 DEF HResume
  <2>6. QED
    BY <2>4, <2>5, MovesOn
<1>10. CASE HLeave(t)
  <2>1. PICK j \in Jumper : task[t].pc = "await" /\ task' = [task EXCEPT ![t] = Dropped(task[t], j)]
    BY <1>10, LeaveShape
  <2>2. task'[t] = Dropped(task[t], j) /\ \A u \in Task \ {t} : task'[u] = task[u]
    BY <1>1, <2>1
  <2>3. /\ task'[t].pc \in {"body", "await"} /\ task'[t].ev = task[t].ev
        /\ task'[t].bus = task[t].bus /\ task'[t].how = task[t].how
    BY <1>1, <2>2, DroppedFields
  <2>4. GoesOn(t) /\ \A u \in Task \ {t} : SamePlace(u)
    BY <2>1, <2>2, <2>3 DEF GoesOn, SamePlace, Inside, Calling
  <2>5. UNCHANGED <<owner, waiting>>
    BY <1>10 DEF HLeave, lockVars
  <2>6. QED
    BY <2>4, <2>5, MovesOn
<1>7. ASSUME NEW c \in Event, HEmit(t, c)
      PROVE  LockInv'
  <2>1. /\ task' = Restarted(task[t].bus, task) /\ UNCHANGED <<owner, waiting>>
        /\ task[t].pc \in {"body", "await"}
    BY <1>7 DEF HEmit, InHandler, At, lockVars
  <2>2. task[t].bus \in Bus
    BY <2>1, TaskFields DEF TaskOK, Working
  <2>3. \A u \in Task : SamePlace(u) \/ Outdoors(u)
    BY <1>1, <2>1, <2>2, RestartedOutdoors
  <2>4. QED
    BY <2>1, <2>3, MovesOn
<1>8. ASSUME NEW c \in Event, NEW j \in Jumper, HAwait(t, c, j)
      PROVE  LockInv'
  <2>1. /\ task[t].pc \in {"body", "await"} /\ task[j].pc = "idle" /\ j \in Task /\ j # t
        /\ task' = [task EXCEPT ![t] = Awaiting(task[t], j), ![j] = [Fresh("poll") EXCEPT !.ev = c]]
    BY <1>8, AwaitShape
  <2>2. task'[t] = Awaiting(task[t], j) /\ \A u \in Task \ {t, j} : task'[u] = task[u]
    BY <1>1, <2>1
  <2>3. /\ task'[t].pc = "await" /\ task'[t].ev = task[t].ev
        /\ task'[t].bus = task[t].bus /\ task'[t].how = task[t].how
    BY <1>1, <2>2, AwaitingFields
  <2>4. Outdoors(j) /\ GoesOn(t) /\ \A u \in Task \ {t, j} : SamePlace(u)
    BY <2>1, <2>2, <2>3 DEF Outdoors, GoesOn, SamePlace, Inside, Calling
  <2>5. UNCHANGED <<owner, waiting>>
    BY <1>8 DEF HAwait
  <2>6. QED
    BY <2>4, <2>5, MovesOn
<1>9. QED
  BY <1>2, <1>3, <1>4, <1>5, <1>6, <1>7, <1>8, <1>10 DEF Body

\* The end of an event on a bus: the task that owns the event lock passes it on.
LEMMA EndLocks ==
    ASSUME TypeOK, LockInv, NEW t \in Task, End(t) \/ Unlock(t) \/ Propagate(t)
    PROVE  LockInv'
<1>1. task \in [Task -> TaskState] /\ task[t] \in TaskState /\ LockTypes
  BY TaskFields
<1>2. \A u \in Task \ {t} : SamePlace(u)
  <2>1. \A u \in Task \ {t} : task'[u] = task[u]
    BY <1>1 DEF End, Unlock, Propagate, Goto
  <2>2. QED
    BY <2>1 DEF SamePlace
<1>3. CASE End(t)
  <2>1. GoesOn(t)
    BY <1>1, <1>3 DEF End, At, Goto, GoesOn, Inside, Calling, TaskState
  <2>2. QED
    BY <1>2, <1>3, <2>1, MovesOn DEF End, lockVars
<1>4. CASE Propagate(t)
  <2>1. Outdoors(t)
    BY <1>4 DEF Propagate, At, Outdoors, Inside
  <2>2. QED
    BY <1>2, <1>4, <2>1, MovesOn DEF Propagate, lockVars
<1>5. CASE Unlock(t)
  <2> DEFINE l == LockOf[task[t].bus]
  <2>1. task[t].pc = "unlock"
    BY <1>5 DEF Unlock, At
  <2>2. l \in Lock
    BY <2>1, LockAssumption, TaskFields DEF TaskOK, Working
  <2>3. \A u \in Task \ {t} : LocksKept(u)
    BY <1>2, KeptLocks
  <2>4. \A k \in Lock \cup Event :
           /\ ~Wants(task[t], k)
           /\ Uses(task[t], k) => k = l /\ task[t].how = "owned"
    BY <2>1 DEF Uses, Wants, Calling
  <2>5. /\ task[t].how = "owned" => Released(l)
        /\ task[t].how # "owned" => UNCHANGED <<owner, waiting>>
    BY <1>5 DEF Unlock, lockVars
  <2> HIDE DEF l
  <2>6. CASE task[t].how = "owned"
    BY <1>1, <2>2, <2>3, <2>4, <2>5, <2>6, LockPassed DEF LocksKept
  <2>7. CASE task[t].how # "owned"
    <3>1. LocksKept(t)
      BY <2>4, <2>7 DEF LocksKept
    <3>2. QED
      BY <1>1, <2>3, <2>5, <2>7, <3>1, LocksStay
  <2>8. QED
    BY <2>6, <2>7
<1>6. QED
  BY <1>3, <1>4, <1>5

\* The tasks of now() hold no lock while they look for their event.
LEMMA JumpLocks ==
    ASSUME TypeOK, LockInv, NEW j \in Jumper, Jump(j)
    PROVE  LockInv'
<1>1. j \in Task /\ task \in [Task -> TaskState]
  BY TaskFields DEF Task
<1>2. Outdoors(j)
  BY DEF Jump, JumpYield, JumpGiveUp, JumpDone, JumpAgain, JumpTake, JumpJoin,
         NothingToDo, Polling, At, Outdoors, Inside
<1>3. /\ \A u \in Task \ {j} : task'[u] = task[u]
      /\ UNCHANGED <<owner, waiting>>
  <2>1. CASE JumpYield(j) \/ JumpGiveUp(j) \/ JumpDone(j) \/ JumpAgain(j)
    BY <1>1, <2>1 DEF JumpYield, JumpGiveUp, JumpDone, JumpAgain, Goto, lockVars
  <2>2. ASSUME NEW b \in Bus, JumpTake(j, b) \/ JumpJoin(j, b)
        PROVE  /\ \A u \in Task \ {j} : task'[u] = task[u]
               /\ UNCHANGED <<owner, waiting>>
    BY <1>1, <2>2 DEF JumpTake, JumpJoin, lockVars
  <2>3. QED
    BY <2>1, <2>2 DEF Jump
<1>4. \A u \in Task \ {j} : SamePlace(u)
  BY <1>3 DEF SamePlace
<1>5. QED
  BY <1>2, <1>3, <1>4, MovesOn

\* Nor do those who emit and await outside of the handlers.
LEMMA OutsideLocks ==
    ASSUME TypeOK, LockInv, Outside
    PROVE  LockInv'
<1>1. ASSUME NEW b \in Bus, NEW e \in Event, ExtEmit(b, e)
      PROVE  LockInv'
  <2>1. task' = Restarted(b, task) /\ UNCHANGED <<owner, waiting>>
    BY <1>1 DEF ExtEmit, lockVars
  <2>2. \A u \in Task : SamePlace(u) \/ Outdoors(u)
    BY <2>1, RestartedOutdoors, TaskFields
  <2>3. QED
    BY <2>1, <2>2, MovesOn
<1>2. ASSUME NEW j \in Jumper, NEW e \in Event, ExtAwait(j, e)
      PROVE  LockInv'
  <2>1. /\ task' = [task EXCEPT ![j] = [Fresh("poll") EXCEPT !.ev = e]]
        /\ task[j].pc = "idle" /\ UNCHANGED <<owner, waiting>>
    BY <1>2 DEF ExtAwait, lockVars
  <2>2. Outdoors(j) /\ \A u \in Task \ {j} : SamePlace(u)
    BY <2>1, TaskFields DEF Outdoors, SamePlace, Inside
  <2>3. QED
    BY <2>1, <2>2, MovesOn
<1>3. QED
  BY <1>1, <1>2 DEF Outside

\* No step breaks the order of the locks.
LEMMA LockStep == TypeOK /\ LockInv /\ [Next]_vars => LockInv'
<1> SUFFICES ASSUME TypeOK, LockInv, [Next]_vars PROVE LockInv'
  OBVIOUS
<1>1. ASSUME NEW t \in Task, Process(t) PROVE LockInv'
  BY <1>1, EnterLocks, SelectLocks, EndLocks DEF Process
<1>2. ASSUME NEW t \in Task, Body(t) PROVE LockInv'
  BY <1>2, BodyLocks
<1>3. ASSUME NEW b \in Bus, LoopGet(b) \/ LoopAgain(b) PROVE LockInv'
  BY <1>3, LoopLocks
<1>4. ASSUME NEW j \in Jumper, Jump(j) PROVE LockInv'
  BY <1>4, JumpLocks
<1>5. ASSUME Outside PROVE LockInv'
  BY <1>5, OutsideLocks
<1>6. CASE UNCHANGED vars
  <2>1. UNCHANGED <<owner, waiting>> /\ \A u \in Task : SamePlace(u)
    BY <1>6 DEF vars, lockVars, SamePlace
  <2>2. QED
    BY <2>1, MovesOn
<1>7. QED
  BY <1>1, <1>2, <1>3, <1>4, <1>5, <1>6 DEF Next

\* In the beginning every lock is free.
LEMMA LockInit == Init => LockInv
<1> SUFFICES ASSUME Init PROVE LockInv
  OBVIOUS
<1>1. \A l \in Lock \cup Event : owner[l] = NoTask /\ waiting[l] = <<>>
  BY DEF Init
<1>2. \A l \in Lock \cup Event : 1..Len(waiting[l]) = {}
  BY <1>1
<1>3. QED
  BY <1>1, <1>2 DEF LockInv, OwnersUse, WaitersWant, WaitersDiffer

\* A task that is at rest is outside of the locks.
LEMMA RestIsOutdoors ==
    ASSUME AtRest, NEW t \in Task
    PROVE  Outdoors(t)
BY DEF AtRest, Task, Outdoors, Inside

\* A lock that somebody owns or waits for is one that somebody still has a use
\* for, so none is left when nothing runs.
LEMMA LocksUsed == TypeOK /\ LockInv => NoLockLeaked
<1> SUFFICES ASSUME TypeOK, LockInv, AtRest, NEW l \in Lock \cup Event
             PROVE  owner[l] = NoTask /\ waiting[l] = <<>>
  BY DEF NoLockLeaked
<1>1. \A t \in Task : ~Uses(task[t], l) /\ ~Wants(task[t], l)
  BY RestIsOutdoors, OutdoorsHasNone
<1>2. /\ owner[l] \in Task \cup {NoTask} /\ waiting[l] \in Seq(Task)
      /\ \A i \in 1..Len(waiting[l]) : waiting[l][i] \in Task
  BY OwnersTask, TaskFields
<1>3. owner[l] = NoTask
  BY <1>1, <1>2 DEF LockInv, OwnersUse
<1>4. waiting[l] = <<>>
  <2> SUFFICES ASSUME waiting[l] # <<>> PROVE FALSE
    OBVIOUS
  <2>1. 1 \in 1..Len(waiting[l])
    BY <1>2
  <2>2. Wants(task[waiting[l][1]], l) /\ waiting[l][1] \in Task
    BY <1>2, <2>1 DEF LockInv, WaitersWant
  <2>3. QED
    BY <1>1, <2>2
<1>5. QED
  BY <1>3, <1>4

\* When nothing can run any more no event lock and no handler lock is held or
\* waited for, however the handlers ended and whoever cancelled them.
THEOREM NoLockIsLeaked == Spec => []NoLockLeaked
<1>1. Init => TypeOK /\ LockInv
  BY TypeInit, LockInit
<1>2. TypeOK /\ LockInv /\ [Next]_vars => (TypeOK /\ LockInv)'
  BY TypeStep, LockStep
<1>3. TypeOK /\ LockInv => NoLockLeaked
  BY LocksUsed
<1>4. QED
  BY <1>1, <1>2, <1>3, PTL DEF Spec

-----------------------------------------------------------------------------
(***************************************************************************)
(* Each handler once.  Whatever the tasks of now() and the run loops do to *)
(* the same event at once, cancellations included, no handler runs twice   *)
(* for it, its settled result stays, and it is not complete while one runs.*)
(*                                                                         *)
(* The argument needs that a task chooses the handlers and resets their    *)
(* results in one go, so it is about buses without middleware hooks: with  *)
(* hooks the first property fails (EventBus_rerun_behind_hooks.cfg).       *)
(***************************************************************************)

Midway == {"select", "create"}
Running == {"body", "await", "sent"}
Locking == {"start", "body", "await", "sent"}
Chosen == {"next", "hwait", "start", "body", "await", "sent"}
Busy == Midway \cup Chosen

\* A task between the check of an event and its choice of handlers is the one
\* that runs, and the event is not complete.
MidwayAlone ==
    \A t \in Task : task[t].pc \in Midway => cpu = t /\ ~signal[task[t].ev]

\* The handlers it has chosen have no result worth keeping.
ChoiceFresh ==
    \A t \in Task : task[t].pc = "create" =>
        \A h \in task[t].todo : result[task[t].ev][h] \in {"none", "pending"}

\* A task that calls a handler holds the event's handler lock.
CallerHoldsLock ==
    \A t \in Task : task[t].pc \in Locking => owner[task[t].ev] = t

\* A result is "started" just as long as a task is in the handler's body.
RunningIsStarted ==
    \A t \in Task : task[t].pc \in Running => result[task[t].ev][task[t].cur] = "started"
StartedIsRunning ==
    \A e \in Event, h \in Handler : result[e][h] = "started" =>
        \E t \in Task : task[t].pc \in Running /\ task[t].ev = e /\ task[t].cur = h

\* The chosen handlers that are not run yet have results.
ChosenHasResult ==
    \A t \in Task :
        /\ task[t].pc \in Chosen => \A h \in task[t].todo : result[task[t].ev][h] # "none"
        /\ task[t].pc \in {"hwait", "start"} => result[task[t].ev][task[t].cur] # "none"

\* A handler has run once if its result says so, and never otherwise.
Ran(e, h) == result[e][h] \in {"started"} \cup Terminal
RunsShown ==
    \A e \in Event, h \in Handler : runs[e][h] <= 1 /\ (~Ran(e, h) => runs[e][h] = 0)

\* All results of a completed event are settled.
SignalSettled ==
    \A e \in Event : signal[e] => \A h \in Handler : result[e][h] \in Terminal \cup {"none"}

IInv ==
    /\ TypeOK /\ MidwayAlone /\ ChoiceFresh /\ CallerHoldsLock
    /\ RunningIsStarted /\ StartedIsRunning /\ ChosenHasResult
    /\ RunsShown /\ SignalSettled

-----------------------------------------------------------------------------
(* Init *)

\* No event has been emitted and no handler chosen.
LEMMA OnceInit == Init => IInv
<1> SUFFICES ASSUME Init PROVE IInv
  OBVIOUS
<1>1. TypeOK
  BY TypeInit
<1>2. \A t \in Task : task[t].pc \in {"get", "idle"}
  BY DEF Init, Fresh
<1>3. \A e \in Event, h \in Handler : result[e][h] = "none" /\ runs[e][h] = 0 /\ ~signal[e]
  BY DEF Init
<1>4. MidwayAlone /\ ChoiceFresh /\ CallerHoldsLock /\ RunningIsStarted /\ ChosenHasResult
  BY <1>2 DEF MidwayAlone, ChoiceFresh, CallerHoldsLock, RunningIsStarted, ChosenHasResult,
              Midway, Locking, Running, Chosen
<1>5. StartedIsRunning /\ RunsShown /\ SignalSettled
  BY <1>3 DEF StartedIsRunning, RunsShown, SignalSettled
<1>6. QED
  BY <1>1, <1>4, <1>5 DEF IInv

-----------------------------------------------------------------------------
(* Steps *)

\* What the invariant reads of a task.
SameChoice(t) ==
    /\ task'[t].pc = task[t].pc /\ task'[t].ev = task[t].ev
    /\ task'[t].cur = task[t].cur /\ task'[t].todo = task[t].todo

\* A task that is not midway keeps every other from being so.
LEMMA NoneMidway ==
    ASSUME IInv, NEW t \in Task, cpu \in {NoTask, t}, task[t].pc \notin Midway
    PROVE  \A u \in Task : task[u].pc \notin Midway
BY NamesAssumption DEF IInv, MidwayAlone

\* Midway, only that task moves.
LEMMA OneMidway ==
    ASSUME IInv, NEW t \in Task, cpu \in {NoTask, t}
    PROVE  \A u \in Task \ {t} : task[u].pc \notin Midway
BY NamesAssumption DEF IInv, MidwayAlone

\* Steps that touch no result and no handler lock: of a task that is not
\* processing, on its way into _process_event, inside a handler's body, or
\* completing events whose results are settled.
Complete1(e) == signal[e] \/ \A h \in Handler : result[e][h] \in Terminal \cup {"none"}
LEMMA QuietStep ==
    ASSUME IInv, TypeOK', UNCHANGED <<result, runs>>,
           \A e \in Event : owner'[e] = owner[e],
           \A e \in Event : signal'[e] => Complete1(e),
           \A u \in Task : SameChoice(u) => task[u].pc \notin Midway,
           \A u \in Task :
              \/ SameChoice(u)
              \/ task[u].pc \notin Running /\ task'[u].pc \notin Busy
              \/ /\ task[u].pc \notin Running /\ task'[u].pc = "select"
                 /\ cpu' = u /\ ~signal'[task'[u].ev]
              \/ /\ task[u].pc \in Running /\ task'[u].pc \in Running
                 /\ task'[u].ev = task[u].ev /\ task'[u].cur = task[u].cur
                 /\ task'[u].todo = task[u].todo
    PROVE  IInv'
<1>1. \A u \in Task : task[u].pc \in Working => task[u].ev \in Event
  BY TypeParts DEF IInv, TaskTypes, TaskOK
<1>2. MidwayAlone'
  BY DEF MidwayAlone, SameChoice, Busy, Midway, Running
<1>3. ChoiceFresh'
  BY DEF ChoiceFresh, SameChoice, Busy, Midway, Running
<1>4. CallerHoldsLock'
  <2> SUFFICES ASSUME NEW u \in Task, task'[u].pc \in Locking
               PROVE  owner'[task'[u].ev] = u
    BY DEF CallerHoldsLock
  <2>1. task[u].pc \in Locking /\ task'[u].ev = task[u].ev
    BY DEF SameChoice, Busy, Midway, Chosen, Running, Locking
  <2>2. task[u].ev \in Event
    BY <1>1, <2>1 DEF Locking, Working
  <2>3. QED
    BY <2>1, <2>2 DEF IInv, CallerHoldsLock
<1>5. RunningIsStarted'
  BY DEF IInv, RunningIsStarted, SameChoice, Busy, Midway, Chosen, Running
<1>6. StartedIsRunning'
  BY DEF IInv, StartedIsRunning, SameChoice, Busy, Midway, Chosen, Running
<1>7. ChosenHasResult'
  BY DEF IInv, ChosenHasResult, SameChoice, Busy, Midway, Chosen, Running
<1>8. RunsShown'
  BY DEF IInv, RunsShown, Ran
<1>9. SignalSettled'
  BY DEF IInv, SignalSettled, Complete1
<1>10. QED
  BY <1>2, <1>3, <1>4, <1>5, <1>6, <1>7, <1>8, <1>9 DEF IInv

\* Completion is decided on settled results.
LEMMA CompleteSettled ==
    ASSUME IInv, NEW S, Complete(S), \A e \in S \cap Event : Complete1(e)
    PROVE  \A e \in Event : signal'[e] => Complete1(e)
BY DEF Complete, Complete1

\* Both tests for completion look at the results.
LEMMA CompletableSettled ==
    /\ \A e \in Event, B \in SUBSET Bus : Completable(e, B) => Complete1(e)
    /\ \A r \in Event, b \in Bus : \A e \in CompletableTree(r, b) : Complete1(e)
<1>1. \A e \in Event, B \in SUBSET Bus : Completable(e, B) => Complete1(e)
  BY DEF Completable, ResultsReady, Complete1
<1>2. ASSUME NEW r \in Event, NEW b \in Bus, NEW e \in CompletableTree(r, b)
      PROVE  Complete1(e)
  <2>1. status[e] # "completed"
        /\ \/ signal[e]
           \/ \A x \in {e} \cup Below(e, Blocking) :
                 \/ status[x] = "completed" \/ signal[x]
                 \/ ResultsReady(x, IF x = r THEN {b} ELSE {})
    BY DEF CompletableTree
  <2>2. signal[e] \/ ResultsReady(e, IF e = r THEN {b} ELSE {})
    BY <2>1
  <2>3. QED
    BY <2>2 DEF ResultsReady, Complete1
<1>3. QED
  BY <1>1, <1>2

\* A signal that stays as it is.
LEMMA SameSignal ==
    ASSUME IInv, UNCHANGED signal
    PROVE  \A e \in Event : signal'[e] => Complete1(e)
BY DEF Complete1

\* A lock that is no event is no handler lock.
LEMMA OtherLock ==
    ASSUME NEW l \in Lock, NEW e \in Event
    PROVE  l # e
BY NamesAssumption

\* Run loops and tasks of now() outside of _process_event.
LEMMA LoopQuiet ==
    ASSUME IInv, TypeOK', NEW b \in Bus, LoopGet(b) \/ LoopAgain(b)
    PROVE  IInv'
<1>1. b \in Task /\ cpu \in {NoTask, b} /\ task[b].pc \in {"get", "after"}
  BY DEF LoopGet, LoopAgain, At, Task
<1>2. /\ UNCHANGED <<result, runs, signal, owner>>
      /\ \E s : task' = [task EXCEPT ![b] = s] /\ s.pc \notin Busy
  <2>1. CASE LoopGet(b)
    <3> DEFINE s == [Fresh("lock") EXCEPT !.ev = Head(queue[b]), !.bus = b]
    <3>1. task' = [task EXCEPT ![b] = s] /\ UNCHANGED <<result, runs, signal, owner>>
      BY <2>1 DEF LoopGet, eventVars, resultVars, lockVars
    <3>2. s.pc \notin Busy
      BY DEF Busy, Midway, Chosen, Fresh
    <3> HIDE DEF s
    <3>3. QED
      BY <3>1, <3>2
  <2>2. CASE LoopAgain(b)
    <3>1. PICK s \in {Fresh("get"), Fresh("dead")} : task' = [task EXCEPT ![b] = s]
      BY <2>2 DEF LoopAgain
    <3>2. s.pc \notin Busy
      BY DEF Busy, Midway, Chosen, Fresh
    <3>3. UNCHANGED <<result, runs, signal, owner>>
      BY <2>2 DEF LoopAgain, eventVars, resultVars, lockVars
    <3>4. QED
      BY <3>1, <3>2, <3>3
  <2>3. QED
    BY <2>1, <2>2
<1>3. task[b].pc \notin Running /\ task[b].pc \notin Midway
  BY <1>1 DEF Running, Midway
<1>4. \A u \in Task : task[u].pc \notin Midway
  BY <1>1, <1>3, NoneMidway
<1>5. \A u \in Task : SameChoice(u) \/ (task[u].pc \notin Running /\ task'[u].pc \notin Busy)
  <2>1. PICK s : task' = [task EXCEPT ![b] = s] /\ s.pc \notin Busy
    BY <1>2
  <2>2. task \in [Task -> TaskState]
    BY TypeParts DEF IInv, TaskTypes
  <2>3. task'[b] = s /\ \A u \in Task \ {b} : task'[u] = task[u]
    BY <1>1, <2>1, <2>2
  <2>4. task[b].pc \notin Running /\ task'[b].pc \notin Busy
    BY <1>3, <2>1, <2>3
  <2>5. \A u \in Task \ {b} : SameChoice(u)
    BY <2>3 DEF SameChoice
  <2>6. QED
    BY <2>4, <2>5 DEF SameChoice
<1>6. QED
  BY <1>2, <1>4, <1>5, SameSignal, QuietStep

\* The event lock and the check behind it.
LEMMA EnterQuiet ==
    ASSUME IInv, TypeOK', NEW t \in Task, EnterLock(t) \/ LockGranted(t) \/ Check(t)
    PROVE  IInv'
<1>1. cpu \in {NoTask, t} /\ task[t].pc \in {"lock", "lockwait", "check"}
  BY DEF EnterLock, LockGranted, Check, At
<1>2. task[t].pc \notin Running /\ task[t].pc \notin Midway
  BY <1>1 DEF Running, Midway
<1>3. \A u \in Task : task[u].pc \notin Midway
  BY <1>1, <1>2, NoneMidway
<1>4. task \in [Task -> TaskState] /\ task[t].bus \in Bus /\ LockOf[task[t].bus] \in Lock
  BY <1>1, TypeParts, LockAssumption DEF IInv, TaskTypes, TaskOK, Working
<1>5. UNCHANGED <<result, runs, signal>>
  BY DEF EnterLock, LockGranted, Check, eventVars, resultVars
<1>6. \A e \in Event : owner'[e] = owner[e]
  <2>1. UNCHANGED owner \/ owner' = [owner EXCEPT ![LockOf[task[t].bus]] = t]
    BY DEF EnterLock, LockGranted, Check, lockVars
  <2>2. owner \in [Lock \cup Event -> Task \cup {NoTask}]
    BY TypeParts DEF IInv, LockTypes
  <2>3. QED
    BY <1>4, <2>1, <2>2, OtherLock
<1>7. \A u \in Task \ {t} : SameChoice(u)
  BY <1>4 DEF EnterLock, LockGranted, Check, Goto, SameChoice
<1>8. \/ task'[t].pc \in {"check", "lockwait", "unlock"}
      \/ task'[t].pc = "select" /\ cpu' = t /\ ~signal'[task'[t].ev]
  <2>1. CASE Check(t)
    <3>1. task' = [task EXCEPT ![t].pc = IF signal[task[t].ev] THEN "unlock" ELSE "select"]
          /\ cpu' = t
      BY <2>1 DEF Check, Goto, RunOn
    <3>2. QED
      BY <1>4, <1>5, <3>1 DEF TaskState
  <2>2. CASE EnterLock(t) \/ LockGranted(t)
    <3>1. task[t] \in TaskState
      BY <1>4
    <3>2. \/ \E x \in {"owned", "nested"} : task' = [task EXCEPT ![t].pc = "check", ![t].how = x]
          \/ task' = [task EXCEPT ![t].pc = "lockwait"]
      BY <2>2 DEF EnterLock, LockGranted, Goto
    <3>3. QED
      BY <1>4, <3>1, <3>2 DEF TaskState
  <2>3. QED
    BY <2>1, <2>2
<1>9. QED
  BY <1>2, <1>3, <1>5, <1>6, <1>7, <1>8, SameSignal, QuietStep DEF Busy, Midway, Chosen

\* Completing events at the end of processing.
LEMMA EndQuiet ==
    ASSUME IInv, TypeOK', NEW t \in Task, End(t) \/ Unlock(t) \/ Propagate(t)
    PROVE  IInv'
<1>1. cpu \in {NoTask, t} /\ task[t].pc \in {"end", "unlock", "prop"}
  BY DEF End, Unlock, Propagate, At
<1>2. task[t].pc \notin Running /\ task[t].pc \notin Midway
  BY <1>1 DEF Running, Midway
<1>3. \A u \in Task : task[u].pc \notin Midway
  BY <1>1, <1>2, NoneMidway
<1>4. /\ task \in [Task -> TaskState] /\ task[t].bus \in Bus /\ LockOf[task[t].bus] \in Lock
      /\ task[t].ev \in Event /\ (task[t].pc = "prop" => task[t].up \in Event)
  BY <1>1, TypeParts, LockAssumption DEF IInv, TaskTypes, TaskOK, Working
<1>5. UNCHANGED <<result, runs>>
  BY DEF End, Unlock, Propagate, resultVars
<1>6. \A e \in Event : owner'[e] = owner[e]
  <2>1. UNCHANGED owner \/ Released(LockOf[task[t].bus])
    BY DEF End, Unlock, Propagate, lockVars
  <2>2. owner \in [Lock \cup Event -> Task \cup {NoTask}]
    BY TypeParts DEF IInv, LockTypes
  <2>3. QED
    BY <1>4, <2>1, <2>2, OtherLock DEF Released
<1>7. \A u \in Task \ {t} : SameChoice(u)
  BY <1>4 DEF End, Unlock, Propagate, Goto, SameChoice
<1>8. task'[t].pc \in {"unlock", "prop", "after"}
  <2>1. CASE End(t) \/ Unlock(t)
    BY <1>4, <2>1 DEF End, Unlock, Goto, TaskState
  <2>2. CASE Propagate(t)
    <3>1. task[t].pc = "prop"
      BY <2>2 DEF Propagate, At
    <3>2. QED
      BY <1>4, <2>2, <3>1 DEF Propagate, Goto, TaskState
  <2>3. QED
    BY <2>1, <2>2
<1>9. \A e \in Event : signal'[e] => Complete1(e)
  <2>1. CASE UNCHANGED eventVars
    BY <2>1, SameSignal DEF eventVars
  <2>2. CASE End(t) /\ ~UNCHANGED eventVars
    <3>1. Completable(task[t].ev, {task[t].bus}) /\ Complete({task[t].ev})
      BY <2>2 DEF End
    <3>2. Complete1(task[t].ev)
      BY <1>4, <3>1, CompletableSettled
    <3>3. QED
      BY <3>1, <3>2, CompleteSettled
  <2>3. CASE Unlock(t)
    <3>1. Complete(CompletableTree(task[t].ev, task[t].bus))
      BY <2>3 DEF Unlock
    <3>2. QED
      BY <1>4, <3>1, CompletableSettled, CompleteSettled
  <2>4. CASE Propagate(t) /\ ~UNCHANGED eventVars
    <3> DEFINE p == parent[task[t].up]
    <3>1. /\ p # NoEvent
          /\ \E pb \in path[p] : Completable(p, {pb}) /\ Complete({p})
      BY <2>4 DEF Propagate
    <3>2. p \in Event
      BY <1>4, <2>4, <3>1, TypeParts DEF IInv, EventTypes, Propagate, At
    <3> HIDE DEF p
    <3>3. path[p] \subseteq Bus
      BY <3>2, TypeParts DEF IInv, EventTypes
    <3>4. Complete1(p) /\ Complete({p})
      BY <3>1, <3>2, <3>3, CompletableSettled
    <3>5. QED
      BY <3>4, CompleteSettled
  <2>5. QED
    BY <2>1, <2>2, <2>3, <2>4
<1>10. QED
  BY <1>2, <1>3, <1>5, <1>6, <1>7, <1>8, <1>9, QuietStep DEF Busy, Midway, Chosen

\* The tasks of now() on their way to and from _process_event.
LEMMA JumpQuiet ==
    ASSUME IInv, TypeOK', NEW j \in Jumper, Jump(j)
    PROVE  IInv'
<1>1. j \in Task /\ cpu \in {NoTask, j} /\ task[j].pc \in {"poll", "sigwait", "after"}
  BY DEF Jump, JumpYield, JumpGiveUp, JumpDone, JumpAgain, JumpTake, JumpJoin,
         NothingToDo, Polling, At, Task
<1>2. task[j].pc \notin Running /\ task[j].pc \notin Midway
  BY <1>1 DEF Running, Midway
<1>3. \A u \in Task : task[u].pc \notin Midway
  BY <1>1, <1>2, NoneMidway
<1>4. task \in [Task -> TaskState] /\ task[j] \in TaskState
  BY <1>1, TypeParts DEF IInv, TaskTypes
<1>5. UNCHANGED <<result, runs, signal, owner>>
  BY DEF Jump, JumpYield, JumpGiveUp, JumpDone, JumpAgain, JumpTake, JumpJoin,
         eventVars, resultVars, lockVars
<1>6. \A u \in Task \ {j} : SameChoice(u)
  BY <1>4 DEF Jump, JumpYield, JumpGiveUp, JumpDone, JumpAgain, JumpTake, JumpJoin,
              Goto, SameChoice
<1>7. \/ SameChoice(j)
      \/ task'[j].pc \notin Busy
      \/ task'[j].pc = "select" /\ cpu' = j /\ ~signal'[task'[j].ev]
  <2>1. CASE JumpYield(j)
    BY <2>1 DEF JumpYield, SameChoice
  <2>2. CASE JumpGiveUp(j) \/ JumpDone(j)
    BY <1>1, <1>4, <2>2 DEF JumpGiveUp, JumpDone, Goto, Busy, Midway, Chosen, TaskState
  <2>3. CASE JumpAgain(j)
    <3>1. CASE Goto(j, "failed")
      BY <1>1, <1>4, <3>1 DEF Goto, Busy, Midway, Chosen, TaskState
    <3>2. CASE task' = [task EXCEPT ![j] =
                  [Fresh("poll") EXCEPT !.ev = task[j].ev, !.claimed = task[j].claimed]]
      BY <1>1, <1>4, <3>2 DEF Busy, Midway, Chosen, Fresh
    <3>3. QED
      BY <2>3, <3>1, <3>2 DEF JumpAgain
  <2>4. ASSUME NEW b \in Bus, JumpJoin(j, b)
        PROVE  task'[j].pc \notin Busy
    BY <1>1, <1>4, <2>4 DEF JumpJoin, Busy, Midway, Chosen, TaskState
  <2>5. ASSUME NEW b \in Bus, JumpTake(j, b)
        PROVE  task'[j].pc = "select" /\ cpu' = j /\ ~signal'[task'[j].ev]
    <3>1. /\ task' = [task EXCEPT ![j].pc = "select", ![j].bus = b, ![j].how = "bypass"]
          /\ cpu' = j /\ ~signal[task[j].ev]
      BY <2>5 DEF JumpTake, Polling, RunOn
    <3>2. task'[j].pc = "select" /\ task'[j].ev = task[j].ev
      BY <1>1, <1>4, <3>1 DEF TaskState
    <3>3. QED
      BY <1>5, <3>1, <3>2
  <2>6. QED
    BY <2>1, <2>2, <2>3, <2>4, <2>5 DEF Jump
<1>8. QED
  BY <1>2, <1>3, <1>5, <1>6, <1>7, SameSignal, QuietStep

\* A run loop that is started again was not processing anything.
LEMMA RestartedSame ==
    ASSUME IInv, NEW b \in Bus, task' = Restarted(b, task)
    PROVE  \A u \in Task : SameChoice(u) \/ (task[u].pc \notin Running /\ task'[u].pc \notin Busy)
<1>1. task \in [Task -> TaskState] /\ b \in Task
  BY TypeParts DEF IInv, TaskTypes, Task
<1>2. CASE task[b].pc = "dead"
  <2>1. task' = [task EXCEPT ![b] = Fresh("get")]
    BY <1>2 DEF Restarted
  <2>2. task'[b].pc = "get" /\ \A u \in Task \ {b} : task'[u] = task[u]
    BY <1>1, <2>1 DEF Fresh
  <2>3. task[b].pc \notin Running /\ task'[b].pc \notin Busy
    BY <1>2, <2>2 DEF Running, Busy, Midway, Chosen
  <2>4. \A u \in Task \ {b} : SameChoice(u)
    BY <2>2 DEF SameChoice
  <2>5. QED
    BY <2>3, <2>4 DEF SameChoice
<1>3. CASE task[b].pc # "dead"
  BY <1>1, <1>3 DEF Restarted, SameChoice
<1>4. QED
  BY <1>2, <1>3

\* Emissions and now() from outside.
LEMMA OutsideQuiet ==
    ASSUME IInv, TypeOK', Outside
    PROVE  IInv'
<1>1. cpu = NoTask
  BY DEF Outside, ExtEmit, ExtAwait
<1>2. \A u \in Task : task[u].pc \notin Midway
  BY <1>1, NamesAssumption DEF IInv, MidwayAlone
<1>3. UNCHANGED <<result, runs, signal, owner>>
  BY DEF Outside, ExtEmit, ExtAwait, Emit, eventVars, resultVars, lockVars
<1>4. \A u \in Task : SameChoice(u) \/ (task[u].pc \notin Running /\ task'[u].pc \notin Busy)
  <2>1. CASE \E b \in Bus, e \in Event : ExtEmit(b, e)
    BY <2>1, RestartedSame DEF ExtEmit
  <2>2. CASE \E j \in Jumper, e \in Event : ExtAwait(j, e)
    <3>1. PICK j \in Jumper, e \in Event : ExtAwait(j, e)
      BY <2>2
    <3>2. task \in [Task -> TaskState] /\ j \in Task
      BY TypeParts DEF IInv, TaskTypes, Task
    <3>3. task[j].pc = "idle" /\ task' = [task EXCEPT ![j] = [Fresh("poll") EXCEPT !.ev = e]]
      BY <3>1 DEF ExtAwait
    <3>4. task'[j].pc = "poll" /\ \A u \in Task \ {j} : task'[u] = task[u]
      BY <3>2, <3>3 DEF Fresh
    <3>5. task[j].pc \notin Running /\ task'[j].pc \notin Busy
      BY <3>3, <3>4 DEF Running, Busy, Midway, Chosen
    <3>6. \A u \in Task \ {j} : SameChoice(u)
      BY <3>4 DEF SameChoice
    <3>7. QED
      BY <3>5, <3>6 DEF SameChoice
  <2>3. QED
    BY <2>1, <2>2 DEF Outside
<1>5. QED
  BY <1>2, <1>3, <1>4, SameSignal, QuietStep

\* Emitting, forwarding and awaiting in a handler's body.
LEMMA BodyQuiet ==
    ASSUME IInv, TypeOK', NEW t \in Task,
           \/ \E c \in Event : HEmit(t, c)
           \/ \E c \in Event, j \in Jumper : HAwait(t, c, j)
           \/ HForward(t) \/ HResume(t) \/ HLeave(t)
    PROVE  IInv'
<1>1. cpu = NoTask /\ task[t].pc \in Running /\ TypeOK
  BY DEF HEmit, HAwait, HForward, HResume, HLeave, InBody, InHandler, At, Running, IInv
<1>2. \A u \in Task : task[u].pc \notin Midway
  BY <1>1, NamesAssumption DEF IInv, MidwayAlone
<1>3. UNCHANGED <<result, runs, signal, owner>>
  BY DEF HEmit, HAwait, HForward, HResume, HLeave, Emit, eventVars, resultVars, lockVars
<1>4. task \in [Task -> TaskState] /\ task[t] \in TaskState /\ task[t].bus \in Bus
  BY <1>1, TypeParts DEF TaskTypes, TaskOK, Running, Working
<1>5. CASE \E c \in Event : HEmit(t, c)
  <2>1. task' = Restarted(task[t].bus, task)
    BY <1>5 DEF HEmit
  <2>2. QED
    BY <1>2, <1>3, <1>4, <2>1, RestartedSame, SameSignal, QuietStep
<1>6. ASSUME NEW j \in Task, task[j].pc \notin Running, task'[j].pc \notin Busy,
             \A u \in Task \ {t, j} : task'[u] = task[u],
             task'[t].pc \in Running, task'[t].ev = task[t].ev,
             task'[t].cur = task[t].cur, task'[t].todo = task[t].todo
      PROVE  IInv'
  <2>1. \A u \in Task \ {t, j} : SameChoice(u)
    BY <1>6 DEF SameChoice
  <2>2. QED
    BY <1>1, <1>2, <1>3, <1>6, <2>1, SameSignal, QuietStep
<1>7. CASE \E c \in Event, j \in Jumper : HAwait(t, c, j)
  <2>1. PICK c \in Event, j \in Jumper : HAwait(t, c, j)
    BY <1>7
  <2> DEFINE s == [Fresh("poll") EXCEPT !.ev = c]
  <2>2. /\ task[j].pc = "idle" /\ j \in Task /\ j # t
        /\ task' = [task EXCEPT ![t] = Awaiting(task[t], j), ![j] = s]
    BY <1>1, <2>1, AwaitShape
  <2>3. s.pc \notin Busy
    BY DEF Fresh, Busy, Midway, Chosen
  <2> HIDE DEF s
  <2>4. /\ task'[t] = Awaiting(task[t], j) /\ task'[j] = s
        /\ \A u \in Task \ {t, j} : task'[u] = task[u]
    BY <1>4, <2>2
  <2>5. /\ task'[t].pc = "await" /\ task'[t].ev = task[t].ev
        /\ task'[t].cur = task[t].cur /\ task'[t].todo = task[t].todo
    BY <1>4, <2>4, AwaitingFields
  <2>6. task[j].pc \notin Running /\ "await" \in Running
    BY <2>2 DEF Running
  <2>7. QED
    BY <1>6, <2>2, <2>3, <2>4, <2>5, <2>6
<1>8. CASE HResume(t)
  <2>1. PICK j \in Jumper :
           /\ task[j].pc = "done" /\ j \in Task /\ j # t
           /\ task' = [task EXCEPT ![t] = Dropped(task[t], j), ![j] = Fresh("idle")]
    BY <1>1, <1>8, ResumeShape
  <2>2. /\ task'[t] = Dropped(task[t], j) /\ task'[j] = Fresh("idle")
        /\ \A u \in Task \ {t, j} : task'[u] = task[u]
    BY <1>4, <2>1
  <2>3. /\ task'[t].pc \in {"body", "await"} /\ task'[t].ev = task[t].ev
        /\ task'[t].cur = task[t].cur /\ task'[t].todo = task[t].todo
    BY <1>4, <2>2, DroppedFields
  <2>4. task'[j].pc \notin Busy
    BY <2>2 DEF Fresh, Busy, Midway, Chosen
  <2>5. task[j].pc \notin Running /\ task'[t].pc \in Running
    BY <2>1, <2>3 DEF Running
  <2>6. QED
    BY <1>6, <2>1, <2>2, <2>3, <2>4, <2>5
<1>9. ASSUME \A u \in Task \ {t} : SameChoice(u) \/ (task[u].pc \notin Running /\ task'[u].pc \notin Busy),
             task'[t].pc \in Running, task'[t].ev = task[t].ev,
             task'[t].cur = task[t].cur, task'[t].todo = task[t].todo
      PROVE  IInv'
  BY <1>1, <1>2, <1>3, <1>9, SameSignal, QuietStep
<1>10. CASE HLeave(t)
  <2>1. PICK j \in Jumper : task' = [task EXCEPT ![t] = Dropped(task[t], j)]
    BY <1>1, <1>10, LeaveShape
  <2>2. task'[t] = Dropped(task[t], j) /\ \A u \in Task \ {t} : task'[u] = task[u]
    BY <1>4, <2>1
  <2>3. /\ task'[t].pc \in {"body", "await"} /\ task'[t].ev = task[t].ev
        /\ task'[t].cur = task[t].cur /\ task'[t].todo = task[t].todo
    BY <1>4, <2>2, DroppedFields
  <2>4. task'[t].pc \in Running /\ \A u \in Task \ {t} : SameChoice(u)
    BY <2>2, <2>3 DEF Running, SameChoice
  <2>5. QED
    BY <1>9, <2>3, <2>4
<1>11. CASE HForward(t)
  <2> DEFINE s == [task[t] EXCEPT !.pc = "sent"]
             r == [task EXCEPT ![t] = s]
  <2>1. PICK b \in Bus :
           /\ r \in [Task -> TaskState] /\ task' = Restarted(b, r) /\ task'[t] = s
           /\ \A u \in Task \ {t} : r[u] = task[u]
    BY <1>1, <1>11, ForwardShape
  <2>2. /\ s.pc = "sent" /\ s.ev = task[t].ev /\ s.cur = task[t].cur /\ s.todo = task[t].todo
    BY <1>4 DEF TaskState
  <2> HIDE DEF r, s
  <2>3. ASSUME NEW u \in Task \ {t}
        PROVE  SameChoice(u) \/ (task[u].pc \notin Running /\ task'[u].pc \notin Busy)
    <3>1. CASE r[b].pc = "dead" /\ u = b
      <4>1. task'[u] = Fresh("get") /\ task[u].pc = "dead"
        BY <2>1, <2>3, <3>1 DEF Restarted
      <4>2. QED
        BY <4>1 DEF Running, Busy, Midway, Chosen, Fresh
    <3>2. CASE ~(r[b].pc = "dead" /\ u = b)
      <4>1. task'[u] = task[u]
        BY <2>1, <2>3, <3>2 DEF Restarted
      <4>2. QED
        BY <4>1 DEF SameChoice
    <3>3. QED
      BY <3>1, <3>2
  <2>4. "sent" \in Running
    BY DEF Running
  <2>5. QED
    BY <1>9, <2>1, <2>2, <2>3, <2>4
<1>12. QED
  BY <1>5, <1>7, <1>8, <1>10, <1>11

-----------------------------------------------------------------------------
(* Steps of a task that processes an event *)

\* What the invariant says of one task.
Placed(t) ==
    LET e == task[t].ev IN
    /\ task[t].pc \in Midway => cpu = t /\ ~signal[e]
    /\ task[t].pc = "create" => \A h \in task[t].todo : result[e][h] \in {"none", "pending"}
    /\ task[t].pc \in Locking => owner[e] = t
    /\ task[t].pc \in Running => result[e][task[t].cur] = "started"
    /\ task[t].pc \in Chosen => \A h \in task[t].todo : result[e][h] # "none"
    /\ task[t].pc \in {"hwait", "start"} => result[e][task[t].cur] # "none"

\* The invariant, task by task.
LEMMA ByTask ==
    /\ IInv <=> /\ TypeOK /\ (\A t \in Task : Placed(t))
                /\ StartedIsRunning /\ RunsShown /\ SignalSettled
    /\ IInv' <=> /\ TypeOK' /\ (\A t \in Task : Placed(t)')
                 /\ StartedIsRunning' /\ RunsShown' /\ SignalSettled'
<1>1. (\A t \in Task : Placed(t)) <=>
         /\ MidwayAlone /\ ChoiceFresh /\ CallerHoldsLock
         /\ RunningIsStarted /\ ChosenHasResult
  BY DEF Placed, MidwayAlone, ChoiceFresh, CallerHoldsLock, RunningIsStarted, ChosenHasResult
<1>2. (\A t \in Task : Placed(t)') <=>
         /\ MidwayAlone' /\ ChoiceFresh' /\ CallerHoldsLock'
         /\ RunningIsStarted' /\ ChosenHasResult'
  BY DEF Placed, MidwayAlone, ChoiceFresh, CallerHoldsLock, RunningIsStarted, ChosenHasResult
<1>3. QED
  BY <1>1, <1>2 DEF IInv

\* A step of t leaves what the invariant says of the other tasks alone when it
\* resets no started result, and settles or locks only under its own lock.
LEMMA OthersPlaced ==
    ASSUME IInv, NEW t \in Task, cpu \in {NoTask, t},
           UNCHANGED signal,
           \A u \in Task \ {t} :
              \/ SameChoice(u)
              \/ task[u].pc \notin Running /\ task'[u].pc \notin Busy,
           \A e \in Event :
              \/ owner'[e] = owner[e]
              \/ owner[e] \in {t, NoTask},
           \A e \in Event, h \in Handler :
              \/ result'[e][h] = result[e][h]
              \/ /\ result'[e][h] # "none"
                 /\ result[e][h] # "started" \/ owner[e] = t
    PROVE  \A u \in Task \ {t} : Placed(u)'
<1> SUFFICES ASSUME NEW u \in Task \ {t} PROVE Placed(u)'
  OBVIOUS
<1>1. CASE task'[u].pc \notin Busy
  BY <1>1 DEF Placed, Busy, Midway, Chosen, Locking, Running
<1>2. CASE SameChoice(u)
  <2> DEFINE e == task[u].ev
  <2>1. SameChoice(u) /\ Placed(u) /\ task[u].pc \notin Midway /\ u # NoTask
    BY <1>2, OneMidway, ByTask, NamesAssumption
  <2>2. /\ task[u].pc \in Chosen => e \in Event
        /\ task[u].pc \in {"hwait", "start", "body", "await", "sent"} => task[u].cur \in Handler
        /\ task[u].todo \subseteq Handler
    BY TypeParts DEF IInv, TaskTypes, TaskState, TaskOK, Chosen, Working
  <2>3. task[u].pc \in Locking => owner'[e] = u
    <3> SUFFICES ASSUME task[u].pc \in Locking PROVE owner'[e] = u
      OBVIOUS
    <3>1. owner[e] = u /\ e \in Event
      BY <2>1, <2>2 DEF Placed, Locking, Chosen
    <3>2. owner'[e] = owner[e]
      BY <2>1, <3>1
    <3>3. QED
      BY <3>1, <3>2
  <2>4. task[u].pc \in Running => result'[e][task[u].cur] = "started"
    <3> SUFFICES ASSUME task[u].pc \in Running PROVE result'[e][task[u].cur] = "started"
      OBVIOUS
    <3>1. /\ e \in Event /\ task[u].cur \in Handler
          /\ result[e][task[u].cur] = "started" /\ owner[e] = u
      BY <2>1, <2>2 DEF Placed, Running, Locking, Chosen
    <3>2. QED
      BY <3>1
  <2>5. task[u].pc \in Chosen => \A h \in task[u].todo : result'[e][h] # "none"
    BY <2>1, <2>2 DEF Placed
  <2>6. task[u].pc \in {"hwait", "start"} => result'[e][task[u].cur] # "none"
    BY <2>1, <2>2 DEF Placed, Chosen
  <2>7. task[u].pc # "create"
    BY <2>1 DEF Midway
  <2>8. QED
    BY <2>1, <2>3, <2>4, <2>5, <2>6, <2>7 DEF Placed, SameChoice
<1>3. QED
  BY <1>1, <1>2

\* A task that is in no body ends no handler.
LEMMA StillRunning ==
    ASSUME IInv, NEW t \in Task, task[t].pc \notin Running,
           \A u \in Task \ {t} : SameChoice(u),
           \A e \in Event, h \in Handler : result'[e][h] = "started" => result[e][h] = "started"
    PROVE  StartedIsRunning'
<1> SUFFICES ASSUME NEW e \in Event, NEW h \in Handler, result'[e][h] = "started"
             PROVE  \E u \in Task : task'[u].pc \in Running /\ task'[u].ev = e /\ task'[u].cur = h
  BY DEF StartedIsRunning
<1>1. PICK u \in Task : task[u].pc \in Running /\ task[u].ev = e /\ task[u].cur = h
  BY DEF IInv, StartedIsRunning
<1>2. SameChoice(u)
  BY <1>1
<1>3. QED
  BY <1>1, <1>2 DEF SameChoice

\* Choosing the handlers.
LEMMA SelectStep ==
    ASSUME Middlewares = FALSE, IInv, TypeOK', NEW t \in Task, Select(t)
    PROVE  IInv'
<1> DEFINE e == task[t].ev
           hs == {h \in HandlersFor[task[t].bus][e] : ~WouldCreateLoop(e, h)}
<1>1. task[t].pc = "select" /\ cpu \in {NoTask, t}
  BY DEF Select, At
<1>2. /\ task \in [Task -> TaskState] /\ task[t] \in TaskState
      /\ e \in Event /\ task[t].bus \in Bus
  BY <1>1, TypeParts DEF IInv, TaskTypes, TaskOK, Working
<1>3. /\ UNCHANGED <<result, runs, signal, owner>> /\ cpu' = t
      /\ task' = [task EXCEPT ![t].pc = "create", ![t].todo = hs]
  BY DEF Select, Hook, eventVars, resultVars, lockVars
<1>4. \A h \in hs : result[e][h] \in {"none", "pending"}
  <2> SUFFICES ASSUME NEW h \in HandlersFor[task[t].bus][e], ~WouldCreateLoop(e, h)
               PROVE  result[e][h] \in {"none", "pending"}
    OBVIOUS
  <2>1. h \in Handler
    BY <1>2, HandlerAssumption
  <2>2. result[e][h] \in ResultStatus
    BY <1>2, <2>1, TypeParts DEF IInv, ResultTypes
  <2>3. result[e][h] \notin {"started"} \cup Terminal
    BY DEF WouldCreateLoop
  <2>4. QED
    BY <2>2, <2>3 DEF ResultStatus, Terminal
<1> HIDE DEF hs
<1>5. /\ task'[t].pc = "create" /\ task'[t].ev = e /\ task'[t].todo = hs
      /\ \A u \in Task \ {t} : SameChoice(u)
  BY <1>2, <1>3 DEF TaskState, SameChoice
<1>6. ~signal[e]
  BY <1>1, ByTask DEF Placed, Midway
<1>7. Placed(t)'
  BY <1>3, <1>4, <1>5, <1>6 DEF Placed, Midway, Locking, Running, Chosen
<1>8. \A u \in Task \ {t} : Placed(u)'
  BY <1>1, <1>3, <1>5, OthersPlaced
<1>9. StartedIsRunning'
  BY <1>1, <1>3, <1>5, StillRunning DEF Running
<1>10. RunsShown' /\ SignalSettled'
  BY <1>3 DEF IInv, RunsShown, Ran, SignalSettled
<1>11. QED
  BY <1>7, <1>8, <1>9, <1>10, ByTask

\* Resetting the chosen results: none of them is started or settled.
LEMMA CreateStep ==
    ASSUME IInv, TypeOK', NEW t \in Task, Create(t)
    PROVE  /\ IInv'
           /\ \A e \in Event, h \in Handler : Ran(e, h) => result'[e][h] = result[e][h]
<1> DEFINE e == task[t].ev
           hs == task[t].todo
<1>1. task[t].pc = "create" /\ cpu \in {NoTask, t}
  BY DEF Create, At
<1>2. /\ task \in [Task -> TaskState] /\ task[t] \in TaskState
      /\ e \in Event /\ hs \subseteq Handler
  BY <1>1, TypeParts DEF IInv, TaskTypes, TaskOK, TaskState, Working
<1>3. ~signal[e] /\ \A h \in hs : result[e][h] \in {"none", "pending"}
  BY <1>1, ByTask DEF Placed, Midway
<1>4. UNCHANGED <<runs, signal, owner>>
  BY DEF Create, lockVars
<1>5. \A u \in Task \ {t} : SameChoice(u)
  BY <1>2 DEF Create, Goto, SameChoice
<1>6. CASE hs = {}
  <2>1. UNCHANGED result /\ task' = [task EXCEPT ![t].pc = "end"]
    BY <1>6 DEF Create, Goto
  <2>2. task'[t].pc = "end"
    BY <1>2, <2>1 DEF TaskState
  <2>3. task[t].pc \notin Running /\ task'[t].pc \notin Busy
    BY <1>1, <2>2 DEF Running, Busy, Midway, Chosen
  <2>4. \A u \in Task \ {t} : task[u].pc \notin Midway
    BY <1>1, OneMidway
  <2>5. ~SameChoice(t)
    BY <1>1, <2>2 DEF SameChoice
  <2>6. IInv'
    BY <1>4, <1>5, <2>1, <2>3, <2>4, <2>5, SameSignal, QuietStep
  <2>7. QED
    BY <2>1, <2>6
<1>7. CASE hs # {}
  <2>1. /\ result' = [result EXCEPT ![e] =
                 [h \in Handler |-> IF h \in hs THEN "pending" ELSE result[e][h]]]
        /\ task' = [task EXCEPT ![t].pc = "next"]
    BY <1>7 DEF Create, Goto
  <2>2. task'[t].pc = "next" /\ task'[t].ev = e /\ task'[t].todo = hs
    BY <1>2, <2>1 DEF TaskState
  <2> HIDE DEF e, hs
  <2>3. result \in [Event -> [Handler -> ResultStatus]]
    BY TypeParts DEF IInv, ResultTypes
  <2>4. \A x \in Event, h \in Handler :
           result'[x][h] = IF x = e /\ h \in hs THEN "pending" ELSE result[x][h]
    BY <1>2, <2>1, <2>3
  <2>5. Placed(t)'
    BY <1>2, <2>2, <2>4 DEF Placed, Midway, Locking, Running, Chosen
  <2>6. \A u \in Task \ {t} : Placed(u)'
    <3>1. \A x \in Event, h \in Handler :
             \/ result'[x][h] = result[x][h]
             \/ result'[x][h] # "none" /\ result[x][h] # "started"
      BY <1>3, <2>4
    <3>2. QED
      BY <1>1, <1>4, <1>5, <3>1, OthersPlaced
  <2>7. StartedIsRunning'
    <3>1. \A x \in Event, h \in Handler : result'[x][h] = "started" => result[x][h] = "started"
      BY <2>4
    <3>2. QED
      BY <1>1, <1>5, <3>1, StillRunning DEF Running
  <2>8. \A x \in Event, h \in Handler : Ran(x, h) => result'[x][h] = result[x][h]
    BY <1>3, <2>4 DEF Ran, Terminal
  <2>9. RunsShown'
    BY <1>3, <1>4, <2>4 DEF IInv, RunsShown, Ran, Terminal
  <2>10. SignalSettled'
    BY <1>3, <1>4, <2>4 DEF IInv, SignalSettled
  <2>11. QED
    BY <2>5, <2>6, <2>7, <2>8, <2>9, <2>10, ByTask
<1>8. QED
  BY <1>6, <1>7

\* Taking the next handler and its event's handler lock.
LEMMA NextStep ==
    ASSUME IInv, TypeOK', NEW t \in Task, NextHandler(t) \/ HandlerLockGranted(t)
    PROVE  IInv'
<1> DEFINE e == task[t].ev
<1>1. task[t].pc \in {"next", "hwait"} /\ cpu \in {NoTask, t}
  BY DEF NextHandler, HandlerLockGranted, At
<1>2. /\ task \in [Task -> TaskState] /\ task[t] \in TaskState
      /\ e \in Event /\ task[t].todo \subseteq Handler /\ Placed(t)
  BY <1>1, TypeParts, ByTask DEF IInv, TaskTypes, TaskOK, TaskState, Working
<1>3. task[t].pc \notin Running /\ task[t].pc \notin Midway
      /\ \A h \in task[t].todo : result[e][h] # "none"
  BY <1>1, <1>2 DEF Placed, Running, Midway, Chosen
<1>4. UNCHANGED <<result, runs, signal>>
  BY DEF NextHandler, HandlerLockGranted, eventVars, resultVars
<1>5. \A u \in Task \ {t} : SameChoice(u)
  BY <1>2 DEF NextHandler, HandlerLockGranted, Goto, SameChoice
<1>6. owner \in [Lock \cup Event -> Task \cup {NoTask}]
  BY TypeParts DEF IInv, LockTypes
<1>7. \A x \in Event : owner'[x] = owner[x] \/ owner[x] \in {t, NoTask}
  <2>1. UNCHANGED owner \/ (owner[e] = NoTask /\ owner' = [owner EXCEPT ![e] = t])
    BY DEF NextHandler, HandlerLockGranted, lockVars
  <2>2. QED
    BY <1>2, <1>6, <2>1
<1>8. \A u \in Task \ {t} : Placed(u)'
  BY <1>1, <1>4, <1>5, <1>7, OthersPlaced
<1>9. StartedIsRunning' /\ RunsShown' /\ SignalSettled'
  BY <1>3, <1>4, <1>5, StillRunning DEF IInv, RunsShown, Ran, SignalSettled
<1>10. Placed(t)'
  <2>1. CASE NextHandler(t)
    <3>1. CASE task' = [task EXCEPT ![t].pc = "end"]
      <4>1. task'[t].pc = "end"
        BY <1>2, <3>1 DEF TaskState
      <4>2. QED
        BY <4>1 DEF Placed, Midway, Locking, Running, Chosen
    <3>2. ASSUME NEW h \in task[t].todo,
                 task' = [task EXCEPT ![t].pc = "hwait", ![t].cur = h, ![t].todo = task[t].todo \ {h}]
          PROVE  Placed(t)'
      <4>1. /\ task'[t].pc = "hwait" /\ task'[t].ev = e /\ task'[t].cur = h
            /\ task'[t].todo \subseteq task[t].todo
        BY <1>2, <3>2 DEF TaskState
      <4>2. QED
        BY <1>3, <1>4, <4>1 DEF Placed, Midway, Locking, Running, Chosen
    <3>3. ASSUME NEW h \in task[t].todo, owner' = [owner EXCEPT ![e] = t],
                 task' = [task EXCEPT ![t].pc = "start", ![t].cur = h, ![t].todo = task[t].todo \ {h}]
          PROVE  Placed(t)'
      <4>1. /\ task'[t].pc = "start" /\ task'[t].ev = e /\ task'[t].cur = h
            /\ task'[t].todo \subseteq task[t].todo
        BY <1>2, <3>3 DEF TaskState
      <4>2. owner'[e] = t
        BY <1>2, <1>6, <3>3
      <4>3. QED
        BY <1>3, <1>4, <4>1, <4>2 DEF Placed, Midway, Locking, Running, Chosen
    <3>4. QED
      BY <2>1, <3>1, <3>2, <3>3 DEF NextHandler, Goto
  <2>2. CASE HandlerLockGranted(t)
    <3>1. /\ task[t].pc = "hwait" /\ owner'[e] = t
          /\ task' = [task EXCEPT ![t].pc = "start"]
      BY <2>2 DEF HandlerLockGranted, At, Goto, lockVars
    <3>2. /\ task'[t].pc = "start" /\ task'[t].ev = e /\ task'[t].cur = task[t].cur
          /\ task'[t].todo = task[t].todo
      BY <1>2, <3>1 DEF TaskState
    <3>3. result[e][task[t].cur] # "none"
      BY <1>2, <3>1 DEF Placed
    <3>4. QED
      BY <1>3, <1>4, <3>1, <3>2, <3>3 DEF Placed, Midway, Locking, Running, Chosen
  <2>3. QED
    BY <2>1, <2>2
<1>11. QED
  BY <1>8, <1>9, <1>10, ByTask

\* A task that holds an event's handler lock is the only one in a body for it.
LEMMA AloneInBody ==
    ASSUME IInv, NEW t \in Task, task[t].pc \in Locking,
           NEW h \in Handler, result[task[t].ev][h] = "started"
    PROVE  task[t].pc \in Running /\ task[t].cur = h
<1> DEFINE e == task[t].ev
<1>1. e \in Event /\ owner[e] = t
  BY TypeParts, ByTask DEF IInv, TaskTypes, TaskOK, Locking, Working, Placed
<1>2. PICK u \in Task : task[u].pc \in Running /\ task[u].ev = e /\ task[u].cur = h
  BY <1>1 DEF IInv, StartedIsRunning
<1>3. owner[e] = u
  BY <1>2, ByTask DEF Placed, Running, Locking
<1>4. QED
  BY <1>1, <1>2, <1>3

\* Calling a handler, or skipping one whose result is settled.
LEMMA StartStep ==
    ASSUME IInv, TypeOK', NEW t \in Task, Start(t)
    PROVE  /\ IInv'
           /\ \A e \in Event, h \in Handler : Ran(e, h) => result'[e][h] = result[e][h]
<1> DEFINE e == task[t].ev
           h == task[t].cur
<1>1. task[t].pc = "start" /\ cpu \in {NoTask, t} /\ signal' = signal
  BY DEF Start, At
<1>2. /\ task \in [Task -> TaskState] /\ task[t] \in TaskState /\ Placed(t)
      /\ e \in Event /\ h \in Handler /\ task[t].todo \subseteq Handler
  BY <1>1, TypeParts, ByTask DEF IInv, TaskTypes, TaskOK, TaskState, Working
<1>3. /\ owner[e] = t /\ result[e][h] # "none" /\ task[t].pc \notin Running
      /\ \A x \in task[t].todo : result[e][x] # "none"
  BY <1>1, <1>2 DEF Placed, Locking, Chosen, Running
<1>4. /\ owner \in [Lock \cup Event -> Task \cup {NoTask}]
      /\ result \in [Event -> [Handler -> ResultStatus]]
      /\ runs \in [Event -> [Handler -> 0..2]]
  BY TypeParts DEF IInv, LockTypes, ResultTypes
<1>5. \A u \in Task \ {t} : SameChoice(u)
  BY <1>2 DEF Start, Goto, SameChoice
<1>6. \A x \in Event : owner'[x] = owner[x] \/ owner[x] \in {t, NoTask}
  <2>1. UNCHANGED owner \/ Released(e)
    BY DEF Start
  <2>2. QED
    BY <1>2, <1>3, <1>4, <2>1 DEF Released
<1>7. CASE result[e][h] \in Terminal
  <2>1. /\ UNCHANGED <<result, runs>>
        /\ task' = [task EXCEPT ![t].pc = "next", ![t].cur = NoHandler]
    BY <1>7 DEF Start, resultVars
  <2>2. task'[t].pc = "next" /\ task'[t].ev = e /\ task'[t].todo = task[t].todo
    BY <1>2, <2>1 DEF TaskState
  <2>3. Placed(t)'
    BY <1>3, <2>1, <2>2 DEF Placed, Midway, Locking, Running, Chosen
  <2>4. \A u \in Task \ {t} : Placed(u)'
    BY <1>1, <1>5, <1>6, <2>1, OthersPlaced
  <2>5. StartedIsRunning' /\ RunsShown' /\ SignalSettled'
    BY <1>1, <1>3, <1>5, <2>1, StillRunning DEF IInv, RunsShown, Ran, SignalSettled
  <2>6. QED
    BY <2>1, <2>3, <2>4, <2>5, ByTask
<1>8. CASE result[e][h] \notin Terminal
  <2>1. /\ result' = [result EXCEPT ![e][h] = "started"]
        /\ runs' = [runs EXCEPT ![e][h] = IF runs[e][h] < 2 THEN runs[e][h] + 1 ELSE runs[e][h]]
        /\ task' = [task EXCEPT ![t].pc = "body"]
        /\ UNCHANGED owner
    BY <1>8 DEF Start, Goto
  <2>2. /\ task'[t].pc = "body" /\ task'[t].ev = e /\ task'[t].cur = h
        /\ task'[t].todo = task[t].todo
    BY <1>2, <2>1 DEF TaskState
  <2>3. result[e][h] # "started"
    BY <1>1, <1>2, AloneInBody DEF Locking, Running
  <2>4. ~Ran(e, h) /\ runs[e][h] = 0
    BY <1>2, <1>8, <2>3 DEF IInv, RunsShown, Ran
  <2>5. ~signal[e]
    BY <1>2, <1>3, <1>8 DEF IInv, SignalSettled
  <2> HIDE DEF e, h
  <2>6. \A x \in Event, y \in Handler :
           /\ result'[x][y] = IF x = e /\ y = h THEN "started" ELSE result[x][y]
           /\ runs'[x][y] = IF x = e /\ y = h THEN 1 ELSE runs[x][y]
    BY <1>2, <1>4, <2>1, <2>4
  <2>7. Placed(t)'
    <3>1. result'[e][h] = "started" /\ owner'[e] = t
      BY <1>2, <1>3, <2>1, <2>6
    <3>2. \A x \in task[t].todo : result'[e][x] # "none"
      BY <1>2, <1>3, <2>6
    <3>3. QED
      BY <2>2, <3>1, <3>2 DEF Placed, Midway, Locking, Running, Chosen
  <2>8. \A u \in Task \ {t} : Placed(u)'
    <3>1. \A x \in Event, y \in Handler :
             \/ result'[x][y] = result[x][y]
             \/ result'[x][y] # "none" /\ result[x][y] # "started"
      BY <2>3, <2>6
    <3>2. QED
      BY <1>1, <1>5, <1>6, <3>1, OthersPlaced
  <2>9. StartedIsRunning'
    <3> SUFFICES ASSUME NEW x \in Event, NEW y \in Handler, result'[x][y] = "started"
                 PROVE  \E u \in Task : task'[u].pc \in Running /\ task'[u].ev = x /\ task'[u].cur = y
      BY DEF StartedIsRunning
    <3>1. CASE x = e /\ y = h
      BY <2>2, <3>1 DEF Running
    <3>2. CASE ~(x = e /\ y = h)
      <4>1. result[x][y] = "started"
        BY <2>6, <3>2
      <4>2. PICK u \in Task : task[u].pc \in Running /\ task[u].ev = x /\ task[u].cur = y
        BY <4>1 DEF IInv, StartedIsRunning
      <4>3. u # t
        BY <1>3, <4>2
      <4>4. QED
        BY <1>5, <4>2, <4>3 DEF SameChoice
    <3>3. QED
      BY <3>1, <3>2
  <2>10. RunsShown'
    BY <2>6 DEF IInv, RunsShown, Ran
  <2>11. SignalSettled'
    BY <1>1, <2>5, <2>6 DEF IInv, SignalSettled
  <2>12. \A x \in Event, y \in Handler : Ran(x, y) => result'[x][y] = result[x][y]
    BY <2>4, <2>6
  <2>13. QED
    BY <2>7, <2>8, <2>9, <2>10, <2>11, <2>12, ByTask
<1>9. QED
  BY <1>7, <1>8

\* Settling the result of the handler whose body ends.
LEMMA SettleStep ==
    ASSUME IInv, TypeOK', NEW t \in Task,
           HReturn(t) \/ HCancel(t) \/ HAwaitCancelled(t)
    PROVE  /\ IInv'
           /\ \A e \in Event, h \in Handler :
                 result[e][h] \in Terminal => result'[e][h] = result[e][h]
<1> DEFINE e == task[t].ev
           h == task[t].cur
<1>1. cpu = NoTask /\ task[t].pc \in Running /\ UNCHANGED signal /\ TypeOK
  BY DEF HReturn, HCancel, HAwaitCancelled, Interrupted, InBody, At, Running, eventVars, IInv
<1>2. PICK r \in Terminal : Settle(t, r)
  BY DEF HReturn, HCancel, HAwaitCancelled, Interrupted, Terminal
<1>3. /\ task \in [Task -> TaskState] /\ task[t] \in TaskState /\ Placed(t)
      /\ e \in Event /\ h \in Handler /\ task[t].todo \subseteq Handler
  BY <1>1, TypeParts, ByTask DEF IInv, TaskTypes, TaskOK, TaskState, Running, Working
<1>4. /\ owner[e] = t /\ result[e][h] = "started"
      /\ \A x \in task[t].todo : result[e][x] # "none"
  BY <1>1, <1>3 DEF Placed, Locking, Chosen, Running
<1>5. /\ owner \in [Lock \cup Event -> Task \cup {NoTask}]
      /\ result \in [Event -> [Handler -> ResultStatus]]
  BY TypeParts DEF IInv, LockTypes, ResultTypes
<1>6. /\ result' = [result EXCEPT ![e][h] = r] /\ UNCHANGED runs
      /\ Released(e)
  BY <1>2 DEF Settle
<1>7. \A x \in Event : owner'[x] = owner[x] \/ owner[x] \in {t, NoTask}
  BY <1>3, <1>4, <1>5, <1>6 DEF Released
<1>8. \A x \in Event, y \in Handler :
         result'[x][y] = IF x = e /\ y = h THEN r ELSE result[x][y]
  BY <1>3, <1>5, <1>6
<1>9. /\ \/ task'[t].pc = "next" /\ task'[t].ev = e /\ task'[t].todo = task[t].todo
         \/ task'[t].pc = "unlock"
      /\ \A u \in Task \ {t} :
            SameChoice(u) \/ (task[u].pc \notin Running /\ task'[u].pc \notin Busy)
  <2>1. CASE HReturn(t)
    <3>1. task' = [task EXCEPT ![t].pc = "next", ![t].cur = NoHandler]
      BY <2>1 DEF HReturn, Returned
    <3>2. QED
      BY <1>3, <3>1 DEF TaskState, SameChoice
  <2>2. CASE HCancel(t)
    <3>1. task' = [task EXCEPT ![t] = Broken(task[t])]
      BY <1>1, <2>2, CancelShape
    <3>2. task'[t] = Broken(task[t]) /\ \A u \in Task \ {t} : task'[u] = task[u]
      BY <1>3, <3>1
    <3>3. task'[t].pc = "unlock"
      BY <1>3, <3>2, BrokenFields
    <3>4. QED
      BY <3>2, <3>3 DEF SameChoice
  <2>3. CASE HAwaitCancelled(t)
    <3>1. PICK j \in Jumper :
             /\ task[j].pc = "failed" /\ j \in Task /\ j # t
             /\ task' = [task EXCEPT ![t] = Broken(task[t]), ![j] = Fresh("idle")]
      BY <1>1, <2>3, CancelShape
    <3>2. /\ task'[t] = Broken(task[t]) /\ task'[j] = Fresh("idle")
          /\ \A u \in Task \ {t, j} : task'[u] = task[u]
      BY <1>3, <3>1
    <3>3. task'[t].pc = "unlock"
      BY <1>3, <3>2, BrokenFields
    <3>4. task[j].pc \notin Running /\ task'[j].pc \notin Busy
      BY <3>1, <3>2 DEF Running, Busy, Midway, Chosen, Fresh
    <3>5. \A u \in Task \ {t, j} : SameChoice(u)
      BY <3>2 DEF SameChoice
    <3>6. QED
      BY <3>3, <3>4, <3>5
  <2>4. QED
    BY <2>1, <2>2, <2>3
<1> HIDE DEF e, h
<1>10. Placed(t)'
  <2>1. \A x \in task[t].todo : result'[e][x] # "none"
    BY <1>3, <1>4, <1>8 DEF Terminal
  <2>2. QED
    BY <1>9, <2>1 DEF Placed, Midway, Locking, Running, Chosen
<1>11. \A u \in Task \ {t} : Placed(u)'
  <2>1. \A x \in Event, y \in Handler :
           \/ result'[x][y] = result[x][y]
           \/ /\ result'[x][y] # "none"
              /\ result[x][y] # "started" \/ owner[x] = t
    BY <1>4, <1>8 DEF Terminal
  <2>2. cpu \in {NoTask, t}
    BY <1>1
  <2>3. QED
    BY <1>1, <1>7, <1>9, <2>1, <2>2, OthersPlaced
<1>12. StartedIsRunning'
  <2> SUFFICES ASSUME NEW x \in Event, NEW y \in Handler, result'[x][y] = "started"
               PROVE  \E u \in Task : task'[u].pc \in Running /\ task'[u].ev = x /\ task'[u].cur = y
    BY DEF StartedIsRunning
  <2>1. result[x][y] = "started" /\ ~(x = e /\ y = h)
    BY <1>8 DEF Terminal
  <2>2. PICK u \in Task : task[u].pc \in Running /\ task[u].ev = x /\ task[u].cur = y
    BY <2>1 DEF IInv, StartedIsRunning
  <2>3. u # t
    BY <2>1, <2>2 DEF e, h
  <2>4. SameChoice(u)
    BY <1>9, <2>2, <2>3
  <2>5. QED
    BY <2>2, <2>4 DEF SameChoice
<1>13. RunsShown'
  <2>1. Ran(e, h)
    BY <1>4 DEF Ran
  <2>2. QED
    BY <1>3, <1>6, <1>8, <2>1 DEF IInv, RunsShown, Ran
<1>14. SignalSettled'
  BY <1>1, <1>8 DEF IInv, SignalSettled
<1>15. \A x \in Event, y \in Handler : result[x][y] \in Terminal => result'[x][y] = result[x][y]
  BY <1>4, <1>8 DEF Terminal
<1>16. QED
  BY <1>10, <1>11, <1>12, <1>13, <1>14, <1>15, ByTask

-----------------------------------------------------------------------------
(* The theorems *)

\* Every step keeps the invariant, and settled results.
LEMMA OnceStep ==
    ASSUME Middlewares = FALSE, IInv, [Next]_vars
    PROVE  /\ IInv'
           /\ \A e \in Event, h \in Handler :
                 result[e][h] \in Terminal => result'[e][h] = result[e][h]
<1> DEFINE Kept == \A e \in Event, h \in Handler :
                      result[e][h] \in Terminal => result'[e][h] = result[e][h]
<1>1. TypeOK'
  BY TypeStep DEF IInv
<1>2. ASSUME UNCHANGED result PROVE Kept
  BY <1>2
<1>3. ASSUME NEW t \in Task, Process(t) PROVE IInv' /\ Kept
  <2>1. CASE EnterLock(t) \/ LockGranted(t) \/ Check(t)
    BY <1>1, <1>2, <2>1, EnterQuiet DEF EnterLock, LockGranted, Check, resultVars
  <2>2. CASE Select(t)
    BY <1>1, <1>2, <2>2, SelectStep DEF Select, resultVars
  <2>3. CASE Create(t)
    BY <1>1, <2>3, CreateStep DEF Ran
  <2>4. CASE NextHandler(t) \/ HandlerLockGranted(t)
    BY <1>1, <1>2, <2>4, NextStep DEF NextHandler, HandlerLockGranted, resultVars
  <2>5. CASE Start(t)
    BY <1>1, <2>5, StartStep DEF Ran
  <2>6. CASE End(t) \/ Unlock(t) \/ Propagate(t)
    BY <1>1, <1>2, <2>6, EndQuiet DEF End, Unlock, Propagate, resultVars
  <2>7. QED
    BY <1>3, <2>1, <2>2, <2>3, <2>4, <2>5, <2>6 DEF Process
<1>4. ASSUME NEW t \in Task, Body(t) PROVE IInv' /\ Kept
  <2>1. CASE HReturn(t) \/ HCancel(t) \/ HAwaitCancelled(t)
    BY <1>1, <2>1, SettleStep
  <2>2. CASE \/ \E c \in Event : HEmit(t, c)
             \/ \E c \in Event, j \in Jumper : HAwait(t, c, j)
             \/ HForward(t) \/ HResume(t) \/ HLeave(t)
    BY <1>1, <1>2, <2>2, BodyQuiet DEF HEmit, HAwait, HForward, HResume, HLeave, resultVars
  <2>3. QED
    BY <1>4, <2>1, <2>2 DEF Body
<1>5. ASSUME NEW b \in Bus, LoopGet(b) \/ LoopAgain(b) PROVE IInv' /\ Kept
  BY <1>1, <1>2, <1>5, LoopQuiet DEF LoopGet, LoopAgain, resultVars
<1>6. ASSUME NEW j \in Jumper, Jump(j) PROVE IInv' /\ Kept
  BY <1>1, <1>2, <1>6, JumpQuiet
  DEF Jump, JumpYield, JumpGiveUp, JumpDone, JumpAgain, JumpTake, JumpJoin, resultVars
<1>7. ASSUME Outside PROVE IInv' /\ Kept
  BY <1>1, <1>2, <1>7, OutsideQuiet DEF Outside, ExtEmit, ExtAwait, resultVars
<1>8. ASSUME UNCHANGED vars PROVE IInv' /\ Kept
  <2>1. UNCHANGED <<result, runs, owner, signal, task, cpu>>
    BY <1>8 DEF vars, resultVars, lockVars, eventVars
  <2>2. \A t \in Task : Placed(t)'
    BY <2>1, ByTask DEF Placed
  <2>3. StartedIsRunning' /\ RunsShown' /\ SignalSettled'
    BY <2>1 DEF IInv, StartedIsRunning, RunsShown, Ran, SignalSettled
  <2>4. QED
    BY <1>1, <1>2, <2>1, <2>2, <2>3, ByTask
<1>9. QED
  BY <1>3, <1>4, <1>5, <1>6, <1>7, <1>8 DEF Next

\* IInv is an inductive invariant of buses without hooks.
LEMMA OnceInductive == ASSUME Middlewares = FALSE PROVE Spec => []IInv
<1>1. Init => IInv
  BY OnceInit
<1>2. IInv /\ [Next]_vars => IInv'
  BY OnceStep
<1>3. QED
  BY <1>1, <1>2, PTL DEF Spec

\* A handler runs at most once for an event, on however many buses, and however
\* many tasks of now() process the event beside the run loop: the guard in
\* _would_create_loop and the one in EventResult.run_handler suffice as long as
\* no hook suspends between them.
THEOREM HandlersRunAtMostOnce == ASSUME Middlewares = FALSE PROVE Spec => []AtMostOnce
<1>1. IInv => AtMostOnce
  BY DEF IInv, RunsShown, AtMostOnce
<1>2. QED
  BY <1>1, OnceInductive, PTL

\* No handler of a completed event is running: _mark_completed never fires while
\* a handler of the event is in its body, on whatever bus.
THEOREM CompletedEventsAreQuiet ==
    ASSUME Middlewares = FALSE PROVE Spec => []CompleteMeansQuiet
<1>1. IInv => CompleteMeansQuiet
  <2> SUFFICES ASSUME IInv, NEW t \in Task, task[t].pc \in Running
               PROVE  ~signal[task[t].ev]
    BY DEF CompleteMeansQuiet, Running
  <2>1. task[t].ev \in Event /\ task[t].cur \in Handler
    BY TypeParts DEF IInv, TaskTypes, TaskOK, Running, Working
  <2>2. result[task[t].ev][task[t].cur] = "started"
    BY DEF IInv, RunningIsStarted
  <2>3. QED
    BY <2>1, <2>2 DEF IInv, SignalSettled, Terminal
<1>2. QED
  BY <1>1, OnceInductive, PTL

\* A settled result is never reset or overwritten: _create_pending_handler_results
\* never resets a result somebody may already have read.
THEOREM SettledResultsAreFinal ==
    ASSUME Middlewares = FALSE PROVE Spec => SettledIsFinal
<1>1. IInv /\ [Next]_vars =>
         [\A e \in Event, h \in Handler :
             result[e][h] \in Terminal => result'[e][h] = result[e][h]]_vars
  BY OnceStep
<1>2. QED
  BY <1>1, OnceInductive, PTL DEF Spec, SettledIsFinal

-----------------------------------------------------------------------------
(* One lock for all buses: handlers run at a time only side by side.       *)
(*                                                                         *)
(* The tasks of now() are a forest: below each task are those of the now() *)
(* that its handler waits for.  A root is a bus or a now() that nobody     *)
(* waits for, and of two tasks below one root, one is below the other or   *)
(* they work for different now() of one handler.  A task whose handler     *)
(* waits does not run, so that under a bus only tasks of the latter kind   *)
(* run at a time; and only the bus that owns the lock has any below it,    *)
(* because a bus does not enter but as the owner.                          *)

\* A task is a bus or a task of now(), not both.
LEMMA TaskKinds == Task = Bus \cup Jumper /\ Bus \cap Jumper = {}
BY NamesAssumption DEF Task

\* What can be reached from t along K, and who a handler of each task waits for.
Reach(K, t) == {u \in Task : \A S \in SUBSET Task : t \in S /\ (\A w \in S : K[w] \subseteq S) => u \in S}
Kids == [w \in Task |-> task[w].kids]

\* The tasks that work for t are reached along those.
LEMMA UnderReach ==
    ASSUME NEW t PROVE Under(t) = Reach(Kids, t) /\ Under(t)' = Reach(Kids', t)
<1>1. \A S \in SUBSET Task : (\A w \in S : task[w].kids \subseteq S) <=> (\A w \in S : Kids[w] \subseteq S)
  BY DEF Kids
<1>2. \A S \in SUBSET Task : (\A w \in S : task'[w].kids \subseteq S) <=> (\A w \in S : Kids'[w] \subseteq S)
  BY DEF Kids
<1>3. Under(t) = Reach(Kids, t)
  BY <1>1 DEF Under, Reach
<1>4. Under(t)' = Reach(Kids', t)
  BY <1>2 DEF Under, Reach
<1>5. QED
  BY <1>3, <1>4

\* A set that K does not lead out of has all that is reached from its members.
LEMMA ReachLeast ==
    ASSUME NEW K, NEW S \in SUBSET Task, \A w \in S : K[w] \subseteq S, NEW t \in S
    PROVE  Reach(K, t) \subseteq S
BY DEF Reach

\* A task is reached from itself, and whoever is one step from one that is.
LEMMA ReachOn ==
    ASSUME NEW K \in [Task -> SUBSET Task], NEW t \in Task
    PROVE  /\ t \in Reach(K, t) /\ Reach(K, t) \in SUBSET Task
           /\ \A u \in Reach(K, t) : K[u] \subseteq Reach(K, t) /\ Reach(K, u) \subseteq Reach(K, t)
<1>1. t \in Reach(K, t) /\ Reach(K, t) \in SUBSET Task
  BY DEF Reach
<1>2. \A u \in Reach(K, t) : K[u] \subseteq Reach(K, t)
  BY DEF Reach
<1>3. \A u \in Reach(K, t) : Reach(K, u) \subseteq Reach(K, t)
  BY <1>1, <1>2, ReachLeast
<1>4. QED
  BY <1>1, <1>2, <1>3

\* Who is reached is the task itself or reached from one a step from it.
LEMMA ReachSteps ==
    ASSUME NEW K \in [Task -> SUBSET Task], NEW t \in Task, NEW u \in Reach(K, t), u # t
    PROVE  \E k \in K[t] : u \in Reach(K, k)
<1> DEFINE S == {t} \cup {x \in Task : \E k \in K[t] : x \in Reach(K, k)}
<1>1. S \in SUBSET Task /\ t \in S
  OBVIOUS
<1>2. ASSUME NEW w \in S PROVE K[w] \subseteq S
  <2>1. CASE w = t
    BY <2>1, ReachOn
  <2>2. CASE \E k \in K[t] : w \in Reach(K, k)
    BY <2>2, ReachOn
  <2>3. QED
    BY <2>1, <2>2
<1> HIDE DEF S
<1>3. u \in S
  BY <1>1, <1>2, ReachLeast
<1>4. QED
  BY <1>3 DEF S

\* Where some steps are missing, their ends are where those are reached from who
\* are not reached any more.
LEMMA ReachCut ==
    ASSUME NEW K \in [Task -> SUBSET Task], NEW M \in [Task -> SUBSET Task], NEW D \in SUBSET Task,
           \A w \in Task : K[w] \subseteq M[w] \cup D, NEW t \in Task, NEW u \in Reach(K, t)
    PROVE  u \in Reach(M, t) \/ \E k \in D : u \in Reach(M, k)
<1> DEFINE S == Reach(M, t) \cup {x \in Task : \E k \in D : x \in Reach(M, k)}
<1>1. S \in SUBSET Task /\ t \in S
  BY ReachOn
<1>2. ASSUME NEW w \in S PROVE K[w] \subseteq S
  <2>1. D \subseteq S
    BY ReachOn
  <2>2. M[w] \subseteq S
    <3>1. CASE w \in Reach(M, t)
      BY <3>1, ReachOn
    <3>2. CASE \E k \in D : w \in Reach(M, k)
      BY <3>2, ReachOn
    <3>3. QED
      BY <3>1, <3>2
  <2>3. w \in Task
    BY <1>1
  <2>4. QED
    BY <2>1, <2>2, <2>3
<1> HIDE DEF S
<1>3. u \in S
  BY <1>1, <1>2, ReachLeast
<1>4. QED
  BY <1>3 DEF S

\* More steps reach more.
LEMMA ReachMore ==
    ASSUME NEW K \in [Task -> SUBSET Task], NEW M \in [Task -> SUBSET Task],
           \A w \in Task : K[w] \subseteq M[w], NEW t \in Task
    PROVE  Reach(K, t) \subseteq Reach(M, t)
<1> DEFINE S == Reach(M, t)
<1>1. S \in SUBSET Task /\ t \in S /\ \A w \in S : M[w] \subseteq S
  BY ReachOn
<1>2. \A w \in S : K[w] \subseteq S
  BY <1>1
<1> HIDE DEF S
<1>3. Reach(K, t) \subseteq S
  BY <1>1, <1>2, ReachLeast
<1>4. QED
  BY <1>3 DEF S

\* The tasks a handler waits for are tasks of now().
LEMMA KidsTypes ==
    ASSUME TypeOK
    PROVE  Kids \in [Task -> SUBSET Task] /\ \A t \in Task : Kids[t] = task[t].kids /\ task[t].kids \subseteq Jumper
<1>1. \A t \in Task : task[t].kids \subseteq Jumper
  BY TaskFields DEF TaskState
<1>2. QED
  BY <1>1, TaskKinds DEF Kids

\* Of two tasks that work for one, one works for the other, or they work for
\* different now() of one handler.
LEMMA Related ==
    ASSUME TypeOK, NEW w \in Task, NEW t \in Under(w), NEW u \in Under(w)
    PROVE  t \in Under(u) \/ u \in Under(t) \/ SideBySide(t, u)
<1> DEFINE S == {x \in Under(w) : x \in Under(u) \/ u \in Under(x) \/ SideBySide(x, u)}
<1>1. Kids \in [Task -> SUBSET Task] /\ \A x \in Task : Kids[x] = task[x].kids
  BY KidsTypes
<1>2. \A x : Under(x) = Reach(Kids, x)
  BY UnderReach
<1>3. \A x \in Task : x \in Under(x) /\ Under(x) \in SUBSET Task /\ \A v \in Under(x) : Kids[v] \subseteq Under(x)
  BY <1>1, <1>2, ReachOn
<1>4. u \in Task /\ S \in SUBSET Task /\ w \in S
  BY <1>3
<1>5. ASSUME NEW v \in S, NEW k \in Kids[v] PROVE k \in S
  <2>1. v \in Task /\ k \in Task /\ k \in Under(w) /\ k \in Under(k)
    BY <1>1, <1>3, <1>4
  <2>2. CASE v \in Under(u)
    <3>1. k \in Under(u)
      BY <1>3, <1>4, <2>2
    <3>2. QED
      BY <2>1, <3>1
  <2>3. CASE u \in Under(v) /\ u # v
    <3>1. PICK m \in Kids[v] : u \in Under(m)
      BY <1>1, <1>2, <2>1, <2>3, ReachSteps
    <3>2. CASE m = k
      BY <2>1, <3>1, <3>2
    <3>3. CASE m # k
      <4>1. SideBySide(k, u)
        BY <1>1, <2>1, <3>1, <3>3 DEF SideBySide
      <4>2. QED
        BY <2>1, <4>1
    <3>4. QED
      BY <3>2, <3>3
  <2>4. CASE SideBySide(v, u)
    <3>1. PICK x \in Task : \E m, n \in task[x].kids : m # n /\ v \in Under(m) /\ u \in Under(n)
      BY <2>4 DEF SideBySide
    <3>2. PICK m \in task[x].kids, n \in task[x].kids : m # n /\ v \in Under(m) /\ u \in Under(n)
      BY <3>1
    <3>3. m \in Task
      BY <1>1, <3>2
    <3>4. k \in Under(m)
      BY <1>3, <3>2, <3>3
    <3>5. SideBySide(k, u)
      BY <3>2, <3>4 DEF SideBySide
    <3>6. QED
      BY <2>1, <3>5
  <2>5. CASE u = v
    <3>1. v \in Under(u)
      BY <1>3, <1>4, <2>5
    <3>2. QED
      BY <2>2, <3>1
  <2>6. QED
    BY <2>2, <2>3, <2>4, <2>5
<1> HIDE DEF S
<1>6. Under(w) \subseteq S
  <2>1. \A v \in S : Kids[v] \subseteq S
    BY <1>5
  <2>2. QED
    BY <1>2, <1>4, <2>1, ReachLeast
<1>7. t \in S
  BY <1>6
<1>8. QED
  BY <1>7 DEF S

\* A root: a bus, or a task of now() that nobody waits for.
TreeRoot(r) == r \in Bus \/ (r \in Jumper /\ task[r].pc # "idle" /\ \A w \in Task : r \notin task[w].kids)

\* The tasks handlers wait for are not idle, each has one handler waiting for it,
\* and every task of now() is below a root.
KidsThere == \A t \in Task : \A j \in task[t].kids : task[j].pc # "idle"
OneParent == \A t, u \in Task : task[t].kids \cap task[u].kids # {} => t = u
Rooted == \A u \in Jumper : task[u].pc # "idle" => \E r \in Task : TreeRoot(r) /\ u \in Under(r)

\* Who entered the lock as its owner owns it; a bus enters in no other way, and its
\* context does not count the lock as held before.
Permit(t, l) ==
    /\ task[t].pc \in Inside /\ task[t].how = "owned" => owner[l] = t
    /\ t \in Bus /\ task[t].pc \in Inside => task[t].how = "owned"
    /\ t \in Bus /\ l \in held[t] => task[t].pc \in Inside

ForestInv(l) == KidsThere /\ OneParent /\ Rooted /\ \A t \in Task : Permit(t, l)

\* A task that neither begins nor ends to await, nor to be a task of now(), and
\* neither enters the lock as its owner nor leaves it.
Steady(u) ==
    /\ task'[u].kids = task[u].kids
    /\ u \in Jumper => (task[u].pc = "idle" <=> task'[u].pc = "idle")
Still(u) ==
    \/ task'[u].pc = task[u].pc /\ task'[u].how = task[u].how
    \/ task[u].pc \in Inside /\ task'[u].pc \in Inside /\ task'[u].how = task[u].how
    \/ task[u].pc \notin Inside /\ task'[u].pc \notin Inside
    \/ u \in Jumper /\ task'[u].how # "owned"

\* A task that stays as it is.
LEMMA Unmoved == ASSUME NEW u, task'[u] = task[u] PROVE Steady(u) /\ Still(u)
BY DEF Steady, Still

\* The lock stays as it is for a task that neither enters nor leaves.
LEMMA PermitStays ==
    ASSUME NEW l, NEW u \in Task, Permit(u, l), Still(u), held'[u] = held[u] \/ u \in Jumper,
           owner'[l] = owner[l]
    PROVE  Permit(u, l)'
BY TaskKinds DEF Permit, Still

\* The forest stays while everybody is steady.
LEMMA ForestStays ==
    ASSUME TypeOK, KidsThere, OneParent, Rooted, \A u \in Task : Steady(u)
    PROVE  KidsThere' /\ OneParent' /\ Rooted'
<1>1. Jumper \subseteq Task /\ \A t \in Task : task[t].kids \subseteq Jumper /\ task'[t].kids = task[t].kids
  BY KidsTypes, TaskKinds DEF Steady
<1>2. KidsThere' /\ OneParent'
  BY <1>1 DEF KidsThere, OneParent, Steady
<1>3. Kids' = Kids
  BY <1>1 DEF Kids
<1>4. \A r : Under(r)' = Under(r)
  BY <1>3, UnderReach
<1>5. \A r \in Task : TreeRoot(r) => TreeRoot(r)'
  BY <1>1 DEF TreeRoot, Steady
<1>6. Rooted'
  BY <1>1, <1>4, <1>5 DEF Rooted, Steady
<1>7. QED
  BY <1>2, <1>6

\* A task of now() begins, for the handler of one of the tasks of P, if any.
LEMMA ForestGrows ==
    ASSUME TypeOK, TypeOK', KidsThere, OneParent, Rooted, NEW j \in Jumper, NEW P \in SUBSET Task,
           task[j].pc = "idle", task'[j].pc # "idle",
           \A t \in P : task[t].pc # "idle", \A t, u \in P : t = u,
           \A u \in Task : task'[u].kids = IF u \in P THEN task[u].kids \cup {j} ELSE task[u].kids,
           \A u \in Jumper \ {j} : task[u].pc = "idle" <=> task'[u].pc = "idle"
    PROVE  KidsThere' /\ OneParent' /\ Rooted'
<1>1. Jumper \subseteq Task /\ \A t \in Task : task[t].kids \subseteq Jumper /\ j \notin task[t].kids
  BY KidsTypes, TaskKinds DEF KidsThere
<1>2. KidsThere' /\ OneParent'
  <2>1. ASSUME NEW u \in Task, NEW k \in task'[u].kids PROVE task'[k].pc # "idle"
    BY <1>1, <2>1 DEF KidsThere
  <2>2. ASSUME NEW u \in Task, NEW v \in Task, NEW k \in task'[u].kids \cap task'[v].kids PROVE u = v
    <3>1. CASE k = j
      BY <1>1, <2>2, <3>1
    <3>2. CASE k # j
      BY <2>2, <3>2 DEF OneParent
    <3>3. QED
      BY <3>1, <3>2
  <2>3. QED
    BY <2>1, <2>2 DEF KidsThere, OneParent
<1> DEFINE M == Kids'
<1>3. Kids \in [Task -> SUBSET Task] /\ \A t \in Task : Kids[t] = task[t].kids
  BY KidsTypes
<1>4. M \in [Task -> SUBSET Task] /\ \A t \in Task : M[t] = task'[t].kids
  BY <1>1 DEF Kids
<1>5. \A r : Under(r) = Reach(Kids, r) /\ Under(r)' = Reach(M, r)
  BY UnderReach
<1> HIDE DEF M
<1>6. ASSUME NEW r \in Task, NEW u \in Under(r) PROVE u \in Under(r)'
  <2>1. \A w \in Task : Kids[w] \subseteq M[w]
    BY <1>3, <1>4
  <2>2. Reach(Kids, r) \subseteq Reach(M, r)
    BY <1>3, <1>4, <2>1, ReachMore
  <2>3. QED
    BY <1>5, <1>6, <2>2
<1>7. \A r \in Task : TreeRoot(r) => TreeRoot(r)'
  BY <1>1 DEF TreeRoot
<1>8. ASSUME NEW u \in Jumper \ {j}, task[u].pc # "idle" PROVE \E r \in Task : TreeRoot(r)' /\ u \in Under(r)'
  BY <1>6, <1>7, <1>8 DEF Rooted
<1>9. \E r \in Task : TreeRoot(r)' /\ j \in Under(r)'
  <2>1. CASE P = {}
    <3>1. TreeRoot(j)'
      BY <1>1, <2>1 DEF TreeRoot
    <3>2. j \in Task /\ j \in Under(j)'
      BY <1>1, <1>4, <1>5, ReachOn
    <3>3. QED
      BY <3>1, <3>2
  <2>2. CASE P # {}
    <3>1. PICK t \in P : j \in M[t]
      BY <1>4, <2>2
    <3>2. t \in Task /\ task[t].pc # "idle" /\ t # j
      BY <3>1
    <3>3. \E r \in Task : TreeRoot(r)' /\ t \in Under(r)'
      <4>1. CASE t \in Jumper
        BY <1>8, <3>2, <4>1
      <4>2. CASE t \in Bus
        <5>1. TreeRoot(t)'
          BY <4>2 DEF TreeRoot
        <5>2. t \in Under(t)'
          BY <1>4, <1>5, <3>2, ReachOn
        <5>3. QED
          BY <3>2, <5>1, <5>2
      <4>3. QED
        BY <3>2, <4>1, <4>2, TaskKinds
    <3>4. PICK r \in Task : TreeRoot(r)' /\ t \in Under(r)'
      BY <3>3
    <3>5. j \in Under(r)'
      BY <1>4, <1>5, <3>1, <3>4, ReachOn
    <3>6. QED
      BY <3>4, <3>5
  <2>3. QED
    BY <2>1, <2>2
<1>10. Rooted'
  BY <1>8, <1>9 DEF Rooted
<1>11. QED
  BY <1>2, <1>10

\* A handler no longer waits for some tasks: those of I are over, the others are
\* roots now.
LEMMA ForestCut ==
    ASSUME TypeOK, TypeOK', KidsThere, OneParent, Rooted, NEW t \in Task, NEW I \in SUBSET Jumper,
           task'[t].kids \subseteq task[t].kids, I \subseteq task[t].kids \ task'[t].kids,
           \A u \in Task \ {t} : task'[u].kids = task[u].kids,
           \A j \in I : task'[j].pc = "idle",
           \A u \in Jumper \ I : task[u].pc = "idle" <=> task'[u].pc = "idle"
    PROVE  KidsThere' /\ OneParent' /\ Rooted'
<1>1. Jumper \subseteq Task /\ \A u \in Task : task[u].kids \subseteq Jumper /\ task'[u].kids \subseteq task[u].kids
  BY KidsTypes, TaskKinds
<1> DEFINE D == task[t].kids \ task'[t].kids
<1>2. \A k \in D : \A u \in Task : k \notin task'[u].kids
  BY <1>1 DEF OneParent
<1>3. KidsThere' /\ OneParent'
  <2>1. \A u \in Task : \A k \in task'[u].kids : k \in task[u].kids /\ k \in Jumper /\ k \notin I
    BY <1>1, <1>2
  <2>2. KidsThere'
    BY <2>1 DEF KidsThere
  <2>3. OneParent'
    BY <2>1 DEF OneParent
  <2>4. QED
    BY <2>2, <2>3
<1>4. \A u \in Task : task[u].kids \subseteq task'[u].kids \cup D
  BY <1>1
<1>5. D \subseteq Jumper /\ I \subseteq D
  BY <1>1
<1> HIDE DEF D
<1> DEFINE M == Kids'
<1>6. Kids \in [Task -> SUBSET Task] /\ \A u \in Task : Kids[u] = task[u].kids
  BY KidsTypes
<1>7. M \in [Task -> SUBSET Task] /\ \A u \in Task : M[u] = task'[u].kids
  BY <1>1 DEF Kids
<1>8. \A r : Under(r) = Reach(Kids, r) /\ Under(r)' = Reach(M, r)
  BY UnderReach
<1> HIDE DEF M
<1>9. ASSUME NEW u \in Jumper, task'[u].pc # "idle" PROVE \E r \in Task : TreeRoot(r)' /\ u \in Under(r)'
  <2>1. u \notin I /\ task[u].pc # "idle"
    BY <1>9
  <2>2. PICK r \in Task : TreeRoot(r) /\ u \in Under(r)
    BY <2>1 DEF Rooted
  <2>3. u \in Reach(M, r) \/ \E k \in D : u \in Reach(M, k)
    <3>1. u \in Reach(Kids, r) /\ D \in SUBSET Task /\ r \in Task
      BY <1>1, <1>5, <1>8, <2>2
    <3>2. \A w \in Task : Kids[w] \subseteq M[w] \cup D
      BY <1>4, <1>6, <1>7
    <3>3. Kids \in [Task -> SUBSET Task] /\ M \in [Task -> SUBSET Task]
      BY <1>6, <1>7
    <3>4. QED
      BY <3>1, <3>2, <3>3, ReachCut
  <2>4. TreeRoot(r)'
    <3>1. r \notin I
      BY <1>5, <2>2, TaskKinds DEF TreeRoot, D
    <3>2. QED
      BY <1>1, <2>2, <3>1 DEF TreeRoot
  <2>5. ASSUME NEW k \in D, u \in Reach(M, k) PROVE TreeRoot(k)'
    <3>1. k \in Jumper /\ k \in Task /\ task[k].pc # "idle"
      BY <1>1, <1>5 DEF KidsThere, D
    <3>2. k \notin I
      <4> SUFFICES ASSUME k \in I PROVE FALSE
        OBVIOUS
      <4>1. task'[k].kids = {}
        BY <3>1 DEF TypeOK, TaskOK
      <4>2. M[k] = {}
        BY <1>7, <3>1, <4>1
      <4>3. u = k
        BY <1>7, <2>5, <3>1, <4>2, ReachSteps
      <4>4. QED
        BY <2>1, <4>3
    <3>3. QED
      BY <1>2, <3>1, <3>2 DEF TreeRoot
  <2>6. QED
    BY <1>1, <1>5, <1>8, <2>2, <2>3, <2>4, <2>5
<1>10. Rooted'
  BY <1>9 DEF Rooted
<1>11. QED
  BY <1>3, <1>10

\* A step that only steady tasks make, and nobody enters or leaves.
LEMMA Calm ==
    ASSUME TypeOK, NEW l, ForestInv(l), \A u \in Task : Steady(u) /\ Still(u),
           held' = held, owner'[l] = owner[l]
    PROVE  ForestInv(l)'
<1>1. KidsThere' /\ OneParent' /\ Rooted'
  BY ForestStays DEF ForestInv
<1>2. \A u \in Task : Permit(u, l)'
  BY PermitStays DEF ForestInv
<1>3. QED
  BY <1>1, <1>2 DEF ForestInv

\* The steps of an event on a bus keep a task's place in the forest.
LEMMA ProcessSteady ==
    ASSUME TypeOK, NEW t \in Task, Process(t)
    PROVE  (\A u \in Task : Steady(u)) /\ \A u \in Task \ {t} : task'[u] = task[u]
<1>1. task \in [Task -> TaskState] /\ task[t] \in TaskState
  BY TaskFields
<1>2. task[t].pc # "idle"
  BY DEF Process, EnterLock, LockGranted, Check, Select, Create, NextHandler, HandlerLockGranted, Start,
         End, Unlock, Propagate, At
<1> DEFINE Goal == (\A u \in Task : Steady(u)) /\ \A u \in Task \ {t} : task'[u] = task[u]
<1>3. CASE EnterLock(t) \/ LockGranted(t)
  <2>1. \/ task' = [task EXCEPT ![t].pc = "check", ![t].how = "nested"]
        \/ task' = [task EXCEPT ![t].pc = "check", ![t].how = "owned"]
        \/ task' = [task EXCEPT ![t].pc = "lockwait"]
    BY <1>3 DEF EnterLock, LockGranted, Goto
  <2>2. QED
    BY <1>1, <1>2, <2>1 DEF Steady, TaskState
<1>4. ASSUME NEW p, p # "idle", Goto(t, p) PROVE Goal
  BY <1>1, <1>2, <1>4 DEF Goto, Steady, TaskState
<1>5. CASE Check(t) \/ HandlerLockGranted(t) \/ End(t) \/ Create(t)
  BY <1>4, <1>5 DEF Check, HandlerLockGranted, End, Create
<1>6. CASE Select(t)
  <2>1. PICK hs : task' = [task EXCEPT ![t].pc = "create", ![t].todo = hs]
    BY <1>6 DEF Select
  <2>2. QED
    BY <1>1, <1>2, <2>1 DEF Steady, TaskState
<1>7. CASE NextHandler(t)
  <2>1. \/ Goto(t, "end")
        \/ \E p \in {"start", "hwait"} : \E h, hs :
              task' = [task EXCEPT ![t].pc = p, ![t].cur = h, ![t].todo = hs]
    BY <1>7 DEF NextHandler
  <2>2. ASSUME NEW p \in {"start", "hwait"}, NEW h, NEW hs,
               task' = [task EXCEPT ![t].pc = p, ![t].cur = h, ![t].todo = hs]
        PROVE  Goal
    BY <1>1, <1>2, <2>2 DEF Steady, TaskState
  <2>3. QED
    BY <1>4, <2>1, <2>2
<1>8. CASE Start(t)
  <2>1. Goto(t, "body") \/ task' = [task EXCEPT ![t].pc = "next", ![t].cur = NoHandler]
    BY <1>8 DEF Start
  <2>2. task' = [task EXCEPT ![t].pc = "next", ![t].cur = NoHandler] => Goal
    BY <1>1, <1>2 DEF Steady, TaskState
  <2>3. QED
    BY <1>4, <2>1, <2>2
<1>9. CASE Unlock(t)
  <2>1. task' = [task EXCEPT ![t].pc = "prop", ![t].up = task[t].ev, ![t].how = "none"]
    BY <1>9 DEF Unlock
  <2>2. QED
    BY <1>1, <1>2, <2>1 DEF Steady, TaskState
<1>10. CASE Propagate(t)
  <2>1. Goto(t, "after") \/ \E p : task' = [task EXCEPT ![t].up = p]
    BY <1>10 DEF Propagate
  <2>2. (\E p : task' = [task EXCEPT ![t].up = p]) => Goal
    BY <1>1, <1>2 DEF Steady, TaskState
  <2>3. QED
    BY <1>4, <2>1, <2>2
<1>11. QED
  BY <1>3, <1>5, <1>6, <1>7, <1>8, <1>9, <1>10 DEF Process

\* Who enters a lock that nobody owns, or that was handed to it, is the owner, and
\* nobody else is.
LEMMA OwnerEnters ==
    ASSUME NEW l, NEW t \in Task, \A u \in Task : Permit(u, l), owner[l] \in {NoTask, t}, owner'[l] = t,
           task'[t].pc = "check", task'[t].how = "owned",
           \A u \in Task \ {t} : task'[u] = task[u] /\ held'[u] = held[u]
    PROVE  \A u \in Task : Permit(u, l)'
<1> SUFFICES ASSUME NEW u \in Task PROVE Permit(u, l)'
  OBVIOUS
<1>1. CASE u = t
  BY <1>1 DEF Permit, Inside
<1>2. CASE u # t
  <2>1. Permit(u, l) /\ owner[l] # u
    BY <1>2, NamesAssumption, TaskKinds DEF Task
  <2>2. QED
    BY <1>2, <2>1 DEF Permit
<1>3. QED
  BY <1>1, <1>2

\* The owner leaves.
LEMMA OwnerLeaves ==
    ASSUME NEW l, NEW t \in Task, \A u \in Task : Permit(u, l), owner[l] = t,
           task'[t].pc \notin Inside, l \notin held'[t],
           \A u \in Task \ {t} : task'[u] = task[u] /\ held'[u] = held[u]
    PROVE  \A u \in Task : Permit(u, l)'
<1> SUFFICES ASSUME NEW u \in Task PROVE Permit(u, l)'
  OBVIOUS
<1>1. CASE u = t
  BY <1>1 DEF Permit
<1>2. CASE u # t
  BY <1>2 DEF Permit
<1>3. QED
  BY <1>1, <1>2

\* Steps of the lock, from the entry of a step to its exit, and the handlers
\* chosen in between.
LEMMA ProcessForest ==
    ASSUME TypeOK, NEW l, OneLock(l), ForestInv(l), NEW t \in Task, Process(t)
    PROVE  ForestInv(l)'
<1>1. task \in [Task -> TaskState] /\ task[t] \in TaskState /\ LockTypes
  BY TaskFields
<1>2. task[t].pc \in Working => task[t].bus \in Bus /\ LockOf[task[t].bus] = l
  BY TaskFields DEF TaskOK, OneLock
<1>3. task[t].pc \in Working => task[t].ev \in Event
  BY TaskFields DEF TaskOK
<1>4. Permit(t, l) /\ l \in Lock /\ l \notin Event /\ \A u \in Task : Permit(u, l)
  BY NamesAssumption DEF ForestInv, OneLock
<1>5. (\A u \in Task : Steady(u)) /\ \A u \in Task \ {t} : task'[u] = task[u]
  BY ProcessSteady
<1>6. ASSUME held' = held, owner'[l] = owner[l], Still(t)
      PROVE  ForestInv(l)'
  BY <1>5, <1>6, Unmoved, Calm
<1>7. ASSUME \A u \in Task : Permit(u, l)' PROVE ForestInv(l)'
  BY <1>5, <1>7, ForestStays DEF ForestInv
<1>8. CASE EnterLock(t)
  <2>1. task[t].pc = "lock" /\ LockOf[task[t].bus] = l /\ task[t].pc \notin Inside
    BY <1>2, <1>8 DEF EnterLock, At, Working, Inside
  <2>2. CASE /\ l \in held[t]
             /\ task' = [task EXCEPT ![t].pc = "check", ![t].how = "nested"]
             /\ UNCHANGED lockVars
    <3>1. t \in Jumper
      BY <1>4, <2>1, <2>2, TaskKinds DEF Permit
    <3>2. task'[t].how = "nested"
      BY <1>1, <2>2 DEF TaskState
    <3>3. Still(t)
      BY <3>1, <3>2 DEF Still
    <3>4. QED
      BY <1>6, <2>2, <3>3 DEF lockVars
  <2>3. CASE /\ l \notin held[t] /\ owner[l] = NoTask
             /\ owner' = [owner EXCEPT ![l] = t]
             /\ held' = [held EXCEPT ![t] = @ \cup {l}]
             /\ task' = [task EXCEPT ![t].pc = "check", ![t].how = "owned"]
    <3>1. /\ task'[t].pc = "check" /\ task'[t].how = "owned"
          /\ \A u \in Task \ {t} : held'[u] = held[u]
          /\ owner'[l] = t
      BY <1>1, <1>4, <2>3 DEF TaskState, LockTypes
    <3>2. QED
      BY <1>4, <1>5, <1>7, <2>3, <3>1, OwnerEnters
  <2>4. CASE Goto(t, "lockwait") /\ UNCHANGED <<owner, held>>
    <3>1. task'[t].pc = "lockwait"
      BY <1>1, <2>4 DEF Goto, TaskState
    <3>2. Still(t)
      BY <2>1, <3>1 DEF Still, Inside
    <3>3. QED
      BY <1>6, <2>4, <3>2
  <2>5. QED
    BY <1>8, <2>1, <2>2, <2>3, <2>4 DEF EnterLock
<1>9. CASE LockGranted(t)
  <2>1. /\ owner[l] = t /\ owner' = owner /\ held' = [held EXCEPT ![t] = held[t] \cup {l}]
        /\ task' = [task EXCEPT ![t].pc = "check", ![t].how = "owned"]
    BY <1>2, <1>9 DEF LockGranted, At, Working
  <2>2. /\ task'[t].pc = "check" /\ task'[t].how = "owned"
        /\ \A u \in Task \ {t} : held'[u] = held[u]
    BY <1>1, <2>1 DEF TaskState, LockTypes
  <2>3. QED
    BY <1>4, <1>5, <1>7, <2>1, <2>2, OwnerEnters
<1>10. CASE Check(t) \/ Select(t) \/ Create(t) \/ End(t) \/ HandlerLockGranted(t)
  <2>1. task[t].pc \in Inside /\ held' = held /\ owner' = owner
    BY <1>10 DEF Check, Select, Create, End, HandlerLockGranted, At, Inside, lockVars
  <2>2. task'[t].pc \in Inside /\ task'[t].how = task[t].how
    BY <1>1, <1>10 DEF Check, Select, Create, End, HandlerLockGranted, Goto, Inside, TaskState
  <2>3. QED
    BY <1>6, <2>1, <2>2 DEF Still
<1>11. CASE NextHandler(t) \/ Start(t)
  <2>1. task[t].pc \in Inside /\ held' = held /\ task[t].ev \in Event
    BY <1>3, <1>11 DEF NextHandler, Start, At, Inside, lockVars, Working
  <2>2. task'[t].pc \in Inside /\ task'[t].how = task[t].how
    <3>1. \/ \E p \in {"end", "body"} : task' = [task EXCEPT ![t].pc = p]
          \/ \E p \in {"start", "hwait"} : \E h, hs :
                task' = [task EXCEPT ![t].pc = p, ![t].cur = h, ![t].todo = hs]
          \/ task' = [task EXCEPT ![t].pc = "next", ![t].cur = NoHandler]
      <4>1. CASE NextHandler(t)
        BY <4>1 DEF NextHandler, Goto
      <4>2. CASE Start(t)
        BY <4>2 DEF Start, Goto
      <4>3. QED
        BY <1>11, <4>1, <4>2
    <3>2. ASSUME NEW p \in {"end", "body"}, task' = [task EXCEPT ![t].pc = p]
          PROVE  task'[t].pc = p /\ task'[t].how = task[t].how
      BY <1>1, <3>2 DEF TaskState
    <3>3. ASSUME NEW p \in {"start", "hwait"}, NEW h, NEW hs,
                 task' = [task EXCEPT ![t].pc = p, ![t].cur = h, ![t].todo = hs]
          PROVE  task'[t].pc = p /\ task'[t].how = task[t].how
      BY <1>1, <3>3 DEF TaskState
    <3>4. ASSUME task' = [task EXCEPT ![t].pc = "next", ![t].cur = NoHandler]
          PROVE  task'[t].pc = "next" /\ task'[t].how = task[t].how
      BY <1>1, <3>4 DEF TaskState
    <3>5. QED
      BY <3>1, <3>2, <3>3, <3>4 DEF Inside
  <2>3. owner'[l] = owner[l]
    <3>1. l # task[t].ev
      BY <1>4, <2>1
    <3>2. \/ owner' = owner
          \/ \E x : owner' = [owner EXCEPT ![task[t].ev] = x]
      BY <1>11 DEF NextHandler, Start, Released, lockVars
    <3>3. QED
      BY <1>1, <1>4, <3>1, <3>2 DEF LockTypes
  <2>4. QED
    BY <1>6, <2>1, <2>2, <2>3 DEF Still
<1>12. CASE Unlock(t)
  <2>1. task[t].pc = "unlock" /\ LockOf[task[t].bus] = l /\ task[t].pc \in Inside
    BY <1>2, <1>12 DEF Unlock, At, Working, Inside
  <2>2. task'[t].pc = "prop" /\ task'[t].how = "none" /\ task'[t].pc \notin Inside
    BY <1>1, <1>12 DEF Unlock, TaskState, Inside
  <2>3. CASE task[t].how = "owned"
    <3>1. owner[l] = t
      BY <1>4, <2>1, <2>3 DEF Permit
    <3>2. held' = [held EXCEPT ![t] = held[t] \ {l}]
      BY <1>12, <2>1, <2>3 DEF Unlock
    <3>3. l \notin held'[t] /\ \A u \in Task \ {t} : held'[u] = held[u]
      BY <1>1, <3>2 DEF LockTypes
    <3>4. QED
      BY <1>4, <1>5, <1>7, <2>2, <3>1, <3>3, OwnerLeaves
  <2>4. CASE task[t].how # "owned"
    <3>1. t \in Jumper
      BY <1>4, <2>1, <2>4, TaskKinds DEF Permit
    <3>2. UNCHANGED lockVars
      BY <1>12, <2>4 DEF Unlock
    <3>3. QED
      BY <1>6, <2>2, <3>1, <3>2 DEF Still, lockVars
  <2>5. QED
    BY <2>3, <2>4
<1>13. CASE Propagate(t)
  <2>1. task[t].pc = "prop" /\ UNCHANGED lockVars
    BY <1>13 DEF Propagate, At
  <2>2. task'[t].pc \in {"prop", "after"}
    BY <1>1, <1>13, <2>1 DEF Propagate, Goto, TaskState
  <2>3. QED
    BY <1>6, <2>1, <2>2 DEF lockVars, Still, Inside
<1>14. QED
  BY <1>8, <1>9, <1>10, <1>11, <1>12, <1>13 DEF Process

\* A run loop that is started again is not under the lock before or after.
LEMMA RestartedStill ==
    ASSUME TypeOK, NEW b \in Bus, NEW r \in [Task -> TaskState], NEW u \in Task,
           r[u] = task[u], task'[u] = Restarted(b, r)[u]
    PROVE  Steady(u) /\ Still(u)
<1>1. CASE r[b].pc = "dead" /\ u = b
  <2>1. task'[b] = Fresh("get") /\ task[b].pc = "dead" /\ b \in Bus /\ b \notin Jumper /\ b \in Task
    BY <1>1, TaskKinds DEF Restarted
  <2>2. task'[b].pc = "get" /\ task'[b].kids = {}
    BY <2>1 DEF Fresh
  <2>3. task[b].kids = {}
    BY <2>1, TaskFields DEF TaskOK
  <2>4. QED
    BY <1>1, <2>1, <2>2, <2>3 DEF Steady, Still, Inside
<1>2. CASE ~(r[b].pc = "dead" /\ u = b)
  <2>1. task'[u] = task[u]
    BY <1>2 DEF Restarted
  <2>2. QED
    BY <2>1, Unmoved
<1>3. QED
  BY <1>1, <1>2

\* What handlers do: emit, begin a now(), go on, return.
LEMMA BodyForest ==
    ASSUME TypeOK, TypeOK', NEW l, OneLock(l), ForestInv(l), NEW t \in Task, Body(t)
    PROVE  ForestInv(l)'
<1>1. task \in [Task -> TaskState] /\ task[t] \in TaskState /\ LockTypes
  BY TaskFields
<1>2. task[t].pc \in {"body", "await", "sent"}
  BY DEF Body, HForward, HReturn, HResume, HLeave, HCancel, HAwaitCancelled, HEmit, HAwait,
         InBody, InHandler, At
<1>3. task[t].bus \in Bus /\ task[t].ev \in Event /\ task[t].pc \in Inside
  BY <1>2, TaskFields DEF TaskOK, Working, Inside
<1>4. l \in Lock /\ l # task[t].ev /\ KidsThere /\ OneParent /\ Rooted /\ \A u \in Task : Permit(u, l)
  BY <1>3, NamesAssumption DEF ForestInv, OneLock
<1>5. ASSUME Released(task[t].ev)
      PROVE  owner'[l] = owner[l]
  BY <1>1, <1>4, <1>5 DEF Released, LockTypes
<1>6. ASSUME task'[t].pc \in {"body", "await", "sent", "next", "unlock"}, task'[t].how = task[t].how
      PROVE  Still(t)
  BY <1>3, <1>6 DEF Still, Inside
<1>7. CASE HForward(t)
  <2> DEFINE s == [task[t] EXCEPT !.pc = "sent"]
             r == [task EXCEPT ![t] = s]
  <2>1. PICK b \in Bus : s \in TaskState /\ r \in [Task -> TaskState] /\ task' = Restarted(b, r)
                         /\ task'[t] = s /\ \A u \in Task \ {t} : r[u] = task[u]
    BY <1>7, ForwardShape
  <2>2. s.pc = "sent" /\ s.kids = task[t].kids /\ s.how = task[t].how
    BY <1>1 DEF TaskState
  <2> HIDE DEF s, r
  <2>3. Steady(t) /\ Still(t)
    BY <1>2, <1>6, <2>1, <2>2 DEF Steady
  <2>4. \A u \in Task : Steady(u) /\ Still(u)
    BY <2>1, <2>3, RestartedStill
  <2>5. UNCHANGED lockVars
    BY <1>7 DEF HForward
  <2>6. QED
    BY <2>4, <2>5, Calm DEF lockVars
<1>8. CASE HReturn(t)
  <2>1. Released(task[t].ev) /\ held' = held
    BY <1>8 DEF HReturn, Settle
  <2>2. /\ \A u \in Task \ {t} : task'[u] = task[u]
        /\ task'[t].pc = "next" /\ task'[t].how = task[t].how /\ task'[t].kids = task[t].kids
    BY <1>1, <1>8 DEF HReturn, Returned, TaskState
  <2>3. Steady(t) /\ Still(t)
    BY <1>2, <1>6, <2>2 DEF Steady
  <2>4. \A u \in Task : Steady(u) /\ Still(u)
    BY <2>2, <2>3, Unmoved
  <2>5. QED
    BY <1>5, <2>1, <2>4, Calm
<1>9. CASE HCancel(t)
  <2>1. Released(task[t].ev) /\ held' = held
    BY <1>9 DEF HCancel, Interrupted, Settle
  <2>2. task[t].pc = "body" /\ task' = [task EXCEPT ![t] = Broken(task[t])]
    BY <1>9, CancelShape
  <2>3. task'[t] = Broken(task[t]) /\ \A u \in Task \ {t} : task'[u] = task[u]
    BY <1>1, <2>2
  <2>4. task[t].kids = {}
    BY <2>2, TaskFields DEF TaskOK
  <2>5. task'[t].pc = "unlock" /\ task'[t].how = task[t].how /\ task'[t].kids = {}
    BY <1>1, <2>3, BrokenFields
  <2>6. Steady(t) /\ Still(t)
    BY <1>2, <1>6, <2>4, <2>5 DEF Steady
  <2>7. \A u \in Task : Steady(u) /\ Still(u)
    BY <2>3, <2>6, Unmoved
  <2>8. QED
    BY <1>5, <2>1, <2>7, Calm
<1>10. ASSUME NEW c \in Event, HEmit(t, c)
       PROVE  ForestInv(l)'
  <2>1. task' = Restarted(task[t].bus, task) /\ UNCHANGED <<owner, held>>
    BY <1>10 DEF HEmit, lockVars
  <2>2. \A u \in Task : Steady(u) /\ Still(u)
    BY <1>1, <1>3, <2>1, RestartedStill
  <2>3. QED
    BY <2>1, <2>2, Calm
<1>11. ASSUME \A u \in Task : Still(u), owner'[l] = owner[l], \A u \in Task : held'[u] = held[u] \/ u \in Jumper
       PROVE  \A u \in Task : Permit(u, l)'
  BY <1>4, <1>11, PermitStays
<1>12. ASSUME NEW c \in Event, NEW j \in Jumper, HAwait(t, c, j)
       PROVE  ForestInv(l)'
  <2> DEFINE f == [Fresh("poll") EXCEPT !.ev = c]
  <2>1. /\ task[j].pc = "idle" /\ j \in Task /\ j # t
        /\ task' = [task EXCEPT ![t] = Awaiting(task[t], j), ![j] = f]
    BY <1>12, AwaitShape
  <2>2. f.pc = "poll" /\ f.how = "none" /\ f.kids = {}
    BY DEF Fresh
  <2> HIDE DEF f
  <2>3. task'[t] = Awaiting(task[t], j) /\ task'[j] = f /\ \A u \in Task \ {t, j} : task'[u] = task[u]
    BY <1>1, <2>1
  <2>4. task'[t].pc = "await" /\ task'[t].kids = task[t].kids \cup {j} /\ task'[t].how = task[t].how
    BY <1>1, <2>3, AwaitingFields
  <2>5. task[j].kids = {}
    BY <2>1, TaskFields DEF TaskOK
  <2>6. KidsThere' /\ OneParent' /\ Rooted'
    <3> DEFINE P == {t}
    <3>1. P \in SUBSET Task /\ (\A u \in P : task[u].pc # "idle") /\ \A u, v \in P : u = v
      BY <1>2
    <3>2. \A u \in Task : task'[u].kids = IF u \in P THEN task[u].kids \cup {j} ELSE task[u].kids
      <4>1. task'[j].kids = {}
        BY <2>2, <2>3
      <4>2. \A u \in Task \ {t, j} : task'[u].kids = task[u].kids
        BY <2>3
      <4>3. QED
        BY <2>1, <2>4, <2>5, <4>1, <4>2
    <3>3. \A u \in Jumper \ {j} : task[u].pc = "idle" <=> task'[u].pc = "idle"
      BY <1>2, <2>3, <2>4, TaskKinds
    <3>4. task'[j].pc # "idle"
      BY <2>2, <2>3
    <3> HIDE DEF P
    <3>5. QED
      BY <1>4, <2>1, <3>1, <3>2, <3>3, <3>4, ForestGrows
  <2>7. \A u \in Task : Still(u)
    <3>1. Still(t)
      BY <1>6, <2>4
    <3>2. Still(j)
      <4>1. task'[j].how = "none"
        BY <2>2, <2>3
      <4>2. QED
        BY <4>1 DEF Still
    <3>3. QED
      BY <2>3, <3>1, <3>2, Unmoved
  <2>8. owner' = owner /\ \A u \in Task : held'[u] = held[u] \/ u \in Jumper
    BY <1>1, <1>12 DEF HAwait, LockTypes
  <2>9. QED
    BY <1>11, <2>6, <2>7, <2>8 DEF ForestInv
<1>13. ASSUME NEW I \in SUBSET Jumper, I \subseteq task[t].kids \ task'[t].kids,
              task'[t].pc \in {"body", "await", "unlock"}, task'[t].kids \subseteq task[t].kids,
              task'[t].how = task[t].how, owner'[l] = owner[l],
              \A u \in Task : held'[u] = held[u] \/ u \in Jumper,
              \A j \in I : task[j].kids = {} /\ task'[j] = Fresh("idle"),
              \A u \in Task \ ({t} \cup I) : task'[u] = task[u]
       PROVE  ForestInv(l)'
  <2>1. Fresh("idle").pc = "idle" /\ Fresh("idle").kids = {} /\ Fresh("idle").how = "none"
    BY DEF Fresh
  <2>2. \A u \in Task \ {t} : task'[u].kids = task[u].kids
    BY <1>13, <2>1
  <2>3. \A u \in Jumper \ I : task[u].pc = "idle" <=> task'[u].pc = "idle"
    BY <1>2, <1>13, TaskKinds
  <2>4. \A j \in I : task'[j].pc = "idle"
    BY <1>13, <2>1
  <2>5. KidsThere' /\ OneParent' /\ Rooted'
    BY <1>4, <1>13, <2>2, <2>3, <2>4, ForestCut
  <2>6. \A u \in Task : Still(u)
    <3>1. Still(t)
      BY <1>6, <1>13
    <3>2. \A u \in I : Still(u)
      BY <1>13, <2>1 DEF Still
    <3>3. QED
      BY <1>13, <3>1, <3>2, Unmoved
  <2>7. QED
    BY <1>11, <1>13, <2>5, <2>6 DEF ForestInv
<1>14. ASSUME HResume(t) \/ HAwaitCancelled(t)
       PROVE  ForestInv(l)'
  <2>1. PICK j \in Jumper :
           /\ j \in task[t].kids /\ task[j].pc \in {"done", "failed"} /\ j \in Task /\ j # t
           /\ \E r \in {Dropped(task[t], j), Broken(task[t])} :
                 task' = [task EXCEPT ![t] = r, ![j] = Fresh("idle")]
    BY <1>14, ResumeShape, CancelShape
  <2>2. PICK r \in {Dropped(task[t], j), Broken(task[t])} : task' = [task EXCEPT ![t] = r, ![j] = Fresh("idle")]
    BY <2>1
  <2>3. r.pc \in {"body", "await", "unlock"} /\ r.kids \subseteq task[t].kids \ {j} /\ r.how = task[t].how
    <3>1. CASE r = Dropped(task[t], j)
      BY <1>1, <3>1, DroppedFields
    <3>2. CASE r = Broken(task[t])
      BY <1>1, <3>2, BrokenFields
    <3>3. QED
      BY <2>2, <3>1, <3>2
  <2>4. task'[t] = r /\ task'[j] = Fresh("idle") /\ \A u \in Task \ {t, j} : task'[u] = task[u]
    BY <1>1, <2>1, <2>2
  <2>5. task[j].kids = {}
    BY <2>1, TaskFields DEF TaskOK
  <2>6. owner'[l] = owner[l] /\ \A u \in Task : held'[u] = held[u] \/ u \in Jumper
    <3>1. CASE HResume(t)
      <4>1. PICK k \in Jumper : held' = [held EXCEPT ![k] = {}]
        BY <3>1, ResumeShape
      <4>2. QED
        BY <1>1, <3>1, <4>1 DEF HResume, LockTypes
    <3>2. CASE HAwaitCancelled(t)
      BY <1>5, <3>2 DEF HAwaitCancelled, Interrupted, Settle
    <3>3. QED
      BY <1>14, <3>1, <3>2
  <2> DEFINE I == {j}
  <2>7. I \in SUBSET Jumper /\ I \subseteq task[t].kids \ task'[t].kids
    BY <2>1, <2>3, <2>4
  <2>8. \A k \in I : task[k].kids = {} /\ task'[k] = Fresh("idle")
    BY <2>4, <2>5
  <2>9. \A u \in Task \ ({t} \cup I) : task'[u] = task[u]
    BY <2>4
  <2> HIDE DEF I
  <2>10. QED
    BY <1>13, <2>3, <2>4, <2>6, <2>7, <2>8, <2>9
<1>15. CASE HLeave(t)
  <2>1. PICK j \in Jumper : task' = [task EXCEPT ![t] = Dropped(task[t], j)]
    BY <1>15, LeaveShape
  <2>2. task'[t] = Dropped(task[t], j) /\ \A u \in Task \ {t} : task'[u] = task[u]
    BY <1>1, <2>1
  <2>3. task'[t].pc \in {"body", "await"} /\ task'[t].kids \subseteq task[t].kids /\ task'[t].how = task[t].how
    BY <1>1, <2>2, DroppedFields
  <2>4. UNCHANGED lockVars
    BY <1>15 DEF HLeave
  <2>5. PICK I : I = {}
    OBVIOUS
  <2>6. I \in SUBSET Jumper /\ I \subseteq task[t].kids \ task'[t].kids
        /\ \A u \in Task \ ({t} \cup I) : task'[u] = task[u]
    BY <2>2, <2>5
  <2>7. \A j2 \in I : task[j2].kids = {} /\ task'[j2] = Fresh("idle")
    BY <2>5
  <2>8. QED
    BY <1>13, <2>3, <2>4, <2>6, <2>7 DEF lockVars
<1>16. QED
  BY <1>7, <1>8, <1>9, <1>10, <1>12, <1>14, <1>15 DEF Body

\* The run loop between events, the rounds of a now(), what comes from outside.
LEMMA OtherForest ==
    ASSUME TypeOK, TypeOK', NEW l, OneLock(l), ForestInv(l),
           \/ \E b \in Bus : LoopGet(b) \/ LoopAgain(b)
           \/ \E j \in Jumper : Jump(j)
           \/ Outside
    PROVE  ForestInv(l)'
<1>1. task \in [Task -> TaskState]
  BY TaskFields
<1>2. CASE \E b \in Bus : LoopGet(b) \/ LoopAgain(b)
  <2>1. PICK b \in Bus : LoopGet(b) \/ LoopAgain(b)
    BY <1>2
  <2>2. b \in Task /\ b \notin Jumper
    BY TaskKinds
  <2>3. task[b].pc \in {"get", "after"} /\ UNCHANGED lockVars
    BY <2>1 DEF LoopGet, LoopAgain, At
  <2>4. task[b].kids = {}
    BY <2>2, <2>3, TaskFields DEF TaskOK
  <2>5. task'[b].pc \in {"lock", "get", "dead"} /\ task'[b].kids = {} /\ \A u \in Task \ {b} : task'[u] = task[u]
    <3>1. CASE LoopGet(b)
      <4>1. PICK e : task' = [task EXCEPT ![b] = [Fresh("lock") EXCEPT !.ev = e, !.bus = b]]
        BY <3>1 DEF LoopGet
      <4>2. QED
        BY <1>1, <2>2, <4>1 DEF Fresh
    <3>2. CASE LoopAgain(b)
      <4>1. PICK p \in {"get", "dead"} : task' = [task EXCEPT ![b] = Fresh(p)]
        BY <3>2 DEF LoopAgain
      <4>2. QED
        BY <1>1, <2>2, <4>1 DEF Fresh
    <3>3. QED
      BY <2>1, <3>1, <3>2
  <2>6. Steady(b) /\ Still(b)
    BY <2>2, <2>3, <2>4, <2>5 DEF Steady, Still, Inside
  <2>7. \A u \in Task : Steady(u) /\ Still(u)
    BY <2>5, <2>6, Unmoved
  <2>8. QED
    BY <2>3, <2>7, Calm DEF lockVars
<1>3. CASE \E j \in Jumper : Jump(j)
  <2>1. PICK j \in Jumper : Jump(j)
    BY <1>3
  <2>2. j \in Task /\ j \notin Bus /\ task[j] \in TaskState /\ Permit(j, l)
    BY TaskKinds, TaskFields DEF ForestInv
  <2>3. task[j].pc \in {"poll", "sigwait", "after"}
    BY <2>1 DEF Jump, JumpYield, JumpGiveUp, JumpDone, JumpAgain, JumpTake, JumpJoin,
             NothingToDo, Polling, At
  <2>4. task[j].kids = {}
    BY <2>2, <2>3, TaskFields DEF TaskOK
  <2>5. /\ task'[j].pc \notin {"idle"} \cup Inside \/ task'[j].how # "owned"
        /\ task'[j].pc # "idle" /\ task'[j].kids = {}
        /\ \A u \in Task \ {j} : task'[u] = task[u]
        /\ UNCHANGED lockVars
    <3>1. CASE JumpYield(j)
      BY <2>3, <2>4, <3>1 DEF JumpYield, Inside
    <3>2. CASE JumpGiveUp(j) \/ JumpDone(j)
      BY <1>1, <2>2, <2>4, <3>2 DEF JumpGiveUp, JumpDone, Goto, TaskState, Inside
    <3>3. CASE JumpAgain(j)
      <4>1. UNCHANGED lockVars
        BY <3>3 DEF JumpAgain
      <4>2. CASE task' = [task EXCEPT ![j].pc = "failed"]
        BY <1>1, <2>2, <2>4, <4>1, <4>2 DEF TaskState, Inside
      <4>3. ASSUME NEW e, NEW S,
                   task' = [task EXCEPT ![j] = [Fresh("poll") EXCEPT !.ev = e, !.claimed = S]]
            PROVE  /\ task'[j].pc = "poll" /\ task'[j].how = "none" /\ task'[j].kids = {}
                   /\ \A u \in Task \ {j} : task'[u] = task[u]
        BY <1>1, <2>2, <4>3 DEF Fresh
      <4>4. QED
        BY <3>3, <4>1, <4>2, <4>3 DEF JumpAgain, Goto
    <3>4. ASSUME NEW b \in Bus, JumpTake(j, b)
          PROVE  /\ task'[j].pc = "select" /\ task'[j].how = "bypass" /\ task'[j].kids = {}
                 /\ \A u \in Task \ {j} : task'[u] = task[u]
                 /\ UNCHANGED lockVars
      BY <1>1, <2>2, <2>4, <3>4 DEF JumpTake, TaskState
    <3>5. ASSUME NEW b \in Bus, JumpJoin(j, b)
          PROVE  /\ task'[j].pc = "lock" /\ task'[j].kids = {}
                 /\ \A u \in Task \ {j} : task'[u] = task[u]
                 /\ UNCHANGED lockVars
      BY <1>1, <2>2, <2>4, <3>5 DEF JumpJoin, TaskState
    <3>6. "lock" \notin {"idle"} \cup Inside
      BY DEF Inside
    <3>7. QED
      BY <2>1, <3>1, <3>2, <3>3, <3>4, <3>5, <3>6 DEF Jump
  <2>6. Steady(j)
    BY <2>3, <2>4, <2>5 DEF Steady
  <2>7. Still(j)
    BY <2>3, <2>5 DEF Still, Inside
  <2>8. \A u \in Task : Steady(u) /\ Still(u)
    BY <2>5, <2>6, <2>7, Unmoved
  <2>9. QED
    BY <2>5, <2>8, Calm DEF lockVars
<1>4. CASE \E b \in Bus, e \in Event : ExtEmit(b, e)
  <2>1. PICK b \in Bus, e \in Event : ExtEmit(b, e)
    BY <1>4
  <2>2. task' = Restarted(b, task) /\ UNCHANGED lockVars
    BY <2>1 DEF ExtEmit
  <2>3. \A u \in Task : Steady(u) /\ Still(u)
    BY <1>1, <2>2, RestartedStill
  <2>4. QED
    BY <2>2, <2>3, Calm DEF lockVars
<1>5. CASE \E j \in Jumper, e \in Event : ExtAwait(j, e)
  <2>1. PICK j \in Jumper, e \in Event : ExtAwait(j, e)
    BY <1>5
  <2>2. task[j].pc = "idle" /\ task' = [task EXCEPT ![j] = [Fresh("poll") EXCEPT !.ev = e]] /\ UNCHANGED lockVars
    BY <2>1 DEF ExtAwait
  <2>3. j \in Task /\ task[j].kids = {}
    BY <2>2, TaskKinds, TaskFields DEF TaskOK
  <2>4. task'[j].pc = "poll" /\ task'[j].how = "none" /\ task'[j].kids = {} /\ \A u \in Task \ {j} : task'[u] = task[u]
    BY <1>1, <2>2, <2>3 DEF Fresh
  <2>5. KidsThere' /\ OneParent' /\ Rooted'
    <3> DEFINE P == {}
    <3>1. P \in SUBSET Task /\ (\A u \in P : task[u].pc # "idle") /\ \A u, v \in P : u = v
      OBVIOUS
    <3>2. \A u \in Task : task'[u].kids = IF u \in P THEN task[u].kids \cup {j} ELSE task[u].kids
      BY <2>3, <2>4
    <3>3. \A u \in Jumper \ {j} : task[u].pc = "idle" <=> task'[u].pc = "idle"
      BY <2>4, TaskKinds
    <3> HIDE DEF P
    <3>4. QED
      BY <2>2, <2>4, <3>1, <3>2, <3>3, ForestGrows DEF ForestInv
  <2>6. Still(j)
    BY <2>4 DEF Still
  <2>7. \A u \in Task : Still(u)
    BY <2>4, <2>6, Unmoved
  <2>8. \A u \in Task : Permit(u, l)'
    BY <2>2, <2>7, PermitStays DEF ForestInv, lockVars
  <2>9. QED
    BY <2>5, <2>8 DEF ForestInv
<1>6. QED
  BY <1>2, <1>3, <1>4, <1>5 DEF Outside

\* In the beginning nobody waits for anybody.
LEMMA ForestInit == ASSUME NEW l PROVE Init => ForestInv(l)
<1> SUFFICES ASSUME Init PROVE ForestInv(l)
  OBVIOUS
<1>1. \A t \in Task : task[t] = Fresh(IF t \in Bus THEN "get" ELSE "idle") /\ held[t] = {}
  BY DEF Init
<1>2. \A t \in Task : task[t].pc = (IF t \in Bus THEN "get" ELSE "idle") /\ task[t].kids = {}
  <2>1. \A p : Fresh(p).pc = p /\ Fresh(p).kids = {}
    BY DEF Fresh
  <2>2. QED
    BY <1>1, <2>1
<1>3. \A t \in Task : Permit(t, l)
  BY <1>1, <1>2, TaskKinds DEF Permit, Inside
<1>4. KidsThere /\ OneParent
  BY <1>2 DEF KidsThere, OneParent
<1>5. Rooted
  BY <1>2, TaskKinds DEF Rooted
<1>6. QED
  BY <1>3, <1>4, <1>5 DEF ForestInv

\* No step breaks the forest.
LEMMA ForestStep ==
    ASSUME NEW l, OneLock(l)
    PROVE  TypeOK /\ TypeOK' /\ ForestInv(l) /\ [Next]_vars => ForestInv(l)'
<1> SUFFICES ASSUME TypeOK, TypeOK', ForestInv(l), [Next]_vars PROVE ForestInv(l)'
  OBVIOUS
<1>1. ASSUME NEW t \in Task, Process(t) PROVE ForestInv(l)'
  BY <1>1, ProcessForest
<1>2. ASSUME NEW t \in Task, Body(t) PROVE ForestInv(l)'
  BY <1>2, BodyForest
<1>3. ASSUME \/ \E b \in Bus : LoopGet(b) \/ LoopAgain(b)
             \/ \E j \in Jumper : Jump(j)
             \/ Outside
      PROVE  ForestInv(l)'
  BY <1>3, OtherForest
<1>4. CASE UNCHANGED vars
  <2>1. \A u \in Task : Steady(u) /\ Still(u)
    BY <1>4 DEF vars, Steady, Still
  <2>2. QED
    BY <1>4, <2>1, Calm DEF vars, lockVars
<1>5. QED
  BY <1>1, <1>2, <1>3, <1>4 DEF Next

\* It holds in every reachable state.
LEMMA ForestInductive ==
    ASSUME NEW l, OneLock(l) PROVE Spec => [](TypeOK /\ ForestInv(l))
<1>1. Init => TypeOK /\ ForestInv(l)
  BY TypeInit, ForestInit
<1>2. TypeOK /\ ForestInv(l) /\ [Next]_vars => TypeOK' /\ ForestInv(l)'
  BY TypeStep, ForestStep
<1>3. QED
  BY <1>1, <1>2, PTL DEF Spec

\* Whoever runs a handler does so below a bus that owns the lock, or below a now()
\* that no handler waits for.
LEMMA RunsBelow ==
    ASSUME TypeOK, NEW l, ForestInv(l), NEW t \in Task, task[t].pc \in {"body", "await", "sent"}
    PROVE  Adrift(t) \/ \E b \in Bus : owner[l] = b /\ t \in Under(b)
<1>1. Kids \in [Task -> SUBSET Task] /\ \A u \in Task : Kids[u] = task[u].kids
  BY KidsTypes
<1>2. \A u \in Task : Under(u) = Reach(Kids, u) /\ u \in Under(u)
  BY <1>1, UnderReach, ReachOn
<1>3. PICK r \in Task : TreeRoot(r) /\ t \in Under(r)
  BY <1>2, TaskKinds DEF ForestInv, Rooted, TreeRoot
<1>4. r # t => task[r].pc = "await"
  <2> SUFFICES ASSUME r # t PROVE task[r].kids # {}
    BY TaskFields DEF TaskOK
  <2>1. \E k \in Kids[r] : t \in Reach(Kids, k)
    BY <1>1, <1>2, <1>3, ReachSteps
  <2>2. QED
    BY <1>1, <2>1
<1>5. task[r].pc \in {"body", "await", "sent"}
  BY <1>4
<1>6. CASE r \in Bus
  <2>1. Permit(r, l) /\ task[r].pc \in Inside
    BY <1>5 DEF ForestInv, Inside
  <2>2. owner[l] = r
    BY <1>6, <2>1 DEF Permit
  <2>3. QED
    BY <1>3, <1>6, <2>2
<1>7. CASE r \in Jumper
  <2>1. Loose(r)
    BY <1>3, <1>5, <1>7, TaskKinds DEF Loose, TreeRoot
  <2>2. Adrift(t)
    BY <1>3, <1>7, <2>1 DEF Adrift
  <2>3. QED
    BY <2>2
<1>8. QED
  BY <1>6, <1>7, TaskKinds

\* Two tasks that run handlers are one below the other, or side by side, or one
\* of them is adrift.
LEMMA RunRelated ==
    ASSUME TypeOK, NEW l, ForestInv(l), NEW t \in Task, NEW u \in Task,
           task[t].pc \in {"body", "await", "sent"}, task[u].pc \in {"body", "await", "sent"}
    PROVE  Adrift(t) \/ Adrift(u) \/ t \in Under(u) \/ u \in Under(t) \/ SideBySide(t, u)
<1> SUFFICES ASSUME ~Adrift(t), ~Adrift(u) PROVE t \in Under(u) \/ u \in Under(t) \/ SideBySide(t, u)
  OBVIOUS
<1>1. PICK b \in Bus : owner[l] = b /\ t \in Under(b)
  BY RunsBelow
<1>2. u \in Under(b)
  BY <1>1, RunsBelow
<1>3. b \in Task
  BY TaskKinds
<1>4. QED
  BY <1>1, <1>2, <1>3, Related

\* Who waits for nobody has nobody below.
LEMMA OnlyItself ==
    ASSUME TypeOK, NEW t \in Task, task[t].kids = {}, NEW u \in Under(t)
    PROVE  u = t
<1>1. Kids \in [Task -> SUBSET Task] /\ Kids[t] = {} /\ u \in Reach(Kids, t)
  BY KidsTypes, UnderReach
<1>2. QED
  BY <1>1, ReachSteps

\* Where all buses share one lock, on whatever bus and at whatever depth of now()
\* in handlers, handlers run at a time only in the now() calls that one handler
\* waits for together, or below one that nobody waits for: global-serial, and one
\* bus alone.
THEOREM OneHandlerRuns ==
    ASSUME NEW l, OneLock(l) PROVE Spec => []SerialUnderOneLock
<1>1. TypeOK /\ ForestInv(l) => SerialUnderOneLock
  <2> SUFFICES ASSUME TypeOK, ForestInv(l), NEW t \in Task, NEW u \in Task, task[t].pc = "body", task[u].pc = "body"
               PROVE  t = u \/ SideBySide(t, u) \/ Adrift(t) \/ Adrift(u)
    BY Zenon DEF SerialUnderOneLock
  <2>1. task[t].kids = {} /\ task[u].kids = {}
    BY TaskFields DEF TaskOK
  <2>2. (t \in Under(u) => t = u) /\ (u \in Under(t) => t = u)
    BY <2>1, OnlyItself
  <2>3. QED
    BY <2>2, RunRelated
<1>2. Spec => [](TypeOK /\ ForestInv(l))
  BY ForestInductive
<1>3. QED
  BY <1>1, <1>2, PTL
=============================================================================
