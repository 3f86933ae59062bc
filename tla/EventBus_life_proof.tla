------------------------ MODULE EventBus_life_proof -------------------------
(***************************************************************************)
(* The life of an event, from its emission to its completion, on buses     *)
(* without middleware hooks, for any buses, events, handlers, tasks, locks *)
(* and forwarding:                                                         *)
(*   - the buses implement EventLife, and a parent is never complete       *)
(*     before a child that its handler awaited, cancellations included;    *)
(*   - now() returns only when its event is complete;                      *)
(*   - a complete event was handled by every bus that it was emitted on,   *)
(*     and no bus still has it to process;                                 *)
(*   - when nothing can run any more, every emitted event is complete;     *)
(*   - under one lock, without forwarding, a bus keeps the order of its    *)
(*     events: what runs is the oldest, or is below it, or is for another  *)
(*     child that the same handler awaits.                                 *)
(***************************************************************************)
EXTENDS EventBus_proof, FiniteSetTheorems, WellFoundedInduction

\* An event that waiters have been told of has the status "completed".
SignalIsStatus == \A e \in Event : signal[e] <=> status[e] = "completed"

\* An event that was never emitted is nobody's child.
NewIsAlone == \A e \in Event : status[e] = "new" => parent[e] = NoEvent /\ ~blocks[e]

\* A child that is awaited has a parent.
BlockingHasParent == \A c \in Event : blocks[c] => parent[c] \in Event

\* An awaited child is finished before its parent.
ChildFirst == \A c \in Blocking : signal[parent[c]] => signal[c]

Kin == SignalIsStatus /\ NewIsAlone /\ BlockingHasParent /\ ChildFirst
LInv == IInv /\ Kin

\* The mapping of EventLife's `awaited`.
Pairs == {<<parent[c], c>> : c \in Blocking}
Step == [Life!Next]_(Life!vars)

-----------------------------------------------------------------------------
(* Descendants *)

\* Who is a child in L of one below e, or of e, is below e.
LEMMA ChildBelow ==
    ASSUME NEW e, NEW L, NEW c \in L, parent[c] \in {e} \cup Below(e, L)
    PROVE  c \in Below(e, L)
<1> SUFFICES ASSUME NEW S \in SUBSET L, \A x \in L : parent[x] \in S \cup {e} => x \in S
             PROVE  c \in S
  BY DEF Below
<1>1. parent[c] = e \/ parent[c] \in S
  BY DEF Below
<1>2. QED
  BY <1>1

\* Who is below one below e is below e.
LEMMA BelowBelow ==
    ASSUME NEW e, NEW L, NEW d \in Below(e, L)
    PROVE  Below(d, L) \subseteq Below(e, L)
<1> SUFFICES ASSUME NEW x \in Below(d, L), NEW S \in SUBSET L,
                    \A y \in L : parent[y] \in S \cup {e} => y \in S
             PROVE  x \in S
  BY DEF Below
<1>1. d \in S
  BY DEF Below
<1>2. \A y \in L : parent[y] \in S \cup {d} => y \in S
  BY <1>1
<1>3. QED
  BY <1>2 DEF Below

\* What is linked is an event.
LEMMA BelowEvents ==
    ASSUME NEW e
    PROVE  Below(e, Linked) \subseteq Event /\ Below(e, Blocking) \subseteq Event
           /\ Blocking \subseteq Linked /\ Linked \subseteq Event
BY DEF Below, Linked, Blocking

-----------------------------------------------------------------------------
(* Steps, by what they do to the event's life *)

\* The children that are awaited stay the same while nobody's blocks changes
\* and only events that nobody awaits get another parent.
LEMMA SamePairs ==
    ASSUME \A c \in Event : blocks'[c] = blocks[c],
           \A c \in Event : blocks[c] => parent'[c] = parent[c] /\ link'[c] = link[c]
    PROVE  Pairs' = Pairs /\ \A c \in Blocking' : c \in Blocking /\ parent'[c] = parent[c]
<1>1. \A c : c \in Blocking' <=> c \in Blocking
  BY DEF Blocking, Linked
<1>2. \A c \in Blocking : parent'[c] = parent[c]
  BY DEF Blocking, Linked
<1>3. Blocking' = Blocking
  BY <1>1
<1>4. QED
  BY <1>2, <1>3 DEF Pairs

\* A step that does nothing to events and results.
LEMMA Stutters ==
    ASSUME LInv, UNCHANGED <<result, eventVars>>
    PROVE  Kin' /\ Step
<1>1. UNCHANGED <<status, signal, parent, link, blocks, result>>
  BY DEF eventVars
<1>2. Blocking' = Blocking /\ Pairs' = Pairs
  BY <1>1 DEF Blocking, Linked, Pairs
<1>3. UNCHANGED Life!vars
  BY <1>1, <1>2 DEF Life!vars, Pairs
<1>4. Kin'
  BY <1>1, <1>2 DEF LInv, Kin, SignalIsStatus, NewIsAlone, BlockingHasParent, ChildFirst
<1>5. QED
  BY <1>3, <1>4 DEF Step

\* What a step has to keep when no event is finished and no child awaited by it.
LEMMA KinKept ==
    ASSUME LInv, UNCHANGED <<signal, blocks>>,
           \A e \in Event : status'[e] = "completed" <=> status[e] = "completed",
           \A e \in Event : status'[e] = "new" => status[e] = "new" /\ parent'[e] = parent[e],
           \A c \in Event : blocks[c] => parent'[c] = parent[c] /\ link'[c] = link[c]
    PROVE  Kin' /\ Pairs' = Pairs
<1>1. Pairs' = Pairs /\ \A c \in Blocking' : c \in Blocking /\ parent'[c] = parent[c]
  BY SamePairs
<1>2. SignalIsStatus' /\ NewIsAlone' /\ BlockingHasParent'
  BY DEF LInv, Kin, SignalIsStatus, NewIsAlone, BlockingHasParent
<1>3. ChildFirst'
  BY <1>1 DEF LInv, Kin, ChildFirst
<1>4. QED
  BY <1>1, <1>2, <1>3 DEF Kin

\* Emissions of new events, by a handler or from outside.
LEMMA EmitNewStep ==
    ASSUME LInv, NEW b \in Bus, NEW e \in Event, NEW p, NEW h,
           status[e] = "new", Emit(b, e, p, h), UNCHANGED result
    PROVE  Kin' /\ Step
<1>1. /\ status \in [Event -> Status] /\ parent \in [Event -> Event \cup {NoEvent}]
      /\ link \in [Event -> Handler \cup {NoHandler}]
  BY TypeParts DEF LInv, IInv, EventTypes
<1>2. /\ status' = [status EXCEPT ![e] = IF status[e] = "new" THEN "pending" ELSE status[e]]
      /\ parent' = [parent EXCEPT ![e] = p] /\ link' = [link EXCEPT ![e] = h]
      /\ UNCHANGED <<signal, blocks>>
  BY DEF Emit
<1>3. ~blocks[e]
  BY DEF LInv, Kin, NewIsAlone
<1>4. Kin' /\ Pairs' = Pairs
  BY <1>1, <1>2, <1>3, KinKept
<1>5. QED
  BY <1>2, <1>4 DEF Step, Life!vars, Pairs

\* Choosing handlers: the event is not finished, and none has begun.
LEMMA CreateLife ==
    ASSUME LInv, NEW t \in Task, Create(t)
    PROVE  Kin' /\ Step
<1> DEFINE e == task[t].ev
           hs == task[t].todo
<1>1. task[t].pc = "create"
  BY DEF Create, At
<1>2. e \in Event /\ hs \subseteq Handler /\ Placed(t)
  BY <1>1, TypeParts, ByTask DEF LInv, IInv, TaskTypes, TaskOK, TaskState, Working
<1>3. ~signal[e] /\ \A h \in hs : result[e][h] \in {"none", "pending"}
  BY <1>1, <1>2 DEF Placed, Midway
<1>4. CASE hs = {}
  BY <1>4, Stutters DEF Create, eventVars
<1>5. CASE hs # {}
  <2>1. /\ result' = [result EXCEPT ![e] =
                 [h \in Handler |-> IF h \in hs THEN "pending" ELSE result[e][h]]]
        /\ status' = [status EXCEPT ![e] = IF status[e] = "completed" THEN "pending" ELSE status[e]]
        /\ UNCHANGED <<signal, path, parent, link, blocks>>
    BY <1>5 DEF Create
  <2> HIDE DEF e, hs
  <2>2. status[e] # "completed" /\ status \in [Event -> Status]
    BY <1>2, <1>3, TypeParts DEF LInv, Kin, SignalIsStatus, IInv, EventTypes
  <2>3. status' = status
    BY <1>2, <2>1, <2>2
  <2>4. Kin' /\ Pairs' = Pairs
    BY <2>1, <2>3, KinKept
  <2>5. Life!Choose(e, hs)
    BY <1>3, <2>1, <2>4 DEF Life!Choose, Pairs
  <2>6. QED
    BY <1>2, <2>4, <2>5 DEF Step, Life!Next
<1>6. QED
  BY <1>4, <1>5

\* Calling a handler: the task that holds the handler lock is the only one.
LEMMA StartLife ==
    ASSUME LInv, NEW t \in Task, Start(t)
    PROVE  Kin' /\ Step
<1> DEFINE e == task[t].ev
           h == task[t].cur
<1>1. task[t].pc = "start"
  BY DEF Start, At
<1>2. e \in Event /\ h \in Handler /\ Placed(t) /\ result[e][h] \in ResultStatus
  BY <1>1, TypeParts, ByTask DEF LInv, IInv, TaskTypes, TaskOK, Working, ResultTypes
<1>3. CASE result[e][h] \in Terminal
  BY <1>3, Stutters DEF Start, eventVars, resultVars
<1>4. CASE result[e][h] \notin Terminal
  <2>1. /\ result' = [result EXCEPT ![e][h] = "started"]
        /\ status' = [status EXCEPT ![e] = IF status[e] = "pending" THEN "started" ELSE status[e]]
        /\ UNCHANGED <<signal, path, parent, link, blocks>>
    BY <1>4 DEF Start
  <2>2. result[e][h] # "started"
    BY <1>1, <1>2, AloneInBody DEF LInv, Locking, Running
  <2>3. result[e][h] = "pending"
    BY <1>1, <1>2, <1>4, <2>2 DEF Placed, ResultStatus, Terminal
  <2>4. ~signal[e]
    BY <1>2, <2>3 DEF LInv, IInv, SignalSettled, Terminal
  <2> HIDE DEF e, h
  <2>5. status \in [Event -> Status]
    BY TypeParts DEF LInv, IInv, EventTypes
  <2>6. Kin' /\ Pairs' = Pairs
    BY <1>2, <2>1, <2>5, KinKept
  <2>7. Life!Begin(e, h)
    BY <2>1, <2>3, <2>4, <2>6 DEF Life!Begin, Pairs
  <2>8. QED
    BY <1>2, <2>6, <2>7 DEF Step, Life!Next
<1>5. QED
  BY <1>3, <1>4

\* The end of a handler, whether it returns, raises or is cancelled.
LEMMA SettleLife ==
    ASSUME LInv, NEW t \in Task, HReturn(t) \/ HCancel(t) \/ HAwaitCancelled(t)
    PROVE  Kin' /\ Step
<1> DEFINE e == task[t].ev
           h == task[t].cur
<1>1. task[t].pc \in Running
  BY DEF HReturn, HCancel, HAwaitCancelled, InBody, At, Running
<1>2. PICK r \in Terminal : result' = [result EXCEPT ![e][h] = r]
  BY DEF HReturn, HCancel, HAwaitCancelled, Interrupted, Terminal, Settle
<1>3. e \in Event /\ h \in Handler /\ result[e][h] = "started"
  BY <1>1, TypeParts, ByTask DEF LInv, IInv, TaskTypes, TaskOK, Running, Working, Placed
<1>4. ~signal[e]
  BY <1>3 DEF LInv, IInv, SignalSettled, Terminal
<1>5. UNCHANGED <<status, signal, parent, link, blocks>>
  BY DEF HReturn, HCancel, HAwaitCancelled, Interrupted, eventVars
<1>6. Kin' /\ Pairs' = Pairs
  BY <1>5, KinKept
<1> HIDE DEF e, h
<1>7. Life!Settle(e, h)
  BY <1>2, <1>3, <1>4, <1>5, <1>6 DEF Life!Settle, Life!Settled, Terminal, Pairs
<1>8. QED
  BY <1>3, <1>6, <1>7 DEF Step, Life!Next

\* An event that is forwarded has been emitted and is not finished.
LEMMA ForwardLife ==
    ASSUME LInv, NEW t \in Task, HForward(t)
    PROVE  Kin' /\ Step
<1> DEFINE e == task[t].ev
           h == task[t].cur
<1>1. task[t].pc = "body" /\ UNCHANGED result
  BY DEF HForward, InBody, At, resultVars
<1>2. e \in Event /\ h \in Handler /\ result[e][h] = "started"
  BY <1>1, TypeParts, ByTask DEF LInv, IInv, TaskTypes, TaskOK, Running, Working, Placed
<1>3. status[e] # "completed"
  BY <1>2 DEF LInv, IInv, SignalSettled, Terminal, Kin, SignalIsStatus
<1>4. /\ status \in [Event -> Status] /\ parent \in [Event -> Event \cup {NoEvent}]
      /\ link \in [Event -> Handler \cup {NoHandler}]
  BY TypeParts DEF LInv, IInv, EventTypes
<1>5. Emit(Target[h], e, parent[e], link[e])
  BY DEF HForward
<1> HIDE DEF e, h
<1>6. /\ status' = [status EXCEPT ![e] = IF status[e] = "new" THEN "pending" ELSE status[e]]
      /\ parent' = [parent EXCEPT ![e] = parent[e]] /\ link' = [link EXCEPT ![e] = link[e]]
      /\ UNCHANGED <<signal, blocks>>
  BY <1>3, <1>5 DEF Emit
<1>7. parent' = parent /\ link' = link
  BY <1>2, <1>4, <1>6
<1>8. Kin' /\ Pairs' = Pairs
  BY <1>2, <1>4, <1>6, <1>7, KinKept
<1>9. QED
  BY <1>1, <1>6, <1>8 DEF Step, Life!vars, Pairs

\* await child.now() in a handler whose event is not finished.
LEMMA AwaitLife ==
    ASSUME LInv, NEW t \in Task, NEW c \in Event, NEW j \in Jumper, HAwait(t, c, j)
    PROVE  Kin' /\ Step
<1> DEFINE e == task[t].ev
           h == task[t].cur
<1>1. task[t].pc \in {"body", "await"} /\ parent[c] = e /\ link[c] = h
  BY DEF HAwait, InHandler, At
<1>2. e \in Event /\ h \in Handler /\ result[e][h] = "started"
  BY <1>1, TypeParts, ByTask DEF LInv, IInv, TaskTypes, TaskOK, Running, Working, Placed
<1>3. ~signal[e]
  BY <1>2 DEF LInv, IInv, SignalSettled, Terminal
<1>4. /\ blocks' = [blocks EXCEPT ![c] = TRUE]
      /\ UNCHANGED <<result, status, signal, parent, link>>
  BY DEF HAwait, resultVars
<1>5. blocks \in [Event -> BOOLEAN]
  BY TypeParts DEF LInv, IInv, EventTypes
<1>6. link[c] # NoHandler /\ parent[c] # NoEvent
  BY <1>1, <1>2, NamesAssumption
<1> HIDE DEF e, h
<1>7. Blocking' = Blocking \cup {c}
  BY <1>4, <1>5, <1>6 DEF Blocking, Linked
<1>8. Pairs' = Pairs \cup {<<e, c>>}
  BY <1>1, <1>4, <1>7 DEF Pairs
<1>9. SignalIsStatus' /\ NewIsAlone' /\ BlockingHasParent'
  BY <1>1, <1>2, <1>4, <1>5, <1>6 DEF LInv, Kin, SignalIsStatus, NewIsAlone, BlockingHasParent
<1>10. ChildFirst'
  BY <1>1, <1>3, <1>4, <1>7 DEF LInv, Kin, ChildFirst
<1>11. Life!Await(e, c)
  BY <1>2, <1>3, <1>4, <1>8 DEF Life!Await, Pairs
<1>12. QED
  BY <1>2, <1>9, <1>10, <1>11 DEF Kin, Step, Life!Next

-----------------------------------------------------------------------------
(* Completion *)

\* Nothing of an event of S is open, but what S finishes with it.
Finishable(S) ==
    /\ S \subseteq Event
    /\ \A e \in S : Complete1(e)
    /\ \A c \in Blocking : parent[c] \in S => signal[c] \/ c \in S

\* Completing such events at once is a step of EventLife.
LEMMA FinishLife ==
    ASSUME LInv, NEW S, Finishable(S), Complete(S), UNCHANGED result
    PROVE  Kin' /\ Step
<1>1. /\ status' = [e \in Event |-> IF e \in S THEN "completed" ELSE status[e]]
      /\ signal' = [e \in Event |-> e \in S \/ signal[e]]
      /\ UNCHANGED <<path, parent, link, blocks, result>>
  BY DEF Complete
<1>2. Blocking' = Blocking /\ Pairs' = Pairs
  BY <1>1 DEF Blocking, Linked, Pairs
<1>3. \A e \in S, h \in Handler : result[e][h] \in {"none"} \cup Life!Settled
  BY DEF Finishable, Complete1, LInv, IInv, SignalSettled, Terminal, Life!Settled
<1>4. \A e \in S, c \in Event : <<e, c>> \in Pairs => signal[c] \/ c \in S
  BY DEF Finishable, Pairs
<1>5. Life!Finish(S)
  BY <1>1, <1>2, <1>3, <1>4 DEF Life!Finish, Pairs
<1>6. SignalIsStatus' /\ NewIsAlone' /\ BlockingHasParent'
  BY <1>1 DEF LInv, Kin, SignalIsStatus, NewIsAlone, BlockingHasParent
<1>7. ChildFirst'
  <2> SUFFICES ASSUME NEW c \in Blocking, signal'[parent[c]] PROVE signal'[c]
    BY <1>1, <1>2 DEF ChildFirst
  <2>1. c \in Event /\ parent[c] \in Event
    BY DEF Blocking, Linked, LInv, Kin, BlockingHasParent
  <2>2. parent[c] \in S \/ signal[parent[c]]
    BY <1>1, <2>1
  <2>3. signal[c] \/ c \in S
    BY <2>2 DEF Finishable, LInv, Kin, ChildFirst
  <2>4. QED
    BY <1>1, <2>1, <2>3
<1>8. QED
  BY <1>5, <1>6, <1>7 DEF Kin, Step, Life!Next, Finishable

\* One event: all that block it, at any depth, are complete.
LEMMA CompletableFinishes ==
    ASSUME LInv, NEW e \in Event, NEW B \in SUBSET Bus, Completable(e, B)
    PROVE  Finishable({e})
<1>1. Complete1(e)
  BY CompletableSettled
<1>2. ~signal[e]
  BY DEF Completable, LInv, Kin, SignalIsStatus
<1>3. ASSUME NEW c \in Blocking, parent[c] = e PROVE signal[c]
  <2>1. c \in Below(e, Blocking)
    BY <1>3, ChildBelow
  <2>2. status[c] = "completed" /\ c \in Event
    BY <1>2, <2>1, BelowEvents DEF Completable
  <2>3. QED
    BY <2>2 DEF LInv, Kin, SignalIsStatus
<1>4. QED
  BY <1>1, <1>3 DEF Finishable

\* The tree below the event that a bus has processed: with an event, every child
\* that it awaits is complete or completed in the same go.
LEMMA TreeFinishes ==
    ASSUME LInv, NEW r \in Event, NEW b \in Bus
    PROVE  Finishable(CompletableTree(r, b))
<1> DEFINE S == CompletableTree(r, b)
           Ready(x) == \/ status[x] = "completed" \/ signal[x]
                       \/ ResultsReady(x, IF x = r THEN {b} ELSE {})
<1>1. \A d : d \in S <=> /\ d \in {r} \cup Below(r, Linked) /\ status[d] # "completed"
                         /\ signal[d] \/ \A x \in {d} \cup Below(d, Blocking) : Ready(x)
  BY DEF CompletableTree
<1>2. S \subseteq Event
  BY <1>1, BelowEvents
<1>3. \A d \in S : Complete1(d)
  BY CompletableSettled
<1> HIDE DEF S, Ready
<1>4. ASSUME NEW c \in Blocking, parent[c] \in S, ~signal[c] PROVE c \in S
  <2> DEFINE d == parent[c]
  <2>1. d \in Event /\ status[d] # "completed" /\ d \in {r} \cup Below(r, Linked)
    BY <1>1, <1>2, <1>4
  <2>2. ~signal[d]
    BY <2>1 DEF LInv, Kin, SignalIsStatus
  <2>3. \A x \in Below(d, Blocking) : Ready(x)
    BY <1>1, <1>4, <2>2
  <2>4. c \in Below(d, Blocking)
    BY ChildBelow
  <2>5. {c} \cup Below(c, Blocking) \subseteq Below(d, Blocking)
    BY <2>4, BelowBelow
  <2>6. c \in Linked /\ c \in Event
    BY DEF Blocking, Linked
  <2>7. c \in Below(r, Linked)
    BY <2>1, <2>6, ChildBelow
  <2>8. status[c] # "completed"
    BY <1>4, <2>6 DEF LInv, Kin, SignalIsStatus
  <2>9. QED
    BY <1>1, <2>3, <2>5, <2>7, <2>8
<1>5. QED
  BY <1>2, <1>3, <1>4 DEF Finishable, S

\* The end of an event on a bus, and of its ancestors.
LEMMA EndLife ==
    ASSUME LInv, NEW t \in Task, End(t) \/ Unlock(t) \/ Propagate(t)
    PROVE  Kin' /\ Step
<1>1. task[t].pc \in {"end", "unlock", "prop"} /\ UNCHANGED result
  BY DEF End, Unlock, Propagate, At, resultVars
<1>2. task[t].ev \in Event /\ task[t].bus \in Bus /\ (task[t].pc = "prop" => task[t].up \in Event)
  BY <1>1, TypeParts DEF LInv, IInv, TaskTypes, TaskOK, Working
<1>3. CASE UNCHANGED eventVars
  BY <1>1, <1>3, Stutters
<1>4. CASE End(t) /\ ~UNCHANGED eventVars
  <2>1. Completable(task[t].ev, {task[t].bus}) /\ Complete({task[t].ev})
    BY <1>4 DEF End
  <2>2. Finishable({task[t].ev})
    BY <1>2, <2>1, CompletableFinishes
  <2>3. QED
    BY <1>1, <2>1, <2>2, FinishLife
<1>5. CASE Unlock(t)
  <2>1. Complete(CompletableTree(task[t].ev, task[t].bus))
    BY <1>5 DEF Unlock
  <2>2. QED
    BY <1>1, <1>2, <2>1, TreeFinishes, FinishLife
<1>6. CASE Propagate(t) /\ ~UNCHANGED eventVars
  <2> DEFINE p == parent[task[t].up]
  <2>1. /\ p # NoEvent
        /\ \E pb \in path[p] : Completable(p, {pb}) /\ Complete({p})
    BY <1>6 DEF Propagate
  <2>2. p \in Event
    BY <1>2, <1>6, <2>1, TypeParts DEF LInv, IInv, EventTypes, Propagate, At
  <2> HIDE DEF p
  <2>3. path[p] \subseteq Bus
    BY <2>2, TypeParts DEF LInv, IInv, EventTypes
  <2>4. Finishable({p}) /\ Complete({p})
    BY <2>1, <2>2, <2>3, CompletableFinishes
  <2>5. QED
    BY <1>1, <2>4, FinishLife
<1>7. QED
  BY <1>3, <1>4, <1>5, <1>6

-----------------------------------------------------------------------------
(* The theorems *)

\* Nothing is finished, awaited or begun at first.
LEMMA LifeInit == Init => LInv /\ Life!Init
<1> SUFFICES ASSUME Init PROVE LInv /\ Life!Init
  OBVIOUS
<1>1. IInv
  BY OnceInit
<1>2. \A e \in Event : ~signal[e] /\ status[e] = "new" /\ parent[e] = NoEvent /\ ~blocks[e]
  BY DEF Init
<1>3. Blocking = {}
  BY <1>2 DEF Blocking, Linked
<1>4. Kin
  BY <1>2, <1>3 DEF Kin, SignalIsStatus, NewIsAlone, BlockingHasParent, ChildFirst
<1>5. Life!Init
  BY <1>3 DEF Init, Life!Init
<1>6. QED
  BY <1>1, <1>4, <1>5 DEF LInv

\* Every step keeps the invariant and is a step of EventLife, or none.
LEMMA LifeStep ==
    ASSUME Middlewares = FALSE, LInv, [Next]_vars
    PROVE  LInv' /\ Step
<1>1. IInv'
  BY OnceStep DEF LInv
<1>2. ASSUME NEW t \in Task, Process(t) PROVE Kin' /\ Step
  <2>1. CASE \/ EnterLock(t) \/ LockGranted(t) \/ Check(t) \/ Select(t)
             \/ NextHandler(t) \/ HandlerLockGranted(t)
    BY <2>1, Stutters
    DEF EnterLock, LockGranted, Check, Select, NextHandler, HandlerLockGranted, resultVars
  <2>2. QED
    BY <1>2, <2>1, CreateLife, StartLife, EndLife DEF Process
<1>3. ASSUME NEW t \in Task, Body(t) PROVE Kin' /\ Step
  <2>1. CASE HResume(t) \/ HLeave(t)
    BY <2>1, Stutters DEF HResume, HLeave, resultVars
  <2>2. ASSUME NEW c \in Event, HEmit(t, c) PROVE Kin' /\ Step
    <3>1. task[t].bus \in Bus
      BY <2>2, TypeParts DEF HEmit, InHandler, At, LInv, IInv, TaskTypes, TaskOK, Working
    <3>2. PICK h : Emit(task[t].bus, c, task[t].ev, h)
      BY <2>2 DEF HEmit
    <3>3. status[c] = "new" /\ UNCHANGED result
      BY <2>2 DEF HEmit, resultVars
    <3>4. QED
      BY <3>1, <3>2, <3>3, EmitNewStep
  <2>3. QED
    BY <1>3, <2>1, <2>2, AwaitLife, SettleLife, ForwardLife DEF Body
<1>4. ASSUME NEW b \in Bus, LoopGet(b) \/ LoopAgain(b) PROVE Kin' /\ Step
  BY <1>4, Stutters DEF LoopGet, LoopAgain, resultVars
<1>5. ASSUME NEW j \in Jumper, Jump(j) PROVE Kin' /\ Step
  BY <1>5, Stutters
  DEF Jump, JumpYield, JumpGiveUp, JumpDone, JumpAgain, JumpTake, JumpJoin, resultVars
<1>6. ASSUME Outside PROVE Kin' /\ Step
  <2>1. ASSUME NEW b \in Bus, NEW e \in Event, ExtEmit(b, e) PROVE Kin' /\ Step
    BY <2>1, EmitNewStep DEF ExtEmit, resultVars
  <2>2. ASSUME NEW j \in Jumper, NEW e \in Event, ExtAwait(j, e) PROVE Kin' /\ Step
    BY <2>2, Stutters DEF ExtAwait, resultVars
  <2>3. QED
    BY <1>6, <2>1, <2>2 DEF Outside
<1>7. ASSUME UNCHANGED vars PROVE Kin' /\ Step
  <2>1. UNCHANGED <<result, eventVars>>
    BY <1>7 DEF vars, resultVars
  <2>2. QED
    BY <2>1, Stutters
<1>8. Kin' /\ Step
  BY <1>2, <1>3, <1>4, <1>5, <1>6, <1>7 DEF Next
<1>9. QED
  BY <1>1, <1>8 DEF LInv

\* LInv is an inductive invariant of buses without hooks.
LEMMA LifeInductive == ASSUME Middlewares = FALSE PROVE Spec => []LInv
<1>1. Init => LInv
  BY LifeInit
<1>2. LInv /\ [Next]_vars => LInv'
  BY LifeStep
<1>3. QED
  BY <1>1, <1>2, PTL DEF Spec

\* A handler's event is never complete before a child the handler awaited,
\* whoever completes the one or the other and whatever is cancelled: the walk
\* over the blocking children in _mark_completed.
THEOREM ParentsCompleteLast ==
    ASSUME Middlewares = FALSE PROVE Spec => []ParentAfterAwaitedChild
<1>1. LInv => ParentAfterAwaitedChild
  <2> SUFFICES ASSUME LInv, NEW c \in Blocking, status[parent[c]] = "completed"
               PROVE  status[c] = "completed"
    BY DEF ParentAfterAwaitedChild
  <2>1. c \in Event /\ parent[c] \in Event
    BY DEF Blocking, Linked, LInv, Kin, BlockingHasParent
  <2>2. QED
    BY <2>1 DEF LInv, Kin, SignalIsStatus, ChildFirst
<1>2. QED
  BY <1>1, LifeInductive, PTL

\* The buses implement EventLife: whatever queues, locks, run loops and tasks of
\* now() do to an event, each handler's result goes forward once, and the event
\* is finished once, with nothing of it open.
THEOREM BusesKeepPromise == ASSUME Middlewares = FALSE PROVE Spec => KeepsPromise
<1>1. Init => Life!Init
  BY LifeInit
<1>2. LInv /\ [Next]_vars => [Life!Next]_(Life!vars)
  BY LifeStep DEF Step
<1>3. QED
  BY <1>1, <1>2, LifeInductive, PTL DEF Spec, KeepsPromise, Life!Spec

-----------------------------------------------------------------------------
(* The ways tasks move *)

\* Places of a task that is at an event.
AtEvent == Working \cup {"poll", "sigwait", "done", "failed"}

\* How a task may go on: out of an event or back to its loop,
Leaves(s, r) ==
    \/ s.pc = "after" /\ r.pc \in {"get", "dead"}
    \/ s.pc \in {"done", "failed"} /\ r.pc = "idle"
    \/ s.pc = "dead" /\ r.pc = "get"
\* to an event that was emitted, or on with waiting for it,
Turns(s, r) == s.pc = "idle" /\ r.pc = "poll" /\ status[r.ev] # "new"
Waits(s, r) ==
    /\ s.pc \in {"after", "poll", "sigwait"} /\ r.pc \in {"poll", "sigwait", "done", "failed"}
    /\ r.ev = s.ev
    /\ r.pc = "done" =>
          signal[s.ev] \/ (status[s.ev] # "started" /\ \A b \in Bus : ~InUse(b, s.ev))
\* into the event, from the queue or behind another task that has it,
Takes(s, r) ==
    /\ \/ s.pc = "get" /\ r.pc = "lock"
       \/ s.pc = "poll" /\ r.pc = "select" /\ r.ev = s.ev /\ ~signal[s.ev]
    /\ r.bus \in Bus /\ queue[r.bus] # <<>> /\ r.ev \in Range(queue[r.bus])
Joins(s, r) ==
    /\ s.pc = "poll" /\ r.pc = "lock" /\ r.ev = s.ev
    /\ r.bus \in Bus /\ r.ev \in processing[r.bus] /\ r.ev \notin Range(queue[r.bus])
\* through the event lock,
SameEvent(s, r) == r.ev = s.ev /\ r.bus = s.bus
Enters(s, r) ==
    /\ s.pc \in {"lock", "lockwait", "check"} /\ r.pc \in {"lockwait", "check", "select", "unlock"}
    /\ SameEvent(s, r)
    /\ r.pc = "select" => ~signal[s.ev]
    /\ r.pc = "unlock" => signal[s.ev]
\* from the choice of handlers to their end,
Chooses(s, r) ==
    /\ s.pc = "select" /\ r.pc = "create" /\ SameEvent(s, r)
    /\ r.todo = {h \in HandlersFor[s.bus][s.ev] : ~WouldCreateLoop(s.ev, h)}
Resets(s, r) ==
    /\ s.pc = "create" /\ SameEvent(s, r) /\ r.todo = s.todo
    /\ r.pc = IF s.todo = {} THEN "end" ELSE "next"
    /\ \A h \in s.todo : result'[s.ev][h] = "pending"
Turned(s, r) ==
    /\ s.pc = "next" /\ SameEvent(s, r)
    /\ \/ s.todo = {} /\ r.pc = "end"
       \/ r.cur \in s.todo /\ r.todo = s.todo \ {r.cur} /\ r.pc \in {"start", "hwait"}
Calls(s, r) ==
    /\ SameEvent(s, r) /\ r.todo = s.todo
    /\ \/ s.pc = "hwait" /\ r.pc = "start" /\ r.cur = s.cur
       \/ s.pc = "start" /\ r.pc = "next"
       \/ s.pc = "start" /\ r.pc = "body" /\ r.cur = s.cur
       \/ s.pc \in {"body", "await"} /\ r.pc \in Running /\ r.cur = s.cur
       \/ s.pc \in {"body", "sent"} /\ r.pc = "next"
Breaks(s, r) == s.pc \in Running /\ r.pc = "unlock" /\ SameEvent(s, r) /\ r.todo = {}
\* and out of the event.
Ends(s, r) ==
    /\ SameEvent(s, r)
    /\ \/ s.pc = "end" /\ r.pc = "unlock"
       \/ s.pc = "unlock" /\ r.pc = "prop" /\ r.up = s.ev
       \/ s.pc = "prop" /\ parent[s.up] = NoEvent /\ r.pc = "after"
       \/ s.pc = "prop" /\ parent[s.up] # NoEvent /\ r.pc = "prop" /\ r.up = parent[s.up]

Moved(s, r) ==
    \/ r = s \/ Leaves(s, r) \/ Turns(s, r) \/ Waits(s, r) \/ Takes(s, r) \/ Joins(s, r)
    \/ Enters(s, r) \/ Chooses(s, r) \/ Resets(s, r) \/ Turned(s, r) \/ Calls(s, r)
    \/ Breaks(s, r) \/ Ends(s, r)

\* Tasks that a step only starts, ends or turns to an event are aside.
Aside(u) == LET s == task[u]  r == task'[u] IN r = s \/ Leaves(s, r) \/ Turns(s, r)
\* One task moves, the others are aside.
MovesAlone(t) == Moved(task[t], task'[t]) /\ \A u \in Task \ {t} : Aside(u)

\* One task is all that changes.
Only(t) == \A u \in Task \ {t} : task'[u] = task[u]

\* When one task is all that changes, and it moves as tasks do, it moves alone.
LEMMA OneMoves ==
    ASSUME NEW t \in Task, Only(t), Moved(task[t], task'[t])
    PROVE  MovesAlone(t)
BY DEF MovesAlone, Aside, Only

\* What a task has after it was given another place, and other fields.
LEMMA Given ==
    ASSUME TypeOK, NEW t \in Task, NEW r, task' = [task EXCEPT ![t] = r]
    PROVE  Only(t) /\ task'[t] = r
BY TaskFields DEF Only

\* A run loop takes an event, or turns back to its queue.
LEMMA LoopMoves ==
    ASSUME TypeOK, NEW b \in Bus, LoopGet(b) \/ LoopAgain(b)
    PROVE  MovesAlone(b)
<1>1. b \in Task /\ queue[b] \in Seq(Event)
  BY TypeParts DEF BusTypes, Task
<1>2. CASE LoopGet(b)
  <2> DEFINE e == Head(queue[b])
             r == [Fresh("lock") EXCEPT !.ev = e, !.bus = b]
  <2>1. task[b].pc = "get" /\ task' = [task EXCEPT ![b] = r] /\ queue[b] # <<>>
    BY <1>2 DEF LoopGet, At
  <2>2. e \in Range(queue[b])
    BY <1>1, <2>1 DEF Range
  <2>3. r.pc = "lock" /\ r.ev = e /\ r.bus = b
    BY DEF Fresh
  <2> HIDE DEF e, r
  <2>4. Takes(task[b], r)
    BY <2>1, <2>2, <2>3 DEF Takes
  <2>5. QED
    BY <1>1, <2>1, <2>4, Given, OneMoves DEF Moved
<1>3. CASE LoopAgain(b)
  <2> DEFINE r == Fresh(IF task[b].exc THEN "dead" ELSE "get")
  <2>1. task[b].pc = "after" /\ task' = [task EXCEPT ![b] = r]
    BY <1>3 DEF LoopAgain, At
  <2>2. r.pc \in {"get", "dead"}
    BY DEF Fresh
  <2> HIDE DEF r
  <2>3. QED
    BY <1>1, <2>1, <2>2, Given, OneMoves DEF Moved, Leaves
<1>4. QED
  BY <1>2, <1>3

\* Steps through the event lock of the bus (step()).
LEMMA EnterMoves ==
    ASSUME TypeOK, NEW t \in Task, EnterLock(t) \/ LockGranted(t) \/ Check(t)
    PROVE  MovesAlone(t)
<1> DEFINE s == task[t]
           r == task'[t]
<1>1. task \in [Task -> TaskState] /\ s \in TaskState
  BY TaskFields
<1>2. s.pc \in {"lock", "lockwait", "check"}
  BY DEF EnterLock, LockGranted, Check, At
<1>3. CASE EnterLock(t) \/ LockGranted(t)
  <2>1. \/ task' = [task EXCEPT ![t].pc = "check", ![t].how = "nested"]
        \/ task' = [task EXCEPT ![t].pc = "check", ![t].how = "owned"]
        \/ task' = [task EXCEPT ![t].pc = "lockwait"]
    BY <1>3 DEF EnterLock, LockGranted, Goto
  <2>2. Only(t) /\ SameEvent(s, r) /\ r.pc \in {"check", "lockwait"}
    BY <1>1, <2>1 DEF Only, SameEvent, TaskState
  <2>3. QED
    BY <1>2, <2>2, OneMoves DEF Moved, Enters
<1>4. CASE Check(t)
  <2> DEFINE p == IF signal[s.ev] THEN "unlock" ELSE "select"
  <2>1. task' = [task EXCEPT ![t].pc = p]
    BY <1>4 DEF Check, Goto
  <2> HIDE DEF p
  <2>2. Only(t) /\ SameEvent(s, r) /\ r.pc = p
    BY <1>1, <2>1 DEF Only, SameEvent, TaskState
  <2>3. QED
    BY <1>2, <2>2, OneMoves DEF Moved, Enters, p
<1>5. QED
  BY <1>3, <1>4

\* The choice of the handlers that would not forward in a loop.
LEMMA SelectMoves ==
    ASSUME TypeOK, NEW t \in Task, Select(t)
    PROVE  MovesAlone(t)
<1> DEFINE s == task[t]
           r == task'[t]
           hs == {h \in HandlersFor[s.bus][s.ev] : ~WouldCreateLoop(s.ev, h)}
<1>1. task \in [Task -> TaskState] /\ s \in TaskState
  BY TaskFields
<1>2. s.pc = "select" /\ task' = [task EXCEPT ![t].pc = "create", ![t].todo = hs]
  BY DEF Select, At
<1> HIDE DEF hs
<1>3. Only(t) /\ SameEvent(s, r) /\ r.pc = "create" /\ r.todo = hs
  BY <1>1, <1>2 DEF Only, SameEvent, TaskState
<1>4. QED
  BY <1>2, <1>3, OneMoves DEF Moved, Chooses, hs

\* The next handler in turn.
LEMMA TurnMoves ==
    ASSUME TypeOK, NEW t \in Task, NextHandler(t)
    PROVE  MovesAlone(t)
<1> DEFINE s == task[t]
           r == task'[t]
<1>1. task \in [Task -> TaskState] /\ s \in TaskState
  BY TaskFields
<1>2. s.pc = "next"
  BY DEF NextHandler, At
<1>3. CASE s.todo = {}
  <2>1. task' = [task EXCEPT ![t].pc = "end"]
    BY <1>3 DEF NextHandler, Goto
  <2>2. Only(t) /\ SameEvent(s, r) /\ r.pc = "end"
    BY <1>1, <2>1 DEF Only, SameEvent, TaskState
  <2>3. QED
    BY <1>2, <1>3, <2>2, OneMoves DEF Moved, Turned
<1>4. CASE s.todo # {}
  <2>1. PICK h \in s.todo, p \in {"start", "hwait"} :
           task' = [task EXCEPT ![t].pc = p, ![t].cur = h, ![t].todo = s.todo \ {h}]
    BY <1>4 DEF NextHandler
  <2>2. Only(t) /\ SameEvent(s, r) /\ r.pc = p /\ r.cur = h /\ r.todo = s.todo \ {h}
    BY <1>1, <2>1 DEF Only, SameEvent, TaskState
  <2>3. QED
    BY <1>2, <2>2, OneMoves DEF Moved, Turned
<1>5. QED
  BY <1>3, <1>4

\* The handler is called, or passed over.
LEMMA CallMoves ==
    ASSUME TypeOK, NEW t \in Task, HandlerLockGranted(t) \/ Start(t)
    PROVE  MovesAlone(t)
<1> DEFINE s == task[t]
           r == task'[t]
<1>1. task \in [Task -> TaskState] /\ s \in TaskState
  BY TaskFields
<1>2. \/ s.pc = "hwait" /\ task' = [task EXCEPT ![t].pc = "start"]
      \/ s.pc = "start" /\ task' = [task EXCEPT ![t].pc = "body"]
      \/ s.pc = "start" /\ task' = [task EXCEPT ![t].pc = "next", ![t].cur = NoHandler]
  BY DEF HandlerLockGranted, Start, At, Goto
<1>3. Only(t) /\ Calls(s, r)
  BY <1>1, <1>2 DEF Only, Calls, SameEvent, TaskState
<1>4. QED
  BY <1>3, OneMoves DEF Moved

\* The end of an event on a bus, and the walk to its ancestors.
LEMMA EndMoves ==
    ASSUME TypeOK, NEW t \in Task, End(t) \/ Unlock(t) \/ Propagate(t)
    PROVE  MovesAlone(t)
<1> DEFINE s == task[t]
           r == task'[t]
<1>1. task \in [Task -> TaskState] /\ s \in TaskState
  BY TaskFields
<1>2. \/ s.pc = "end" /\ task' = [task EXCEPT ![t].pc = "unlock"]
      \/ s.pc = "unlock" /\ task' = [task EXCEPT ![t].pc = "prop", ![t].up = s.ev, ![t].how = "none"]
      \/ s.pc = "prop" /\ parent[s.up] = NoEvent /\ task' = [task EXCEPT ![t].pc = "after"]
      \/ s.pc = "prop" /\ parent[s.up] # NoEvent /\ task' = [task EXCEPT ![t].up = parent[s.up]]
  BY DEF End, Unlock, Propagate, At, Goto
<1>3. Only(t) /\ Ends(s, r)
  BY <1>1, <1>2 DEF Only, Ends, SameEvent, TaskState
<1>4. QED
  BY <1>3, OneMoves DEF Moved

\* The results of the chosen handlers are reset.
LEMMA CreateMoves ==
    ASSUME TypeOK, NEW t \in Task, Create(t)
    PROVE  MovesAlone(t)
<1> DEFINE s == task[t]
           r == task'[t]
<1>1. /\ s \in TaskState /\ TaskOK(t, s) /\ task \in [Task -> TaskState]
      /\ result \in [Event -> [Handler -> ResultStatus]]
  BY TaskFields, TypeParts DEF ResultTypes
<1>2. s.pc = "create" /\ s.ev \in Event /\ s.todo \subseteq Handler
  BY <1>1 DEF Create, At, TaskOK, Working, TaskState
<1>3. task' = [task EXCEPT ![t].pc = IF s.todo = {} THEN "end" ELSE "next"]
  BY DEF Create, Goto
<1>4. /\ Only(t) /\ SameEvent(s, r) /\ r.todo = s.todo
      /\ r.pc = IF s.todo = {} THEN "end" ELSE "next"
  BY <1>1, <1>3 DEF Only, SameEvent, TaskState
<1>5. \A h \in s.todo : result'[s.ev][h] = "pending"
  <2>1. s.todo # {} =>
            result' = [result EXCEPT ![s.ev] =
                         [h \in Handler |-> IF h \in s.todo THEN "pending" ELSE result[s.ev][h]]]
    BY DEF Create
  <2> HIDE DEF s
  <2>2. QED
    BY <1>1, <1>2, <2>1
<1>6. QED
  BY <1>2, <1>4, <1>5, OneMoves DEF Moved, Resets

\* Nobody moves but a run loop that is started again.
LEMMA RestartAside ==
    ASSUME TypeOK, NEW b \in Bus, NEW r \in [Task -> TaskState], task' = Restarted(b, r),
           NEW u \in Task, r[u] = task[u]
    PROVE  Aside(u)
<1>1. CASE r[b].pc = "dead" /\ u = b
  <2>1. task'[u] = Fresh("get")
    BY <1>1 DEF Restarted
  <2>2. QED
    BY <1>1, <2>1 DEF Aside, Leaves, Fresh
<1>2. CASE ~(r[b].pc = "dead" /\ u = b)
  BY <1>2 DEF Restarted, Aside
<1>3. QED
  BY <1>1, <1>2

\* A task as it is when it has returned from a handler.
LEMMA ReturnedFields ==
    ASSUME TypeOK, NEW t \in Task, task[t].pc \in Running
    PROVE  LET r == Returned(t)  s == task[t] IN
           /\ r \in [Task -> TaskState] /\ \A u \in Task \ {t} : r[u] = task[u]
           /\ r[t].pc = "next" /\ SameEvent(s, r[t]) /\ r[t].todo = s.todo
<1>1. task \in [Task -> TaskState] /\ task[t] \in TaskState
  BY TaskFields
<1>2. [task[t] EXCEPT !.pc = "next", !.cur = NoHandler] \in TaskState
  BY <1>1 DEF TaskState, PC
<1>3. Returned(t) = [task EXCEPT ![t] = [task[t] EXCEPT !.pc = "next", !.cur = NoHandler]]
  BY <1>1 DEF Returned
<1>4. QED
  BY <1>1, <1>2, <1>3 DEF SameEvent, TaskState

\* A handler ends.
LEMMA ReturnMoves ==
    ASSUME TypeOK, NEW t \in Task, HReturn(t)
    PROVE  MovesAlone(t)
<1>1. task[t].pc \in {"body", "sent"}
  BY DEF HReturn, At
<1>2. /\ Returned(t) \in [Task -> TaskState] /\ \A u \in Task \ {t} : Returned(t)[u] = task[u]
      /\ Calls(task[t], Returned(t)[t])
  BY <1>1, ReturnedFields DEF Running, Calls
<1>3. QED
  BY <1>2 DEF MovesAlone, HReturn, Moved, Aside

\* A handler has forwarded its event.
LEMMA ForwardMoves ==
    ASSUME TypeOK, NEW t \in Task, HForward(t)
    PROVE  MovesAlone(t) /\ task'[t].pc = "sent" /\ task'[t].cur = task[t].cur
<1> DEFINE s == [task[t] EXCEPT !.pc = "sent"]
           r == [task EXCEPT ![t] = s]
<1>1. PICK b \in Bus :
         /\ task[t].pc = "body"
         /\ s \in TaskState /\ r \in [Task -> TaskState]
         /\ task' = Restarted(b, r) /\ task'[t] = s
         /\ \A u \in Task \ {t} : r[u] = task[u]
  BY ForwardShape
<1>2. task[t] \in TaskState
  BY TaskFields
<1>3. SameEvent(task[t], s) /\ s.pc = "sent" /\ s.todo = task[t].todo /\ s.cur = task[t].cur
  BY <1>2 DEF SameEvent, TaskState
<1> HIDE DEF s, r
<1>4. \A u \in Task \ {t} : Aside(u)
  BY <1>1, RestartAside
<1>5. Calls(task[t], task'[t])
  BY <1>1, <1>3 DEF Calls, Running
<1>6. QED
  BY <1>1, <1>3, <1>4, <1>5 DEF MovesAlone, Moved

\* When one task moves and another, whose now() is over, is idle again, it moves
\* alone.
LEMMA TwoMoves ==
    ASSUME TypeOK, NEW t \in Task, NEW j \in Task \ {t}, NEW r,
           task' = [task EXCEPT ![t] = r, ![j] = Fresh("idle")],
           task[j].pc \in {"done", "failed"}, Moved(task[t], r)
    PROVE  MovesAlone(t) /\ task'[t] = r
<1>1. task'[t] = r /\ task'[j] = Fresh("idle") /\ \A u \in Task \ {t, j} : task'[u] = task[u]
  BY TaskFields
<1>2. Fresh("idle").pc = "idle"
  BY DEF Fresh
<1>3. \A u \in Task \ {t} : Aside(u)
  BY <1>1, <1>2 DEF Aside, Leaves
<1>4. QED
  BY <1>1, <1>3 DEF MovesAlone

\* CancelledError takes a task from its handler to the end of the step.
LEMMA CancelMoves ==
    ASSUME TypeOK, NEW t \in Task, HCancel(t) \/ HAwaitCancelled(t)
    PROVE  MovesAlone(t)
<1> DEFINE r == Broken(task[t])
<1>1. task[t] \in TaskState
  BY TaskFields
<1>2. r.pc = "unlock" /\ r.todo = {} /\ r.ev = task[t].ev /\ r.bus = task[t].bus
  BY <1>1, BrokenFields
<1>3. task[t].pc \in Running
  BY CancelShape DEF Running
<1> HIDE DEF r
<1>4. Moved(task[t], r)
  BY <1>2, <1>3 DEF Moved, Breaks, SameEvent
<1>5. CASE HCancel(t)
  <2>1. task' = [task EXCEPT ![t] = r]
    BY <1>5, CancelShape DEF r
  <2>2. QED
    BY <1>4, <2>1, Given, OneMoves
<1>6. CASE HAwaitCancelled(t)
  <2>1. PICK j \in Jumper :
           /\ task[j].pc = "failed" /\ j \in Task /\ j # t
           /\ task' = [task EXCEPT ![t] = r, ![j] = Fresh("idle")]
    BY <1>6, CancelShape DEF r
  <2>2. QED
    BY <1>4, <2>1, TwoMoves
<1>7. QED
  BY <1>5, <1>6

\* A handler goes on when a now() that it awaits is done.
LEMMA ResumeMoves ==
    ASSUME TypeOK, NEW t \in Task, HResume(t)
    PROVE  MovesAlone(t)
<1>1. PICK j \in Jumper :
         /\ task[t].pc = "await" /\ task[j].pc = "done"
         /\ j \in Task /\ j # t
         /\ task' = [task EXCEPT ![t] = Dropped(task[t], j), ![j] = Fresh("idle")]
  BY ResumeShape
<1> DEFINE r == Dropped(task[t], j)
<1>2. task[t] \in TaskState
  BY TaskFields
<1>3. /\ r.pc \in {"body", "await"} /\ r.todo = task[t].todo /\ r.cur = task[t].cur
      /\ r.ev = task[t].ev /\ r.bus = task[t].bus
  BY <1>2, DroppedFields
<1>4. task' = [task EXCEPT ![t] = r, ![j] = Fresh("idle")]
  BY <1>1
<1> HIDE DEF r
<1>5. Moved(task[t], r)
  BY <1>1, <1>3 DEF Moved, Calls, Running, SameEvent
<1>6. QED
  BY <1>1, <1>4, <1>5, TwoMoves

\* A handler goes on without one.
LEMMA LeaveMoves ==
    ASSUME TypeOK, NEW t \in Task, HLeave(t)
    PROVE  MovesAlone(t)
<1>1. PICK j \in Jumper : task[t].pc = "await" /\ task' = [task EXCEPT ![t] = Dropped(task[t], j)]
  BY LeaveShape
<1> DEFINE r == Dropped(task[t], j)
<1>2. task[t] \in TaskState
  BY TaskFields
<1>3. /\ r.pc \in {"body", "await"} /\ r.todo = task[t].todo /\ r.cur = task[t].cur
      /\ r.ev = task[t].ev /\ r.bus = task[t].bus
  BY <1>2, DroppedFields
<1>4. task' = [task EXCEPT ![t] = r]
  BY <1>1
<1> HIDE DEF r
<1>5. Moved(task[t], r)
  BY <1>1, <1>3 DEF Moved, Calls, Running, SameEvent
<1>6. QED
  BY <1>4, <1>5, Given, OneMoves

\* The child that a handler awaits was emitted.
LEMMA AwaitMoves ==
    ASSUME LInv, NEW t \in Task, NEW c \in Event, NEW j \in Jumper, HAwait(t, c, j)
    PROVE  MovesAlone(t)
<1> DEFINE s == task[t]
           r == Awaiting(s, j)
           f == [Fresh("poll") EXCEPT !.ev = c]
<1>1. TypeOK /\ s \in TaskState /\ TaskOK(t, s)
  BY TaskFields DEF LInv, IInv
<1>2. /\ s.pc \in {"body", "await"} /\ task[j].pc = "idle" /\ j \in Task /\ j # t
      /\ task' = [task EXCEPT ![t] = r, ![j] = f]
  BY <1>1, AwaitShape
<1>3. parent[c] = s.ev /\ s.ev \in Event
  BY <1>1, <1>2 DEF HAwait, TaskOK, Working
<1>4. status[c] # "new"
  BY <1>3, NamesAssumption DEF LInv, Kin, NewIsAlone
<1>5. /\ r.pc = "await" /\ r.todo = s.todo /\ r.cur = s.cur /\ r.ev = s.ev /\ r.bus = s.bus
      /\ f.pc = "poll" /\ f.ev = c
  BY <1>1, AwaitingFields DEF Fresh
<1> HIDE DEF r, f
<1>6. task'[t] = r /\ task'[j] = f /\ \A u \in Task \ {t, j} : task'[u] = task[u]
  BY <1>1, <1>2, TaskFields
<1>7. \A u \in Task \ {t} : Aside(u)
  BY <1>2, <1>4, <1>5, <1>6 DEF Aside, Turns
<1>8. QED
  BY <1>2, <1>5, <1>6, <1>7 DEF MovesAlone, Moved, Calls, Running, SameEvent

\* Steps of the task of a now().
LEMMA JumpMoves ==
    ASSUME TypeOK, NEW j \in Jumper, Jump(j)
    PROVE  MovesAlone(j)
<1> DEFINE s == task[j]
           r == task'[j]
<1>1. task \in [Task -> TaskState] /\ s \in TaskState /\ TaskOK(j, s) /\ j \in Task
  BY TaskFields DEF Task
<1>2. CASE JumpYield(j)
  BY <1>2 DEF JumpYield, MovesAlone, Aside, Moved
<1>3. CASE JumpGiveUp(j)
  <2>1. s.pc = "poll" /\ task' = [task EXCEPT ![j].pc =
            IF status[s.ev] = "started" \/ \E b \in Bus : InUse(b, s.ev) THEN "sigwait" ELSE "done"]
    BY <1>3 DEF JumpGiveUp, NothingToDo, Polling, At, Goto
  <2>2. /\ Only(j) /\ SameEvent(s, r)
        /\ r.pc = IF status[s.ev] = "started" \/ \E b \in Bus : InUse(b, s.ev) THEN "sigwait" ELSE "done"
    BY <1>1, <2>1 DEF Only, SameEvent, TaskState
  <2>3. QED
    BY <1>1, <2>1, <2>2, OneMoves DEF Moved, Waits, SameEvent
<1>4. CASE JumpDone(j)
  <2>1. s.pc \in {"poll", "sigwait"} /\ signal[s.ev] /\ task' = [task EXCEPT ![j].pc = "done"]
    BY <1>4 DEF JumpDone, At, Goto
  <2>2. Only(j) /\ r.ev = s.ev /\ r.pc = "done"
    BY <1>1, <2>1 DEF Only, TaskState
  <2>3. QED
    BY <1>1, <2>1, <2>2, OneMoves DEF Moved, Waits
<1>5. CASE JumpAgain(j)
  <2>1. s.pc = "after"
    BY <1>5 DEF JumpAgain, At
  <2> DEFINE f == [Fresh("poll") EXCEPT !.ev = s.ev, !.claimed = s.claimed]
  <2>2. task' = [task EXCEPT ![j].pc = "failed"] \/ task' = [task EXCEPT ![j] = f]
    BY <1>5 DEF JumpAgain, Goto
  <2>3. f.pc = "poll" /\ f.ev = s.ev
    BY DEF Fresh
  <2> HIDE DEF f
  <2>4. Only(j) /\ r.ev = s.ev /\ r.pc \in {"failed", "poll"}
    BY <1>1, <2>2, <2>3 DEF Only, TaskState
  <2>5. QED
    BY <1>1, <2>1, <2>4, OneMoves DEF Moved, Waits
<1>6. ASSUME NEW b \in Bus, JumpTake(j, b) PROVE MovesAlone(j)
  <2>1. s.pc = "poll" /\ ~signal[s.ev]
    BY <1>6 DEF JumpTake, Polling, At
  <2>2. s.ev \in Range(queue[b]) /\ queue[b] # <<>>
    <3>1. PICK i \in 1..Len(queue[b]) : queue[b][i] = s.ev
      BY <1>6 DEF JumpTake
    <3>2. queue[b] \in Seq(Event)
      BY TypeParts DEF BusTypes
    <3>3. QED
      BY <3>1, <3>2 DEF Range
  <2>3. Only(j) /\ r.ev = s.ev /\ r.pc = "select" /\ r.bus = b
    BY <1>1, <1>6 DEF JumpTake, Only, TaskState
  <2>4. QED
    BY <1>1, <2>1, <2>2, <2>3, OneMoves DEF Moved, Takes
<1>7. ASSUME NEW b \in Bus, JumpJoin(j, b) PROVE MovesAlone(j)
  <2>1. s.pc = "poll" /\ s.ev \notin Range(queue[b]) /\ s.ev \in processing[b]
    BY <1>7 DEF JumpJoin, Polling, CanJoin, At
  <2>2. Only(j) /\ r.ev = s.ev /\ r.pc = "lock" /\ r.bus = b
    BY <1>1, <1>7 DEF JumpJoin, Only, TaskState
  <2>3. QED
    BY <1>1, <2>1, <2>2, OneMoves DEF Moved, Joins
<1>8. QED
  BY <1>2, <1>3, <1>4, <1>5, <1>6, <1>7 DEF Jump

\* Emissions and now() from outside move no task that has an event.
LEMMA OutsideMoves ==
    ASSUME TypeOK, Outside, NEW u \in Task
    PROVE  Aside(u)
<1>1. ASSUME NEW b \in Bus, NEW e \in Event, ExtEmit(b, e) PROVE Aside(u)
  <2>1. task' = Restarted(b, task) /\ task \in [Task -> TaskState]
    BY <1>1, TaskFields DEF ExtEmit
  <2>2. QED
    BY <2>1, RestartAside
<1>2. ASSUME NEW j \in Jumper, NEW e \in Event, ExtAwait(j, e) PROVE Aside(u)
  <2> DEFINE r == [Fresh("poll") EXCEPT !.ev = e]
  <2>1. j \in Task /\ task[j].pc = "idle" /\ status[e] # "new" /\ task' = [task EXCEPT ![j] = r]
    BY <1>2 DEF ExtAwait, Task
  <2>2. r.pc = "poll" /\ r.ev = e
    BY DEF Fresh
  <2> HIDE DEF r
  <2>3. task'[j] = r /\ \A v \in Task \ {j} : task'[v] = task[v]
    BY <2>1, TaskFields
  <2>4. QED
    BY <2>1, <2>2, <2>3 DEF Aside, Turns
<1>3. QED
  BY <1>1, <1>2 DEF Outside

\* Steps in a handler's body.
LEMMA BodyMoves ==
    ASSUME LInv, NEW t \in Task, Body(t)
    PROVE  MovesAlone(t)
<1>1. TypeOK
  BY DEF LInv, IInv
<1>2. ASSUME NEW c \in Event, HEmit(t, c) PROVE MovesAlone(t)
  <2>1. task[t].pc \in {"body", "await"}
    BY <1>2 DEF HEmit, InHandler, At
  <2>2. task[t].bus \in Bus /\ task \in [Task -> TaskState]
    BY <1>1, <2>1, TaskFields DEF TaskOK, Working
  <2>3. \A u \in Task : Aside(u)
    BY <1>1, <1>2, <2>2, RestartAside DEF HEmit
  <2>4. QED
    BY <2>3 DEF MovesAlone, Moved, Aside
<1>3. QED
  BY <1>1, <1>2, ReturnMoves, ForwardMoves, CancelMoves, ResumeMoves, LeaveMoves, AwaitMoves DEF Body

\* Whose step it is.
Acts(t) ==
    \/ Process(t) \/ Body(t)
    \/ t \in Bus /\ (LoopGet(t) \/ LoopAgain(t))
    \/ t \in Jumper /\ Jump(t)

\* A step is one of a task, from outside, or none; only the task that acts moves.
LEMMA Actor ==
    ASSUME LInv, [Next]_vars
    PROVE  \/ UNCHANGED vars \/ Outside
           \/ \E t \in Task : Acts(t) /\ MovesAlone(t)
<1>1. TypeOK
  BY DEF LInv, IInv
<1>2. ASSUME NEW t \in Task, Process(t) PROVE MovesAlone(t)
  BY <1>1, <1>2, EnterMoves, SelectMoves, CreateMoves, TurnMoves, CallMoves, EndMoves DEF Process
<1>3. Bus \subseteq Task /\ Jumper \subseteq Task
  BY DEF Task
<1>4. QED
  BY <1>1, <1>2, <1>3, BodyMoves, LoopMoves, JumpMoves DEF Next, Acts

\* Whatever the step, every task moves from place to place in these ways.
LEMMA Moves ==
    ASSUME LInv, [Next]_vars, NEW u \in Task
    PROVE  Moved(task[u], task'[u]) /\ (Aside(u) \/ Acts(u))
<1>1. TypeOK
  BY DEF LInv, IInv
<1>2. CASE UNCHANGED vars
  BY <1>2 DEF vars, Moved, Aside
<1>3. CASE Outside
  BY <1>1, <1>3, OutsideMoves DEF Moved, Aside
<1>4. ASSUME NEW t \in Task, Acts(t), MovesAlone(t) PROVE Moved(task[u], task'[u]) /\ (Aside(u) \/ Acts(u))
  BY <1>4 DEF MovesAlone, Moved, Aside
<1>5. QED
  BY <1>2, <1>3, <1>4, Actor

-----------------------------------------------------------------------------
(* What a step does to queues, events and results *)

\* Task t takes event e from the queue of bus b.
Dequeues(t, b, e) ==
    /\ e \in Range(queue[b])
    /\ task'[t].pc \in {"lock", "select"} /\ task'[t].ev = e /\ task'[t].bus = b
    /\ processing' = [processing EXCEPT ![b] = processing[b] \cup {e}]
    /\ \A a \in Bus \ {b} : queue'[a] = queue[a]
    /\ Range(queue'[b]) \subseteq Range(queue[b])
    /\ Range(queue[b]) \subseteq Range(queue'[b]) \cup {e}
    /\ Distinct(queue[b]) => Distinct(queue'[b]) /\ e \notin Range(queue'[b])
    /\ UNCHANGED <<inflight, eventVars, resultVars>>

\* Taking one position out of a queue.
LEMMA RemovedRange ==
    ASSUME NEW s \in Seq(Event), NEW i \in 1..Len(s), NEW r \in Seq(Event), Len(r) = Len(s) - 1,
           \A k \in 1..(Len(s) - 1) : r[k] = IF k < i THEN s[k] ELSE s[k + 1]
    PROVE  /\ s[i] \in Range(s) /\ Range(r) \subseteq Range(s) /\ Range(s) \subseteq Range(r) \cup {s[i]}
           /\ Distinct(s) => Distinct(r) /\ s[i] \notin Range(r)
<1>1. Len(s) \in Nat /\ i \in Nat /\ i <= Len(s) /\ 1 <= i
  OBVIOUS
<1>2. ASSUME NEW k \in 1..(Len(s) - 1)
      PROVE  \E m \in 1..Len(s) : m # i /\ r[k] = s[m] /\ m = IF k < i THEN k ELSE k + 1
  BY <1>1
<1>3. \A x : x \in Range(r) <=> \E k \in 1..(Len(s) - 1) : r[k] = x
  BY RangeIndex
<1>4. \A x : x \in Range(s) <=> \E k \in 1..Len(s) : s[k] = x
  BY RangeIndex
<1>5. ASSUME NEW m \in 1..Len(s), m # i PROVE s[m] \in Range(r)
  <2>1. CASE m < i
    BY <1>1, <1>3, <2>1
  <2>2. CASE m > i
    <3>1. m - 1 \in 1..(Len(s) - 1) /\ ~(m - 1 < i) /\ m - 1 + 1 = m
      BY <1>1, <2>2
    <3>2. QED
      BY <1>3, <3>1
  <2>3. QED
    BY <1>1, <1>5, <2>1, <2>2
<1>6. Range(r) \subseteq Range(s)
  BY <1>2, <1>3, <1>4
<1>7. Range(s) \subseteq Range(r) \cup {s[i]}
  BY <1>4, <1>5
<1>8. ASSUME Distinct(s) PROVE Distinct(r) /\ s[i] \notin Range(r)
  <2>1. s[i] \notin Range(r)
    BY <1>2, <1>3, <1>8 DEF Distinct
  <2>2. ASSUME NEW j \in 1..(Len(s) - 1), NEW k \in 1..(Len(s) - 1), r[j] = r[k] PROVE j = k
    <3>1. (IF j < i THEN j ELSE j + 1) = (IF k < i THEN k ELSE k + 1)
      BY <1>2, <1>8, <2>2 DEF Distinct
    <3>2. QED
      BY <1>1, <3>1
  <2>3. QED
    BY <2>1, <2>2 DEF Distinct
<1>9. QED
  BY <1>4, <1>6, <1>7, <1>8

\* The run loop takes the head of its queue.
LEMMA LoopDequeues ==
    ASSUME TypeOK, NEW b \in Bus, LoopGet(b)
    PROVE  \E e \in Event : Dequeues(b, b, e)
<1> DEFINE s == queue[b]
           e == Head(s)
           r == [Fresh("lock") EXCEPT !.ev = e, !.bus = b]
<1>1. queue \in [Bus -> Seq(Event)] /\ processing \in [Bus -> SUBSET Event] /\ b \in Task
  BY TypeParts DEF BusTypes, Task
<1>2. s # <<>> /\ task' = [task EXCEPT ![b] = r] /\ queue' = [queue EXCEPT ![b] = Tail(s)]
      /\ processing' = [processing EXCEPT ![b] = processing[b] \cup {e}]
      /\ UNCHANGED <<inflight, eventVars, resultVars>>
  BY DEF LoopGet
<1>3. /\ Tail(s) \in Seq(Event) /\ Len(Tail(s)) = Len(s) - 1 /\ e = s[1] /\ e \in Event
      /\ \A j \in 1..(Len(s) - 1) : Tail(s)[j] = s[j + 1]
  BY <1>1, <1>2, TailOfSeq
<1>4. 1 \in 1..Len(s) /\ \A k \in 1..(Len(s) - 1) : ~(k < 1)
  BY <1>1, <1>2
<1>5. r.pc = "lock" /\ r.ev = e /\ r.bus = b
  BY DEF Fresh
<1>6. queue'[b] = Tail(s) /\ \A a \in Bus \ {b} : queue'[a] = queue[a]
  BY <1>1, <1>2
<1>7. s \in Seq(Event)
  BY <1>1
<1> HIDE DEF r, e, s
<1>8. task'[b] = r
  BY <1>1, <1>2, TaskFields
<1>9. /\ e \in Range(s) /\ Range(Tail(s)) \subseteq Range(s) /\ Range(s) \subseteq Range(Tail(s)) \cup {e}
      /\ Distinct(s) => Distinct(Tail(s)) /\ e \notin Range(Tail(s))
  <2>1. \A k \in 1..(Len(s) - 1) : Tail(s)[k] = IF k < 1 THEN s[k] ELSE s[k + 1]
    BY <1>3, <1>4
  <2>2. QED
    BY <1>3, <1>4, <1>7, <2>1, RemovedRange
<1>10. Dequeues(b, b, e)
  BY <1>2, <1>5, <1>6, <1>8, <1>9 DEF Dequeues, s
<1>11. QED
  BY <1>3, <1>10

\* A jumper takes its event from wherever it is in a queue.
LEMMA JumpDequeues ==
    ASSUME TypeOK, NEW j \in Jumper, NEW b \in Bus, JumpTake(j, b)
    PROVE  \E e \in Event : Dequeues(j, b, e)
<1> DEFINE s == queue[b]
           e == task[j].ev
<1>1. queue \in [Bus -> Seq(Event)] /\ processing \in [Bus -> SUBSET Event] /\ j \in Task
  BY TypeParts DEF BusTypes, Task
<1>2. task \in [Task -> TaskState] /\ task[j].pc = "poll" /\ e \in Event
  BY <1>1, TaskFields DEF JumpTake, Polling, At, TaskOK
<1>3. PICK i \in 1..Len(s) : s[i] = e /\ queue' = [queue EXCEPT ![b] = RemoveAt(s, i)]
  BY DEF JumpTake
<1>4. task' = [task EXCEPT ![j].pc = "select", ![j].bus = b, ![j].how = "bypass"]
      /\ processing' = [processing EXCEPT ![b] = processing[b] \cup {e}]
      /\ UNCHANGED <<inflight, eventVars, resultVars>>
  BY DEF JumpTake
<1>5. task'[j].pc = "select" /\ task'[j].ev = e /\ task'[j].bus = b
  <2>1. task[j] \in TaskState
    BY <1>1, <1>2
  <2>2. QED
    BY <1>1, <1>2, <1>4, <2>1 DEF TaskState
<1>6. s \in Seq(Event) /\ queue'[b] = RemoveAt(s, i) /\ \A a \in Bus \ {b} : queue'[a] = queue[a]
  BY <1>1, <1>3
<1> HIDE DEF e, s
<1>7. /\ e \in Range(s) /\ Range(RemoveAt(s, i)) \subseteq Range(s)
      /\ Range(s) \subseteq Range(RemoveAt(s, i)) \cup {e}
      /\ Distinct(s) => Distinct(RemoveAt(s, i)) /\ e \notin Range(RemoveAt(s, i))
  <2> DEFINE r == RemoveAt(s, i)
  <2>1. s \in Seq(Event) /\ s[i] = e
    BY <1>3, <1>6
  <2>2. r \in Seq(Event) /\ Len(r) = Len(s) - 1
        /\ \A k \in 1..(Len(s) - 1) : r[k] = IF k < i THEN s[k] ELSE s[k + 1]
    BY <2>1, RemoveAtOfSeq
  <2> HIDE DEF r
  <2>3. /\ e \in Range(s) /\ Range(r) \subseteq Range(s) /\ Range(s) \subseteq Range(r) \cup {e}
        /\ Distinct(s) => Distinct(r) /\ e \notin Range(r)
    BY <2>1, <2>2, RemovedRange
  <2>4. QED
    BY <2>3 DEF r
<1>8. Dequeues(j, b, e)
  BY <1>3, <1>4, <1>5, <1>6, <1>7 DEF Dequeues, s
<1>9. QED
  BY <1>2, <1>8

\* A handler ends without emitting.
Settles(t) == HReturn(t) \/ HCancel(t) \/ HAwaitCancelled(t)

\* Steps that neither queue, take, complete nor begin or end anything.
Idles == UNCHANGED <<busVars, eventVars, resultVars>>

\* The kinds of steps.
LEMMA Kinds ==
    ASSUME LInv, [Next]_vars
    PROVE  \/ Idles
           \/ \E t \in Task, b \in Bus, e \in Event : Dequeues(t, b, e)
           \/ \E b \in Bus, e \in Event : ExtEmit(b, e)
           \/ \E t \in Task, c \in Event : HEmit(t, c)
           \/ \E t \in Task, c \in Event, j \in Jumper : HAwait(t, c, j)
           \/ \E t \in Task : HForward(t) \/ Settles(t) \/ Create(t) \/ Start(t)
           \/ \E t \in Task : End(t) \/ Unlock(t) \/ Propagate(t)
<1>1. TypeOK /\ Bus \subseteq Task /\ Jumper \subseteq Task
  BY DEF LInv, IInv, Task
<1>2. ASSUME NEW t \in Task, Process(t)
      PROVE  Idles \/ Create(t) \/ Start(t) \/ End(t) \/ Unlock(t) \/ Propagate(t)
  BY <1>2 DEF Process, Idles, EnterLock, LockGranted, Check, Select, NextHandler, HandlerLockGranted
<1>3. ASSUME NEW t \in Task, HResume(t) \/ HLeave(t) PROVE Idles
  BY <1>3 DEF HResume, HLeave, Idles
<1>4. ASSUME NEW b \in Bus, LoopAgain(b) PROVE Idles
  BY <1>4 DEF LoopAgain, Idles
<1>5. ASSUME NEW j \in Jumper, Jump(j)
      PROVE  Idles \/ \E b \in Bus : JumpTake(j, b)
  BY <1>5 DEF Jump, JumpYield, JumpGiveUp, JumpDone, JumpAgain, JumpJoin, Idles
<1>6. ASSUME NEW j \in Jumper, NEW e \in Event, ExtAwait(j, e) PROVE Idles
  BY <1>6 DEF ExtAwait, Idles
<1>7. ASSUME UNCHANGED vars PROVE Idles
  BY <1>7 DEF vars, Idles
<1>8. CASE Outside
  BY <1>6, <1>8 DEF Outside
<1>9. ASSUME NEW t \in Task, Body(t) PROVE
           \/ Idles \/ HForward(t) \/ Settles(t) \/ \E c \in Event : HEmit(t, c)
           \/ \E c \in Event, j \in Jumper : HAwait(t, c, j)
  BY <1>3, <1>9 DEF Body, Settles
<1>10. ASSUME NEW t \in Task, Acts(t) PROVE
           \/ Idles \/ \E b \in Bus, e \in Event : Dequeues(t, b, e)
           \/ \E c \in Event : HEmit(t, c)
           \/ \E c \in Event, j \in Jumper : HAwait(t, c, j)
           \/ HForward(t) \/ Settles(t) \/ Create(t) \/ Start(t)
           \/ End(t) \/ Unlock(t) \/ Propagate(t)
  BY <1>1, <1>2, <1>4, <1>5, <1>9, <1>10, LoopDequeues, JumpDequeues DEF Acts
<1>11. QED
  BY <1>7, <1>8, <1>10, Actor

\* What emit() on bus b does to event e, and to no other.
Noted(b, e, p, h) ==
    /\ UNCHANGED <<signal, blocks>>
    /\ \A x \in Event : /\ path'[x] = IF x = e THEN path[e] \cup {b} ELSE path[x]
                        /\ parent'[x] = IF x = e THEN p ELSE parent[x]
                        /\ link'[x] = IF x = e THEN h ELSE link[x]
                        /\ status'[x] = IF x = e /\ status[e] = "new" THEN "pending" ELSE status[x]
Queued(b, e) ==
    /\ UNCHANGED processing
    /\ \A a \in Bus : /\ Range(queue[a]) \subseteq Range(queue'[a])
                      /\ inflight[a] \subseteq inflight'[a]
                      /\ Range(queue'[a]) \cup inflight'[a] \subseteq
                            Range(queue[a]) \cup inflight[a] \cup {e}
    /\ \A a \in Bus \ {b} : queue'[a] = queue[a] /\ inflight'[a] = inflight[a]
    /\ IF status[e] = "completed" THEN UNCHANGED <<queue, inflight>>
       ELSE queue'[b] = Append(queue[b], e) /\ inflight'[b] = inflight[b] \cup {e}
            /\ Range(queue'[b]) = Range(queue[b]) \cup {e}

\* emit() does this.
LEMMA EmitGives ==
    ASSUME TypeOK, NEW b \in Bus, NEW e \in Event, NEW p, NEW h, Emit(b, e, p, h)
    PROVE  Noted(b, e, p, h) /\ Queued(b, e)
<1> USE DEF Noted, Queued
<1>1. /\ queue \in [Bus -> Seq(Event)] /\ inflight \in [Bus -> SUBSET Event]
      /\ status \in [Event -> Status] /\ path \in [Event -> SUBSET Bus]
      /\ parent \in [Event -> Event \cup {NoEvent}] /\ link \in [Event -> Handler \cup {NoHandler}]
  BY TypeParts DEF BusTypes, EventTypes
<1>2. UNCHANGED <<processing, signal, blocks>>
  BY DEF Emit
<1>3. \A x \in Event : /\ path'[x] = IF x = e THEN path[e] \cup {b} ELSE path[x]
                       /\ parent'[x] = IF x = e THEN p ELSE parent[x]
                       /\ link'[x] = IF x = e THEN h ELSE link[x]
  BY <1>1 DEF Emit
<1>4. \A x \in Event : status'[x] = IF x = e /\ status[e] = "new" THEN "pending" ELSE status[x]
  <2>1. CASE status[e] = "completed"
    BY <2>1 DEF Emit
  <2>2. CASE status[e] # "completed"
    BY <1>1, <2>2 DEF Emit
  <2>3. QED
    BY <2>1, <2>2
<1>5. CASE status[e] = "completed"
  <2>1. UNCHANGED <<queue, inflight>>
    BY <1>5 DEF Emit
  <2>2. QED
    BY <1>2, <1>3, <1>4, <1>5, <2>1
<1>6. CASE status[e] # "completed"
  <2>1. queue' = [queue EXCEPT ![b] = Append(queue[b], e)]
        /\ inflight' = [inflight EXCEPT ![b] = inflight[b] \cup {e}]
    BY <1>6 DEF Emit
  <2>2. queue'[b] = Append(queue[b], e) /\ inflight'[b] = inflight[b] \cup {e}
        /\ \A a \in Bus \ {b} : queue'[a] = queue[a] /\ inflight'[a] = inflight[a]
    BY <1>1, <2>1
  <2>3. Range(Append(queue[b], e)) = Range(queue[b]) \cup {e}
    <3>1. queue[b] \in Seq(Event)
      BY <1>1
    <3>2. QED
      BY <3>1, AppendRange
  <2>4. Range(queue'[b]) = Range(queue[b]) \cup {e}
    BY <2>2, <2>3
  <2>5. \A a \in Bus : /\ Range(queue[a]) \subseteq Range(queue'[a])
                       /\ inflight[a] \subseteq inflight'[a]
                       /\ Range(queue'[a]) \cup inflight'[a] \subseteq
                             Range(queue[a]) \cup inflight[a] \cup {e}
    BY <2>2, <2>4
  <2>6. QED
    BY <1>2, <1>3, <1>4, <1>6, <2>2, <2>4, <2>5
<1>7. QED
  BY <1>5, <1>6

\* Resetting the results of the chosen handlers opens no event that was complete.
LEMMA CreateGives ==
    ASSUME LInv, NEW t \in Task, Create(t)
    PROVE  LET e == task[t].ev  hs == task[t].todo IN
           /\ task[t].pc = "create" /\ e \in Event /\ hs \subseteq Handler
           /\ UNCHANGED <<busVars, eventVars>>
           /\ \A x \in Event : x # e => result'[x] = result[x]
           /\ \A h \in Handler : result'[e][h] = IF h \in hs THEN "pending" ELSE result[e][h]
<1> DEFINE e == task[t].ev
           hs == task[t].todo
<1>1. task[t].pc = "create"
  BY DEF Create, At
<1>2. e \in Event /\ hs \subseteq Handler /\ Placed(t)
  BY <1>1, TypeParts, ByTask DEF LInv, IInv, TaskTypes, TaskOK, TaskState, Working
<1>3. /\ status[e] # "completed" /\ status \in [Event -> Status]
      /\ result \in [Event -> [Handler -> ResultStatus]]
  BY <1>1, <1>2, TypeParts DEF Placed, Midway, LInv, Kin, SignalIsStatus, IInv, EventTypes, ResultTypes
<1>4. UNCHANGED <<busVars, signal, path, parent, link, blocks>>
  BY DEF Create
<1>5. CASE hs = {}
  <2>1. UNCHANGED <<result, status>>
    BY <1>5 DEF Create
  <2>2. QED
    BY <1>1, <1>2, <1>4, <1>5, <2>1 DEF eventVars
<1>6. CASE hs # {}
  <2>1. /\ result' = [result EXCEPT ![e] =
                        [h \in Handler |-> IF h \in hs THEN "pending" ELSE result[e][h]]]
        /\ status' = [status EXCEPT ![e] = IF status[e] = "completed" THEN "pending" ELSE status[e]]
    BY <1>6 DEF Create
  <2> HIDE DEF e, hs
  <2>2. status' = status
    BY <1>2, <1>3, <2>1
  <2>3. /\ \A x \in Event : x # e => result'[x] = result[x]
        /\ \A h \in Handler : result'[e][h] = IF h \in hs THEN "pending" ELSE result[e][h]
    BY <1>2, <1>3, <2>1
  <2>4. QED
    BY <1>1, <1>2, <1>4, <2>2, <2>3 DEF eventVars, e, hs
<1>7. QED
  BY <1>5, <1>6

\* Calling a handler, or passing over one that somebody else has run.
LEMMA StartGives ==
    ASSUME LInv, NEW t \in Task, Start(t)
    PROVE  LET e == task[t].ev  h == task[t].cur IN
           /\ task[t].pc = "start" /\ e \in Event /\ h \in Handler
           /\ UNCHANGED <<busVars, signal, path, parent, link, blocks>>
           /\ \/ result[e][h] \in Terminal /\ UNCHANGED <<result, status>> /\ task'[t].pc = "next"
              \/ /\ result[e][h] \notin Terminal /\ result'[e][h] = "started" /\ task'[t].pc = "body"
                 /\ \A x \in Event, g \in Handler : x # e \/ g # h => result'[x][g] = result[x][g]
                 /\ status'[e] = IF status[e] = "pending" THEN "started" ELSE status[e]
                 /\ \A x \in Event : x # e => status'[x] = status[x]
<1> DEFINE e == task[t].ev
           h == task[t].cur
<1>1. task[t].pc = "start"
  BY DEF Start, At
<1>2. e \in Event /\ h \in Handler
  BY <1>1, TypeParts DEF LInv, IInv, TaskTypes, TaskOK, Working
<1>3. /\ status \in [Event -> Status] /\ result \in [Event -> [Handler -> ResultStatus]]
      /\ task \in [Task -> TaskState] /\ task[t] \in TaskState
  BY TypeParts, TaskFields DEF LInv, IInv, EventTypes, ResultTypes
<1>4. UNCHANGED <<busVars, signal, path, parent, link, blocks>>
  BY DEF Start
<1>5. CASE result[e][h] \in Terminal
  <2>1. UNCHANGED <<result, status>> /\ task' = [task EXCEPT ![t].pc = "next", ![t].cur = NoHandler]
    BY <1>5 DEF Start, resultVars
  <2>2. task'[t].pc = "next"
    BY <1>3, <2>1 DEF TaskState
  <2>3. QED
    BY <1>1, <1>2, <1>4, <1>5, <2>1, <2>2
<1>6. CASE result[e][h] \notin Terminal
  <2>1. /\ result' = [result EXCEPT ![e][h] = "started"]
        /\ status' = [status EXCEPT ![e] = IF status[e] = "pending" THEN "started" ELSE status[e]]
        /\ task' = [task EXCEPT ![t].pc = "body"]
    BY <1>6 DEF Start, Goto
  <2>2. task'[t].pc = "body"
    BY <1>3, <2>1 DEF TaskState
  <2> HIDE DEF e, h
  <2>3. /\ result'[e][h] = "started"
        /\ \A x \in Event, g \in Handler : x # e \/ g # h => result'[x][g] = result[x][g]
    BY <1>2, <1>3, <2>1
  <2>4. /\ status'[e] = IF status[e] = "pending" THEN "started" ELSE status[e]
        /\ \A x \in Event : x # e => status'[x] = status[x]
    BY <1>2, <1>3, <2>1
  <2>5. QED
    BY <1>1, <1>2, <1>4, <1>6, <2>2, <2>3, <2>4 DEF e, h
<1>7. QED
  BY <1>5, <1>6

\* A handler ends: its result is settled.
LEMMA SettleGives ==
    ASSUME LInv, NEW t \in Task, Settles(t)
    PROVE  LET e == task[t].ev  h == task[t].cur IN
           /\ task[t].pc \in Running /\ e \in Event /\ h \in Handler /\ ~signal[e] /\ status[e] # "completed"
           /\ result[e][h] = "started" /\ result'[e][h] \in Terminal
           /\ \A x \in Event, g \in Handler : x # e \/ g # h => result'[x][g] = result[x][g]
           /\ UNCHANGED <<busVars, eventVars>>
<1> DEFINE e == task[t].ev
           h == task[t].cur
<1>1. task[t].pc \in Running
  BY DEF Settles, HReturn, HCancel, HAwaitCancelled, InBody, At, Running
<1>2. PICK r \in Terminal : result' = [result EXCEPT ![e][h] = r]
  BY DEF Settles, HReturn, HCancel, HAwaitCancelled, Interrupted, Terminal, Settle
<1>3. e \in Event /\ h \in Handler /\ result[e][h] = "started"
  BY <1>1, TypeParts, ByTask DEF LInv, IInv, TaskTypes, TaskOK, Running, Working, Placed
<1>4. ~signal[e] /\ status[e] # "completed"
  BY <1>3 DEF LInv, IInv, SignalSettled, Terminal, Kin, SignalIsStatus
<1>5. UNCHANGED <<busVars, eventVars>>
  BY DEF Settles, HReturn, HCancel, HAwaitCancelled, Interrupted
<1>6. result \in [Event -> [Handler -> ResultStatus]]
  BY TypeParts DEF LInv, IInv, ResultTypes
<1> HIDE DEF e, h
<1>7. /\ result'[e][h] \in Terminal
      /\ \A x \in Event, g \in Handler : x # e \/ g # h => result'[x][g] = result[x][g]
  BY <1>2, <1>3, <1>6
<1>8. QED
  BY <1>1, <1>3, <1>4, <1>5, <1>7 DEF e, h

-----------------------------------------------------------------------------
(* Steps that complete events *)

\* The events of S are completed, and nothing else of events is changed.
Finished(S) ==
    /\ S \subseteq Event
    /\ \A x \in Event : /\ status'[x] = IF x \in S THEN "completed" ELSE status[x]
                        /\ signal'[x] = (x \in S \/ signal[x])
    /\ UNCHANGED <<queue, path, parent, link, blocks, resultVars>>

\* Nothing completed.
LEMMA NoneFinished ==
    ASSUME LInv, UNCHANGED <<queue, eventVars, resultVars>>
    PROVE  Finished({})
<1>1. signal \in [Event -> BOOLEAN]
  BY TypeParts DEF LInv, IInv, EventTypes
<1>2. QED
  BY <1>1 DEF Finished, eventVars

\* The end of an event on a bus: it is completed if it can be, and leaves all
\* in-flight sets when it is (_mark_event_complete_if_ready).
LEMMA EndGives ==
    ASSUME LInv, NEW t \in Task, End(t)
    PROVE  LET e == task[t].ev  b == task[t].bus IN
           /\ task[t].pc = "end" /\ e \in Event /\ b \in Bus /\ UNCHANGED processing
           /\ \E S \in SUBSET {e} :
                 /\ Finished(S) /\ (e \in S <=> Completable(e, {b}))
                 /\ \A a \in Bus : inflight'[a] = inflight[a] \ S
<1> DEFINE e == task[t].ev
           b == task[t].bus
<1>1. task[t].pc = "end"
  BY DEF End, At
<1>2. e \in Event /\ b \in Bus
  BY <1>1, TaskFields DEF LInv, IInv, TaskOK, Working
<1>3. UNCHANGED <<queue, processing, resultVars>>
  BY DEF End
<1>4. CASE Completable(e, {b})
  <2>1. Complete({e}) /\ \A a \in Bus : inflight'[a] = inflight[a] \ {e}
    BY <1>4 DEF End
  <2> HIDE DEF e, b
  <2>2. Finished({e})
    BY <1>2, <1>3, <2>1 DEF Finished, Complete
  <2>3. QED
    BY <1>1, <1>2, <1>3, <1>4, <2>1, <2>2 DEF e, b
<1>5. CASE ~Completable(e, {b})
  <2>1. UNCHANGED <<inflight, eventVars>>
    BY <1>5 DEF End
  <2>2. Finished({})
    BY <1>3, <2>1, NoneFinished
  <2>3. \A a \in Bus : inflight'[a] = inflight[a] \ {}
    BY <2>1
  <2>4. QED
    BY <1>1, <1>2, <1>3, <1>5, <2>2, <2>3
<1>6. QED
  BY <1>4, <1>5

\* _finalize_local_event_processing: what can be completed of the tree is, and
\* the bus is done with the event.
LEMMA UnlockGives ==
    ASSUME LInv, NEW t \in Task, Unlock(t)
    PROVE  LET e == task[t].ev  b == task[t].bus IN
           /\ task[t].pc = "unlock" /\ e \in Event /\ b \in Bus
           /\ task'[t].pc = "prop" /\ task'[t].up = e
           /\ Finished(CompletableTree(e, b))
           /\ \A a \in Bus :
                 /\ processing'[a] = processing[a] \ (IF a = b THEN {e} ELSE {})
                 /\ inflight'[a] = inflight[a] \ (CompletableTree(e, b) \cup IF a = b THEN {e} ELSE {})
<1> DEFINE e == task[t].ev
           b == task[t].bus
           S == CompletableTree(e, b)
<1>1. task[t].pc = "unlock"
  BY DEF Unlock, At
<1>2. e \in Event /\ b \in Bus /\ task \in [Task -> TaskState] /\ task[t] \in TaskState
  BY <1>1, TaskFields DEF LInv, IInv, TaskOK, Working
<1>3. S \subseteq Event
  BY <1>2, BelowEvents DEF CompletableTree
<1>4. /\ processing' = [processing EXCEPT ![b] = processing[b] \ {e}]
      /\ inflight' = [a \in Bus |-> inflight[a] \ (S \cup IF a = b THEN {e} ELSE {})]
      /\ Complete(S) /\ UNCHANGED <<queue, resultVars>>
      /\ task' = [task EXCEPT ![t].pc = "prop", ![t].up = e, ![t].how = "none"]
  BY DEF Unlock
<1>5. task'[t].pc = "prop" /\ task'[t].up = e
  BY <1>2, <1>4 DEF TaskState
<1>6. processing \in [Bus -> SUBSET Event]
  BY TypeParts DEF LInv, IInv, BusTypes
<1> HIDE DEF e, b, S
<1>7. Finished(S)
  BY <1>3, <1>4 DEF Finished, Complete
<1>8. \A a \in Bus :
         /\ processing'[a] = processing[a] \ (IF a = b THEN {e} ELSE {})
         /\ inflight'[a] = inflight[a] \ (S \cup IF a = b THEN {e} ELSE {})
  BY <1>2, <1>4, <1>6
<1>9. QED
  BY <1>1, <1>2, <1>5, <1>7, <1>8 DEF e, b, S

\* One step of _propagate_parent_completion: the parent is completed if it can
\* be, some bus that it was emitted on left out of account.
LEMMA PropagateGives ==
    ASSUME LInv, NEW t \in Task, Propagate(t)
    PROVE  LET e == task[t].up  p == parent[e] IN
           /\ task[t].pc = "prop" /\ e \in Event /\ UNCHANGED processing
           /\ \/ p = NoEvent /\ Idles
              \/ /\ p \in Event /\ task'[t].pc = "prop" /\ task'[t].up = p
                 /\ \E S \in SUBSET {p}, pb \in path[p] :
                       /\ pb \in Bus /\ Finished(S) /\ (p \in S <=> Completable(p, {pb}))
                       /\ \A a \in Bus : inflight'[a] = inflight[a] \ S
<1> DEFINE e == task[t].up
           p == parent[e]
<1>1. task[t].pc = "prop"
  BY DEF Propagate, At
<1>2. e \in Event /\ task \in [Task -> TaskState] /\ task[t] \in TaskState
  BY <1>1, TaskFields DEF LInv, IInv, TaskOK
<1>3. p \in Event \cup {NoEvent} /\ \A x \in Event : path[x] \subseteq Bus
  BY <1>2, TypeParts DEF LInv, IInv, EventTypes
<1>4. UNCHANGED <<queue, processing, resultVars>>
  BY DEF Propagate
<1>5. CASE p = NoEvent
  <2>1. Idles
    BY <1>4, <1>5 DEF Propagate, Idles, busVars
  <2>2. QED
    BY <1>1, <1>2, <1>4, <1>5, <2>1
<1>6. CASE p # NoEvent
  <2>1. task' = [task EXCEPT ![t].up = p]
    BY <1>6 DEF Propagate
  <2>2. PICK pb \in path[p] :
           IF Completable(p, {pb})
           THEN Complete({p}) /\ inflight' = [b \in Bus |-> inflight[b] \ {p}]
           ELSE UNCHANGED <<inflight, eventVars>>
    BY <1>6 DEF Propagate
  <2>3. p \in Event /\ task'[t].pc = "prop" /\ task'[t].up = p
    BY <1>1, <1>2, <1>3, <1>6, <2>1 DEF TaskState
  <2>4. pb \in Bus
    BY <1>3, <2>3
  <2> HIDE DEF e, p
  <2>5. CASE Completable(p, {pb})
    <3>1. Complete({p}) /\ \A a \in Bus : inflight'[a] = inflight[a] \ {p}
      BY <2>2, <2>5
    <3>2. Finished({p})
      BY <1>4, <2>3, <3>1 DEF Finished, Complete
    <3>3. QED
      BY <1>1, <1>2, <1>4, <2>3, <2>4, <2>5, <3>1, <3>2 DEF e, p
  <2>6. CASE ~Completable(p, {pb})
    <3>1. UNCHANGED <<inflight, eventVars>>
      BY <2>2, <2>6
    <3>2. Finished({}) /\ \A a \in Bus : inflight'[a] = inflight[a] \ {}
      BY <1>4, <3>1, NoneFinished
    <3>3. QED
      BY <1>1, <1>2, <1>4, <2>3, <2>4, <2>6, <3>2 DEF e, p
  <2>7. QED
    BY <2>5, <2>6
<1>7. QED
  BY <1>5, <1>6

\* A step that completes events: nothing else happens to events and results, and
\* they leave the bus's sets only there where they are done.
LEMMA Finishes ==
    ASSUME LInv, NEW t \in Task, End(t) \/ Unlock(t) \/ Propagate(t)
    PROVE  \E S : /\ Finished(S) /\ UNCHANGED <<queue, resultVars>>
                  /\ \A a \in Bus : /\ processing'[a] \subseteq processing[a]
                                    /\ inflight'[a] \subseteq inflight[a]
<1>1. CASE End(t)
  BY <1>1, EndGives DEF Finished
<1>2. CASE Unlock(t)
  BY <1>2, UnlockGives DEF Finished
<1>3. CASE Propagate(t)
  <2>1. CASE Idles
    <3>1. Finished({})
      BY <2>1, NoneFinished DEF Idles, busVars
    <3>2. QED
      BY <2>1, <3>1 DEF Idles, busVars
  <2>2. CASE ~Idles
    BY <1>3, <2>2, PropagateGives DEF Finished
  <2>3. QED
    BY <2>1, <2>2
<1>4. QED
  BY <1>1, <1>2, <1>3

\* A forwarding handler emits its own event on another bus.
LEMMA ForwardGives ==
    ASSUME LInv, NEW t \in Task, HForward(t)
    PROVE  LET e == task[t].ev  b == Target[task[t].cur] IN
           /\ task[t].pc = "body" /\ e \in Event /\ b \in Bus /\ task[t].cur \in Handler
           /\ status[e] # "completed" /\ result[e][task[t].cur] = "started"
           /\ Emit(b, e, parent[e], link[e]) /\ UNCHANGED resultVars
<1>1. task[t].pc = "body" /\ Target[task[t].cur] # NoBus /\ UNCHANGED resultVars
      /\ Emit(Target[task[t].cur], task[t].ev, parent[task[t].ev], link[task[t].ev])
  BY DEF HForward, InBody, At
<1>2. task[t].ev \in Event /\ task[t].cur \in Handler /\ Placed(t)
  BY <1>1, TaskFields, ByTask DEF LInv, IInv, TaskOK, Working
<1>3. result[task[t].ev][task[t].cur] = "started"
  BY <1>1, <1>2 DEF Placed, Running
<1>4. status[task[t].ev] # "completed"
  BY <1>2, <1>3 DEF LInv, IInv, SignalSettled, Terminal, Kin, SignalIsStatus
<1>5. QED
  BY <1>1, <1>2, <1>3, <1>4, HandlerAssumption

\* A handler emits a child on the bus that it runs for.
LEMMA EmitChildGives ==
    ASSUME LInv, NEW t \in Task, NEW c \in Event, HEmit(t, c)
    PROVE  LET e == task[t].ev  b == task[t].bus  h == task[t].cur IN
           /\ task[t].pc \in {"body", "await"} /\ e \in Event /\ b \in Bus /\ h \in Handler
           /\ c \in Emits[h] /\ Target[h] = NoBus /\ status[c] = "new"
           /\ Emit(b, c, e, h) /\ UNCHANGED resultVars
<1>1. task[t].pc \in {"body", "await"}
  BY DEF HEmit, InHandler, At
<1>2. task[t].ev \in Event /\ task[t].cur \in Handler /\ task[t].bus \in Bus /\ Placed(t)
  BY <1>1, TypeParts, TaskFields, ByTask DEF LInv, IInv, TaskOK, Working
<1>3. result[task[t].ev][task[t].cur] = "started"
  BY <1>1, <1>2 DEF Placed, Running
<1>4. QED
  BY <1>1, <1>2, <1>3 DEF HEmit

\* Awaiting a child changes nothing but what the child blocks.
LEMMA AwaitGives ==
    ASSUME LInv, NEW t \in Task, NEW c \in Event, NEW j \in Jumper, HAwait(t, c, j)
    PROVE  /\ UNCHANGED <<busVars, status, signal, path, parent, link, resultVars>>
           /\ \A x \in Event : blocks[x] => blocks'[x]
           /\ parent[c] \in Event
<1>1. task[t].pc \in {"body", "await"} /\ parent[c] = task[t].ev
  BY DEF HAwait, InHandler, At
<1>2. task[t].ev \in Event
  BY <1>1, TaskFields DEF LInv, IInv, TaskOK, Working
<1>3. blocks' = [blocks EXCEPT ![c] = TRUE] /\ blocks \in [Event -> BOOLEAN]
  BY TypeParts DEF HAwait, LInv, IInv, EventTypes
<1>4. QED
  BY <1>1, <1>2, <1>3 DEF HAwait

-----------------------------------------------------------------------------
(* Events only go forward *)

\* What no step takes back.
Begun(e) == status[e] \in {"started", "completed"}
Onward ==
    \A x \in Event :
        /\ status'[x] = "new" => status[x] = "new" /\ path'[x] = path[x]
        /\ status[x] # "new" => parent'[x] = parent[x] /\ link'[x] = link[x]
        /\ status[x] = "completed" => status'[x] = "completed"
        /\ Begun(x) => status'[x] \in {"started", "completed"}
        /\ signal[x] => signal'[x]
        /\ path[x] \subseteq path'[x]
        /\ \A h \in Handler : result[x][h] # "none" => result'[x][h] # "none"

\* No step takes any of this back.
LEMMA GoesOnward ==
    ASSUME LInv, [Next]_vars
    PROVE  Onward
<1>1. TypeOK
  BY DEF LInv, IInv
<1>2. CASE Idles
  BY <1>2 DEF Onward, Begun, Idles, eventVars, resultVars
<1>3. ASSUME NEW t \in Task, NEW b \in Bus, NEW e \in Event, Dequeues(t, b, e) PROVE Onward
  BY <1>3 DEF Onward, Begun, Dequeues, eventVars, resultVars
<1>4. ASSUME NEW b \in Bus, NEW e \in Event, NEW p, NEW h, Emit(b, e, p, h), UNCHANGED resultVars,
             status[e] = "new" \/ (p = parent[e] /\ h = link[e])
      PROVE  Onward
  <2>1. UNCHANGED <<signal, result>>
    BY <1>4 DEF Emit, resultVars
  <2>2. Noted(b, e, p, h)
    BY <1>1, <1>4, EmitGives
  <2>3. QED
    BY <1>4, <2>1, <2>2 DEF Onward, Begun, Noted
<1>5. ASSUME NEW b \in Bus, NEW e \in Event, ExtEmit(b, e) PROVE Onward
  BY <1>4, <1>5 DEF ExtEmit
<1>6. ASSUME NEW t \in Task, NEW c \in Event, HEmit(t, c) PROVE Onward
  BY <1>4, <1>6, EmitChildGives
<1>7. ASSUME NEW t \in Task, NEW c \in Event, NEW j \in Jumper, HAwait(t, c, j) PROVE Onward
  BY <1>7, AwaitGives DEF Onward, Begun, resultVars
<1>8. ASSUME NEW t \in Task, HForward(t) PROVE Onward
  BY <1>4, <1>8, ForwardGives
<1>9. ASSUME NEW t \in Task, Settles(t) PROVE Onward
  <2>1. UNCHANGED eventVars
    BY <1>9, SettleGives
  <2>2. \A x \in Event, h \in Handler : result[x][h] # "none" => result'[x][h] # "none"
    BY <1>9, SettleGives DEF Terminal
  <2>3. QED
    BY <2>1, <2>2 DEF Onward, Begun, eventVars
<1>10. ASSUME NEW t \in Task, Create(t) PROVE Onward
  <2>1. UNCHANGED eventVars
    BY <1>10, CreateGives
  <2>2. \A x \in Event, h \in Handler : result[x][h] # "none" => result'[x][h] # "none"
    BY <1>10, CreateGives
  <2>3. QED
    BY <2>1, <2>2 DEF Onward, Begun, eventVars
<1>11. ASSUME NEW t \in Task, Start(t) PROVE Onward
  <2>1. UNCHANGED <<signal, path, parent, link>>
    BY <1>11, StartGives
  <2>2. \A x \in Event, h \in Handler : result[x][h] # "none" => result'[x][h] # "none"
    BY <1>11, StartGives
  <2>3. \A x \in Event : status'[x] = status[x] \/ (status[x] = "pending" /\ status'[x] = "started")
    BY <1>11, StartGives
  <2>4. QED
    BY <2>1, <2>2, <2>3 DEF Onward, Begun
<1>12. ASSUME NEW t \in Task, End(t) \/ Unlock(t) \/ Propagate(t) PROVE Onward
  BY <1>12, Finishes DEF Onward, Begun, Finished, resultVars
<1>13. QED
  BY <1>2, <1>3, <1>5, <1>6, <1>7, <1>8, <1>9, <1>10, <1>11, <1>12, Kinds

-----------------------------------------------------------------------------
(* Events that are somewhere were emitted *)

\* What is in a queue, in flight, in processing or with a task was emitted; what was
\* not has no path and no result.
Emitted ==
    /\ \A t \in Task : task[t].pc \in AtEvent => status[task[t].ev] # "new"
    /\ \A b \in Bus, e \in Event : InUse(b, e) => status[e] # "new"
    /\ \A e \in Event : status[e] = "new" =>
          path[e] = {} /\ \A h \in Handler : result[e][h] = "none"

\* An event comes to a bus only when it is emitted on it.
LEMMA ComesByEmit ==
    ASSUME LInv, [Next]_vars, NEW a \in Bus, NEW x \in Event, InUse(a, x)', ~InUse(a, x)
    PROVE  status'[x] # "new"
<1>1. TypeOK /\ processing \in [Bus -> SUBSET Event]
  BY TypeParts DEF LInv, IInv, BusTypes
<1>2. ~Idles
  BY DEF Idles, busVars, InUse
<1>3. ~\E t \in Task, b \in Bus, e \in Event : Dequeues(t, b, e)
  BY <1>1 DEF Dequeues, InUse
<1>4. ~\E t \in Task : Settles(t) \/ Create(t) \/ Start(t)
  BY SettleGives, CreateGives, StartGives DEF busVars, InUse
<1>5. ~\E t \in Task, c \in Event, j \in Jumper : HAwait(t, c, j)
  BY AwaitGives DEF busVars, InUse
<1>6. ~\E t \in Task : End(t) \/ Unlock(t) \/ Propagate(t)
  BY Finishes DEF InUse
<1>7. ASSUME NEW b \in Bus, NEW e \in Event, NEW p, NEW h, Emit(b, e, p, h) PROVE status'[x] # "new"
  <2>1. Noted(b, e, p, h) /\ Queued(b, e)
    BY <1>1, <1>7, EmitGives
  <2>2. x = e
    BY <2>1 DEF InUse, Queued
  <2>3. QED
    BY <2>1, <2>2 DEF Noted
<1>8. ASSUME NEW b \in Bus, NEW e \in Event, ExtEmit(b, e) PROVE status'[x] # "new"
  BY <1>7, <1>8 DEF ExtEmit
<1>9. ASSUME NEW t \in Task, NEW c \in Event, HEmit(t, c) PROVE status'[x] # "new"
  BY <1>7, <1>9, EmitChildGives
<1>10. ASSUME NEW t \in Task, HForward(t) PROVE status'[x] # "new"
  BY <1>7, <1>10, ForwardGives
<1>11. QED
  BY <1>2, <1>3, <1>4, <1>5, <1>6, <1>8, <1>9, <1>10, Kinds

\* A result comes only for an event that a task processes.
LEMMA ResultComes ==
    ASSUME LInv, [Next]_vars, NEW x \in Event, NEW g \in Handler, result'[x][g] # result[x][g]
    PROVE  \E t \in Task : task[t].pc \in {"create", "start", "body", "await", "sent"} /\ task[t].ev = x
<1>1. ~Idles /\ ~\E t \in Task, b \in Bus, e \in Event : Dequeues(t, b, e)
  BY DEF Idles, Dequeues, resultVars
<1>2. ~\E b \in Bus, e \in Event : ExtEmit(b, e)
  BY DEF ExtEmit, resultVars
<1>3. (~\E t \in Task, c \in Event : HEmit(t, c)) /\ ~\E t \in Task : HForward(t)
  BY EmitChildGives, ForwardGives DEF resultVars
<1>4. ~\E t \in Task, c \in Event, j \in Jumper : HAwait(t, c, j)
  BY AwaitGives DEF resultVars
<1>5. ~\E t \in Task : End(t) \/ Unlock(t) \/ Propagate(t)
  BY Finishes DEF resultVars
<1>6. ASSUME NEW t \in Task, Settles(t)
      PROVE  task[t].pc \in Running /\ task[t].ev = x
  BY <1>6, SettleGives
<1>7. ASSUME NEW t \in Task, Create(t) PROVE task[t].pc = "create" /\ task[t].ev = x
  BY <1>7, CreateGives
<1>8. ASSUME NEW t \in Task, Start(t) PROVE task[t].pc = "start" /\ task[t].ev = x
  BY <1>8, StartGives
<1>9. QED
  BY <1>1, <1>2, <1>3, <1>4, <1>5, <1>6, <1>7, <1>8, Kinds DEF Running

\* Events that are somewhere were emitted, still.
LEMMA EmittedStep ==
    ASSUME LInv, Emitted, [Next]_vars
    PROVE  Emitted'
<1>1. Onward
  BY GoesOnward
<1>2. TypeOK /\ \A u \in Task : TaskOK(u, task[u])
  BY TaskFields DEF LInv, IInv
<1>3. ASSUME NEW u \in Task, task'[u].pc \in AtEvent PROVE status'[task'[u].ev] # "new"
  <2> DEFINE s == task[u]
             r == task'[u]
  <2>1. Moved(s, r)
    BY Moves
  <2>2. CASE s.pc \in AtEvent /\ r.ev = s.ev
    BY <1>1, <1>2, <2>2 DEF Onward, Emitted, TaskOK, AtEvent
  <2>3. CASE Turns(s, r)
    <3>1. TaskOK(u, r)
      BY <1>2, TypeStep DEF TypeOK
    <3>2. r.ev \in Event
      BY <2>3, <3>1 DEF Turns, TaskOK
    <3>3. QED
      BY <1>1, <2>3, <3>2 DEF Turns, Onward
  <2>4. CASE Takes(s, r)
    <3>1. r.ev \in Event
      <4>1. r.bus \in Bus /\ queue[r.bus] \in Seq(Event) /\ r.ev \in Range(queue[r.bus])
        BY <1>2, <2>4, TypeParts DEF Takes, BusTypes
      <4>2. QED
        BY <4>1, RangeIndex
    <3>2. status[r.ev] # "new"
      BY <2>4, <3>1 DEF Takes, Emitted, InUse
    <3>3. QED
      BY <1>1, <3>1, <3>2 DEF Onward
  <2>5. ~Leaves(s, r)
    BY <1>3 DEF Leaves, AtEvent, Working
  <2>6. (s.pc \in AtEvent /\ r.ev = s.ev) \/ Turns(s, r) \/ Takes(s, r)
    BY <1>3, <2>1, <2>5
    DEF Moved, Waits, Joins, Enters, Chooses, Resets, Turned, Calls, Breaks, Ends, SameEvent,
        AtEvent, Working, Running
  <2>7. QED
    BY <2>2, <2>3, <2>4, <2>6
<1>4. ASSUME NEW b \in Bus, NEW e \in Event, InUse(b, e)' PROVE status'[e] # "new"
  BY <1>1, <1>4, ComesByEmit DEF Onward, Emitted
<1>5. ASSUME NEW e \in Event, status'[e] = "new" PROVE path'[e] = {} /\ \A h \in Handler : result'[e][h] = "none"
  <2>1. status[e] = "new" /\ path'[e] = path[e]
    BY <1>1, <1>5 DEF Onward
  <2>2. \A h \in Handler : result'[e][h] = result[e][h]
    BY <2>1, ResultComes DEF Emitted, AtEvent, Working
  <2>3. QED
    BY <2>1, <2>2 DEF Emitted
<1>6. QED
  BY <1>3, <1>4, <1>5 DEF Emitted

-----------------------------------------------------------------------------
(* Tasks that act *)

\* Where the task that acts is tells what it does.
LEMMA ActsAt ==
    ASSUME NEW t \in Task, Acts(t)
    PROVE  /\ cpu \in {NoTask, t}
           /\ task[t].pc = "create" => Create(t)
           /\ task[t].pc = "next" => NextHandler(t)
           /\ task[t].pc = "hwait" => HandlerLockGranted(t)
           /\ task[t].pc = "start" => Start(t)
           /\ task[t].pc = "end" => End(t)
           /\ task[t].pc = "unlock" => Unlock(t)
           /\ task[t].pc = "prop" => Propagate(t)
<1>1. CASE Process(t)
  BY <1>1 DEF Process, EnterLock, LockGranted, Check, Select, Create, NextHandler,
              HandlerLockGranted, Start, End, Unlock, Propagate, At
<1>2. CASE Body(t)
  BY <1>2 DEF Body, HForward, HReturn, HResume, HLeave, HCancel, HAwaitCancelled, HEmit, HAwait,
              InBody, InHandler, At
<1>3. CASE LoopGet(t) \/ LoopAgain(t)
  BY <1>3 DEF LoopGet, LoopAgain, At
<1>4. CASE Jump(t)
  BY <1>4 DEF Jump, JumpYield, JumpGiveUp, JumpDone, JumpAgain, JumpTake, JumpJoin,
              NothingToDo, Polling, At
<1>5. QED
  BY <1>1, <1>2, <1>3, <1>4 DEF Acts

\* Nobody but the task that runs acts.
LEMMA RunnerActs ==
    ASSUME LInv, Next, NEW u \in Task, cpu = u
    PROVE  Acts(u) \/ UNCHANGED vars
<1>1. ~Outside
  BY NamesAssumption DEF Outside, ExtEmit, ExtAwait
<1>2. QED
  BY <1>1, Actor, ActsAt, NamesAssumption

\* A task turns to its next handler, to wait for it if the event is being handled.
LEMMA TurnGives ==
    ASSUME LInv, NEW t \in Task, NextHandler(t)
    PROVE  LET s == task[t]  r == task'[t] IN
           /\ s.pc = "next" /\ s.ev \in Event
           /\ \/ s.todo = {} /\ r.pc = "end"
              \/ owner[s.ev] = NoTask /\ r.pc = "start" /\ cpu' = t
              \/ owner[s.ev] # NoTask /\ r.pc = "hwait"
<1> DEFINE s == task[t]
           r == task'[t]
<1>1. task \in [Task -> TaskState] /\ s \in TaskState /\ s.pc = "next" /\ s.ev \in Event
  BY TaskFields DEF LInv, IInv, NextHandler, At, TaskOK, Working
<1>2. CASE s.todo = {}
  <2>1. task' = [task EXCEPT ![t].pc = "end"]
    BY <1>2 DEF NextHandler, Goto
  <2>2. r.pc = "end"
    BY <1>1, <2>1 DEF TaskState
  <2>3. QED
    BY <1>1, <1>2, <2>2
<1>3. CASE s.todo # {} /\ owner[s.ev] = NoTask
  <2>1. PICK h \in s.todo :
           cpu' = t /\ task' = [task EXCEPT ![t].pc = "start", ![t].cur = h, ![t].todo = s.todo \ {h}]
    BY <1>3 DEF NextHandler, RunOn
  <2>2. r.pc = "start"
    BY <1>1, <2>1 DEF TaskState
  <2>3. QED
    BY <1>1, <1>3, <2>1, <2>2
<1>4. CASE s.todo # {} /\ owner[s.ev] # NoTask
  <2>1. PICK h \in s.todo :
           task' = [task EXCEPT ![t].pc = "hwait", ![t].cur = h, ![t].todo = s.todo \ {h}]
    BY <1>4 DEF NextHandler
  <2>2. r.pc = "hwait"
    BY <1>1, <2>1 DEF TaskState
  <2>3. QED
    BY <1>1, <1>4, <2>2
<1>5. QED
  BY <1>2, <1>3, <1>4

-----------------------------------------------------------------------------
(* A task that is about to call a handler runs *)

\* A task that is about to call a handler is the one that runs.
StartAlone == \A t \in Task : task[t].pc = "start" => cpu = t

\* Nothing suspends a task between the handler lock and the call.
LEMMA StartAloneStep ==
    ASSUME LInv, StartAlone, [Next]_vars
    PROVE  StartAlone'
<1> SUFFICES ASSUME NEW u \in Task, task'[u].pc = "start" PROVE cpu' = u
  BY DEF StartAlone
<1>1. CASE UNCHANGED vars
  BY <1>1 DEF vars, StartAlone
<1>2. CASE Next /\ task[u].pc = "start"
  <2>1. cpu = u
    BY <1>2 DEF StartAlone
  <2>2. Start(u) \/ UNCHANGED vars
    BY <1>2, <2>1, RunnerActs, ActsAt
  <2>3. ~Start(u)
    BY StartGives
  <2>4. QED
    BY <1>1, <2>2, <2>3
<1>3. CASE task[u].pc # "start"
  <2>1. Moved(task[u], task'[u]) /\ (Aside(u) \/ Acts(u))
    BY Moves
  <2>2. task[u].pc \in {"next", "hwait"}
    BY <1>3, <2>1
    DEF Moved, Leaves, Turns, Waits, Takes, Joins, Enters, Chooses, Resets, Turned, Calls, Breaks, Ends,
        Running
  <2>3. Acts(u)
    BY <1>3, <2>1, <2>2 DEF Aside, Leaves, Turns
  <2>4. NextHandler(u) \/ HandlerLockGranted(u)
    BY <2>2, <2>3, ActsAt
  <2>5. task \in [Task -> TaskState] /\ task[u] \in TaskState
    BY TaskFields DEF LInv, IInv
  <2>6. CASE HandlerLockGranted(u)
    BY <2>6 DEF HandlerLockGranted, RunOn
  <2>7. CASE NextHandler(u)
    BY <1>3, <2>7, TurnGives
  <2>8. QED
    BY <2>4, <2>6, <2>7
<1>4. QED
  BY <1>1, <1>2, <1>3

-----------------------------------------------------------------------------
(* Events that have begun *)

\* The event of a handler that has run, that a task waits for the handler lock of,
\* or that has children, has begun.
StartedShown ==
    /\ \A e \in Event, h \in Handler : Ran(e, h) => Begun(e)
    /\ \A t \in Task : task[t].pc = "hwait" => Begun(task[t].ev)
    /\ \A c \in Event : parent[c] \in Event => Begun(parent[c])

\* The handler lock of an event is held only when it has begun, or by the task
\* that runs and is about to call a handler.
LEMMA HeldIsBegun ==
    ASSUME LInv, LockInv, StartAlone, StartedShown, NEW e \in Event, owner[e] # NoTask
    PROVE  Begun(e) \/ (cpu \in Task /\ task[cpu].pc = "start")
<1> DEFINE u == owner[e]
<1>1. u \in Task
  BY TypeParts DEF LInv, IInv, LockTypes
<1>2. Uses(task[u], e) \/ Wants(task[u], e)
  BY DEF LockInv, OwnersUse
<1>3. e \notin Lock
  BY NamesAssumption
<1>4. task[u].pc \in Calling \cup {"hwait"} /\ task[u].ev = e
  BY <1>2, <1>3 DEF Uses, Wants
<1> HIDE DEF u
<1>5. CASE task[u].pc = "hwait"
  BY <1>1, <1>4, <1>5 DEF StartedShown
<1>6. CASE task[u].pc = "start"
  BY <1>1, <1>6 DEF StartAlone
<1>7. CASE task[u].pc \in Running
  <2>1. task[u].cur \in Handler /\ result[e][task[u].cur] = "started"
    BY <1>1, <1>4, <1>7, TaskFields DEF LInv, IInv, TaskOK, Running, RunningIsStarted
  <2>2. QED
    BY <2>1 DEF StartedShown, Ran
<1>8. QED
  BY <1>4, <1>5, <1>6, <1>7 DEF Calling, Running

\* The event of a handler that has run has begun.
LEMMA RanStep ==
    ASSUME LInv, Emitted, StartedShown, [Next]_vars, NEW e \in Event, NEW h \in Handler, Ran(e, h)'
    PROVE  status'[e] \in {"started", "completed"}
<1>1. CASE Ran(e, h)
  BY <1>1, GoesOnward DEF StartedShown, Onward
<1>2. CASE ~Ran(e, h)
  <2>1. result'[e][h] # result[e][h]
    BY <1>2 DEF Ran
  <2>2. ~Idles /\ ~\E t \in Task, b \in Bus, x \in Event : Dequeues(t, b, x)
    BY <2>1 DEF Idles, Dequeues, resultVars
  <2>3. ~\E b \in Bus, x \in Event : ExtEmit(b, x)
    BY <2>1 DEF ExtEmit, resultVars
  <2>4. (~\E t \in Task, c \in Event : HEmit(t, c)) /\ ~\E t \in Task : HForward(t)
    BY <2>1, EmitChildGives, ForwardGives DEF resultVars
  <2>5. ~\E t \in Task, c \in Event, j \in Jumper : HAwait(t, c, j)
    BY <2>1, AwaitGives DEF resultVars
  <2>6. ~\E t \in Task : End(t) \/ Unlock(t) \/ Propagate(t)
    BY <2>1, Finishes DEF resultVars
  <2>7. ~\E t \in Task : Settles(t)
    BY <1>2, <2>1, SettleGives DEF Ran
  <2>8. ~\E t \in Task : Create(t)
    BY <1>2, <2>1, CreateGives DEF Ran, Terminal
  <2>9. PICK t \in Task : Start(t)
    BY <2>2, <2>3, <2>4, <2>5, <2>6, <2>7, <2>8, Kinds
  <2>10. /\ e = task[t].ev /\ task[t].pc = "start"
         /\ status'[e] = IF status[e] = "pending" THEN "started" ELSE status[e]
    BY <2>1, <2>9, StartGives
  <2>11. status[e] \in Status /\ status[e] # "new"
    BY <2>10, TypeParts DEF LInv, IInv, EventTypes, Emitted, AtEvent, Working
  <2>12. QED
    BY <2>10, <2>11 DEF Status
<1>3. QED
  BY <1>1, <1>2

\* An event gets a parent when a handler of the parent emits it.
LEMMA ParentComes ==
    ASSUME LInv, [Next]_vars, NEW c \in Event, parent'[c] \in Event, parent'[c] # parent[c]
    PROVE  \E t \in Task : HEmit(t, c) /\ parent'[c] = task[t].ev
<1>1. TypeOK
  BY DEF LInv, IInv
<1>2. ~Idles /\ ~\E t \in Task, b \in Bus, x \in Event : Dequeues(t, b, x)
  BY DEF Idles, Dequeues, eventVars
<1>3. ~\E t \in Task : Settles(t) \/ Create(t) \/ Start(t)
  BY SettleGives, CreateGives, StartGives DEF eventVars
<1>4. ~\E t \in Task, x \in Event, j \in Jumper : HAwait(t, x, j)
  BY AwaitGives
<1>5. ~\E t \in Task : End(t) \/ Unlock(t) \/ Propagate(t)
  BY Finishes DEF Finished
<1>6. ~\E b \in Bus, x \in Event : ExtEmit(b, x)
  <2> SUFFICES ASSUME NEW b \in Bus, NEW x \in Event, ExtEmit(b, x) PROVE FALSE
    OBVIOUS
  <2>1. Noted(b, x, NoEvent, NoHandler)
    BY <1>1, EmitGives DEF ExtEmit
  <2>2. QED
    BY <2>1, NamesAssumption DEF Noted
<1>7. ~\E t \in Task : HForward(t)
  <2> SUFFICES ASSUME NEW t \in Task, HForward(t) PROVE FALSE
    OBVIOUS
  <2> DEFINE e == task[t].ev
             b == Target[task[t].cur]
  <2>1. e \in Event /\ b \in Bus /\ Emit(b, e, parent[e], link[e])
    BY ForwardGives
  <2> HIDE DEF e, b
  <2>2. Noted(b, e, parent[e], link[e])
    BY <1>1, <2>1, EmitGives
  <2>3. QED
    BY <2>2 DEF Noted
<1>8. PICK t \in Task, x \in Event : HEmit(t, x)
  BY <1>2, <1>3, <1>4, <1>5, <1>6, <1>7, Kinds
<1>9. Noted(task[t].bus, x, task[t].ev, task[t].cur)
  BY <1>1, <1>8, EmitChildGives, EmitGives
<1>10. QED
  BY <1>8, <1>9 DEF Noted

\* A handler is called, waited for or a parent only of events that have begun.
LEMMA StartedStep ==
    ASSUME LInv, LockInv, Emitted, StartAlone, StartedShown, [Next]_vars
    PROVE  StartedShown'
<1>1. Onward
  BY GoesOnward
<1>2. \A e \in Event, h \in Handler : Ran(e, h)' => status'[e] \in {"started", "completed"}
  BY RanStep
<1>3. ASSUME NEW u \in Task, task'[u].pc = "hwait" PROVE status'[task'[u].ev] \in {"started", "completed"}
  <2> DEFINE s == task[u]
             r == task'[u]
  <2>1. Moved(s, r) /\ (Aside(u) \/ Acts(u))
    BY Moves
  <2>2. r = s \/ (s.pc = "next" /\ r.ev = s.ev)
    BY <1>3, <2>1
    DEF Moved, Leaves, Turns, Waits, Takes, Joins, Enters, Chooses, Resets, Turned, Calls, Breaks, Ends,
        Running, SameEvent
  <2>3. s.ev \in Event
    BY <1>3, <2>2, TaskFields DEF LInv, IInv, TaskOK, Working
  <2>4. CASE r = s
    BY <1>1, <1>3, <2>3, <2>4 DEF StartedShown, Onward
  <2>5. CASE s.pc = "next" /\ r.ev = s.ev
    <3>1. Acts(u)
      BY <1>3, <2>1, <2>5 DEF Aside, Leaves, Turns
    <3>2. NextHandler(u) /\ cpu \in {NoTask, u}
      BY <2>5, <3>1, ActsAt
    <3>3. owner[s.ev] # NoTask
      <4>1. SUFFICES ASSUME owner[s.ev] = NoTask PROVE FALSE
        OBVIOUS
      <4>2. QED
        BY <1>3, <3>2, <4>1, TurnGives
    <3>4. Begun(s.ev)
      BY <2>3, <2>5, <3>2, <3>3, HeldIsBegun, NamesAssumption
    <3>5. QED
      BY <1>1, <2>3, <2>5, <3>4 DEF Onward
  <2>6. QED
    BY <2>2, <2>4, <2>5
<1>4. ASSUME NEW c \in Event, parent'[c] \in Event PROVE status'[parent'[c]] \in {"started", "completed"}
  <2>1. CASE parent'[c] = parent[c]
    BY <1>1, <1>4, <2>1 DEF StartedShown, Onward
  <2>2. CASE parent'[c] # parent[c]
    <3>1. PICK t \in Task : HEmit(t, c) /\ parent'[c] = task[t].ev
      BY <1>4, <2>2, ParentComes
    <3>2. task[t].pc \in {"body", "await"} /\ task[t].ev \in Event
      BY <3>1, EmitChildGives
    <3>3. task[t].cur \in Handler /\ result[task[t].ev][task[t].cur] = "started"
      BY <3>2, TaskFields DEF LInv, IInv, TaskOK, Running, RunningIsStarted
    <3>4. QED
      BY <1>1, <3>1, <3>2, <3>3 DEF StartedShown, Ran, Onward
  <2>3. QED
    BY <2>1, <2>2
<1>5. QED
  BY <1>2, <1>3, <1>4 DEF StartedShown, Begun

-----------------------------------------------------------------------------
(* Pending events *)

\* Task state s has handler h of e still to call.
Picks(s, e, h) ==
    /\ s.ev = e
    /\ \/ s.pc \in Chosen /\ h \in s.todo
       \/ s.pc \in {"hwait", "start"} /\ s.cur = h

\* While no handler of an event has begun, a pending result is that of a task
\* on its way to call the handler, which nobody interrupts.
PendingIsPicked ==
    \A e \in Event, h \in Handler : result[e][h] = "pending" /\ status[e] = "pending" =>
        \E t \in Task : cpu = t /\ task[t].pc \in {"next", "start"} /\ Picks(task[t], e, h)

\* An event nobody has begun is still to be taken, or taken by a task.
PendingInUse ==
    \A e \in Event : status[e] = "pending" => \E b \in Bus : InUse(b, e)

\* While no handler has begun, the task that chose them is on its way, and every
\* step is its own.
LEMMA PickedStep ==
    ASSUME Middlewares = FALSE, LInv, LockInv, Emitted, StartAlone, StartedShown, PendingIsPicked,
           [Next]_vars
    PROVE  PendingIsPicked'
<1> SUFFICES ASSUME NEW e \in Event, NEW h \in Handler, result'[e][h] = "pending", status'[e] = "pending"
             PROVE  \E t \in Task : cpu' = t /\ task'[t].pc \in {"next", "start"} /\ Picks(task'[t], e, h)
  BY DEF PendingIsPicked, Picks
<1>1. ~Begun(e) /\ status[e] \in Status
  BY GoesOnward, TypeParts DEF Onward, LInv, IInv, EventTypes
<1>2. CASE result[e][h] = "pending"
  <2>1. status[e] = "pending"
    BY <1>1, <1>2 DEF Emitted, Begun, Status
  <2>2. PICK t \in Task : cpu = t /\ task[t].pc \in {"next", "start"} /\ Picks(task[t], e, h)
    BY <1>2, <2>1 DEF PendingIsPicked
  <2>3. CASE UNCHANGED vars
    BY <2>2, <2>3 DEF vars
  <2>4. CASE NextHandler(t)
    <3>1. task[t].pc = "next" /\ task[t].ev = e /\ h \in task[t].todo
      BY <2>2, <2>4, TurnGives DEF Picks
    <3>2. ~Begun(e) /\ ~(task[cpu].pc = "start")
      BY <1>1, <2>2, <3>1
    <3>3. owner[e] = NoTask
      BY <3>2, HeldIsBegun
    <3>4. task'[t].pc = "start" /\ cpu' = t
      BY <2>4, <3>1, <3>3, TurnGives
    <3>5. Moved(task[t], task'[t])
      BY Moves
    <3>6. Turned(task[t], task'[t])
      BY <3>1, <3>4, <3>5
      DEF Moved, Leaves, Turns, Waits, Takes, Joins, Enters, Chooses, Resets, Calls, Breaks, Ends, Running
    <3>7. task'[t].ev = e /\ task'[t].todo = task[t].todo \ {task'[t].cur}
      BY <3>1, <3>4, <3>6 DEF Turned, SameEvent
    <3>8. QED
      BY <3>1, <3>4, <3>7 DEF Picks, Chosen
  <2>5. CASE Start(t)
    <3>1. task[t].ev = e
      BY <2>2 DEF Picks
    <3>2. task[t].cur \in Handler /\ result[e][task[t].cur] \in Terminal
      BY <2>1, <2>5, <3>1, StartGives
    <3>3. QED
      BY <1>1, <3>2 DEF StartedShown, Ran
  <2>6. QED
    BY <2>2, <2>3, <2>4, <2>5, RunnerActs, ActsAt
<1>3. CASE result[e][h] # "pending"
  <2>1. ~Idles /\ ~\E t \in Task, b \in Bus, x \in Event : Dequeues(t, b, x)
    BY <1>3 DEF Idles, Dequeues, resultVars
  <2>2. ~\E b \in Bus, x \in Event : ExtEmit(b, x)
    BY <1>3 DEF ExtEmit, resultVars
  <2>3. (~\E t \in Task, c \in Event : HEmit(t, c)) /\ ~\E t \in Task : HForward(t)
    BY <1>3, EmitChildGives, ForwardGives DEF resultVars
  <2>4. ~\E t \in Task, c \in Event, j \in Jumper : HAwait(t, c, j)
    BY <1>3, AwaitGives DEF resultVars
  <2>5. ~\E t \in Task : End(t) \/ Unlock(t) \/ Propagate(t)
    BY <1>3, Finishes DEF resultVars
  <2>6. ~\E t \in Task : Settles(t)
    BY <1>3, SettleGives DEF Terminal
  <2>7. ~\E t \in Task : Start(t)
    BY <1>3, StartGives
  <2>8. PICK t \in Task : Create(t)
    BY <2>1, <2>2, <2>3, <2>4, <2>5, <2>6, <2>7, Kinds
  <2>9. e = task[t].ev /\ h \in task[t].todo
    BY <1>3, <2>8, CreateGives
  <2>10. task' = [task EXCEPT ![t].pc = "next"] /\ cpu' = t
    BY <2>8, <2>9 DEF Create, Hook, Goto
  <2>11. task'[t].pc = "next" /\ task'[t].ev = e /\ task'[t].todo = task[t].todo
    BY <2>9, <2>10, TaskFields DEF LInv, IInv, TaskState
  <2>12. QED
    BY <2>9, <2>10, <2>11 DEF Picks, Chosen
<1>4. QED
  BY <1>2, <1>3

\* A pending event that a bus is done with, and no other has, is completed: no
\* handler has begun, and it has no children.
LEMMA UnlockPending ==
    ASSUME LInv, Emitted, StartedShown, PendingIsPicked, NEW t \in Task, Unlock(t),
           status[task[t].ev] = "pending", \A a \in Bus \ {task[t].bus} : ~InUse(a, task[t].ev)
    PROVE  task[t].ev \in CompletableTree(task[t].ev, task[t].bus)
<1> DEFINE e == task[t].ev
           b == task[t].bus
<1>1. e \in Event /\ b \in Bus /\ task[t].pc = "unlock"
  BY UnlockGives
<1>2. cpu \in {NoTask, t}
  BY DEF Unlock, At
<1> HIDE DEF e, b
<1>3. ASSUME NEW h \in Handler PROVE result[e][h] \in Terminal \cup {"none"}
  <2>1. result[e][h] \in ResultStatus
    BY <1>1, TypeParts DEF LInv, IInv, ResultTypes
  <2>2. result[e][h] # "started"
    BY <1>1 DEF e, StartedShown, Ran, Begun
  <2>3. result[e][h] # "pending"
    BY <1>1, <1>2, NamesAssumption DEF e, PendingIsPicked
  <2>4. QED
    BY <2>1, <2>2, <2>3 DEF ResultStatus, Terminal
<1>4. Below(e, Blocking) = {}
  <2>1. \A c \in Blocking : parent[c] # e
    BY <1>1 DEF e, Blocking, Linked, StartedShown, Begun
  <2>2. \A c \in Blocking : parent[c] \in {} \cup {e} => c \in {}
    BY <2>1
  <2>3. QED
    BY <2>2 DEF Below
<1>5. ResultsReady(e, {b})
  BY <1>3 DEF ResultsReady, e, b
<1>6. QED
  BY <1>4, <1>5 DEF CompletableTree, e, b

\* An event nobody has begun stays with some bus: completing it is the only way
\* out of all queues and sets.
LEMMA PendingUsedStep ==
    ASSUME LInv, Emitted, StartedShown, PendingIsPicked, PendingInUse, [Next]_vars
    PROVE  PendingInUse'
<1> SUFFICES ASSUME NEW x \in Event, status'[x] = "pending" PROVE \E a \in Bus : InUse(a, x)'
  BY DEF PendingInUse, InUse
<1>1. status[x] \in {"new", "pending"} /\ TypeOK /\ processing \in [Bus -> SUBSET Event]
  BY GoesOnward, TypeParts DEF Onward, Begun, LInv, IInv, EventTypes, Status, BusTypes
<1>2. ASSUME NEW b \in Bus, NEW e \in Event, NEW p, NEW h, Emit(b, e, p, h)
      PROVE  \E a \in Bus : InUse(a, x)'
  <2>1. Noted(b, e, p, h) /\ Queued(b, e)
    BY <1>1, <1>2, EmitGives
  <2>2. CASE status[x] = "pending"
    <3>1. PICK a \in Bus : InUse(a, x)
      BY <2>2 DEF PendingInUse
    <3>2. QED
      BY <2>1, <3>1 DEF Queued, InUse
  <2>3. CASE status[x] = "new"
    <3>1. x = e
      BY <2>1, <2>3 DEF Noted
    <3>2. x \in inflight'[b]
      BY <2>1, <2>3, <3>1 DEF Queued
    <3>3. QED
      BY <3>2 DEF InUse
  <2>4. QED
    BY <1>1, <2>2, <2>3
<1>3. ASSUME NEW b \in Bus, NEW e \in Event, ExtEmit(b, e) PROVE \E a \in Bus : InUse(a, x)'
  BY <1>2, <1>3 DEF ExtEmit
<1>4. ASSUME NEW t \in Task, NEW c \in Event, HEmit(t, c) PROVE \E a \in Bus : InUse(a, x)'
  BY <1>2, <1>4, EmitChildGives
<1>5. ASSUME NEW t \in Task, HForward(t) PROVE \E a \in Bus : InUse(a, x)'
  BY <1>2, <1>5, ForwardGives
<1>6. ASSUME UNCHANGED busVars, status[x] = "new" => status'[x] = "new"
      PROVE  \E a \in Bus : InUse(a, x)'
  <2>1. status[x] = "pending"
    BY <1>1, <1>6
  <2>2. QED
    BY <1>6, <2>1 DEF PendingInUse, busVars, InUse
<1>7. ASSUME NEW t \in Task, NEW b \in Bus, NEW e \in Event, Dequeues(t, b, e)
      PROVE  \E a \in Bus : InUse(a, x)'
  <2>1. UNCHANGED status
    BY <1>7 DEF Dequeues, eventVars
  <2>2. PICK a \in Bus : InUse(a, x)
    BY <2>1 DEF PendingInUse
  <2>3. QED
    BY <1>1, <1>7, <2>2 DEF Dequeues, InUse
<1>8. ASSUME NEW S, Finished(S) PROVE status[x] = "pending" /\ x \notin S
  BY <1>8 DEF Finished
<1>9. ASSUME NEW t \in Task, End(t) \/ Propagate(t) PROVE \E a \in Bus : InUse(a, x)'
  <2>1. CASE Idles
    BY <1>6, <2>1 DEF Idles, eventVars
  <2>2. CASE ~Idles
    <3>1. PICK S : /\ Finished(S) /\ UNCHANGED processing
                   /\ \A a \in Bus : inflight'[a] = inflight[a] \ S
      BY <1>9, <2>2, EndGives, PropagateGives
    <3>2. PICK a \in Bus : InUse(a, x)
      BY <1>8, <3>1 DEF PendingInUse
    <3>3. QED
      BY <1>8, <3>1, <3>2 DEF InUse, Finished
  <2>3. QED
    BY <2>1, <2>2
<1>10. ASSUME NEW t \in Task, Unlock(t) PROVE \E a \in Bus : InUse(a, x)'
  <2> DEFINE e == task[t].ev
             b == task[t].bus
             S == CompletableTree(e, b)
  <2>1. /\ e \in Event /\ b \in Bus /\ Finished(S)
        /\ \A a \in Bus :
             /\ processing'[a] = processing[a] \ (IF a = b THEN {e} ELSE {})
             /\ inflight'[a] = inflight[a] \ (S \cup IF a = b THEN {e} ELSE {})
    BY <1>10, UnlockGives
  <2>2. status[x] = "pending" /\ x \notin S
    BY <1>8, <2>1
  <2>3. PICK a \in Bus : InUse(a, x) /\ (a # b \/ x # e)
    <3>1. CASE x # e
      BY <2>2, <3>1 DEF PendingInUse
    <3>2. CASE x = e
      BY <1>10, <2>2, <3>2, UnlockPending
    <3>3. QED
      BY <3>1, <3>2
  <2> HIDE DEF e, b, S
  <2>4. QED
    BY <2>1, <2>2, <2>3 DEF InUse, Finished
<1>11. QED
  <2> DEFINE Same == UNCHANGED busVars /\ (status[x] = "new" => status'[x] = "new")
  <2>1. ASSUME NEW t \in Task, Settles(t) \/ Create(t) \/ Start(t) PROVE Same
    BY <2>1, SettleGives, CreateGives, StartGives DEF eventVars
  <2>2. ASSUME NEW t \in Task, NEW c \in Event, NEW j \in Jumper, HAwait(t, c, j) PROVE Same
    BY <2>2, AwaitGives
  <2>3. Idles => Same
    BY DEF Idles, eventVars
  <2>4. Same => \E a \in Bus : InUse(a, x)'
    BY <1>6
  <2> HIDE DEF Same
  <2>5. QED
    BY <1>3, <1>4, <1>5, <1>7, <1>9, <1>10, <2>1, <2>2, <2>3, <2>4, Kinds

\* The invariant of the section.
SInv == Emitted /\ StartAlone /\ StartedShown /\ PendingIsPicked /\ PendingInUse /\ AwaitedIsComplete

\* The task of a now() ends when the signal is set: an event that is pending is
\* with some bus, and one that has begun and is not complete is started.
LEMMA AwaitedStep ==
    ASSUME LInv, SInv, [Next]_vars
    PROVE  AwaitedIsComplete'
<1> SUFFICES ASSUME NEW j \in Jumper, task'[j].pc = "done" PROVE signal'[task'[j].ev]
  BY DEF AwaitedIsComplete
<1> DEFINE s == task[j]
           r == task'[j]
<1>1. j \in Task /\ Moved(s, r)
  BY Moves DEF Task
<1>2. r = s \/ Waits(s, r)
  BY <1>1
  DEF Moved, Leaves, Turns, Takes, Joins, Enters, Chooses, Resets, Turned, Calls, Breaks, Ends, Running
<1>3. s.pc \in AtEvent /\ r.ev = s.ev
  BY <1>2 DEF Waits, AtEvent, Working
<1>4. s.ev \in Event
  BY <1>1, <1>3, TaskFields DEF LInv, IInv, TaskOK, AtEvent
<1>5. signal[s.ev]
  <2>1. CASE r = s
    BY <2>1 DEF SInv, AwaitedIsComplete
  <2>2. CASE Waits(s, r) /\ ~signal[s.ev]
    <3>1. status[s.ev] # "started" /\ \A b \in Bus : ~InUse(b, s.ev)
      BY <2>2 DEF Waits
    <3>2. status[s.ev] \in Status /\ status[s.ev] # "new" /\ status[s.ev] # "pending"
      BY <1>1, <1>3, <1>4, <3>1, TypeParts DEF LInv, IInv, EventTypes, SInv, Emitted, PendingInUse
    <3>3. QED
      BY <1>4, <3>1, <3>2 DEF Status, LInv, Kin, SignalIsStatus
  <2>3. QED
    BY <1>2, <2>1, <2>2
<1>6. QED
  BY <1>3, <1>4, <1>5, GoesOnward DEF Onward

\* The parts of the invariant together.
LEMMA SStep ==
    ASSUME Middlewares = FALSE, LInv, LockInv, SInv, [Next]_vars
    PROVE  SInv'
BY EmittedStep, StartAloneStep, StartedStep, PickedStep, PendingUsedStep, AwaitedStep DEF SInv

\* It holds in the beginning.
LEMMA SInit == Init => SInv
<1> SUFFICES ASSUME Init PROVE SInv
  OBVIOUS
<1>1. \A t \in Task : task[t].pc \in {"get", "idle"}
  BY DEF Init, Fresh
<1>2. \A e \in Event : /\ status[e] = "new" /\ path[e] = {} /\ parent[e] = NoEvent
                       /\ \A h \in Handler : result[e][h] = "none"
  BY DEF Init
<1>3. \A b \in Bus : queue[b] = <<>> /\ processing[b] = {} /\ inflight[b] = {}
  BY DEF Init
<1>4. Range(<<>>) = {}
  BY DEF Range
<1>5. Emitted
  BY <1>1, <1>2, <1>3, <1>4 DEF Emitted, AtEvent, Working, InUse
<1>6. StartAlone /\ AwaitedIsComplete
  BY <1>1 DEF StartAlone, AwaitedIsComplete, Task
<1>7. StartedShown /\ PendingIsPicked /\ PendingInUse
  BY <1>1, <1>2, NamesAssumption DEF StartedShown, PendingIsPicked, PendingInUse, Ran, Terminal
<1>8. QED
  BY <1>5, <1>6, <1>7 DEF SInv

\* It holds in every reachable state of buses without middlewares.
LEMMA SInductive == ASSUME Middlewares = FALSE PROVE Spec => [](LInv /\ LockInv /\ SInv)
<1>1. Init => LInv /\ LockInv /\ SInv
  BY LifeInit, LockInit, SInit
<1>2. LInv /\ LockInv /\ SInv /\ [Next]_vars => (LInv /\ LockInv /\ SInv)'
  BY LifeStep, LockStep, SStep DEF LInv, IInv
<1>3. QED
  BY <1>1, <1>2, PTL DEF Spec

\* now() returns only when its event is complete, whoever processes it: the poll
\* gives up early only on an event that no bus has (_process_self_on_all_buses).
THEOREM NowReturnsWhenComplete == ASSUME Middlewares = FALSE PROVE Spec => []AwaitedIsComplete
<1>1. SInv => AwaitedIsComplete
  BY DEF SInv
<1>2. QED
  BY <1>1, SInductive, PTL

-----------------------------------------------------------------------------
(* How events come to buses, leave them and are completed *)

\* A bus learns of an event that is not complete, and queues it: an event nobody
\* has begun, or one that a handler forwards.
LEMMA PathGrows ==
    ASSUME LInv, [Next]_vars, NEW x \in Event, NEW a \in Bus, a \in path'[x], a \notin path[x]
    PROVE  /\ x \in Range(queue'[a]) /\ ~signal[x] /\ ~signal'[x]
           /\ \/ status[x] = "new"
              \/ \E t \in Task : HForward(t) /\ task[t].ev = x /\ Target[task[t].cur] = a
<1>1. TypeOK
  BY DEF LInv, IInv
<1>2. ASSUME NEW b \in Bus, NEW e \in Event, NEW p, NEW h, Emit(b, e, p, h), status[e] # "completed"
      PROVE  x = e /\ a = b /\ x \in Range(queue'[a]) /\ ~signal[x] /\ ~signal'[x]
  <2>1. Noted(b, e, p, h) /\ Queued(b, e)
    BY <1>1, <1>2, EmitGives
  <2>2. x = e /\ a = b /\ UNCHANGED signal
    BY <2>1 DEF Noted
  <2>3. x \in Range(queue'[a])
    BY <1>2, <2>1, <2>2 DEF Queued
  <2>4. ~signal[x]
    BY <1>2, <2>2 DEF LInv, Kin, SignalIsStatus
  <2>5. QED
    BY <2>2, <2>3, <2>4
<1>3. ~Idles /\ ~\E t \in Task, b \in Bus, e \in Event : Dequeues(t, b, e)
  BY DEF Idles, Dequeues, eventVars
<1>4. ~\E t \in Task : Settles(t) \/ Create(t) \/ Start(t)
  BY SettleGives, CreateGives, StartGives DEF eventVars
<1>5. ~\E t \in Task, c \in Event, j \in Jumper : HAwait(t, c, j)
  BY AwaitGives
<1>6. ~\E t \in Task : End(t) \/ Unlock(t) \/ Propagate(t)
  BY Finishes DEF Finished
<1>7. CASE \E b \in Bus, e \in Event : ExtEmit(b, e)
  <2>1. PICK b \in Bus, e \in Event : status[e] = "new" /\ Emit(b, e, NoEvent, NoHandler)
    BY <1>7 DEF ExtEmit
  <2>2. QED
    BY <1>2, <2>1
<1>8. CASE \E t \in Task, c \in Event : HEmit(t, c)
  <2>1. PICK b, c, p, h : b \in Bus /\ c \in Event /\ status[c] = "new" /\ Emit(b, c, p, h)
    BY <1>8, EmitChildGives
  <2>2. QED
    BY <1>2, <2>1
<1>9. CASE \E t \in Task : HForward(t)
  <2>1. PICK t \in Task : HForward(t)
    BY <1>9
  <2> DEFINE e == task[t].ev
             b == Target[task[t].cur]
  <2>2. e \in Event /\ b \in Bus /\ Emit(b, e, parent[e], link[e]) /\ status[e] # "completed"
    BY <2>1, ForwardGives
  <2> HIDE DEF e, b
  <2>3. x = e /\ a = b /\ x \in Range(queue'[a]) /\ ~signal[x] /\ ~signal'[x]
    BY <1>2, <2>2
  <2>4. QED
    BY <2>1, <2>3 DEF e, b
<1>10. QED
  BY <1>3, <1>4, <1>5, <1>6, <1>7, <1>8, <1>9, Kinds

\* What a bus has to process has been emitted on it.
LEMMA QueueComes ==
    ASSUME LInv, [Next]_vars, NEW x \in Event, NEW a \in Bus,
           x \in Range(queue'[a]) \cup processing'[a], x \notin Range(queue[a]) \cup processing[a]
    PROVE  a \in path'[x]
<1>1. TypeOK /\ processing \in [Bus -> SUBSET Event]
  BY TypeParts DEF LInv, IInv, BusTypes
<1>2. ~Idles /\ ~\E t \in Task : Settles(t) \/ Create(t) \/ Start(t)
  BY SettleGives, CreateGives, StartGives DEF Idles, busVars
<1>3. ~\E t \in Task, b \in Bus, e \in Event : Dequeues(t, b, e)
  BY <1>1 DEF Dequeues
<1>4. ~\E t \in Task, c \in Event, j \in Jumper : HAwait(t, c, j)
  BY AwaitGives DEF busVars
<1>5. ~\E t \in Task : End(t) \/ Unlock(t) \/ Propagate(t)
  BY Finishes
<1>6. ASSUME NEW b \in Bus, NEW e \in Event, NEW p, NEW h, Emit(b, e, p, h) PROVE a \in path'[x]
  <2>1. Noted(b, e, p, h) /\ Queued(b, e)
    BY <1>1, <1>6, EmitGives
  <2>2. x = e /\ a = b
    BY <2>1 DEF Queued
  <2>3. QED
    BY <2>1, <2>2 DEF Noted
<1>7. ASSUME NEW b \in Bus, NEW e \in Event, ExtEmit(b, e) PROVE a \in path'[x]
  BY <1>6, <1>7 DEF ExtEmit
<1>8. ASSUME NEW t \in Task, NEW c \in Event, HEmit(t, c) PROVE a \in path'[x]
  BY <1>6, <1>8, EmitChildGives
<1>9. ASSUME NEW t \in Task, HForward(t) PROVE a \in path'[x]
  BY <1>6, <1>9, ForwardGives
<1>10. QED
  BY <1>2, <1>3, <1>4, <1>5, <1>7, <1>8, <1>9, Kinds

\* A bus is done with an event when a task unlocks it.
LEMMA QueueLeaves ==
    ASSUME LInv, [Next]_vars, NEW x \in Event, NEW a \in Bus,
           x \notin Range(queue'[a]) \cup processing'[a], x \in Range(queue[a]) \cup processing[a]
    PROVE  \E t \in Task : Unlock(t) /\ task[t].ev = x /\ task[t].bus = a
<1>1. TypeOK /\ processing \in [Bus -> SUBSET Event]
  BY TypeParts DEF LInv, IInv, BusTypes
<1>2. ~Idles /\ ~\E t \in Task : Settles(t) \/ Create(t) \/ Start(t)
  BY SettleGives, CreateGives, StartGives DEF Idles, busVars
<1>3. ~\E t \in Task, b \in Bus, e \in Event : Dequeues(t, b, e)
  BY <1>1 DEF Dequeues
<1>4. ~\E t \in Task, c \in Event, j \in Jumper : HAwait(t, c, j)
  BY AwaitGives DEF busVars
<1>5. ASSUME NEW b \in Bus, NEW e \in Event, NEW p, NEW h, Emit(b, e, p, h) PROVE FALSE
  <2>1. Queued(b, e)
    BY <1>1, <1>5, EmitGives
  <2>2. QED
    BY <2>1 DEF Queued
<1>6. ~\E b \in Bus, e \in Event : ExtEmit(b, e)
  BY <1>5 DEF ExtEmit
<1>7. ~\E t \in Task, c \in Event : HEmit(t, c)
  BY <1>5, EmitChildGives
<1>8. ~\E t \in Task : HForward(t)
  BY <1>5, ForwardGives
<1>9. ~\E t \in Task : End(t)
  BY EndGives DEF Finished
<1>10. ~\E t \in Task : Propagate(t)
  BY PropagateGives DEF Finished, Idles, busVars
<1>11. PICK t \in Task : Unlock(t)
  BY <1>2, <1>3, <1>4, <1>6, <1>7, <1>8, <1>9, <1>10, Kinds
<1>12. QED
  BY <1>11, UnlockGives DEF Finished

\* An event is completed when no bus has it to process, but the one that the
\* task is done with it on, or it is the parent of an event that is done.
LEMMA SignalComes ==
    ASSUME LInv, [Next]_vars, NEW x \in Event, ~signal[x], signal'[x]
    PROVE  /\ UNCHANGED <<queue, path, result>>
           /\ \A a \in Bus : x \notin inflight'[a]
           /\ \E t \in Task : \A a \in Bus :
                 \/ ~InUse(a, x)
                 \/ task[t].pc \in {"end", "unlock"} /\ task[t].ev = x /\ task[t].bus = a
                 \/ \E c \in Event : parent[c] = x
<1>1. TypeOK
  BY DEF LInv, IInv
<1>2. ~Idles /\ ~\E t \in Task, b \in Bus, e \in Event : Dequeues(t, b, e)
  BY DEF Idles, Dequeues, eventVars
<1>3. ~\E t \in Task : Settles(t) \/ Create(t) \/ Start(t)
  BY SettleGives, CreateGives, StartGives DEF eventVars
<1>4. ~\E t \in Task, c \in Event, j \in Jumper : HAwait(t, c, j)
  BY AwaitGives
<1>5. ~\E b \in Bus, e \in Event : ExtEmit(b, e)
  BY DEF ExtEmit, Emit
<1>6. ~\E t \in Task, c \in Event : HEmit(t, c)
  BY DEF HEmit, Emit
<1>7. ~\E t \in Task : HForward(t)
  BY DEF HForward, Emit
<1>8. ASSUME NEW S, Finished(S) PROVE x \in S /\ UNCHANGED <<queue, path, result>>
  BY <1>8 DEF Finished, resultVars
<1>9. status[x] # "completed"
  BY DEF LInv, Kin, SignalIsStatus
<1>10. ASSUME NEW B, Completable(x, B) PROVE \A a \in Bus \ B : ~InUse(a, x)
  BY <1>10 DEF Completable, ResultsReady
<1>11. ASSUME NEW t \in Task, End(t) PROVE
            /\ UNCHANGED <<queue, path, result>>
            /\ \A a \in Bus : x \notin inflight'[a]
            /\ task[t].pc = "end" /\ task[t].ev = x
            /\ \A a \in Bus \ {task[t].bus} : ~InUse(a, x)
  <2> DEFINE e == task[t].ev
             b == task[t].bus
  <2>1. PICK S \in SUBSET {e} : /\ Finished(S) /\ (e \in S <=> Completable(e, {b}))
                                /\ \A a \in Bus : inflight'[a] = inflight[a] \ S
    BY <1>11, EndGives
  <2>2. x = e /\ x \in S /\ task[t].pc = "end" /\ Completable(x, {b})
    BY <1>8, <1>11, <2>1, EndGives
  <2>3. \A a \in Bus : x \notin inflight'[a]
    BY <2>1, <2>2
  <2> HIDE DEF e, b
  <2>4. \A a \in Bus \ {b} : ~InUse(a, x)
    BY <1>10, <2>2
  <2>5. QED
    BY <1>8, <2>1, <2>2, <2>3, <2>4 DEF e, b
<1>12. ASSUME NEW t \in Task, Unlock(t) PROVE
            /\ UNCHANGED <<queue, path, result>>
            /\ \A a \in Bus : x \notin inflight'[a]
            /\ task[t].pc = "unlock"
            /\ \A a \in Bus : ~InUse(a, x) \/ (task[t].ev = x /\ task[t].bus = a)
  <2> DEFINE e == task[t].ev
             b == task[t].bus
             S == CompletableTree(e, b)
  <2>1. /\ task[t].pc = "unlock" /\ Finished(S)
        /\ \A a \in Bus : inflight'[a] = inflight[a] \ (S \cup IF a = b THEN {e} ELSE {})
    BY <1>12, UnlockGives
  <2>2. x \in S
    BY <1>8, <2>1
  <2>3. ResultsReady(x, IF x = e THEN {b} ELSE {})
    <3>1. signal[x] \/ \A y \in {x} \cup Below(x, Blocking) :
                 \/ status[y] = "completed" \/ signal[y]
                 \/ ResultsReady(y, IF y = e THEN {b} ELSE {})
      BY <2>2 DEF CompletableTree
    <3>2. QED
      BY <1>9, <3>1
  <2>4. \A a \in Bus : ~InUse(a, x) \/ (e = x /\ b = a)
    BY <2>3 DEF ResultsReady
  <2> HIDE DEF S
  <2>5. QED
    BY <1>8, <2>1, <2>2, <2>4
<1>13. ASSUME NEW t \in Task, Propagate(t) PROVE
            /\ UNCHANGED <<queue, path, result>>
            /\ \A a \in Bus : x \notin inflight'[a]
            /\ \E c \in Event : parent[c] = x
  <2> DEFINE e == task[t].up
             p == parent[e]
  <2>1. /\ e \in Event
        /\ \E S \in SUBSET {p} : Finished(S) /\ \A a \in Bus : inflight'[a] = inflight[a] \ S
    BY <1>2, <1>13, PropagateGives
  <2> HIDE DEF p
  <2>2. x = p
    BY <1>8, <2>1
  <2>3. QED
    BY <1>8, <2>1, <2>2 DEF p
<1>14. PICK t \in Task : End(t) \/ Unlock(t) \/ Propagate(t)
  BY <1>2, <1>3, <1>4, <1>5, <1>6, <1>7, Kinds
<1>15. QED
  BY <1>11, <1>12, <1>13, <1>14

-----------------------------------------------------------------------------
(* Every bus that has an event handles it *)

\* Some bus forwards e, or has a handler for it that emits children.
Forwarded(e) == \E b \in Bus : \E h \in HandlersFor[b][e] : Target[h] # NoBus
Parental(e) == \E b \in Bus : \E h \in HandlersFor[b][e] : Emits[h] # {}
\* No event is both forwarded and a parent.  When the tree walk reaches the
\* parent, the code leaves one bus out of account without asking what the parent
\* still has to do there (event_bus.py:2187): a relayed parent can then be
\* completed early, as the run EventBus_relay_completes_early shows.
Unmixed == \A e \in Event : ~(Forwarded(e) /\ Parental(e))

\* Bus b has chosen its handlers for e.
Handled(b, e) == \A h \in HandlersFor[b][e] : result[e][h] # "none" \/ Target[h] \in path[e]

\* Places of a task that has chosen the handlers, up to the end of its step.
Past == {"next", "hwait", "start", "body", "await", "sent", "end", "unlock"}

\* The buses that have an event to process are in its path.
InPath ==
    /\ \A b \in Bus : \A e \in Range(queue[b]) \cup processing[b] : b \in path[e]
    /\ \A t \in Task : task[t].pc \in Working => task[t].bus \in path[task[t].ev]
\* Tasks run the handlers that their bus has for their event.
OwnHandlers ==
    \A t \in Task : LET s == task[t] IN
        /\ s.pc \in Chosen \cup {"create"} => s.todo \subseteq HandlersFor[s.bus][s.ev]
        /\ s.pc \in Locking \cup {"hwait"} => s.cur \in HandlersFor[s.bus][s.ev]
\* Handlers left out of the choice have a result, or would forward in a loop.
RestExcluded ==
    \A t \in Task : LET s == task[t] IN
        s.pc = "create" => \A h \in HandlersFor[s.bus][s.ev] \ s.todo :
                              result[s.ev][h] # "none" \/ Target[h] \in path[s.ev]
\* After the choice the event is handled on the task's bus,
PastHandled == \A t \in Task : task[t].pc \in Past => Handled(task[t].bus, task[t].ev)
\* a bus that has not handled an event has it to process,
OpenIsHere ==
    \A e \in Event : \A b \in path[e] :
        Handled(b, e) \/ e \in Range(queue[b]) \cup processing[b]
\* and a complete event is handled wherever it was emitted.
DoneHandled == \A e \in Event : signal[e] => \A b \in path[e] : Handled(b, e)
\* An event that is not forwarded is on one bus,
OneBusOnly == \A e \in Event : ~Forwarded(e) => \A a, b \in path[e] : a = b
\* and one that has children is handled there.
ParentHandled ==
    \A c \in Event : parent[c] \in Event =>
        ~Forwarded(parent[c]) /\ \A b \in path[parent[c]] : Handled(b, parent[c])

\* The invariant of the section.
HInv == InPath /\ OwnHandlers /\ RestExcluded /\ PastHandled /\ OpenIsHere /\ DoneHandled
        /\ OneBusOnly /\ ParentHandled

\* An element of a queue is an event.
LEMMA QueueEvents ==
    ASSUME TypeOK, NEW b \in Bus
    PROVE  Range(queue[b]) \subseteq Event /\ processing[b] \subseteq Event /\ inflight[b] \subseteq Event
<1>1. queue[b] \in Seq(Event) /\ processing[b] \subseteq Event /\ inflight[b] \subseteq Event
  BY TypeParts DEF BusTypes
<1>2. \A x \in Range(queue[b]) : \E i \in 1..Len(queue[b]) : queue[b][i] = x
  BY <1>1, RangeIndex
<1>3. QED
  BY <1>1, <1>2

\* The same after a step.
LEMMA QueueEventsNext ==
    ASSUME TypeOK', NEW b \in Bus
    PROVE  Range(queue'[b]) \subseteq Event /\ processing'[b] \subseteq Event
<1>1. queue'[b] \in Seq(Event) /\ processing'[b] \subseteq Event
  BY DEF TypeOK
<1>2. \A x \in Range(queue'[b]) : \E i \in 1..Len(queue'[b]) : queue'[b][i] = x
  BY <1>1, RangeIndex
<1>3. QED
  BY <1>1, <1>2

\* A bus that has an event to process stays in the event's path.
LEMMA InPathStep ==
    ASSUME LInv, InPath, [Next]_vars
    PROVE  InPath'
<1>1. Onward /\ TypeOK /\ TypeOK'
  BY GoesOnward, TypeStep DEF LInv, IInv
<1>2. ASSUME NEW b \in Bus, NEW e \in Range(queue'[b]) \cup processing'[b] PROVE b \in path'[e]
  <2>1. e \in Event
    BY <1>1, <1>2, QueueEventsNext
  <2>2. CASE e \in Range(queue[b]) \cup processing[b]
    BY <1>1, <2>1, <2>2 DEF InPath, Onward
  <2>3. CASE e \notin Range(queue[b]) \cup processing[b]
    BY <1>2, <2>1, <2>3, QueueComes
  <2>4. QED
    BY <2>2, <2>3
<1>3. ASSUME NEW u \in Task, task'[u].pc \in Working PROVE task'[u].bus \in path'[task'[u].ev]
  <2> DEFINE s == task[u]
             r == task'[u]
  <2>1. Moved(s, r)
    BY Moves
  <2>2. CASE s.pc \in Working /\ SameEvent(s, r)
    <3>1. s.ev \in Event
      BY <1>1, <2>2, TaskFields DEF TaskOK
    <3>2. QED
      BY <1>1, <2>2, <3>1 DEF InPath, SameEvent, Onward
  <2>3. CASE r.bus \in Bus /\ r.ev \in Range(queue[r.bus]) \cup processing[r.bus]
    <3>1. r.ev \in Event
      BY <1>1, <2>3, QueueEvents
    <3>2. QED
      BY <1>1, <2>3, <3>1 DEF InPath, Onward
  <2>4. r = s => SameEvent(s, r)
    BY DEF SameEvent
  <2>5. \/ s.pc \in Working /\ SameEvent(s, r)
        \/ r.bus \in Bus /\ r.ev \in Range(queue[r.bus]) \cup processing[r.bus]
    BY <1>3, <2>1, <2>4
    DEF Moved, Leaves, Turns, Waits, Takes, Joins, Enters, Chooses, Resets, Turned, Calls, Breaks, Ends,
        Working, Running
  <2>6. QED
    BY <2>2, <2>3, <2>5
<1>4. QED
  BY <1>2, <1>3 DEF InPath

\* A task runs handlers that its bus has for its event.
LEMMA OwnStep ==
    ASSUME LInv, OwnHandlers, [Next]_vars
    PROVE  OwnHandlers'
<1> SUFFICES ASSUME NEW u \in Task
             PROVE  LET r == task'[u] IN
                    /\ r.pc \in Chosen \cup {"create"} => r.todo \subseteq HandlersFor[r.bus][r.ev]
                    /\ r.pc \in Locking \cup {"hwait"} => r.cur \in HandlersFor[r.bus][r.ev]
  BY DEF OwnHandlers
<1> DEFINE s == task[u]
           r == task'[u]
           Own(x) == /\ x.pc \in Chosen \cup {"create"} => x.todo \subseteq HandlersFor[x.bus][x.ev]
                     /\ x.pc \in Locking \cup {"hwait"} => x.cur \in HandlersFor[x.bus][x.ev]
<1>1. Moved(s, r) /\ Own(s)
  BY Moves DEF OwnHandlers
<1> HIDE DEF s, r
<1>2. Own(r)
  BY <1>1
  DEF Moved, Leaves, Turns, Waits, Takes, Joins, Enters, Chooses, Resets, Turned, Calls, Breaks, Ends,
      SameEvent, Chosen, Locking, Running
<1>3. QED
  BY <1>2 DEF r

\* The handlers a task has not chosen had their turn or would forward in a loop.
LEMMA RestStep ==
    ASSUME LInv, RestExcluded, [Next]_vars
    PROVE  RestExcluded'
<1> SUFFICES ASSUME NEW u \in Task, task'[u].pc = "create",
                    NEW h \in HandlersFor[task'[u].bus][task'[u].ev] \ task'[u].todo
             PROVE  result'[task'[u].ev][h] # "none" \/ Target[h] \in path'[task'[u].ev]
  BY DEF RestExcluded
<1> DEFINE s == task[u]
           r == task'[u]
<1>1. Moved(s, r) /\ Onward
  BY Moves, GoesOnward
<1>2. r = s \/ Chooses(s, r)
  BY <1>1
  DEF Moved, Leaves, Turns, Waits, Takes, Joins, Enters, Resets, Turned, Calls, Breaks, Ends, Running
<1>3. s.pc \in {"create", "select"} /\ r.ev = s.ev /\ r.bus = s.bus
  BY <1>2 DEF Chooses, SameEvent
<1>4. s.ev \in Event /\ s.bus \in Bus /\ HandlersFor[s.bus][s.ev] \subseteq Handler
  BY <1>3, TaskFields, HandlerAssumption DEF LInv, IInv, TaskOK, Working
<1>5. result[s.ev][h] # "none" \/ Target[h] \in path[s.ev]
  BY <1>2, <1>3 DEF RestExcluded, Chooses, WouldCreateLoop, Terminal
<1>6. QED
  BY <1>1, <1>3, <1>4, <1>5 DEF Onward

\* A bus that has handled an event has handled it.
LEMMA HandledStays ==
    ASSUME Onward, NEW b \in Bus, NEW e \in Event, Handled(b, e)
    PROVE  Handled(b, e)'
BY HandlerAssumption DEF Handled, Onward

\* A task past its choice has handled its event on its bus.
LEMMA PastStep ==
    ASSUME LInv, InPath, RestExcluded, PastHandled, DoneHandled, [Next]_vars
    PROVE  PastHandled'
<1> SUFFICES ASSUME NEW u \in Task, task'[u].pc \in Past
             PROVE  \A h \in HandlersFor[task'[u].bus][task'[u].ev] :
                        result'[task'[u].ev][h] # "none" \/ Target[h] \in path'[task'[u].ev]
  BY DEF PastHandled, Handled
<1> DEFINE s == task[u]
           r == task'[u]
<1>1. Moved(s, r) /\ Onward /\ TypeOK
  BY Moves, GoesOnward DEF LInv, IInv
<1>2. \/ s.pc \in Past /\ SameEvent(s, r)
      \/ Resets(s, r)
      \/ Enters(s, r) /\ r.pc = "unlock"
  <2>1. r = s => SameEvent(s, r)
    BY DEF SameEvent
  <2>2. QED
    BY <1>1, <2>1
    DEF Moved, Leaves, Turns, Waits, Takes, Joins, Enters, Chooses, Turned, Calls, Breaks, Ends,
        Running, Past
<1>3. r.ev = s.ev /\ r.bus = s.bus /\ s.pc \in Working
  BY <1>2 DEF SameEvent, Past, Resets, Enters, Working
<1>4. s.ev \in Event /\ s.bus \in Bus /\ s.bus \in path[s.ev] /\ HandlersFor[s.bus][s.ev] \subseteq Handler
  BY <1>1, <1>3, TaskFields, HandlerAssumption DEF TaskOK, InPath
<1>5. CASE Handled(s.bus, s.ev)
  BY <1>1, <1>3, <1>4, <1>5 DEF Handled, Onward
<1>6. CASE Resets(s, r)
  BY <1>1, <1>3, <1>4, <1>6 DEF Resets, RestExcluded, Onward
<1>7. CASE Enters(s, r) /\ r.pc = "unlock"
  BY <1>4, <1>5, <1>7 DEF Enters, DoneHandled
<1>8. CASE s.pc \in Past
  BY <1>5, <1>8 DEF PastHandled
<1>9. QED
  BY <1>2, <1>6, <1>7, <1>8

\* A bus lets go of an event when the event is handled there.
LEMMA OpenStep ==
    ASSUME LInv, PastHandled, OpenIsHere, [Next]_vars
    PROVE  OpenIsHere'
<1> SUFFICES ASSUME NEW e \in Event, NEW b \in path'[e], e \notin Range(queue'[b]) \cup processing'[b]
             PROVE  Handled(b, e)'
  BY DEF OpenIsHere, Handled
<1>1. Onward /\ TypeOK /\ TypeOK'
  BY GoesOnward, TypeStep DEF LInv, IInv
<1>2. b \in Bus
  BY <1>1 DEF TypeOK
<1>3. b \in path[e]
  BY <1>2, PathGrows
<1>4. CASE e \in Range(queue[b]) \cup processing[b]
  <2>1. PICK t \in Task : Unlock(t) /\ task[t].ev = e /\ task[t].bus = b
    BY <1>2, <1>4, QueueLeaves
  <2>2. task[t].pc = "unlock"
    BY <2>1, UnlockGives
  <2>3. Handled(b, e)
    BY <2>1, <2>2 DEF PastHandled, Past
  <2>4. QED
    BY <1>1, <1>2, <2>3, HandledStays
<1>5. CASE e \notin Range(queue[b]) \cup processing[b]
  <2>1. Handled(b, e)
    BY <1>3, <1>5 DEF OpenIsHere
  <2>2. QED
    BY <1>1, <1>2, <2>1, HandledStays
<1>6. QED
  BY <1>4, <1>5

\* An event is completed when every bus that learnt of it has handled it.
LEMMA DoneStep ==
    ASSUME LInv, PastHandled, OpenIsHere, DoneHandled, ParentHandled, [Next]_vars
    PROVE  DoneHandled'
<1> SUFFICES ASSUME NEW e \in Event, signal'[e], NEW b \in path'[e] PROVE Handled(b, e)'
  BY DEF DoneHandled, Handled
<1>1. Onward /\ TypeOK /\ TypeOK'
  BY GoesOnward, TypeStep DEF LInv, IInv
<1>2. b \in Bus
  BY <1>1 DEF TypeOK
<1>3. b \in path[e]
  BY <1>2, PathGrows
<1>4. CASE signal[e]
  BY <1>1, <1>2, <1>3, <1>4, HandledStays DEF DoneHandled
<1>5. CASE ~signal[e]
  <2>1. PICK t \in Task :
           \/ ~InUse(b, e)
           \/ task[t].pc \in {"end", "unlock"} /\ task[t].ev = e /\ task[t].bus = b
           \/ \E c \in Event : parent[c] = e
    BY <1>2, <1>5, SignalComes
  <2>2. Handled(b, e)
    BY <1>3, <2>1 DEF OpenIsHere, InUse, PastHandled, Past, ParentHandled
  <2>3. QED
    BY <1>1, <1>2, <2>2, HandledStays
<1>6. QED
  BY <1>4, <1>5

\* What a task forwards is an event for which some bus has a forwarding handler.
LEMMA ForwardsOwn ==
    ASSUME LInv, OwnHandlers, NEW t \in Task, HForward(t)
    PROVE  Forwarded(task[t].ev)
<1>1. task[t].pc = "body" /\ Target[task[t].cur] # NoBus
  BY DEF HForward, InBody, At
<1>2. task[t].bus \in Bus /\ task[t].cur \in HandlersFor[task[t].bus][task[t].ev]
  BY <1>1, TaskFields DEF LInv, IInv, TaskOK, Working, OwnHandlers, Locking
<1>3. QED
  BY <1>1, <1>2 DEF Forwarded

\* An event nobody has emitted comes to one bus at a time.
LEMMA FirstBus ==
    ASSUME LInv, Emitted, [Next]_vars, NEW e \in Event, status[e] = "new",
           NEW a \in path'[e], NEW b \in path'[e]
    PROVE  a = b
<1>1. TypeOK /\ path[e] = {}
  BY DEF LInv, IInv, Emitted
<1>2. path'[e] # path[e]
  BY <1>1
<1>3. ASSUME NEW d \in Bus, NEW x \in Event, NEW p, NEW h, Emit(d, x, p, h) PROVE a = b
  <2>1. Noted(d, x, p, h)
    BY <1>1, <1>3, EmitGives
  <2>2. path'[e] \subseteq {d}
    BY <1>1, <2>1 DEF Noted
  <2>3. QED
    BY <2>2
<1>4. ~Idles /\ ~\E t \in Task, d \in Bus, x \in Event : Dequeues(t, d, x)
  BY <1>2 DEF Idles, Dequeues, eventVars
<1>5. ~\E t \in Task : Settles(t) \/ Create(t) \/ Start(t)
  BY <1>2, SettleGives, CreateGives, StartGives DEF eventVars
<1>6. ~\E t \in Task, c \in Event, j \in Jumper : HAwait(t, c, j)
  BY <1>2, AwaitGives
<1>7. ~\E t \in Task : End(t) \/ Unlock(t) \/ Propagate(t)
  BY <1>2, Finishes DEF Finished
<1>8. ASSUME NEW d \in Bus, NEW x \in Event, ExtEmit(d, x) PROVE a = b
  BY <1>3, <1>8 DEF ExtEmit
<1>9. ASSUME NEW t \in Task, NEW c \in Event, HEmit(t, c) PROVE a = b
  BY <1>3, <1>9, EmitChildGives
<1>10. ASSUME NEW t \in Task, HForward(t) PROVE a = b
  BY <1>3, <1>10, ForwardGives
<1>11. QED
  BY <1>4, <1>5, <1>6, <1>7, <1>8, <1>9, <1>10, Kinds

\* An event that nobody forwards stays on the bus it was emitted on.
LEMMA OneBusStep ==
    ASSUME LInv, Emitted, OwnHandlers, OneBusOnly, [Next]_vars
    PROVE  OneBusOnly'
<1> SUFFICES ASSUME NEW e \in Event, ~Forwarded(e), NEW a \in path'[e], NEW b \in path'[e] PROVE a = b
  BY DEF OneBusOnly
<1>1. TypeOK'
  BY TypeStep DEF LInv, IInv
<1>2. a \in Bus /\ b \in Bus
  BY <1>1 DEF TypeOK
<1>3. CASE status[e] # "new"
  <2>1. ~\E t \in Task : HForward(t) /\ task[t].ev = e
    BY ForwardsOwn
  <2>2. a \in path[e] /\ b \in path[e]
    BY <1>2, <1>3, <2>1, PathGrows
  <2>3. QED
    BY <2>2 DEF OneBusOnly
<1>4. CASE status[e] = "new"
  BY <1>2, <1>4, FirstBus DEF Emitted
<1>5. QED
  BY <1>3, <1>4

\* An event whose handler emits children is on one bus, which has chosen its
\* handlers: the bus that _propagate_parent_completion ignores has no more to do.
LEMMA ParentHandledStep ==
    ASSUME Unmixed, LInv, SInv, InPath, OwnHandlers, PastHandled, OneBusOnly, ParentHandled, [Next]_vars
    PROVE  ParentHandled'
<1> SUFFICES ASSUME NEW c \in Event, parent'[c] \in Event
             PROVE  /\ ~Forwarded(parent'[c])
                    /\ \A b \in path'[parent'[c]] : \A h \in HandlersFor[b][parent'[c]] :
                          result'[parent'[c]][h] # "none" \/ Target[h] \in path'[parent'[c]]
  BY DEF ParentHandled, Handled
<1> DEFINE p == parent'[c]
<1>1. Onward /\ TypeOK /\ TypeOK'
  BY GoesOnward, TypeStep DEF LInv, IInv
<1>2. status[p] # "new" /\ ~Forwarded(p) /\ \A b \in path[p] : Handled(b, p)
  <2>1. CASE p = parent[c]
    BY <2>1 DEF ParentHandled, SInv, StartedShown, Begun
  <2>2. CASE p # parent[c]
    <3>1. PICK t \in Task : HEmit(t, c) /\ p = task[t].ev
      BY <2>2, ParentComes
    <3>2. task[t].pc \in {"body", "await"} /\ task[t].bus \in Bus /\ c \in Emits[task[t].cur]
      BY <3>1, EmitChildGives
    <3>3. task[t].cur \in HandlersFor[task[t].bus][p] /\ Handled(task[t].bus, p) /\ task[t].bus \in path[p]
      BY <3>1, <3>2 DEF OwnHandlers, Locking, PastHandled, Past, InPath, Working
    <3>4. Parental(p)
      BY <3>2, <3>3 DEF Parental
    <3>5. ~Forwarded(p)
      BY <3>4 DEF Unmixed
    <3>6. \A b \in path[p] : b = task[t].bus
      BY <3>3, <3>5 DEF OneBusOnly
    <3>7. status[p] # "new"
      BY <3>1, <3>2 DEF SInv, Emitted, AtEvent, Working
    <3>8. QED
      BY <3>3, <3>5, <3>6, <3>7
  <2>3. QED
    BY <2>1, <2>2
<1> HIDE DEF p
<1>3. p \in Event
  BY DEF p
<1>4. path'[p] \subseteq path[p] /\ path'[p] \subseteq Bus
  <2>1. path' \in [Event -> SUBSET Bus]
    BY <1>1 DEF TypeOK
  <2>2. path'[p] \subseteq Bus
    BY <1>3, <2>1
  <2>3. ~\E t \in Task : HForward(t) /\ task[t].ev = p
    BY <1>2, ForwardsOwn
  <2>4. \A b \in Bus : b \in path'[p] => b \in path[p]
    BY <1>2, <1>3, <2>3, PathGrows
  <2>5. QED
    BY <2>2, <2>4
<1>5. \A b \in path'[p] : \A h \in HandlersFor[b][p] : result'[p][h] # "none" \/ Target[h] \in path'[p]
  BY <1>1, <1>2, <1>3, <1>4, HandlerAssumption DEF Handled, Onward
<1>6. QED
  BY <1>2, <1>5 DEF p

\* The parts of the invariant together.
LEMMA HStep ==
    ASSUME Unmixed, LInv, SInv, HInv, [Next]_vars
    PROVE  HInv'
BY InPathStep, OwnStep, RestStep, PastStep, OpenStep, DoneStep, OneBusStep, ParentHandledStep
DEF HInv, SInv

\* It holds in the beginning.
LEMMA HInit == Init => HInv
<1> SUFFICES ASSUME Init PROVE HInv
  OBVIOUS
<1>1. \A t \in Task : task[t].pc \in {"get", "idle"}
  BY DEF Init, Fresh
<1>2. \A e \in Event : path[e] = {} /\ parent[e] = NoEvent /\ ~signal[e]
  BY DEF Init
<1>3. \A b \in Bus : Range(queue[b]) = {} /\ processing[b] = {}
  BY DEF Init, Range
<1>4. InPath /\ OwnHandlers /\ RestExcluded /\ PastHandled
  BY <1>1, <1>3 DEF InPath, OwnHandlers, RestExcluded, PastHandled, Working, Chosen, Locking, Past
<1>5. OpenIsHere /\ DoneHandled /\ OneBusOnly /\ ParentHandled
  BY <1>2, NamesAssumption DEF OpenIsHere, DoneHandled, OneBusOnly, ParentHandled
<1>6. QED
  BY <1>4, <1>5 DEF HInv

\* It holds in every reachable state.
LEMMA HInductive ==
    ASSUME Middlewares = FALSE, Unmixed
    PROVE  Spec => [](LInv /\ LockInv /\ SInv /\ HInv)
<1>1. Init => LInv /\ LockInv /\ SInv /\ HInv
  BY LifeInit, LockInit, SInit, HInit
<1>2. LInv /\ LockInv /\ SInv /\ HInv /\ [Next]_vars => (LInv /\ LockInv /\ SInv /\ HInv)'
  BY LifeStep, LockStep, SStep, HStep DEF LInv, IInv
<1>3. QED
  BY <1>1, <1>2, PTL DEF Spec

\* An event is complete only when every bus that it was emitted on has run all
\* handlers it has for it (_mark_event_complete_if_ready looks at the queues and
\* in-flight sets of the buses in the path), for any buses, handlers and forwarding
\* in which no event is both forwarded and a parent.
THEOREM CompleteEventsAreHandled ==
    ASSUME Middlewares = FALSE, Unmixed
    PROVE  Spec => []CompleteMeansHandled
<1>1. LInv /\ HInv => CompleteMeansHandled
  <2> SUFFICES ASSUME LInv, HInv, NEW e \in Event, NEW b \in Bus, signal[e], b \in path[e],
                      NEW h \in HandlersFor[b][e]
               PROVE  result[e][h] \in Terminal \/ Target[h] \in path[e]
    BY DEF CompleteMeansHandled
  <2>1. h \in Handler
    BY HandlerAssumption
  <2>2. Handled(b, e)
    BY DEF HInv, DoneHandled
  <2>3. QED
    BY <2>1, <2>2 DEF LInv, IInv, SignalSettled, Handled
<1>2. QED
  BY <1>1, HInductive, PTL

-----------------------------------------------------------------------------
(* No bus still has a completed event to process *)

\* Of the handlers for an event, at most one forwards it to each bus.
OneForwarder ==
    \A e \in Event, a, b \in Bus : \A g \in HandlersFor[a][e], h \in HandlersFor[b][e] :
        Target[g] = Target[h] /\ Target[g] # NoBus => g = h

\* Places of a task that has an event and has not finished with it on its bus.
Taken == Working \ {"prop", "after"}

\* No queue has an event twice, or one that a task has taken.
QueuedOnce == \A b \in Bus : Distinct(queue[b])
QueuedUntaken ==
    \A b \in Bus : \A e \in Range(queue[b]) :
        /\ e \notin processing[b]
        /\ \A t \in Task : task[t].pc \in Taken /\ task[t].bus = b => task[t].ev # e

\* A forwarding handler that is still to run, or to forward, has a bus to forward
\* to where the event is not.
ToRun(s, h) ==
    /\ s.pc \in Chosen \cup {"create"}
    /\ h \in s.todo \/ (s.cur = h /\ s.pc \in {"hwait", "start"})
ForwardersFresh ==
    \A t \in Task : LET s == task[t] IN
        /\ s.pc \in {"body", "await"} => Target[s.cur] \notin path[s.ev]
        /\ \A h \in Handler : ToRun(s, h) /\ ~Ran(s.ev, h) => Target[h] \notin path[s.ev]

\* An event with children has left the queues.
ParentTaken == \A c \in Event, b \in Bus : parent[c] \in Event => parent[c] \notin Range(queue[b])

\* The invariant of the section.
CInv == QueuedOnce /\ QueuedUntaken /\ ForwardersFresh /\ ParentTaken /\ CompleteMeansConsumed

\* Every emission puts the event on a bus that does not have it.
LEMMA EmitsElsewhere ==
    ASSUME LInv, Emitted, ForwardersFresh, [Next]_vars
    PROVE  \/ UNCHANGED <<queue, inflight, processing>>
           \/ \E t \in Task, b \in Bus, e \in Event : Dequeues(t, b, e)
           \/ /\ UNCHANGED queue
              /\ \A a \in Bus : processing'[a] \subseteq processing[a] /\ inflight'[a] \subseteq inflight[a]
           \/ \E b \in Bus, e \in Event : \E p, h :
                 b \notin path[e] /\ status[e] # "completed" /\ Emit(b, e, p, h)
<1>1. CASE Idles \/ \E t \in Task : Settles(t) \/ Create(t) \/ Start(t)
  BY <1>1, SettleGives, CreateGives, StartGives DEF Idles, busVars
<1>2. CASE \E t \in Task, c \in Event, j \in Jumper : HAwait(t, c, j)
  BY <1>2, AwaitGives DEF busVars
<1>3. CASE \E t \in Task : End(t) \/ Unlock(t) \/ Propagate(t)
  BY <1>3, Finishes
<1>4. \A e \in Event : status[e] = "new" => path[e] = {} /\ status[e] # "completed"
  BY DEF Emitted
<1>5. CASE \E b \in Bus, e \in Event : ExtEmit(b, e)
  <2>1. PICK b \in Bus, e \in Event : status[e] = "new" /\ Emit(b, e, NoEvent, NoHandler)
    BY <1>5 DEF ExtEmit
  <2>2. QED
    BY <1>4, <2>1
<1>6. CASE \E t \in Task, c \in Event : HEmit(t, c)
  <2>1. PICK b, c, p, h : b \in Bus /\ c \in Event /\ status[c] = "new" /\ Emit(b, c, p, h)
    BY <1>6, EmitChildGives
  <2>2. QED
    BY <1>4, <2>1
<1>7. CASE \E t \in Task : HForward(t)
  <2>1. PICK t \in Task : HForward(t)
    BY <1>7
  <2> DEFINE e == task[t].ev
             b == Target[task[t].cur]
  <2>2. e \in Event /\ b \in Bus /\ Emit(b, e, parent[e], link[e])
    BY <2>1, ForwardGives
  <2>3. status[e] # "completed" /\ task[t].pc = "body"
    BY <2>1, ForwardGives
  <2>4. b \notin path[e]
    BY <2>3 DEF ForwardersFresh
  <2>5. QED
    BY <2>2, <2>3, <2>4
<1>8. QED
  BY <1>1, <1>2, <1>3, <1>5, <1>6, <1>7, Kinds

\* A bus gets an event to process or in flight only as it learns of it.
LEMMA QueueGrows ==
    ASSUME LInv, Emitted, ForwardersFresh, [Next]_vars, NEW x \in Event, NEW a \in Bus,
           x \in Range(queue'[a]) \cup inflight'[a], x \notin Range(queue[a])
    PROVE  x \in inflight[a] \/ (a \in path'[x] /\ a \notin path[x])
<1>1. TypeOK
  BY DEF LInv, IInv
<1>2. CASE \E b \in Bus, e \in Event : \E p, h :
              b \notin path[e] /\ status[e] # "completed" /\ Emit(b, e, p, h)
  <2>1. PICK b, e, p, h : b \in Bus /\ e \in Event /\ b \notin path[e] /\ Noted(b, e, p, h) /\ Queued(b, e)
    BY <1>1, <1>2, EmitGives
  <2>2. x \in inflight[a] \/ (x = e /\ a = b)
    BY <2>1 DEF Queued
  <2>3. QED
    BY <2>1, <2>2 DEF Noted
<1>3. QED
  BY <1>2, EmitsElsewhere DEF Dequeues

\* Who takes an event out of a queue.
LEMMA TakesDequeues ==
    ASSUME LInv, [Next]_vars, NEW u \in Task, Takes(task[u], task'[u])
    PROVE  \E b \in Bus, e \in Event : Dequeues(u, b, e)
<1> DEFINE s == task[u]
           r == task'[u]
<1>1. TypeOK
  BY DEF LInv, IInv
<1>2. s.pc \in {"get", "poll"} /\ r.pc \in {"lock", "select"} /\ (s.pc = "poll" => r.pc = "select")
  BY DEF Takes
<1>3. Acts(u)
  <2>1. ~Aside(u)
    BY <1>2 DEF Aside, Leaves, Turns
  <2>2. QED
    BY <2>1, Moves
<1>4. ~Process(u) /\ ~Body(u)
  BY <1>2 DEF Process, Body, At, InBody, InHandler, EnterLock, LockGranted, Check, Select, Create, NextHandler,
       HandlerLockGranted, Start, End, Unlock, Propagate, HForward, HReturn, HResume, HLeave, HCancel,
       HAwaitCancelled, HEmit, HAwait
<1>5. CASE u \in Bus /\ (LoopGet(u) \/ LoopAgain(u))
  <2>1. LoopGet(u)
    BY <1>2, <1>5 DEF LoopAgain, At
  <2>2. QED
    BY <1>1, <1>5, <2>1, LoopDequeues
<1>6. CASE u \in Jumper /\ Jump(u)
  <2>1. s.pc = "poll" /\ r.pc = "select"
    BY <1>2, <1>6 DEF Jump, At, Polling, NothingToDo, JumpYield, JumpGiveUp, JumpDone, JumpAgain,
                      JumpTake, JumpJoin
  <2>2. task \in [Task -> TaskState] /\ s \in TaskState
    BY <1>1, TaskFields
  <2>3. ~JumpYield(u) /\ ~JumpGiveUp(u) /\ ~JumpDone(u) /\ ~JumpAgain(u) /\ \A b \in Bus : ~JumpJoin(u, b)
    <3>1. ~JumpYield(u)
      BY <2>1 DEF JumpYield
    <3>2. ASSUME NEW p \in PC, Goto(u, p) PROVE p = "select"
      BY <2>1, <2>2, <3>2 DEF Goto, TaskState
    <3>3. ~JumpGiveUp(u) /\ ~JumpDone(u)
      BY <3>2 DEF JumpGiveUp, JumpDone, PC
    <3>4. ~JumpAgain(u)
      BY <2>1 DEF JumpAgain, At
    <3>5. \A b \in Bus : ~JumpJoin(u, b)
      BY <2>1, <2>2 DEF JumpJoin, TaskState
    <3>6. QED
      BY <3>1, <3>3, <3>4, <3>5
  <2>4. QED
    BY <1>1, <1>6, <2>3, JumpDequeues DEF Jump
<1>7. QED
  BY <1>3, <1>4, <1>5, <1>6 DEF Acts

\* A bus queues an event when it learns of it, so only once.
LEMMA QueuedOnceStep ==
    ASSUME LInv, Emitted, InPath, ForwardersFresh, QueuedOnce, [Next]_vars
    PROVE  QueuedOnce'
<1> SUFFICES ASSUME NEW a \in Bus PROVE Distinct(queue'[a])
  BY DEF QueuedOnce
<1>1. TypeOK /\ Distinct(queue[a]) /\ queue[a] \in Seq(Event)
  BY TypeParts DEF LInv, IInv, QueuedOnce, BusTypes
<1>2. CASE UNCHANGED queue
  BY <1>1, <1>2
<1>3. ASSUME NEW t \in Task, NEW b \in Bus, NEW e \in Event, Dequeues(t, b, e) PROVE Distinct(queue'[a])
  BY <1>1, <1>3 DEF Dequeues
<1>4. ASSUME NEW b \in Bus, NEW e \in Event, NEW p, NEW h,
             b \notin path[e], status[e] # "completed", Emit(b, e, p, h)
      PROVE  Distinct(queue'[a])
  <2>1. CASE a # b
    BY <1>1, <1>4, <2>1, EmitGives DEF Queued
  <2>2. CASE a = b
    <3>1. queue'[a] = Append(queue[a], e) /\ e \notin Range(queue[a])
      BY <1>1, <1>4, <2>2, EmitGives DEF Queued, InPath
    <3>2. \A i \in 1..Len(queue[a]) : queue[a][i] # e
      BY <1>1, <3>1, RangeIndex
    <3> DEFINE s == queue[a]
    <3>3. s \in Seq(Event) /\ Distinct(s) /\ \A i \in 1..Len(s) : s[i] # e
      BY <1>1, <3>2
    <3>4. Distinct(Append(s, e))
      <4> HIDE DEF s
      <4>1. /\ Len(Append(s, e)) = Len(s) + 1 /\ Len(s) \in Nat /\ Append(s, e)[Len(s) + 1] = e
            /\ \A i \in 1..Len(s) : Append(s, e)[i] = s[i]
        BY <3>3
      <4>2. \A i \in 1..(Len(s) + 1) : i = Len(s) + 1 \/ i \in 1..Len(s)
        BY <4>1
      <4>3. QED
        BY <3>3, <4>1, <4>2 DEF Distinct
    <3>5. QED
      BY <3>1, <3>4
  <2>3. QED
    BY <2>1, <2>2
<1>5. QED
  BY <1>2, <1>3, <1>4, EmitsElsewhere

\* A step takes an event only out of a queue.
LEMMA ProcessingGrows ==
    ASSUME LInv, Emitted, ForwardersFresh, [Next]_vars, NEW a \in Bus, NEW x \in Event,
           x \in processing'[a], x \notin processing[a]
    PROVE  \E t \in Task : Dequeues(t, a, x)
<1>1. processing \in [Bus -> SUBSET Event] /\ TypeOK
  BY TypeParts DEF LInv, IInv, BusTypes
<1>2. ~(\E b \in Bus, e \in Event : \E p, h : Emit(b, e, p, h))
  BY DEF Emit
<1>3. PICK t \in Task, b \in Bus, e \in Event : Dequeues(t, b, e)
  BY <1>2, EmitsElsewhere
<1>4. b = a /\ e = x
  BY <1>1, <1>3 DEF Dequeues
<1>5. QED
  BY <1>3, <1>4

\* Whoever takes an event takes it out of the queue for good.
LEMMA UntakenStep ==
    ASSUME LInv, Emitted, InPath, ForwardersFresh, QueuedOnce, QueuedUntaken, [Next]_vars
    PROVE  QueuedUntaken'
<1> SUFFICES ASSUME NEW a \in Bus, NEW x \in Range(queue'[a])
             PROVE  /\ x \notin processing'[a]
                    /\ \A u \in Task : task'[u].pc \in Taken /\ task'[u].bus = a => task'[u].ev # x
  BY DEF QueuedUntaken
<1>1. TypeOK /\ TypeOK'
  BY TypeStep DEF LInv, IInv
<1>2. x \in Event
  BY <1>1, QueueEventsNext
<1>3. /\ x \notin processing[a]
      /\ \A u \in Task : task[u].pc \in Taken /\ task[u].bus = a => task[u].ev # x
  <2>1. CASE x \in Range(queue[a])
    BY <2>1 DEF QueuedUntaken
  <2>2. CASE x \notin Range(queue[a])
    <3>1. a \notin path[x]
      <4>1. ~UNCHANGED queue /\ ~\E t \in Task, b \in Bus, e \in Event : Dequeues(t, b, e)
        BY <2>2 DEF Dequeues
      <4>2. PICK b, e, p, h : b \in Bus /\ e \in Event /\ b \notin path[e] /\ Emit(b, e, p, h)
        BY <4>1, EmitsElsewhere
      <4>3. x = e /\ a = b
        BY <1>1, <2>2, <4>2, EmitGives DEF Queued
      <4>4. QED
        BY <4>2, <4>3
    <3>2. QED
      BY <3>1 DEF InPath, Taken
  <2>3. QED
    BY <2>1, <2>2
<1>4. \A t \in Task, b \in Bus : ~Dequeues(t, a, x)
  BY DEF Dequeues, QueuedOnce
<1>5. x \notin processing'[a]
  BY <1>2, <1>3, <1>4, ProcessingGrows
<1>6. ASSUME NEW u \in Task, task'[u].pc \in Taken, task'[u].bus = a, task'[u].ev = x PROVE FALSE
  <2> DEFINE s == task[u]
             r == task'[u]
  <2>1. Moved(s, r)
    BY Moves
  <2>2. ~Takes(s, r)
    <3> SUFFICES ASSUME Takes(s, r) PROVE FALSE
      OBVIOUS
    <3>1. PICK b \in Bus, e \in Event : Dequeues(u, b, e)
      BY TakesDequeues
    <3>2. b = a /\ e = x
      BY <1>6, <3>1 DEF Dequeues
    <3>3. QED
      BY <1>4, <3>1, <3>2
  <2>3. ~Joins(s, r)
    BY <1>3, <1>6 DEF Joins
  <2>4. ~(s.pc \in Taken /\ SameEvent(s, r))
    BY <1>3, <1>6 DEF SameEvent
  <2>5. r = s => SameEvent(s, r)
    BY DEF SameEvent
  <2>6. QED
    BY <1>6, <2>1, <2>2, <2>3, <2>4, <2>5
    DEF Moved, Leaves, Turns, Waits, Enters, Chooses, Resets, Turned, Calls, Breaks, Ends,
        Taken, Working, Running
<1>7. QED
  BY <1>5, <1>6

\* A handler that has begun has.
LEMMA RanStays ==
    ASSUME LInv, [Next]_vars, NEW e \in Event, NEW h \in Handler, Ran(e, h)
    PROVE  Ran(e, h)'
<1>1. CASE UNCHANGED resultVars
  BY <1>1 DEF Ran, resultVars
<1>2. ASSUME NEW t \in Task, Settles(t) PROVE Ran(e, h)'
  BY <1>2, SettleGives DEF Ran
<1>3. ASSUME NEW t \in Task, Start(t) PROVE Ran(e, h)'
  BY <1>3, StartGives DEF Ran
<1>4. ASSUME NEW t \in Task, Create(t) PROVE Ran(e, h)'
  <2>1. task[t].pc = "create" /\ (result'[e][h] = result[e][h] \/ (task[t].ev = e /\ h \in task[t].todo))
    BY <1>4, CreateGives
  <2>2. h \in task[t].todo => result[task[t].ev][h] \in {"none", "pending"}
    BY <2>1 DEF LInv, IInv, ChoiceFresh
  <2>3. QED
    BY <2>1, <2>2 DEF Ran, Terminal
<1>5. QED
  BY <1>1, <1>2, <1>3, <1>4, Kinds, EmitChildGives, ForwardGives, AwaitGives, Finishes
  DEF Idles, Dequeues, ExtEmit

\* A bus learns of an event from outside, from its parent's handler or from the
\* one handler that forwards it there, which is the one that does.
LEMMA OnlyForwarder ==
    ASSUME OneForwarder, LInv, Emitted, OwnHandlers, [Next]_vars,
           NEW e \in Event, NEW b \in Bus, NEW h \in HandlersFor[b][e], status[e] # "new",
           Target[h] \notin path[e], Target[h] \in path'[e]
    PROVE  \E t \in Task : HForward(t) /\ task[t].ev = e /\ task[t].cur = h
<1>1. TypeOK'
  BY TypeStep DEF LInv, IInv
<1>2. Target[h] \in Bus
  BY <1>1 DEF TypeOK
<1>3. PICK t \in Task : HForward(t) /\ task[t].ev = e /\ Target[task[t].cur] = Target[h]
  BY <1>2, PathGrows
<1>4. task[t].pc = "body" /\ task[t].bus \in Bus
  BY <1>3, ForwardGives, TaskFields DEF LInv, IInv, TaskOK, Working
<1>5. task[t].cur \in HandlersFor[task[t].bus][e]
  BY <1>3, <1>4 DEF OwnHandlers, Locking
<1>6. task[t].cur = h
  BY <1>2, <1>3, <1>4, <1>5, NamesAssumption DEF OneForwarder
<1>7. QED
  BY <1>3, <1>6

\* A forwarding handler that is still to run finds the bus without the event.
LEMMA ToRunStep ==
    ASSUME OneForwarder, LInv, Emitted, OwnHandlers, ForwardersFresh, [Next]_vars,
           NEW u \in Task, NEW h \in Handler, ToRun(task'[u], h),
           result'[task'[u].ev][h] \notin {"started"} \cup Terminal
    PROVE  Target[h] \notin path'[task'[u].ev]
<1> SUFFICES ASSUME Target[h] \in path'[task'[u].ev] PROVE FALSE
  OBVIOUS
<1> DEFINE s == task[u]
           r == task'[u]
<1>1. Moved(s, r) /\ TypeOK
  BY Moves DEF LInv, IInv
<1>2. SameEvent(s, r) /\ (ToRun(s, h) \/ Chooses(s, r)) /\ s.pc \in Working
  <2>1. r = s => SameEvent(s, r)
    BY DEF SameEvent
  <2>2. QED
    BY <1>1, <2>1
    DEF Moved, Leaves, Turns, Waits, Takes, Joins, Enters, Chooses, Resets, Turned, Calls, Breaks, Ends,
        ToRun, Running, Chosen, Working, SameEvent
<1>3. r.ev = s.ev /\ r.bus = s.bus /\ s.ev \in Event /\ s.bus \in Bus
  BY <1>1, <1>2, TaskFields DEF SameEvent, TaskOK
<1>4. h \in HandlersFor[s.bus][s.ev]
  <2>1. OwnHandlers'
    BY OwnStep
  <2>2. /\ r.pc \in Chosen \cup {"create"} => r.todo \subseteq HandlersFor[r.bus][r.ev]
        /\ r.pc \in Locking \cup {"hwait"} => r.cur \in HandlersFor[r.bus][r.ev]
    BY <2>1 DEF OwnHandlers
  <2>3. r.pc \in {"hwait", "start"} => r.pc \in Locking \cup {"hwait"}
    BY DEF Locking
  <2>4. QED
    BY <1>3, <2>2, <2>3 DEF ToRun
<1>5. ~Ran(s.ev, h)
  BY <1>3, RanStays DEF Ran
<1>6. CASE Target[h] \notin path[s.ev]
  <2>1. status[s.ev] # "new"
    BY <1>2 DEF Emitted, AtEvent
  <2>2. PICK t \in Task : HForward(t) /\ task[t].ev = s.ev /\ task[t].cur = h
    BY <1>3, <1>4, <1>6, <2>1, OnlyForwarder
  <2>3. QED
    BY <1>5, <2>2, ForwardGives DEF Ran
<1>7. CASE Target[h] \in path[s.ev]
  <2>1. ~ToRun(s, h)
    BY <1>5, <1>7 DEF ForwardersFresh
  <2>2. r.pc = "create" /\ r.todo = {g \in HandlersFor[s.bus][s.ev] : ~WouldCreateLoop(s.ev, g)}
    BY <1>2, <2>1 DEF Chooses
  <2>3. h \in r.todo
    BY <2>2 DEF ToRun
  <2>4. QED
    BY <1>7, <2>2, <2>3 DEF WouldCreateLoop
<1>8. QED
  BY <1>6, <1>7

\* One that runs has not forwarded the event yet.
LEMMA InBodyStep ==
    ASSUME OneForwarder, LInv, Emitted, OwnHandlers, ForwardersFresh, [Next]_vars,
           NEW u \in Task, task'[u].pc \in {"body", "await"}
    PROVE  Target[task'[u].cur] \notin path'[task'[u].ev]
<1> SUFFICES ASSUME Target[task'[u].cur] \in path'[task'[u].ev] PROVE FALSE
  OBVIOUS
<1> DEFINE s == task[u]
           r == task'[u]
           h == s.cur
<1>1. Moved(s, r) /\ (Aside(u) \/ Acts(u)) /\ TypeOK
  BY Moves DEF LInv, IInv
<1>2. SameEvent(s, r) /\ r.cur = h /\ s.pc \in {"start", "body", "await"}
  <2>1. r = s => SameEvent(s, r)
    BY DEF SameEvent
  <2>2. QED
    BY <1>1, <2>1
    DEF Moved, Leaves, Turns, Waits, Takes, Joins, Enters, Chooses, Resets, Turned, Calls, Breaks, Ends
<1>3. r.ev = s.ev /\ s.ev \in Event /\ s.bus \in Bus /\ h \in HandlersFor[s.bus][s.ev] /\ h \in Handler
  BY <1>1, <1>2, TaskFields DEF SameEvent, TaskOK, Working, OwnHandlers, Locking
<1>4. Target[h] \notin path[s.ev]
  <2>1. CASE s.pc \in {"body", "await"}
    BY <2>1 DEF ForwardersFresh
  <2>2. CASE s.pc = "start"
    <3>1. Start(u) /\ r.pc # "next"
      BY <1>1, <1>2, <2>2, ActsAt DEF Aside, Leaves, Turns
    <3>2. result[s.ev][h] \notin Terminal
      BY <3>1, StartGives
    <3>3. result[s.ev][h] # "started"
      BY <1>3, <2>2, AloneInBody DEF Locking, Running, LInv
    <3>4. ToRun(s, h) /\ ~Ran(s.ev, h)
      BY <2>2, <3>2, <3>3 DEF ToRun, Chosen, Ran
    <3>5. QED
      BY <1>3, <3>4 DEF ForwardersFresh
  <2>3. QED
    BY <1>2, <2>1, <2>2
<1>5. status[s.ev] # "new"
  BY <1>2 DEF Emitted, AtEvent, Working
<1>6. PICK t \in Task : HForward(t) /\ task[t].ev = s.ev /\ task[t].cur = h
  BY <1>2, <1>3, <1>4, <1>5, OnlyForwarder
<1>7. t = u
  <2>1. task[t].pc = "body" /\ task[u].pc \in Locking
    BY <1>2, <1>6, ForwardGives DEF Locking
  <2>2. owner[s.ev] = t /\ owner[s.ev] = u
    BY <1>6, <2>1 DEF LInv, IInv, CallerHoldsLock, Locking
  <2>3. QED
    BY <2>2
<1>8. r.pc = "sent"
  BY <1>1, <1>6, <1>7, ForwardMoves
<1>9. QED
  BY <1>8

\* The two together.
LEMMA FreshStep ==
    ASSUME OneForwarder, LInv, Emitted, OwnHandlers, ForwardersFresh, [Next]_vars
    PROVE  ForwardersFresh'
<1>1. \A u \in Task : task'[u].pc \in {"body", "await"} => Target[task'[u].cur] \notin path'[task'[u].ev]
  BY InBodyStep
<1>2. \A u \in Task, h \in Handler :
          ToRun(task'[u], h) /\ result'[task'[u].ev][h] \notin {"started"} \cup Terminal
              => Target[h] \notin path'[task'[u].ev]
  BY ToRunStep
<1>3. QED
  BY <1>1, <1>2 DEF ForwardersFresh, Ran

\* An event that is not new and is not forwarded stays where it is.
LEMMA StaysThere ==
    ASSUME LInv, Emitted, OwnHandlers, ForwardersFresh, [Next]_vars, NEW x \in Event, NEW a \in Bus,
           status[x] # "new", ~Forwarded(x), x \in Range(queue'[a])
    PROVE  x \in Range(queue[a])
<1>1. TypeOK
  BY DEF LInv, IInv
<1>2. ~\E t \in Task : HForward(t) /\ task[t].ev = x
  BY ForwardsOwn
<1>3. ~(a \in path'[x] /\ a \notin path[x])
  BY <1>2, PathGrows
<1>4. ASSUME NEW b \in Bus, NEW e \in Event, NEW p, NEW h, b \notin path[e], status[e] # "completed",
             Emit(b, e, p, h), x \notin Range(queue[a])
      PROVE  FALSE
  <2>1. Noted(b, e, p, h) /\ Queued(b, e)
    BY <1>1, <1>4, EmitGives
  <2>2. x = e /\ a = b
    BY <1>4, <2>1 DEF Queued
  <2>3. QED
    BY <1>3, <1>4, <2>1, <2>2 DEF Noted
<1>5. QED
  BY <1>4, EmitsElsewhere DEF Dequeues

\* A handler that emits has its event out of the only queue it was in.
LEMMA ParentTakenStep ==
    ASSUME Unmixed, LInv, SInv, HInv, QueuedUntaken, ForwardersFresh, ParentTaken, [Next]_vars
    PROVE  ParentTaken'
<1> SUFFICES ASSUME NEW c \in Event, NEW a \in Bus, parent'[c] \in Event, parent'[c] \in Range(queue'[a])
             PROVE  FALSE
  BY DEF ParentTaken
<1> DEFINE p == parent'[c]
<1>1. Emitted /\ InPath /\ OwnHandlers /\ OneBusOnly
  BY DEF SInv, HInv
<1>2. status[p] # "new" /\ ~Forwarded(p) /\ p \notin Range(queue[a])
  <2>1. CASE p = parent[c]
    BY <2>1 DEF ParentTaken, HInv, ParentHandled, SInv, StartedShown, Begun
  <2>2. CASE p # parent[c]
    <3>1. PICK t \in Task : HEmit(t, c) /\ p = task[t].ev
      BY <2>2, ParentComes
    <3>2. task[t].pc \in {"body", "await"} /\ task[t].bus \in Bus /\ c \in Emits[task[t].cur]
      BY <3>1, EmitChildGives
    <3>3. task[t].cur \in HandlersFor[task[t].bus][p] /\ task[t].bus \in path[p]
      BY <1>1, <3>1, <3>2 DEF OwnHandlers, Locking, InPath, Working
    <3>4. ~Forwarded(p)
      BY <3>2, <3>3 DEF Parental, Unmixed
    <3>5. status[p] # "new"
      BY <1>1, <3>1, <3>2 DEF Emitted, AtEvent, Working
    <3>6. p \notin Range(queue[task[t].bus])
      BY <3>1, <3>2 DEF QueuedUntaken, Taken, Working
    <3>7. p \in Range(queue[a]) => a = task[t].bus
      BY <1>1, <3>3, <3>4 DEF InPath, OneBusOnly
    <3>8. QED
      BY <3>4, <3>5, <3>6, <3>7
  <2>3. QED
    BY <2>1, <2>2
<1> HIDE DEF p
<1>3. p \in Event /\ p \in Range(queue'[a])
  BY DEF p
<1>4. QED
  BY <1>1, <1>2, <1>3, StaysThere

\* An event is completed when it is in no queue, and is not queued again.
LEMMA ConsumedStep ==
    ASSUME LInv, Emitted, QueuedUntaken, ForwardersFresh, ParentTaken, CompleteMeansConsumed, [Next]_vars
    PROVE  CompleteMeansConsumed'
<1> SUFFICES ASSUME NEW x \in Event, NEW a \in Bus, signal'[x]
             PROVE  x \notin Range(queue'[a]) \cup inflight'[a]
  BY DEF CompleteMeansConsumed
<1>1. TypeOK
  BY DEF LInv, IInv
<1>2. CASE signal[x]
  <2>1. x \notin Range(queue[a]) \cup inflight[a]
    BY <1>2 DEF CompleteMeansConsumed
  <2>2. QED
    BY <1>2, <2>1, QueueGrows, PathGrows
<1>3. CASE ~signal[x]
  <2>1. UNCHANGED <<queue, path, result>> /\ x \notin inflight'[a]
    BY <1>3, SignalComes
  <2>2. PICK t \in Task :
           \/ ~InUse(a, x)
           \/ task[t].pc \in {"end", "unlock"} /\ task[t].ev = x /\ task[t].bus = a
           \/ \E c \in Event : parent[c] = x
    BY <1>3, SignalComes
  <2>3. x \notin Range(queue[a])
    BY <2>2 DEF InUse, QueuedUntaken, Taken, Working, ParentTaken
  <2>4. QED
    BY <2>1, <2>3
<1>4. QED
  BY <1>2, <1>3

\* The parts of the invariant together.
LEMMA CStep ==
    ASSUME Middlewares = FALSE, OneForwarder, Unmixed, LInv, LockInv, SInv, HInv, CInv, [Next]_vars
    PROVE  CInv'
BY QueuedOnceStep, UntakenStep, FreshStep, ParentTakenStep, ConsumedStep DEF CInv, SInv, HInv

\* It holds in the beginning.
LEMMA CInit == Init => CInv
<1> SUFFICES ASSUME Init PROVE CInv
  OBVIOUS
<1>1. \A t \in Task : task[t].pc \in {"get", "idle"}
  BY DEF Init, Fresh
<1>2. \A e \in Event : parent[e] = NoEvent /\ ~signal[e]
  BY DEF Init
<1>3. \A b \in Bus : queue[b] = <<>> /\ Range(queue[b]) = {}
  BY DEF Init, Range
<1>4. QueuedOnce
  <2>1. \A b \in Bus : Len(queue[b]) = 0
    BY <1>3
  <2>2. QED
    BY <2>1 DEF QueuedOnce, Distinct
<1>5. QueuedUntaken /\ ForwardersFresh /\ ParentTaken /\ CompleteMeansConsumed
  BY <1>1, <1>2, <1>3, NamesAssumption
  DEF QueuedUntaken, ForwardersFresh, ParentTaken, CompleteMeansConsumed, ToRun, Chosen
<1>6. QED
  BY <1>4, <1>5 DEF CInv

\* It holds in every reachable state.
LEMMA CInductive ==
    ASSUME Middlewares = FALSE, OneForwarder, Unmixed
    PROVE  Spec => [](LInv /\ LockInv /\ SInv /\ HInv /\ CInv)
<1>1. Init => LInv /\ LockInv /\ SInv /\ HInv /\ CInv
  BY LifeInit, LockInit, SInit, HInit, CInit
<1>2. LInv /\ LockInv /\ SInv /\ HInv /\ CInv /\ [Next]_vars
      => (LInv /\ LockInv /\ SInv /\ HInv /\ CInv)'
  BY LifeStep, LockStep, SStep, HStep, CStep DEF LInv, IInv
<1>3. QED
  BY <1>1, <1>2, PTL DEF Spec

\* No bus still has a completed event in its queue or in process, whoever of run
\* loops and queue-jumps has taken it where, for any buses, handlers and forwarding
\* in which no event is both forwarded and a parent, and none is forwarded to a bus
\* by two handlers.
THEOREM CompleteEventsAreConsumed ==
    ASSUME Middlewares = FALSE, OneForwarder, Unmixed
    PROVE  Spec => []CompleteMeansConsumed
<1>1. CInv => CompleteMeansConsumed
  BY DEF CInv
<1>2. QED
  BY <1>1, CInductive, PTL

-----------------------------------------------------------------------------
(* Ancestors and descendants *)

\* More children, more descendants.
LEMMA BelowMono ==
    ASSUME NEW e, NEW L, NEW M, L \subseteq M
    PROVE  Below(e, L) \subseteq Below(e, M)
<1> SUFFICES ASSUME NEW d \in Below(e, L), NEW S \in SUBSET M,
                    \A c \in M : parent[c] \in S \cup {e} => c \in S
             PROVE  d \in S
  BY DEF Below
<1>1. \A c \in L : parent[c] \in (S \cap L) \cup {e} => c \in S \cap L
  OBVIOUS
<1>2. S \cap L \in SUBSET L
  OBVIOUS
<1>3. d \in S \cap L
  BY <1>1, <1>2 DEF Below
<1>4. QED
  BY <1>3

\* The parent of one below e is e or below e.
LEMMA ParentBelow ==
    ASSUME NEW e, NEW L, NEW d \in Below(e, L)
    PROVE  d \in L /\ parent[d] \in {e} \cup Below(e, L)
<1> DEFINE S == {x \in Below(e, L) : parent[x] \in {e} \cup Below(e, L)}
<1>1. S \in SUBSET L
  BY DEF Below
<1>2. \A c \in L : parent[c] \in S \cup {e} => c \in S
  BY ChildBelow
<1>3. d \in S
  BY <1>1, <1>2 DEF Below
<1>4. QED
  BY <1>1, <1>3

\* Of two events with a common descendant, one is below the other.
LEMMA Comparable ==
    ASSUME NEW e \in Event, NEW x \in Event, NEW d \in Below(e, Event), d \in {x} \cup Below(x, Linked)
    PROVE  e = x \/ e \in Below(x, Linked) \/ x \in Below(e, Event)
<1> SUFFICES ASSUME e # x, e \notin Below(x, Linked), x \notin Below(e, Event) PROVE FALSE
  OBVIOUS
<1> DEFINE S == Below(x, Linked) \ Below(e, Event)
<1>1. S \in SUBSET Linked /\ Linked \subseteq Event
  BY DEF Below, Linked
<1>2. ASSUME NEW c \in Linked, parent[c] \in S \cup {x} PROVE c \in S
  <2>1. c \in Below(x, Linked)
    BY <1>2, ChildBelow
  <2>2. c \in Below(e, Event) => parent[c] \in {e} \cup Below(e, Event)
    BY ParentBelow
  <2>3. QED
    BY <1>2, <2>1, <2>2
<1>3. Below(x, Linked) \subseteq S
  BY <1>1, <1>2 DEF Below
<1>4. QED
  BY <1>3

-----------------------------------------------------------------------------
(* Nobody is cancelled *)

\* A task that is not cancelled and not ended by a cancellation.
Sound(s) == ~s.exc /\ s.pc \notin {"dead", "failed"}
NobodyCancelled == \A t \in Task : Sound(task[t])

\* A fresh task is in good order.
LEMMA FreshSound ==
    ASSUME NEW p, p \notin {"dead", "failed"}
    PROVE  /\ Sound(Fresh(p))
           /\ \A e : Sound([Fresh(p) EXCEPT !.ev = e])
           /\ \A e, b : Sound([Fresh(p) EXCEPT !.ev = e, !.bus = b])
           /\ \A e, S : Sound([Fresh(p) EXCEPT !.ev = e, !.claimed = S])
BY DEF Sound, Fresh

\* With no run loop dead, none is started again.
LEMMA RestartSound ==
    ASSUME TypeOK, NEW b \in Bus, NEW r, r \in [Task -> TaskState], \A u \in Task : Sound(r[u])
    PROVE  Restarted(b, r) = r
<1>1. b \in Task
  BY DEF Task
<1>2. r[b].pc # "dead"
  BY <1>1 DEF Sound
<1>3. QED
  BY <1>2 DEF Restarted

\* Steps that process an event cancel nothing.
LEMMA ProcessSound ==
    ASSUME TypeOK, NobodyCancelled, NEW t \in Task, Process(t)
    PROVE  NobodyCancelled'
<1>1. task \in [Task -> TaskState] /\ task[t] \in TaskState
  BY TaskFields
<1>2. ASSUME NEW p \in PC \ {"dead", "failed"}, Goto(t, p) PROVE NobodyCancelled'
  BY <1>1, <1>2 DEF Goto, NobodyCancelled, Sound, TaskState
<1>3. CASE EnterLock(t) \/ LockGranted(t)
  <2>1. \/ task' = [task EXCEPT ![t].pc = "check", ![t].how = "nested"]
        \/ task' = [task EXCEPT ![t].pc = "check", ![t].how = "owned"]
        \/ task' = [task EXCEPT ![t].pc = "lockwait"]
    BY <1>3 DEF EnterLock, LockGranted, Goto
  <2>2. QED
    BY <1>1, <2>1 DEF NobodyCancelled, Sound, TaskState
<1>4. CASE Check(t) \/ HandlerLockGranted(t) \/ End(t) \/ Create(t)
  BY <1>2, <1>4 DEF Check, HandlerLockGranted, End, Create, PC
<1>5. CASE Select(t)
  <2>1. PICK hs : task' = [task EXCEPT ![t].pc = "create", ![t].todo = hs]
    BY <1>5 DEF Select
  <2>2. QED
    BY <1>1, <2>1 DEF NobodyCancelled, Sound, TaskState
<1>6. CASE NextHandler(t)
  <2>1. \/ Goto(t, "end")
        \/ \E h \in task[t].todo :
              \/ task' = [task EXCEPT ![t].pc = "start", ![t].cur = h, ![t].todo = task[t].todo \ {h}]
              \/ task' = [task EXCEPT ![t].pc = "hwait", ![t].cur = h, ![t].todo = task[t].todo \ {h}]
    BY <1>6 DEF NextHandler
  <2>2. CASE Goto(t, "end")
    BY <1>2, <2>2 DEF PC
  <2>3. CASE ~Goto(t, "end")
    <3>1. PICK h \in task[t].todo :
              \/ task' = [task EXCEPT ![t].pc = "start", ![t].cur = h, ![t].todo = task[t].todo \ {h}]
              \/ task' = [task EXCEPT ![t].pc = "hwait", ![t].cur = h, ![t].todo = task[t].todo \ {h}]
      BY <2>1, <2>3
    <3>2. QED
      BY <1>1, <3>1 DEF NobodyCancelled, Sound, TaskState
  <2>4. QED
    BY <2>2, <2>3
<1>7. CASE Start(t)
  <2>1. Goto(t, "body") \/ task' = [task EXCEPT ![t].pc = "next", ![t].cur = NoHandler]
    BY <1>7 DEF Start
  <2>2. task' = [task EXCEPT ![t].pc = "next", ![t].cur = NoHandler] => NobodyCancelled'
    BY <1>1 DEF NobodyCancelled, Sound, TaskState
  <2>3. QED
    BY <1>2, <2>1, <2>2 DEF PC
<1>8. CASE Unlock(t)
  <2>1. task' = [task EXCEPT ![t].pc = "prop", ![t].up = task[t].ev, ![t].how = "none"]
    BY <1>8 DEF Unlock
  <2>2. QED
    BY <1>1, <2>1 DEF NobodyCancelled, Sound, TaskState
<1>9. CASE Propagate(t)
  <2>1. Goto(t, "after") \/ \E p : task' = [task EXCEPT ![t].up = p]
    BY <1>9 DEF Propagate
  <2>2. (\E p : task' = [task EXCEPT ![t].up = p]) => NobodyCancelled'
    BY <1>1 DEF NobodyCancelled, Sound, TaskState
  <2>3. QED
    BY <1>2, <2>1, <2>2 DEF PC
<1>10. QED
  BY <1>3, <1>4, <1>5, <1>6, <1>7, <1>8, <1>9 DEF Process

\* Handlers that are not cancelled end no task, nor does an awaited now().
LEMMA BodySound ==
    ASSUME MayCancel = FALSE, TypeOK, NobodyCancelled, NEW t \in Task, Body(t)
    PROVE  NobodyCancelled' /\ ~HCancel(t) /\ ~HAwaitCancelled(t)
<1>1. task \in [Task -> TaskState] /\ task[t] \in TaskState /\ \A u \in Task : TaskOK(u, task[u])
  BY TaskFields
<1>2. ~HCancel(t)
  BY DEF HCancel
<1>3. ~HAwaitCancelled(t)
  <2> SUFFICES ASSUME HAwaitCancelled(t) PROVE FALSE
    OBVIOUS
  <2>1. PICK j \in Jumper : task[j].pc = "failed" /\ j \in Task
    BY CancelShape
  <2>2. QED
    BY <2>1 DEF NobodyCancelled, Sound
<1>4. ASSUME NEW r, task' = [task EXCEPT ![t] = r], Sound(r) PROVE NobodyCancelled'
  BY <1>1, <1>4 DEF NobodyCancelled
<1>5. ASSUME NEW r, NEW j, NEW f, task' = [task EXCEPT ![t] = r, ![j] = f], Sound(r), Sound(f)
      PROVE  NobodyCancelled'
  BY <1>1, <1>5 DEF NobodyCancelled
<1>6. ~task[t].exc
  BY DEF NobodyCancelled, Sound
<1>7. CASE HForward(t)
  <2>1. PICK b \in Bus :
          LET s == [task[t] EXCEPT !.pc = "sent"]  r == [task EXCEPT ![t] = s] IN
          s \in TaskState /\ r \in [Task -> TaskState] /\ task' = Restarted(b, r)
    BY <1>7, ForwardShape
  <2> DEFINE s == [task[t] EXCEPT !.pc = "sent"]
             r == [task EXCEPT ![t] = s]
  <2>2. Sound(s)
    BY <1>1, <1>6 DEF Sound, TaskState
  <2>3. s \in TaskState /\ r \in [Task -> TaskState] /\ task' = Restarted(b, r)
    BY <2>1
  <2> HIDE DEF s
  <2>4. \A u \in Task : Sound(r[u])
    BY <1>1, <2>2 DEF NobodyCancelled
  <2> HIDE DEF r
  <2>5. task' = r
    BY <2>3, <2>4, RestartSound
  <2>6. QED
    BY <1>2, <1>3, <2>4, <2>5 DEF NobodyCancelled
<1>8. CASE HReturn(t)
  <2> DEFINE r == [task[t] EXCEPT !.pc = "next", !.cur = NoHandler]
  <2>1. task' = [task EXCEPT ![t] = r]
    BY <1>1, <1>8 DEF HReturn, Returned
  <2>2. Sound(r)
    BY <1>1, <1>6 DEF Sound, TaskState
  <2> HIDE DEF r
  <2>3. QED
    BY <1>2, <1>3, <1>4, <2>1, <2>2
<1>9. ASSUME NEW j PROVE Sound(Dropped(task[t], j)) /\ Sound(Awaiting(task[t], j))
  <2>1. Sound(Dropped(task[t], j))
    BY <1>1, <1>6, DroppedFields DEF Sound
  <2>2. Sound(Awaiting(task[t], j))
    BY <1>1, <1>6, AwaitingFields DEF Sound
  <2>3. QED
    BY <2>1, <2>2
<1>10. CASE HResume(t)
  <2>1. PICK j \in Jumper : task' = [task EXCEPT ![t] = Dropped(task[t], j), ![j] = Fresh("idle")]
    BY <1>10, ResumeShape
  <2>2. Sound(Fresh("idle"))
    BY FreshSound
  <2>3. QED
    BY <1>2, <1>3, <1>5, <1>9, <2>1, <2>2
<1>11. CASE HLeave(t)
  <2>1. PICK j \in Jumper : task' = [task EXCEPT ![t] = Dropped(task[t], j)]
    BY <1>11, LeaveShape
  <2>2. QED
    BY <1>2, <1>3, <1>4, <1>9, <2>1
<1>12. ASSUME NEW c \in Event, HEmit(t, c) PROVE NobodyCancelled'
  <2>1. task' = Restarted(task[t].bus, task) /\ task[t].pc \in {"body", "await"}
    BY <1>12 DEF HEmit, InHandler, At
  <2>2. task[t].bus \in Bus
    BY <1>1, <2>1 DEF TaskOK, Working
  <2>3. QED
    BY <1>1, <2>1, <2>2, RestartSound DEF NobodyCancelled
<1>13. ASSUME NEW c \in Event, NEW j \in Jumper, HAwait(t, c, j) PROVE NobodyCancelled'
  <2> DEFINE f == [Fresh("poll") EXCEPT !.ev = c]
  <2>1. task' = [task EXCEPT ![t] = Awaiting(task[t], j), ![j] = f]
    BY <1>13, AwaitShape
  <2>2. Sound(f)
    BY FreshSound
  <2> HIDE DEF f
  <2>3. QED
    BY <1>5, <1>9, <2>1, <2>2
<1>14. QED
  BY <1>2, <1>3, <1>7, <1>8, <1>10, <1>11, <1>12, <1>13 DEF Body

\* Where no handler is cancelled, no task ever is.
LEMMA SoundStep ==
    ASSUME MayCancel = FALSE, LInv, NobodyCancelled, [Next]_vars
    PROVE  NobodyCancelled'
<1>1. TypeOK /\ task \in [Task -> TaskState] /\ \A u \in Task : TaskOK(u, task[u])
  BY TaskFields DEF LInv, IInv
<1>2. ASSUME NEW t \in Task, NEW r, task' = [task EXCEPT ![t] = r], Sound(r) PROVE NobodyCancelled'
  BY <1>1, <1>2, Given DEF NobodyCancelled, Only
<1>3. Bus \subseteq Task /\ Jumper \subseteq Task
  BY DEF Task
<1>4. ASSUME NEW b \in Bus, LoopGet(b) \/ LoopAgain(b) PROVE NobodyCancelled'
  <2>1. CASE LoopGet(b)
    <3> DEFINE r == [Fresh("lock") EXCEPT !.ev = Head(queue[b]), !.bus = b]
    <3>1. task' = [task EXCEPT ![b] = r] /\ Sound(r)
      BY <2>1, FreshSound DEF LoopGet
    <3> HIDE DEF r
    <3>2. QED
      BY <1>2, <1>3, <3>1
  <2>2. CASE LoopAgain(b)
    <3>1. task' = [task EXCEPT ![b] = Fresh("get")]
      BY <1>3, <2>2 DEF LoopAgain, NobodyCancelled, Sound
    <3>2. Sound(Fresh("get"))
      BY FreshSound
    <3>3. QED
      BY <1>2, <1>3, <3>1, <3>2
  <2>3. QED
    BY <1>4, <2>1, <2>2
<1>5. ASSUME NEW j \in Jumper, Jump(j) PROVE NobodyCancelled'
  <2>1. j \in Task /\ task[j] \in TaskState /\ ~task[j].exc
    BY <1>1, <1>3 DEF NobodyCancelled, Sound
  <2>2. CASE JumpYield(j)
    BY <2>2 DEF JumpYield, NobodyCancelled
  <2>3. ASSUME NEW p \in PC \ {"dead", "failed"}, Goto(j, p) PROVE NobodyCancelled'
    BY <1>1, <2>1, <2>3 DEF Goto, NobodyCancelled, Sound, TaskState
  <2>4. CASE JumpGiveUp(j) \/ JumpDone(j)
    BY <2>3, <2>4 DEF JumpGiveUp, JumpDone, PC
  <2>5. CASE JumpAgain(j)
    <3> DEFINE r == [Fresh("poll") EXCEPT !.ev = task[j].ev, !.claimed = task[j].claimed]
    <3>1. task' = [task EXCEPT ![j] = r] /\ Sound(r)
      BY <2>1, <2>5, FreshSound DEF JumpAgain
    <3> HIDE DEF r
    <3>2. QED
      BY <1>2, <2>1, <3>1
  <2>6. ASSUME NEW b \in Bus, JumpTake(j, b) \/ JumpJoin(j, b) PROVE NobodyCancelled'
    <3>1. \/ task' = [task EXCEPT ![j].pc = "select", ![j].bus = b, ![j].how = "bypass"]
          \/ \E S : task' = [task EXCEPT ![j].pc = "lock", ![j].bus = b, ![j].claimed = S]
      BY <2>6 DEF JumpTake, JumpJoin
    <3>2. PICK S : \/ task' = [task EXCEPT ![j].pc = "select", ![j].bus = b, ![j].how = "bypass"]
                   \/ task' = [task EXCEPT ![j].pc = "lock", ![j].bus = b, ![j].claimed = S]
      BY <3>1
    <3>3. QED
      BY <1>1, <2>1, <3>2 DEF NobodyCancelled, Sound, TaskState
  <2>7. QED
    BY <1>5, <2>2, <2>4, <2>5, <2>6 DEF Jump
<1>6. ASSUME NEW t \in Task, Acts(t) PROVE NobodyCancelled'
  BY <1>1, <1>4, <1>5, <1>6, ProcessSound, BodySound DEF Acts
<1>7. CASE Outside
  <2>1. ASSUME NEW b \in Bus, NEW e \in Event, ExtEmit(b, e) PROVE NobodyCancelled'
    <3>1. task' = task
      BY <1>1, <2>1, RestartSound DEF ExtEmit, NobodyCancelled
    <3>2. QED
      BY <3>1 DEF NobodyCancelled
  <2>2. ASSUME NEW j \in Jumper, NEW e \in Event, ExtAwait(j, e) PROVE NobodyCancelled'
    <3> DEFINE r == [Fresh("poll") EXCEPT !.ev = e]
    <3>1. task' = [task EXCEPT ![j] = r] /\ Sound(r)
      BY <2>2, FreshSound DEF ExtAwait
    <3> HIDE DEF r
    <3>2. QED
      BY <1>2, <1>3, <3>1
  <2>3. QED
    BY <1>7, <2>1, <2>2 DEF Outside
<1>8. CASE UNCHANGED vars
  BY <1>8 DEF vars, NobodyCancelled
<1>9. QED
  BY <1>6, <1>7, <1>8, Actor

-----------------------------------------------------------------------------
(* Tasks and the events they have *)

\* Nobody leaves a handler but to the next one.
LEMMA NoBreak ==
    ASSUME MayCancel = FALSE, LInv, NobodyCancelled, [Next]_vars, NEW u \in Task
    PROVE  ~Breaks(task[u], task'[u])
<1> SUFFICES ASSUME task[u].pc \in Running, task'[u].pc = "unlock" PROVE FALSE
  BY DEF Breaks
<1>1. TypeOK /\ task \in [Task -> TaskState] /\ task[u] \in TaskState /\ TaskOK(u, task[u])
  BY TaskFields DEF LInv, IInv
<1>2. Acts(u)
  <2>1. ~Aside(u)
    BY DEF Aside, Leaves, Turns, Running
  <2>2. QED
    BY <2>1, Moves
<1>3. Body(u)
  <2>1. ~Process(u)
    BY DEF Process, EnterLock, LockGranted, Check, Select, Create, NextHandler, HandlerLockGranted,
           Start, End, Unlock, Propagate, At, Running
  <2>2. ~LoopGet(u) /\ ~LoopAgain(u)
    BY DEF LoopGet, LoopAgain, At, Running
  <2>3. ~Jump(u)
    BY DEF Jump, JumpYield, JumpGiveUp, JumpDone, JumpAgain, JumpTake, JumpJoin, NothingToDo, Polling,
           At, Running
  <2>4. QED
    BY <1>2, <2>1, <2>2, <2>3 DEF Acts
<1>4. ~HCancel(u) /\ ~HAwaitCancelled(u)
  BY <1>1, <1>3, BodySound
<1>5. ~HForward(u)
  <2> SUFFICES ASSUME HForward(u) PROVE FALSE
    OBVIOUS
  <2>1. task'[u] = [task[u] EXCEPT !.pc = "sent"]
    BY <1>1, ForwardShape
  <2>2. QED
    BY <1>1, <2>1 DEF TaskState
<1>6. ~HReturn(u)
  <2> SUFFICES ASSUME HReturn(u) PROVE FALSE
    OBVIOUS
  <2>1. task' = [task EXCEPT ![u].pc = "next", ![u].cur = NoHandler]
    BY DEF HReturn, Returned
  <2>2. QED
    BY <1>1, <2>1 DEF TaskState
<1>7. ASSUME NEW c \in Event, HEmit(u, c) PROVE FALSE
  <2>1. task' = Restarted(task[u].bus, task)
    BY <1>7 DEF HEmit
  <2>2. task[u].bus \in Bus
    BY <1>1 DEF TaskOK, Working, Running
  <2>3. task' = task
    BY <1>1, <2>1, <2>2, RestartSound DEF NobodyCancelled
  <2>4. QED
    BY <2>3 DEF Running
<1>8. ~HResume(u)
  <2> SUFFICES ASSUME HResume(u) PROVE FALSE
    OBVIOUS
  <2>1. PICK j \in Jumper :
          j # u /\ task' = [task EXCEPT ![u] = Dropped(task[u], j), ![j] = Fresh("idle")]
    BY <1>1, ResumeShape
  <2>2. task'[u] = Dropped(task[u], j)
    BY <1>1, <2>1
  <2>3. QED
    BY <1>1, <2>2, DroppedFields
<1>9. ~HLeave(u)
  <2> SUFFICES ASSUME HLeave(u) PROVE FALSE
    OBVIOUS
  <2>1. PICK j \in Jumper : task' = [task EXCEPT ![u] = Dropped(task[u], j)]
    BY <1>1, LeaveShape
  <2>2. task'[u] = Dropped(task[u], j)
    BY <1>1, <2>1
  <2>3. QED
    BY <1>1, <2>2, DroppedFields
<1>10. ASSUME NEW c \in Event, NEW j \in Jumper, HAwait(u, c, j) PROVE FALSE
  <2> DEFINE f == [Fresh("poll") EXCEPT !.ev = c]
  <2>1. j # u /\ task' = [task EXCEPT ![u] = Awaiting(task[u], j), ![j] = f]
    BY <1>1, <1>10, AwaitShape
  <2> HIDE DEF f
  <2>2. task'[u] = Awaiting(task[u], j)
    BY <1>1, <2>1
  <2>3. QED
    BY <1>1, <2>2, AwaitingFields
<1>11. QED
  BY <1>3, <1>4, <1>5, <1>6, <1>7, <1>8, <1>9, <1>10 DEF Body

\* Task state s has event e on bus b.
Has(s, b, e) == s.pc \in Taken /\ s.bus = b /\ s.ev = e

\* A task stays with its event until it unlocks it.
LEMMA HasStays ==
    ASSUME LInv, [Next]_vars, NEW u \in Task, task[u].pc \in Taken
    PROVE  \/ task'[u].pc \in Taken /\ SameEvent(task[u], task'[u])
           \/ Unlock(u)
<1> DEFINE s == task[u]
           r == task'[u]
<1>1. Moved(s, r) /\ (Aside(u) \/ Acts(u))
  BY Moves
<1>2. r = s => SameEvent(s, r)
  BY DEF SameEvent
<1>3. \/ r.pc \in Taken /\ SameEvent(s, r)
      \/ s.pc = "unlock" /\ r.pc = "prop"
  BY <1>1, <1>2
  DEF Moved, Leaves, Turns, Waits, Takes, Joins, Enters, Chooses, Resets, Turned, Calls, Breaks, Ends,
      Taken, Working, Running
<1>4. ASSUME s.pc = "unlock", r.pc = "prop" PROVE Unlock(u)
  <2>1. Acts(u)
    BY <1>1, <1>4 DEF Aside, Leaves, Turns
  <2>2. QED
    BY <1>4, <2>1, ActsAt
<1>5. QED
  BY <1>3, <1>4

\* What a bus has in processing or in flight is in its queue or taken by a task.
UsedByTask ==
    \A b \in Bus, e \in Event : e \in processing[b] \cup inflight[b] =>
        e \in Range(queue[b]) \/ \E t \in Task : Has(task[t], b, e)

\* What a bus has in its sets is queued there, or some task has it.
LEMMA UsedStep ==
    ASSUME LInv, UsedByTask, [Next]_vars
    PROVE  UsedByTask'
<1> SUFFICES ASSUME NEW a \in Bus, NEW x \in Event, x \in processing'[a] \cup inflight'[a],
                    x \notin Range(queue'[a])
             PROVE  \E t \in Task : Has(task'[t], a, x)
  BY DEF UsedByTask, Has
<1>1. TypeOK /\ processing \in [Bus -> SUBSET Event]
  BY TypeParts DEF LInv, IInv, BusTypes
<1>2. ASSUME NEW t \in Task, NEW b \in Bus, NEW e \in Event, Dequeues(t, b, e)
      PROVE  (b = a /\ e = x /\ Has(task'[t], a, x))
             \/ (x \notin Range(queue[a]) /\ x \in processing[a] \cup inflight[a])
  <2>1. CASE b = a /\ e = x
    BY <1>2, <2>1 DEF Dequeues, Has, Taken, Working
  <2>2. CASE ~(b = a /\ e = x)
    BY <1>1, <1>2, <2>2 DEF Dequeues
  <2>3. QED
    BY <2>1, <2>2
<1>3. ASSUME x \notin Range(queue[a]), x \in processing[a] \cup inflight[a]
      PROVE  \E t \in Task : Has(task'[t], a, x)
  <2>1. PICK t \in Task : Has(task[t], a, x)
    BY <1>3 DEF UsedByTask
  <2>2. CASE task'[t].pc \in Taken /\ SameEvent(task[t], task'[t])
    BY <2>1, <2>2 DEF Has, SameEvent
  <2>3. CASE Unlock(t)
    <3>1. task[t].ev = x /\ task[t].bus = a
      BY <2>1 DEF Has
    <3>2. x \notin processing'[a] \cup inflight'[a]
      BY <2>3, <3>1, UnlockGives
    <3>3. QED
      BY <3>2
  <2>4. QED
    BY <2>1, <2>2, <2>3, HasStays DEF Has
<1>4. ASSUME NEW b \in Bus, NEW e \in Event, NEW p, NEW h, Emit(b, e, p, h)
      PROVE  x \notin Range(queue[a]) /\ x \in processing[a] \cup inflight[a]
  <2>1. Queued(b, e)
    BY <1>1, <1>4, EmitGives
  <2>2. QED
    BY <2>1 DEF Queued
<1>5. CASE \E b \in Bus, e \in Event : ExtEmit(b, e)
  BY <1>3, <1>4, <1>5 DEF ExtEmit
<1>6. CASE \E t \in Task, c \in Event : HEmit(t, c)
  BY <1>3, <1>4, <1>6, EmitChildGives
<1>7. CASE \E t \in Task : HForward(t)
  BY <1>3, <1>4, <1>7, ForwardGives
<1>8. CASE Idles \/ \E t \in Task : Settles(t) \/ Create(t) \/ Start(t)
  BY <1>3, <1>8, SettleGives, CreateGives, StartGives DEF Idles, busVars
<1>9. CASE \E t \in Task, c \in Event, j \in Jumper : HAwait(t, c, j)
  BY <1>3, <1>9, AwaitGives DEF busVars
<1>10. CASE \E t \in Task : End(t) \/ Unlock(t) \/ Propagate(t)
  BY <1>3, <1>10, Finishes
<1>11. QED
  BY <1>2, <1>3, <1>5, <1>6, <1>7, <1>8, <1>9, <1>10, Kinds

\* A pending result is that of a handler some task will call.
PendingHasTask ==
    \A e \in Event, h \in Handler : result[e][h] = "pending" => \E t \in Task : Picks(task[t], e, h)

\* A result becomes pending when a task has chosen its handler.
LEMMA PendingComes ==
    ASSUME LInv, [Next]_vars, NEW x \in Event, NEW g \in Handler,
           result'[x][g] = "pending", result[x][g] # "pending"
    PROVE  \E t \in Task : Create(t) /\ task[t].ev = x /\ g \in task[t].todo
<1>1. ~Idles /\ ~\E t \in Task, b \in Bus, e \in Event : Dequeues(t, b, e)
  BY DEF Idles, Dequeues, resultVars
<1>2. ~\E b \in Bus, e \in Event : ExtEmit(b, e)
  BY DEF ExtEmit, resultVars
<1>3. ~\E t \in Task, c \in Event : HEmit(t, c)
  BY EmitChildGives DEF resultVars
<1>4. ~\E t \in Task, c \in Event, j \in Jumper : HAwait(t, c, j)
  BY AwaitGives DEF resultVars
<1>5. ~\E t \in Task : End(t) \/ Unlock(t) \/ Propagate(t)
  BY Finishes DEF resultVars
<1>6. ~\E t \in Task : HForward(t) \/ Settles(t)
  BY ForwardGives, SettleGives DEF Terminal, resultVars
<1>7. ~\E t \in Task : Start(t)
  BY StartGives
<1>8. PICK t \in Task : Create(t)
  BY <1>1, <1>2, <1>3, <1>4, <1>5, <1>6, <1>7, Kinds
<1>9. QED
  BY <1>8, CreateGives

\* A pending result waits for a task, until the task calls the handler.
LEMMA PendingTaskStep ==
    ASSUME MayCancel = FALSE, LInv, NobodyCancelled, PendingHasTask, [Next]_vars
    PROVE  PendingHasTask'
<1> SUFFICES ASSUME NEW e \in Event, NEW h \in Handler, result'[e][h] = "pending"
             PROVE  \E t \in Task : Picks(task'[t], e, h)
  BY DEF PendingHasTask, Picks
<1>1. CASE result[e][h] # "pending"
  <2>1. PICK t \in Task : Create(t) /\ task[t].ev = e /\ h \in task[t].todo
    BY <1>1, PendingComes
  <2> DEFINE s == task[t]
             r == task'[t]
  <2>2. s.pc = "create" /\ Moved(s, r) /\ Goto(t, "next")
    BY <2>1, Moves DEF Create, At
  <2>3. r.pc = "next" /\ r.ev = s.ev /\ r.todo = s.todo
    BY <2>2, TaskFields DEF LInv, IInv, Goto, TaskState
  <2>4. QED
    BY <2>1, <2>3 DEF Picks, Chosen
<1>2. CASE result[e][h] = "pending"
  <2>1. PICK t \in Task : Picks(task[t], e, h)
    BY <1>2 DEF PendingHasTask
  <2> DEFINE s == task[t]
             r == task'[t]
  <2>2. Moved(s, r) /\ (Aside(t) \/ Acts(t)) /\ ~Breaks(s, r)
    BY Moves, NoBreak
  <2>3. Picks(r, e, h) \/ (s.pc = "start" /\ s.cur = h /\ r.pc \in {"body", "next"})
    <3>1. r = s => Picks(r, e, h)
      BY <2>1
    <3>2. QED
      BY <2>1, <2>2, <3>1
      DEF Moved, Leaves, Turns, Waits, Takes, Joins, Enters, Chooses, Resets, Turned, Calls, Ends,
          SameEvent, Picks, Chosen, Running
  <2>4. ASSUME s.pc = "start", s.cur = h, r.pc \in {"body", "next"} PROVE FALSE
    <3>1. Start(t)
      BY <2>2, <2>4, ActsAt DEF Aside, Leaves, Turns
    <3>2. s.ev = e
      BY <2>1 DEF Picks
    <3>3. QED
      BY <1>2, <2>4, <3>1, <3>2, StartGives DEF Terminal
  <2>5. QED
    BY <2>3, <2>4
<1>3. QED
  BY <1>1, <1>2

-----------------------------------------------------------------------------
(* Families only grow *)

\* A child keeps its parent; an awaited child stays so.
KinLasts ==
    \A x \in Event : /\ parent[x] \in Event => parent'[x] = parent[x]
                     /\ blocks[x] => blocks'[x]
                     /\ x \in Blocking => x \in Blocking' /\ parent'[x] = parent[x]

\* No step takes a child from its parent or lets go of an awaited child.
LEMMA KinStays ==
    ASSUME LInv, [Next]_vars
    PROVE  KinLasts
<1>1. Onward /\ TypeOK
  BY GoesOnward DEF LInv, IInv
<1>2. \A x \in Event : parent[x] \in Event \/ blocks[x] => status[x] # "new"
  BY NamesAssumption DEF LInv, Kin, NewIsAlone
<1>3. ASSUME NEW x \in Event, blocks[x] PROVE blocks'[x]
  <2>1. CASE UNCHANGED blocks
    BY <1>3, <2>1
  <2>2. CASE \E t \in Task, c \in Event, j \in Jumper : HAwait(t, c, j)
    BY <1>3, <2>2, AwaitGives
  <2>3. CASE \E t \in Task : End(t) \/ Unlock(t) \/ Propagate(t)
    BY <1>3, <2>3, Finishes DEF Finished
  <2>4. CASE \E t \in Task : HForward(t) \/ Settles(t) \/ Create(t) \/ Start(t)
    BY <1>3, <2>4, SettleGives, CreateGives, StartGives DEF HForward, Emit, eventVars
  <2>5. CASE \/ \E b \in Bus, e \in Event : ExtEmit(b, e)
             \/ \E t \in Task, c \in Event : HEmit(t, c)
    BY <1>3, <2>5 DEF ExtEmit, HEmit, Emit
  <2>6. QED
    BY <2>1, <2>2, <2>3, <2>4, <2>5, Kinds DEF Idles, Dequeues, eventVars
<1>4. ASSUME NEW x \in Event, x \in Blocking PROVE x \in Blocking' /\ parent'[x] = parent[x]
  <2>1. status[x] # "new" /\ blocks[x] /\ link[x] # NoHandler
    BY <1>2, <1>4 DEF Blocking, Linked
  <2>2. blocks'[x] /\ link'[x] = link[x] /\ parent'[x] = parent[x]
    BY <1>1, <1>3, <2>1 DEF Onward
  <2>3. QED
    BY <2>1, <2>2 DEF Blocking, Linked
<1>5. QED
  BY <1>1, <1>2, <1>3, <1>4 DEF KinLasts, Onward

\* Who is below an event stays below it.
LEMMA BelowGrows ==
    ASSUME KinLasts, NEW e \in Event
    PROVE  /\ Below(e, Event) \subseteq Below(e, Event)'
           /\ Below(e, Blocking) \subseteq Below(e, Blocking)'
<1>1. Below(e, Event) \subseteq Below(e, Event)'
  <2> SUFFICES ASSUME NEW d \in Below(e, Event), NEW S \in SUBSET Event,
                      \A c \in Event : parent'[c] \in S \cup {e} => c \in S
               PROVE  d \in S
    BY DEF Below
  <2>1. \A c \in Event : parent[c] \in S \cup {e} => c \in S
    BY DEF KinLasts
  <2>2. QED
    BY <2>1 DEF Below
<1>2. Below(e, Blocking) \subseteq Below(e, Blocking)'
  <2>1. Blocking \subseteq Event /\ Blocking' \subseteq Event
    BY DEF Blocking, Linked
  <2> SUFFICES ASSUME NEW d \in Below(e, Blocking), NEW S \in SUBSET Blocking',
                      \A c \in Blocking' : parent'[c] \in S \cup {e} => c \in S
               PROVE  d \in Blocking' /\ d \in S
    BY DEF Below
  <2>2. S \cap Blocking \in SUBSET Blocking
    OBVIOUS
  <2>3. \A c \in Blocking : parent[c] \in (S \cap Blocking) \cup {e} => c \in S \cap Blocking
    BY <2>1 DEF KinLasts
  <2>4. d \in S \cap Blocking
    BY <2>2, <2>3 DEF Below
  <2>5. QED
    BY <2>4
<1>3. QED
  BY <1>1, <1>2

\* No event is below itself.
NoCycle == \A e \in Event : e \notin Below(e, Event)

\* A new child has no children, so that no cycle is closed.
LEMMA CycleStep ==
    ASSUME LInv, SInv, NoCycle, [Next]_vars
    PROVE  NoCycle'
<1>1. KinLasts /\ TypeOK
  BY KinStays DEF LInv, IInv
<1>2. CASE \A x \in Event : parent'[x] \in Event => parent'[x] = parent[x]
  <2> SUFFICES ASSUME NEW e \in Event, e \in Below(e, Event)' PROVE FALSE
    BY DEF NoCycle
  <2>1. \A c \in Event : parent'[c] \in Below(e, Event) \cup {e} => c \in Below(e, Event)
    BY <1>2, ChildBelow DEF Below
  <2>2. Below(e, Event) \in SUBSET Event
    BY DEF Below
  <2>3. e \in Below(e, Event)
    BY <2>1, <2>2 DEF Below
  <2>4. QED
    BY <2>3 DEF NoCycle
<1>3. CASE \E c \in Event : parent'[c] \in Event /\ parent'[c] # parent[c]
  <2>1. PICK c \in Event, t \in Task : HEmit(t, c)
    BY <1>3, ParentComes
  <2> DEFINE p == task[t].ev
  <2>2. /\ status[c] = "new" /\ p \in Event /\ task[t].pc \in {"body", "await"}
        /\ Emit(task[t].bus, c, p, task[t].cur) /\ task[t].bus \in Bus
    BY <2>1, EmitChildGives
  <2>3. status[p] # "new" /\ \A y \in Event : parent[y] # c
    BY <2>2 DEF SInv, Emitted, AtEvent, Working, StartedShown, Begun
  <2> HIDE DEF p
  <2>4. parent'[c] = p /\ \A y \in Event : y # c => parent'[y] = parent[y]
    <3>1. Noted(task[t].bus, c, p, task[t].cur)
      BY <1>1, <2>2, EmitGives
    <3>2. QED
      BY <2>2, <3>1 DEF Noted
  <2>5. p # c /\ \A y \in Event : y # c => parent'[y] # c
    BY <2>2, <2>3, <2>4
  <2> SUFFICES ASSUME NEW e \in Event, e \in Below(e, Event)' PROVE FALSE
    BY DEF NoCycle
  <2> DEFINE B == Below(e, Event)
             T == IF p \in {e} \cup B THEN B \cup {c} ELSE B
  <2>6. B \in SUBSET Event /\ \A y \in Event : parent[y] \in {e} \cup B => y \in B
    BY ChildBelow DEF Below
  <2>7. e \notin B
    BY DEF NoCycle
  <2>8. e = c => B = {}
    <3> SUFFICES ASSUME e = c, NEW y \in B PROVE FALSE
      OBVIOUS
    <3>1. \A z \in Event : parent[z] \in {} \cup {e} => z \in {}
      BY <2>3
    <3>2. y \in {}
      BY <3>1 DEF Below
    <3>3. QED
      BY <3>2
  <2> HIDE DEF B
  <2>9. T \in SUBSET Event
    BY <2>6
  <2>10. ASSUME NEW y \in Event, parent'[y] \in T \cup {e} PROVE y \in T
    BY <2>4, <2>5, <2>6, <2>10
  <2> HIDE DEF T
  <2>11. e \in T
    BY <2>9, <2>10 DEF Below
  <2>12. e = c /\ p \in {e} \cup B
    BY <2>7, <2>11 DEF T
  <2>13. QED
    BY <2>5, <2>8, <2>12
<1>4. QED
  BY <1>2, <1>3

-----------------------------------------------------------------------------
(* Somebody is left to complete every event *)

\* e would be completed, were it the turn of a task to look.
Ready(e) == ResultsReady(e, {}) /\ \A d \in Below(e, Blocking) : status[d] = "completed"

\* Task state s is to look, at e or on its way up from an event below e.
Owes(s, e) ==
    \/ s.pc \in Taken /\ s.ev \in {e} \cup Below(e, Event)
    \/ s.pc = "prop" /\ s.up \in Below(e, Event)
\* Every event that is ready is owed for.
NothingOwed ==
    \A e \in Event : status[e] \notin {"new", "completed"} /\ Ready(e) =>
        \E t \in Task : Owes(task[t], e)

\* Steps that may complete events.
Ending == \E t \in Task : End(t) \/ Unlock(t) \/ Propagate(t)

\* Steps that complete nothing let no bus lose an event.
LEMMA StillUsed ==
    ASSUME LInv, [Next]_vars, ~Ending, NEW e \in Event
    PROVE  /\ status'[e] = "completed" => status[e] = "completed"
           /\ status[e] = "new" /\ status'[e] # "new" => \E a \in Bus : InUse(a, e)'
           /\ \A a \in Bus : InUse(a, e) => InUse(a, e)'
<1>1. TypeOK /\ processing \in [Bus -> SUBSET Event]
  BY TypeParts DEF LInv, IInv, BusTypes
<1> DEFINE Goal == /\ status'[e] = "completed" => status[e] = "completed"
                   /\ status[e] = "new" /\ status'[e] # "new" => \E a \in Bus : InUse(a, e)'
                   /\ \A a \in Bus : InUse(a, e) => InUse(a, e)'
<1>2. CASE Idles
  BY <1>2 DEF Idles, busVars, eventVars, InUse
<1>3. ASSUME NEW t \in Task, NEW b \in Bus, NEW x \in Event, Dequeues(t, b, x) PROVE Goal
  <2>1. status' = status
    BY <1>3 DEF Dequeues, eventVars
  <2>2. \A a \in Bus : InUse(a, e) => InUse(a, e)'
    BY <1>1, <1>3 DEF Dequeues, InUse
  <2>3. QED
    BY <2>1, <2>2
<1>4. ASSUME NEW b \in Bus, NEW x \in Event, NEW p, NEW h, Emit(b, x, p, h) PROVE Goal
  <2>1. Noted(b, x, p, h) /\ Queued(b, x)
    BY <1>1, <1>4, EmitGives
  <2>2. \A a \in Bus : InUse(a, e) => InUse(a, e)'
    BY <2>1 DEF Queued, InUse
  <2>3. status'[e] = IF e = x /\ status[x] = "new" THEN "pending" ELSE status[e]
    BY <2>1 DEF Noted
  <2>4. status[x] = "new" => InUse(b, x)'
    BY <2>1 DEF Queued, InUse
  <2>5. QED
    BY <2>2, <2>3, <2>4
<1>5. CASE \E b \in Bus, x \in Event : ExtEmit(b, x)
  BY <1>4, <1>5 DEF ExtEmit
<1>6. CASE \E t \in Task, c \in Event : HEmit(t, c)
  BY <1>4, <1>6, EmitChildGives
<1>7. CASE \E t \in Task : HForward(t)
  BY <1>4, <1>7, ForwardGives
<1>8. CASE \E t \in Task, c \in Event, j \in Jumper : HAwait(t, c, j)
  BY <1>8, AwaitGives DEF busVars, InUse
<1>9. CASE \E t \in Task : Settles(t) \/ Create(t)
  BY <1>9, SettleGives, CreateGives DEF busVars, eventVars, InUse
<1>10. ASSUME NEW t \in Task, Start(t) PROVE Goal
  <2>1. UNCHANGED busVars
    BY <1>10, StartGives
  <2>2. status'[e] = status[e] \/ (status[e] = "pending" /\ status'[e] = "started")
    BY <1>10, StartGives
  <2>3. QED
    BY <2>1, <2>2 DEF busVars, InUse
<1>11. QED
  BY <1>2, <1>3, <1>5, <1>6, <1>7, <1>8, <1>9, <1>10, Kinds DEF Ending

\* A task goes on owing but at the end of its event.
LEMMA OwesStays ==
    ASSUME LInv, [Next]_vars, NEW u \in Task, NEW e \in Event, Owes(task[u], e),
           ~Unlock(u), ~Propagate(u)
    PROVE  Owes(task[u], e)'
<1> DEFINE s == task[u]
           r == task'[u]
<1>1. Below(e, Event) \subseteq Below(e, Event)'
  BY KinStays, BelowGrows
<1>2. CASE s.pc \in Taken
  <2>1. r.pc \in Taken /\ r.ev = s.ev
    BY <1>2, HasStays DEF SameEvent
  <2>2. QED
    BY <1>1, <1>2, <2>1 DEF Owes, Taken
<1>3. CASE s.pc = "prop"
  <2>1. Moved(s, r) /\ (Aside(u) \/ Acts(u))
    BY Moves
  <2>2. ~Acts(u)
    BY <1>3, ActsAt
  <2>3. r = s
    BY <1>3, <2>1, <2>2 DEF Aside, Leaves, Turns
  <2>4. QED
    BY <1>1, <1>3, <2>3 DEF Owes, Taken
<1>4. QED
  BY <1>2, <1>3 DEF Owes

\* Steps that complete nothing: the task that settled the last result owes.
LEMMA OwedUnended ==
    ASSUME LInv, SInv, NothingOwed, [Next]_vars, ~Ending,
           NEW e \in Event, status'[e] \notin {"new", "completed"}, Ready(e)'
    PROVE  \E t \in Task : Owes(task[t], e)'
<1>1. \A a \in Bus : InUse(a, e) => InUse(a, e)'
  BY StillUsed
<1>2. \A a \in Bus : ~InUse(a, e)'
  BY DEF Ready, ResultsReady
<1>3. status[e] \notin {"new", "completed"}
  BY <1>2, StillUsed, GoesOnward DEF Onward
<1>4. \A d \in Below(e, Blocking) : status[d] = "completed"
  <2>1. Below(e, Blocking) \subseteq Below(e, Blocking)' /\ Below(e, Blocking) \subseteq Event
    BY KinStays, BelowGrows, BelowEvents
  <2>2. \A d \in Below(e, Blocking) : status'[d] = "completed"
    BY <2>1 DEF Ready
  <2>3. QED
    BY <2>1, <2>2, StillUsed
<1>5. \A u \in Task : ~Unlock(u) /\ ~Propagate(u)
  BY DEF Ending
<1>6. CASE \A h \in Handler : result'[e][h] = result[e][h]
  <2>1. Ready(e)
    BY <1>1, <1>2, <1>4, <1>6 DEF Ready, ResultsReady
  <2>2. PICK t \in Task : Owes(task[t], e)
    BY <1>3, <2>1 DEF NothingOwed
  <2>3. QED
    BY <1>5, <2>2, OwesStays
<1>7. CASE \E h \in Handler : result'[e][h] # result[e][h]
  <2>1. PICK t \in Task : task[t].pc \in {"create", "start", "body", "await", "sent"} /\ task[t].ev = e
    BY <1>7, ResultComes
  <2>2. Owes(task[t], e)
    BY <2>1 DEF Owes, Taken, Working
  <2>3. QED
    BY <1>5, <2>2, OwesStays
<1>8. QED
  BY <1>6, <1>7

-----------------------------------------------------------------------------
(* Steps that complete events leave no debt *)

\* Steps that complete events leave families alone.
LEMMA SameFamily ==
    ASSUME NEW S, Finished(S), NEW e
    PROVE  Below(e, Event)' = Below(e, Event) /\ Below(e, Blocking)' = Below(e, Blocking)
BY DEF Finished, Below, Blocking, Linked

\* Such a step makes an event ready only by completing one below it.
LEMMA ReadyComes ==
    ASSUME NEW S, Finished(S), NEW e \in Event, Ready(e)', status'[e] \notin {"new", "completed"},
           \A a \in Bus : InUse(a, e) => InUse(a, e)'
    PROVE  /\ e \notin S /\ status[e] \notin {"new", "completed"}
           /\ Ready(e) \/ \E d \in S : d \in Below(e, Blocking) /\ d \in Below(e, Event)
<1>1. e \notin S /\ status'[e] = status[e]
  BY DEF Finished
<1>2. \A h \in Handler : result'[e][h] = result[e][h]
  BY DEF Finished, resultVars
<1>3. ResultsReady(e, {})
  BY <1>2 DEF Ready, ResultsReady
<1>4. \A d \in Below(e, Blocking) : status'[d] = "completed" /\ d \in Event
  BY SameFamily, BelowEvents DEF Ready
<1>5. Below(e, Blocking) \subseteq Below(e, Event)
  BY BelowMono, BelowEvents
<1>6. \A d \in Below(e, Blocking) : d \in S \/ status[d] = "completed"
  BY <1>4 DEF Finished
<1>7. QED
  BY <1>1, <1>3, <1>5, <1>6 DEF Ready

\* The task at the end of an event still has it to unlock.
LEMMA OwedEnd ==
    ASSUME LInv, NothingOwed, [Next]_vars, NEW t \in Task, End(t),
           \A u \in Task : ~Unlock(u) /\ ~Propagate(u),
           NEW e \in Event, status'[e] \notin {"new", "completed"}, Ready(e)'
    PROVE  \E u \in Task : Owes(task[u], e)'
<1> DEFINE x == task[t].ev
<1>1. PICK S \in SUBSET {x} : Finished(S) /\ \A a \in Bus : inflight'[a] = inflight[a] \ S
  BY EndGives
<1>2. UNCHANGED <<queue, processing>> /\ task[t].pc = "end"
  BY EndGives, <1>1 DEF Finished
<1>3. e \notin S
  BY <1>1 DEF Finished
<1>4. \A a \in Bus : InUse(a, e) => InUse(a, e)'
  BY <1>1, <1>2, <1>3 DEF InUse
<1>5. /\ status[e] \notin {"new", "completed"}
      /\ Ready(e) \/ \E d \in S : d \in Below(e, Event)
  BY <1>1, <1>4, ReadyComes
<1>6. \E u \in Task : Owes(task[u], e)
  <2>1. CASE Ready(e)
    BY <1>5, <2>1 DEF NothingOwed
  <2>2. CASE x \in Below(e, Event)
    BY <1>2, <2>2 DEF Owes, Taken, Working
  <2>3. QED
    BY <1>5, <2>1, <2>2
<1>7. QED
  BY <1>6, OwesStays

\* The task that propagates takes its debt one event up, and completes that
\* event if it can.
LEMMA OwedPropagate ==
    ASSUME LInv, NoCycle, NothingOwed, NEW t \in Task, Propagate(t),
           NEW e \in Event, status'[e] \notin {"new", "completed"}, Ready(e)'
    PROVE  \E u \in Task : Owes(task[u], e)'
<1> DEFINE x == task[t].up
           p == parent[x]
<1>1. task[t].pc = "prop" /\ x \in Event /\ UNCHANGED processing
  BY PropagateGives
<1>2. ASSUME NEW u \in Task \ {t} PROVE task'[u] = task[u]
  BY TaskFields DEF Propagate, Goto, LInv, IInv
<1>3. CASE p = NoEvent
  <2>1. Idles
    BY <1>3, PropagateGives, NamesAssumption
  <2>2. Below(e, Event)' = Below(e, Event) /\ Below(e, Blocking)' = Below(e, Blocking)
        /\ UNCHANGED <<status, result, queue, processing, inflight>>
    BY <2>1 DEF Idles, busVars, eventVars, resultVars, Below, Blocking, Linked
  <2>3. status[e] \notin {"new", "completed"} /\ Ready(e)
    BY <2>2 DEF Ready, ResultsReady, InUse
  <2>4. PICK u \in Task : Owes(task[u], e)
    BY <2>3 DEF NothingOwed
  <2>5. u # t
    <3> SUFFICES ASSUME u = t PROVE FALSE
      OBVIOUS
    <3>1. x \in Below(e, Event)
      BY <1>1, <2>4 DEF Owes, Taken
    <3>2. p \in {e} \cup Below(e, Event)
      BY <3>1, ParentBelow
    <3>3. QED
      BY <1>3, <3>2, NamesAssumption DEF Below
  <2>6. QED
    BY <1>2, <2>2, <2>4, <2>5 DEF Owes
<1>4. CASE p # NoEvent
  <2>1. p \in Event /\ task'[t].pc = "prop" /\ task'[t].up = p
    BY <1>4, PropagateGives
  <2>2. PICK S \in SUBSET {p}, pb \in path[p] :
           /\ pb \in Bus /\ Finished(S) /\ (p \in S <=> Completable(p, {pb}))
           /\ \A a \in Bus : inflight'[a] = inflight[a] \ S
    BY <1>4, PropagateGives
  <2> HIDE DEF p
  <2>3. e \notin S /\ UNCHANGED queue
    BY <2>2 DEF Finished
  <2>4. \A a \in Bus : InUse(a, e) => InUse(a, e)'
    BY <1>1, <2>2, <2>3 DEF InUse
  <2>5. /\ status[e] \notin {"new", "completed"}
        /\ Ready(e) \/ p \in Below(e, Event)
    BY <2>2, <2>4, ReadyComes
  <2>6. Below(e, Event)' = Below(e, Event)
    BY <2>2, SameFamily
  <2>7. p \in Below(e, Event) => Owes(task[t], e)'
    BY <2>1, <2>6 DEF Owes
  <2>8. ASSUME Ready(e), e = p PROVE FALSE
    <3>1. Completable(p, {pb})
      BY <2>5, <2>8 DEF Completable, Ready, ResultsReady
    <3>2. QED
      BY <2>2, <2>3, <2>8, <3>1
  <2>9. ASSUME Ready(e), e # p PROVE \E u \in Task : Owes(task[u], e)'
    <3>1. PICK u \in Task : Owes(task[u], e)
      BY <2>5, <2>9 DEF NothingOwed
    <3>2. CASE u = t
      <4>1. x \in Below(e, Event)
        BY <1>1, <3>1, <3>2 DEF Owes, Taken
      <4>2. p \in Below(e, Event)
        BY <2>9, <4>1, ParentBelow DEF p
      <4>3. QED
        BY <2>7, <4>2
    <3>3. CASE u # t
      BY <1>2, <2>6, <3>1, <3>3 DEF Owes
    <3>4. QED
      BY <3>2, <3>3
  <2>10. QED
    BY <2>5, <2>7, <2>8, <2>9
<1>5. QED
  BY <1>3, <1>4

\* What the tree walk of a finished event leaves open was not ready.
LEMMA WalkCompletes ==
    ASSUME NoCycle, NEW x \in Event, NEW b \in Bus, Finished(CompletableTree(x, b)),
           \A a \in Bus : /\ processing'[a] = processing[a] \ (IF a = b THEN {x} ELSE {})
                          /\ inflight'[a] = inflight[a] \ (CompletableTree(x, b) \cup IF a = b THEN {x} ELSE {}),
           NEW e \in {x} \cup Below(x, Linked), Ready(e)', status[e] # "completed"
    PROVE  e \in CompletableTree(x, b)
<1> DEFINE S == CompletableTree(x, b)
<1> SUFFICES ASSUME e \notin S PROVE FALSE
  OBVIOUS
<1>1. e \in Event /\ UNCHANGED <<queue, result>> /\ Below(e, Blocking)' = Below(e, Blocking)
  BY BelowEvents, SameFamily DEF Finished, resultVars
<1>2. ResultsReady(e, IF e = x THEN {b} ELSE {})
  <2> HIDE DEF S
  <2>1. \A a \in Bus : InUse(a, e) => InUse(a, e)' \/ (a = b /\ e = x)
    BY DEF InUse, S, Finished
  <2>2. QED
    BY <1>1, <2>1 DEF Ready, ResultsReady
<1>3. ASSUME NEW d \in Below(e, Blocking)
      PROVE  status[d] = "completed" \/ signal[d] \/ ResultsReady(d, IF d = x THEN {b} ELSE {})
  <2>1. status'[d] = "completed" /\ d \in Event
    BY <1>1, BelowEvents DEF Ready
  <2>2. status[d] = "completed" \/ d \in S
    BY <2>1 DEF Finished
  <2>3. d \in S => signal[d] \/ status[d] = "completed" \/ ResultsReady(d, IF d = x THEN {b} ELSE {})
    BY DEF CompletableTree
  <2>4. QED
    BY <2>2, <2>3
<1>4. QED
  BY <1>2, <1>3 DEF CompletableTree

\* Unlocking, a task completes what it can of the tree, and then owes to the
\* ancestors; what others owe is untouched.
LEMMA OwedUnlock ==
    ASSUME LInv, NoCycle, NothingOwed, NEW t \in Task, Unlock(t),
           NEW e \in Event, status'[e] \notin {"new", "completed"}, Ready(e)'
    PROVE  \E u \in Task : Owes(task[u], e)'
<1> DEFINE x == task[t].ev
           b == task[t].bus
           S == CompletableTree(x, b)
<1>1. /\ task[t].pc = "unlock" /\ x \in Event /\ b \in Bus
      /\ task'[t].pc = "prop" /\ task'[t].up = x
      /\ Finished(S)
      /\ \A a \in Bus :
            /\ processing'[a] = processing[a] \ (IF a = b THEN {x} ELSE {})
            /\ inflight'[a] = inflight[a] \ (S \cup IF a = b THEN {x} ELSE {})
  BY UnlockGives
<1>2. ASSUME NEW u \in Task \ {t} PROVE task'[u] = task[u]
  BY TaskFields DEF Unlock, LInv, IInv
<1>3. S \subseteq {x} \cup Below(x, Linked)
  BY DEF CompletableTree
<1>4. e \notin S /\ status[e] # "completed" /\ UNCHANGED queue
  BY <1>1 DEF Finished
<1>5. e \notin {x} \cup Below(x, Linked)
  BY <1>1, <1>4, WalkCompletes
<1> HIDE DEF x, b, S
<1>6. \A a \in Bus : InUse(a, e) => InUse(a, e)'
  BY <1>1, <1>4, <1>5 DEF InUse
<1>7. /\ status[e] \notin {"new", "completed"}
      /\ Ready(e) \/ \E d \in S : d \in Below(e, Event)
  BY <1>1, <1>6, ReadyComes
<1>8. Below(e, Event)' = Below(e, Event)
  BY <1>1, SameFamily
<1>9. x \in Below(e, Event) => Owes(task[t], e)'
  BY <1>1, <1>8 DEF Owes
<1>10. CASE \E d \in S : d \in Below(e, Event)
  <2>1. x \in Below(e, Event)
    BY <1>1, <1>3, <1>5, <1>10, Comparable
  <2>2. QED
    BY <1>9, <2>1
<1>11. CASE Ready(e)
  <2>1. PICK u \in Task : Owes(task[u], e)
    BY <1>7, <1>11 DEF NothingOwed
  <2>2. CASE u = t
    <3>1. x \in Below(e, Event)
      BY <1>1, <1>5, <2>1, <2>2 DEF Owes, x
    <3>2. QED
      BY <1>9, <3>1
  <2>3. CASE u # t
    BY <1>2, <1>8, <2>1, <2>3 DEF Owes
  <2>4. QED
    BY <2>2, <2>3
<1>12. QED
  BY <1>7, <1>10, <1>11

\* Nobody gets away with owing.
LEMMA OwedStep ==
    ASSUME LInv, SInv, NoCycle, NothingOwed, [Next]_vars
    PROVE  NothingOwed'
<1> SUFFICES ASSUME NEW e \in Event, status'[e] \notin {"new", "completed"}, Ready(e)'
             PROVE  \E u \in Task : Owes(task[u], e)'
  BY DEF NothingOwed
<1>1. CASE \E t \in Task : Unlock(t)
  BY <1>1, OwedUnlock
<1>2. CASE \E t \in Task : Propagate(t)
  BY <1>2, OwedPropagate
<1>3. CASE \E t \in Task : End(t)
  BY <1>1, <1>2, <1>3, OwedEnd
<1>4. QED
  BY <1>1, <1>2, <1>3, OwedUnended DEF Ending

\* The invariant of the section.
RInv == NobodyCancelled /\ UsedByTask /\ PendingHasTask /\ NothingOwed /\ NoCycle

\* The parts of the invariant together.
LEMMA RStep ==
    ASSUME MayCancel = FALSE, LInv, SInv, RInv, [Next]_vars
    PROVE  RInv'
BY SoundStep, UsedStep, PendingTaskStep, OwedStep, CycleStep DEF RInv

\* It holds in the beginning.
LEMMA RInit == Init => RInv
<1> SUFFICES ASSUME Init PROVE RInv
  OBVIOUS
<1>1. NobodyCancelled
  <2>1. Sound(Fresh("get")) /\ Sound(Fresh("idle"))
    BY FreshSound
  <2>2. QED
    BY <2>1 DEF Init, NobodyCancelled
<1>2. UsedByTask /\ PendingHasTask /\ NothingOwed
  BY DEF Init, UsedByTask, PendingHasTask, NothingOwed
<1>3. NoCycle
  <2> SUFFICES ASSUME NEW e \in Event, e \in Below(e, Event) PROVE FALSE
    BY DEF NoCycle
  <2>1. parent[e] \in Event
    BY ParentBelow DEF Below
  <2>2. QED
    BY <2>1, NamesAssumption DEF Init
<1>4. QED
  BY <1>1, <1>2, <1>3 DEF RInv

\* It holds in every reachable state where nobody is cancelled.
LEMMA RInductive ==
    ASSUME Middlewares = FALSE, MayCancel = FALSE
    PROVE  Spec => [](LInv /\ LockInv /\ SInv /\ RInv)
<1>1. Init => LInv /\ LockInv /\ SInv /\ RInv
  BY LifeInit, LockInit, SInit, RInit
<1>2. LInv /\ LockInv /\ SInv /\ RInv /\ [Next]_vars => (LInv /\ LockInv /\ SInv /\ RInv)'
  BY LifeStep, LockStep, SStep, RStep DEF LInv, IInv
<1>3. QED
  BY <1>1, <1>2, PTL DEF Spec

\* Of the events of a finite set, one has none of the set below it.
LEMMA Lowest ==
    ASSUME NoCycle, IsFiniteSet(Event), NEW U \in SUBSET Event, U # {}
    PROVE  \E e \in U : \A d \in U : d \notin Below(e, Event)
<1> DEFINE T == {Below(e, Event) : e \in U}
           R == StrictSubsetOrdering(Event)
<1>1. \A e : Below(e, Event) \in SUBSET Event
  BY DEF Below
<1>2. T \subseteq FiniteSubsetsOf(Event) /\ T # {}
  BY <1>1, FS_Subset DEF FiniteSubsetsOf
<1>3. IsWellFoundedOn(R, FiniteSubsetsOf(Event))
  BY FS_StrictSubsetOrderingWellFounded
<1>4. PICK m \in T : \A y \in T : <<y, m>> \notin R
  <2> HIDE DEF T, R
  <2>1. QED
    BY <1>2, <1>3, WFMin
<1>5. PICK e \in U : m = Below(e, Event)
  OBVIOUS
<1>6. ASSUME NEW d \in U, d \in Below(e, Event) PROVE FALSE
  <2>1. Below(d, Event) \subseteq Below(e, Event)
    BY <1>6, BelowBelow
  <2>2. d \notin Below(d, Event)
    BY DEF NoCycle
  <2>3. <<Below(d, Event), m>> \in R
    BY <1>1, <1>5, <1>6, <2>1, <2>2 DEF StrictSubsetOrdering
  <2>4. Below(d, Event) \in T
    OBVIOUS
  <2>5. QED
    BY <1>4, <2>3, <2>4
<1>7. QED
  BY <1>6

\* When nothing can run any more, every emitted event is complete: whoever was last
\* to finish something of a tree looked at what could then be completed
\* (_finalize_local_event_processing, _propagate_parent_completion).  For any buses,
\* handlers, forwarding, queue-jumps and finite set of events, where handlers end in
\* no CancelledError.
THEOREM EmittedEventsAreCompleted ==
    ASSUME Middlewares = FALSE, MayCancel = FALSE, IsFiniteSet(Event)
    PROVE  Spec => []NothingForgotten
<1>1. ASSUME LInv, RInv, AtRest PROVE \A e \in Event : status[e] \in {"new", "completed"}
  <2>1. \A t \in Task : task[t].pc \in {"get", "idle", "poll", "sigwait", "done"}
    BY <1>1 DEF AtRest, Task, RInv, NobodyCancelled, Sound
  <2>2. \A t \in Task : task[t].pc \notin Taken \cup Chosen \cup Running \cup {"prop"}
    BY <2>1 DEF Taken, Working, Chosen, Running
  <2>3. ASSUME NEW a \in Bus, NEW e \in Event PROVE ~InUse(a, e)
    <3>1. a \in Task /\ task[a].pc \in {"get", "dead"}
      BY <1>1 DEF AtRest, Task
    <3>2. queue[a] = <<>>
      BY <1>1, <2>1, <3>1 DEF AtRest
    <3>3. Range(queue[a]) = {}
      BY <3>2 DEF Range
    <3>4. e \notin processing[a] \cup inflight[a]
      BY <1>1, <2>2, <3>3 DEF RInv, UsedByTask, Has
    <3>5. QED
      BY <3>3, <3>4 DEF InUse
  <2>4. ASSUME NEW e \in Event, NEW h \in Handler PROVE result[e][h] \in Terminal \cup {"none"}
    <3>1. result[e][h] \in ResultStatus
      BY <1>1, TypeParts DEF LInv, IInv, ResultTypes
    <3>2. result[e][h] # "started"
      BY <1>1, <2>2 DEF LInv, IInv, StartedIsRunning
    <3>3. result[e][h] # "pending"
      BY <1>1, <2>1 DEF RInv, PendingHasTask, Picks, Chosen
    <3>4. QED
      BY <3>1, <3>2, <3>3 DEF ResultStatus, Terminal
  <2> DEFINE U == {e \in Event : status[e] \notin {"new", "completed"}}
  <2> SUFFICES ASSUME U # {} PROVE FALSE
    OBVIOUS
  <2>5. PICK e \in U : \A d \in U : d \notin Below(e, Event)
    <3>1. U \in SUBSET Event /\ NoCycle
      BY <1>1 DEF RInv
    <3> HIDE DEF U
    <3>2. QED
      BY <3>1, Lowest
  <2>6. ASSUME NEW d \in Below(e, Blocking) PROVE status[d] = "completed"
    <3>1. d \in Blocking /\ d \in Event /\ d \in Below(e, Event)
      BY BelowMono, BelowEvents, ParentBelow
    <3>2. status[d] # "new"
      BY <1>1, <3>1 DEF LInv, Kin, NewIsAlone, Blocking
    <3>3. QED
      BY <2>5, <3>1, <3>2
  <2>7. Ready(e)
    BY <2>3, <2>4, <2>6 DEF Ready, ResultsReady
  <2>8. PICK t \in Task : Owes(task[t], e)
    BY <1>1, <2>7 DEF RInv, NothingOwed
  <2>9. QED
    BY <2>2, <2>8 DEF Owes
<1>2. LInv /\ RInv => NothingForgotten
  BY <1>1 DEF NothingForgotten
<1>3. QED
  BY <1>2, RInductive, PTL

-----------------------------------------------------------------------------
(* A bus handles its events in order *)

\* No handler forwards its event to another bus.
NoForwarding == \A h \in Handler : Target[h] = NoBus

\* Then no event is forwarded.
LEMMA NothingForwarded ==
    ASSUME NoForwarding, NEW e \in Event
    PROVE  ~Forwarded(e)
<1>1. \A b \in Bus : HandlersFor[b][e] \subseteq Handler
  BY HandlerAssumption
<1>2. QED
  BY <1>1 DEF Forwarded, NoForwarding

\* A child was emitted in a handler, on a bus that has its parent.
ChildLinked == \A c \in Event : parent[c] \in Event => link[c] # NoHandler
ChildThere == \A c \in Event : parent[c] \in Event => path[c] \subseteq path[parent[c]]
\* A child that was awaited and is not complete has a task of now().
AwaitedHasTask ==
    \A c \in Event : blocks[c] /\ ~signal[c] =>
        \E j \in Jumper : task[j].pc # "idle" /\ task[j].ev = c
\* A task on its way up is above the event that it had.
UpAbove ==
    \A t \in Task : task[t].pc = "prop" => task[t].ev \in {task[t].up} \cup Below(task[t].up, Event)
\* What a handler awaits are children of its event.
AwaitsChild == \A t \in Task : \A k \in task[t].kids : parent[task[k].ev] = task[t].ev

\* The invariant of the section.
FInv == ChildLinked /\ ChildThere /\ AwaitedHasTask /\ UpAbove /\ AwaitsChild

\* A task of now() that is not idle has an event.
LEMMA JumperAtEvent ==
    ASSUME TypeOK, NEW j \in Jumper, task[j].pc # "idle"
    PROVE  task[j].pc \in AtEvent /\ task[j].ev \in Event
<1>1. j \in Task /\ j \notin Bus
  BY TaskKinds
<1>2. task[j] \in TaskState /\ TaskOK(j, task[j])
  BY <1>1, TaskFields
<1>3. task[j].pc \in AtEvent
  BY <1>1, <1>2 DEF TaskOK, TaskState, PC, Working, AtEvent
<1>4. QED
  BY <1>2, <1>3 DEF TaskOK, AtEvent

\* A task of now() stays at its event until it is done.
LEMMA JumperStays ==
    ASSUME LInv, [Next]_vars, NEW j \in Jumper, task[j].pc # "idle"
    PROVE  \/ task'[j].pc # "idle" /\ task'[j].ev = task[j].ev
           \/ task[j].pc \in {"done", "failed"} /\ task'[j].pc = "idle"
<1> DEFINE s == task[j]
           r == task'[j]
<1>1. j \in Task /\ j \notin Bus /\ TypeOK /\ TypeOK'
  BY TaskKinds, TypeStep DEF LInv, IInv
<1>2. Moved(s, r)
  BY <1>1, Moves
<1>3. s.pc \notin {"get", "dead"} /\ r.pc \notin {"get", "dead"}
  <2>1. TaskOK(j, s) /\ TaskOK(j, r)
    BY <1>1 DEF TypeOK
  <2>2. QED
    BY <1>1, <2>1 DEF TaskOK
<1>4. QED
  BY <1>2, <1>3
  DEF Moved, Leaves, Turns, Waits, Takes, Joins, Enters, Chooses, Resets, Turned, Calls, Breaks, Ends,
      SameEvent, Running

\* An event begins to block its parent when a handler awaits it.
LEMMA BlocksCome ==
    ASSUME LInv, [Next]_vars, NEW x \in Event, blocks'[x], ~blocks[x]
    PROVE  \E t \in Task, j \in Jumper : HAwait(t, x, j)
<1>1. blocks' # blocks
  OBVIOUS
<1>2. PICK t \in Task, c \in Event, j \in Jumper : HAwait(t, c, j)
  <2>1. ~\E t \in Task : End(t) \/ Unlock(t) \/ Propagate(t)
    BY <1>1, Finishes DEF Finished
  <2>2. ~\E t \in Task : Settles(t) \/ Create(t) \/ Start(t)
    BY <1>1, SettleGives, CreateGives, StartGives DEF eventVars
  <2>3. /\ ~\E b \in Bus, e \in Event : ExtEmit(b, e)
        /\ ~\E t \in Task, c \in Event : HEmit(t, c)
        /\ ~\E t \in Task : HForward(t)
    BY <1>1 DEF ExtEmit, HEmit, HForward, Emit
  <2>4. QED
    BY <1>1, <2>1, <2>2, <2>3, Kinds DEF Idles, Dequeues, eventVars
<1>3. blocks' = [blocks EXCEPT ![c] = TRUE] /\ blocks \in [Event -> BOOLEAN]
  BY <1>2, TypeParts DEF HAwait, LInv, IInv, EventTypes
<1>4. x = c
  BY <1>3
<1>5. QED
  BY <1>2, <1>4

\* The tasks of a handler that begins to await.
LEMMA AwaitTasks ==
    ASSUME LInv, NEW t \in Task, NEW c \in Event, NEW j \in Jumper, HAwait(t, c, j)
    PROVE  /\ task[j].pc = "idle" /\ parent[c] = task[t].ev /\ parent' = parent
           /\ task'[t].kids = task[t].kids \cup {j} /\ task'[t].ev = task[t].ev
           /\ task'[j].pc = "poll" /\ task'[j].ev = c /\ task'[j].kids = {} /\ j \in Task /\ j # t
           /\ \A u \in Task \ {t, j} : task'[u] = task[u]
<1>1. TypeOK /\ task \in [Task -> TaskState] /\ task[t] \in TaskState
  BY TaskFields DEF LInv, IInv
<1> DEFINE f == [Fresh("poll") EXCEPT !.ev = c]
<1>2. parent[c] = task[t].ev /\ parent' = parent
  BY DEF HAwait
<1>3. task[j].pc = "idle" /\ j \in Task /\ j # t
      /\ task' = [task EXCEPT ![t] = Awaiting(task[t], j), ![j] = f]
  BY <1>1, AwaitShape
<1>4. f.pc = "poll" /\ f.ev = c /\ f.kids = {}
  BY DEF Fresh
<1> HIDE DEF f
<1>5. task'[t] = Awaiting(task[t], j) /\ task'[j] = f /\ \A u \in Task \ {t, j} : task'[u] = task[u]
  BY <1>1, <1>3
<1>6. task'[t].kids = task[t].kids \cup {j} /\ task'[t].ev = task[t].ev
  BY <1>1, <1>5, AwaitingFields
<1>7. QED
  BY <1>2, <1>3, <1>4, <1>5, <1>6

\* A child gets its parent and its link at once.
LEMMA LinkedStep ==
    ASSUME LInv, ChildLinked, [Next]_vars
    PROVE  ChildLinked'
<1> SUFFICES ASSUME NEW c \in Event, parent'[c] \in Event PROVE link'[c] # NoHandler
  BY DEF ChildLinked
<1>1. CASE parent'[c] = parent[c]
  <2>1. status[c] # "new"
    BY <1>1, NamesAssumption DEF LInv, Kin, NewIsAlone
  <2>2. QED
    BY <1>1, <2>1, GoesOnward DEF Onward, ChildLinked
<1>2. CASE parent'[c] # parent[c]
  <2>1. PICK t \in Task : HEmit(t, c)
    BY <1>2, ParentComes
  <2>2. /\ task[t].bus \in Bus /\ task[t].cur \in Handler
        /\ Emit(task[t].bus, c, task[t].ev, task[t].cur)
    BY <2>1, EmitChildGives
  <2>3. TypeOK
    BY DEF LInv, IInv
  <2>4. Noted(task[t].bus, c, task[t].ev, task[t].cur)
    BY <2>2, <2>3, EmitGives
  <2>5. QED
    BY <2>2, <2>4, NamesAssumption DEF Noted
<1>3. QED
  BY <1>1, <1>2

\* A child is emitted on the bus that runs the handler, and is not forwarded.
LEMMA ThereStep ==
    ASSUME NoForwarding, LInv, SInv, InPath, ChildThere, [Next]_vars
    PROVE  ChildThere'
<1> SUFFICES ASSUME NEW c \in Event, parent'[c] \in Event, NEW a \in path'[c]
             PROVE  a \in path'[parent'[c]]
  BY DEF ChildThere
<1>1. Onward /\ TypeOK
  BY GoesOnward DEF LInv, IInv
<1>2. a \in Bus
  BY TypeStep DEF TypeOK, LInv, IInv
<1>3. CASE parent'[c] = parent[c]
  <2>1. status[c] # "new"
    BY <1>3, NamesAssumption DEF LInv, Kin, NewIsAlone
  <2>2. ~\E t \in Task : HForward(t)
    <3> SUFFICES ASSUME NEW t \in Task, HForward(t) PROVE FALSE
      OBVIOUS
    <3>1. task[t].pc = "body" /\ Target[task[t].cur] # NoBus
      BY DEF HForward, InBody, At
    <3>2. task[t].cur \in Handler
      BY <1>1, <3>1, TaskFields DEF TaskOK
    <3>3. QED
      BY <3>1, <3>2 DEF NoForwarding
  <2>3. a \in path[c]
    BY <1>2, <2>1, <2>2, PathGrows
  <2>4. a \in path[parent[c]]
    BY <1>3, <2>3 DEF ChildThere
  <2>5. QED
    BY <1>1, <1>3, <2>4 DEF Onward
<1>4. CASE parent'[c] # parent[c]
  <2>1. PICK t \in Task : HEmit(t, c) /\ parent'[c] = task[t].ev
    BY <1>4, ParentComes
  <2> DEFINE b == task[t].bus
  <2>2. /\ task[t].pc \in {"body", "await"} /\ b \in Bus /\ status[c] = "new"
        /\ Emit(b, c, task[t].ev, task[t].cur)
    BY <2>1, EmitChildGives
  <2>3. path'[c] = path[c] \cup {b}
    BY <1>1, <2>2, EmitGives DEF Noted
  <2>4. path[c] = {} /\ b \in path[task[t].ev]
    BY <2>2 DEF SInv, Emitted, InPath, Working
  <2>5. QED
    BY <1>1, <2>1, <2>3, <2>4 DEF Onward
<1>5. QED
  BY <1>3, <1>4

\* now() makes the task of the child, which stays until the child is complete.
LEMMA AwaitedTaskStep ==
    ASSUME LInv, SInv, NobodyCancelled, AwaitedHasTask, [Next]_vars
    PROVE  AwaitedHasTask'
<1> SUFFICES ASSUME NEW c \in Event, blocks'[c], ~signal'[c]
             PROVE  \E j \in Jumper : task'[j].pc # "idle" /\ task'[j].ev = c
  BY DEF AwaitedHasTask
<1>1. CASE blocks[c]
  <2>1. ~signal[c]
    BY GoesOnward DEF Onward
  <2>2. PICK j \in Jumper : task[j].pc # "idle" /\ task[j].ev = c
    BY <1>1, <2>1 DEF AwaitedHasTask
  <2>3. task[j].pc \notin {"done", "failed"}
    BY <2>1, <2>2, TaskKinds DEF SInv, AwaitedIsComplete, NobodyCancelled, Sound
  <2>4. QED
    BY <2>2, <2>3, JumperStays
<1>2. CASE ~blocks[c]
  <2>1. PICK t \in Task, j \in Jumper : HAwait(t, c, j)
    BY <1>2, BlocksCome
  <2>2. QED
    BY <2>1, AwaitTasks
<1>3. QED
  BY <1>1, <1>2

\* The way up goes from parent to parent.
LEMMA UpStep ==
    ASSUME LInv, UpAbove, [Next]_vars
    PROVE  UpAbove'
<1> SUFFICES ASSUME NEW t \in Task, task'[t].pc = "prop", NEW p, p = task'[t].up
             PROVE  task'[t].ev \in {p} \cup Below(p, Event)'
  BY DEF UpAbove, Below
<1> DEFINE s == task[t]
           r == task'[t]
<1>1. Moved(s, r) /\ KinLasts
  BY Moves, KinStays
<1>2. r = s \/ Ends(s, r)
  BY <1>1
  DEF Moved, Leaves, Turns, Waits, Takes, Joins, Enters, Chooses, Resets, Turned, Calls, Breaks, Running
<1>3. CASE r = s
  <2>1. p \in Event /\ s.ev \in {p} \cup Below(p, Event)
    BY <1>3, TaskFields DEF LInv, IInv, TaskOK, UpAbove
  <2>2. QED
    BY <1>1, <1>3, <2>1, BelowGrows
<1>4. CASE Ends(s, r) /\ s.pc = "unlock"
  <2>1. s.ev = r.ev /\ r.up = s.ev
    BY <1>4 DEF Ends, SameEvent
  <2>2. QED
    BY <2>1
<1>5. CASE Ends(s, r) /\ s.pc = "prop"
  <2>1. r.ev = s.ev /\ p = parent[s.up] /\ parent[s.up] # NoEvent
    BY <1>5 DEF Ends, SameEvent
  <2>2. s.up \in Event /\ s.ev \in {s.up} \cup Below(s.up, Event)
    BY <1>5, TaskFields DEF LInv, IInv, TaskOK, UpAbove
  <2>3. p \in Event
    BY <2>1, <2>2, TypeParts DEF LInv, IInv, EventTypes
  <2>4. s.up \in Below(p, Event)
    BY <2>1, <2>2, ChildBelow
  <2>5. s.ev \in Below(p, Event)
    BY <2>2, <2>4, BelowBelow
  <2>6. QED
    BY <1>1, <2>1, <2>3, <2>5, BelowGrows
<1>6. QED
  BY <1>2, <1>3, <1>4, <1>5 DEF Ends

\* What becomes of the tasks that a handler awaits: they are those it awaited, with
\* the event it had, or it began to await one more.
LEMMA HandlerActs ==
    ASSUME LInv, [Next]_vars, NEW t \in Task, NEW k \in task'[t].kids
    PROVE  \/ k \in task[t].kids /\ task'[t].ev = task[t].ev
           \/ \E c \in Event : HAwait(t, c, k)
<1> DEFINE s == task[t]
           r == task'[t]
<1>1. TypeOK /\ task \in [Task -> TaskState] /\ s \in TaskState
  BY TaskFields DEF LInv, IInv
<1>2. r.kids # {} /\ r.pc = "await"
  BY TypeStep, <1>1 DEF TypeOK, TaskOK
<1>3. Moved(s, r) /\ (Aside(t) \/ Acts(t))
  BY Moves
<1>4. r = s \/ (s.pc \in Running /\ Acts(t))
  BY <1>2, <1>3
  DEF Running, Moved, Aside, Leaves, Turns, Waits, Takes, Joins, Enters, Chooses, Resets, Turned, Calls, Breaks, Ends
<1>5. ASSUME s.pc \in Running, Acts(t) PROVE Body(t)
  BY <1>5 DEF Running, Acts, Process, EnterLock, LockGranted, Check, Select, Create, NextHandler,
              HandlerLockGranted, Start, End, Unlock, Propagate, LoopGet, LoopAgain, Jump, JumpYield,
              JumpGiveUp, JumpDone, JumpAgain, JumpTake, JumpJoin, NothingToDo, Polling, At
<1>6. ~HForward(t)
  <2> SUFFICES ASSUME HForward(t) PROVE FALSE
    OBVIOUS
  <2> DEFINE x == [s EXCEPT !.pc = "sent"]
  <2>1. r = x
    BY <1>1, ForwardShape
  <2>2. x.pc = "sent"
    BY <1>1 DEF TaskState
  <2>3. QED
    BY <1>2, <2>1, <2>2
<1>7. ~HReturn(t)
  <2> SUFFICES ASSUME HReturn(t) PROVE FALSE
    OBVIOUS
  <2>1. task' = Returned(t)
    BY DEF HReturn
  <2>2. r.pc = "next"
    BY <1>1, <2>1 DEF Returned, TaskState
  <2>3. QED
    BY <1>2, <2>2
<1>8. ~HCancel(t) /\ ~HAwaitCancelled(t)
  <2> SUFFICES ASSUME HCancel(t) \/ HAwaitCancelled(t) PROVE FALSE
    OBVIOUS
  <2>1. r = Broken(s)
    <3>1. CASE HCancel(t)
      BY <1>1, <3>1, CancelShape
    <3>2. CASE HAwaitCancelled(t)
      <4>1. PICK j \in Jumper : j # t /\ task' = [task EXCEPT ![t] = Broken(s), ![j] = Fresh("idle")]
        BY <1>1, <3>2, CancelShape
      <4>2. QED
        BY <1>1, <4>1
    <3>3. QED
      BY <3>1, <3>2
  <2>2. Broken(s).pc = "unlock"
    BY <1>1, BrokenFields
  <2>3. QED
    BY <1>2, <2>1, <2>2
<1>9. ASSUME HResume(t) \/ HLeave(t) PROVE k \in s.kids /\ r.ev = s.ev
  <2>1. PICK j \in Jumper : r = Dropped(s, j)
    <3>1. CASE HResume(t)
      <4>1. PICK j \in Jumper : j # t /\ task' = [task EXCEPT ![t] = Dropped(s, j), ![j] = Fresh("idle")]
        BY <1>1, <3>1, ResumeShape
      <4>2. QED
        BY <1>1, <4>1
    <3>2. CASE HLeave(t)
      <4>1. PICK j \in Jumper : task' = [task EXCEPT ![t] = Dropped(s, j)]
        BY <1>1, <3>2, LeaveShape
      <4>2. QED
        BY <1>1, <4>1
    <3>3. QED
      BY <1>9, <3>1, <3>2
  <2>2. r.kids = s.kids \ {j} /\ r.ev = s.ev
    BY <1>1, <2>1, DroppedFields
  <2>3. QED
    BY <2>2
<1>10. ASSUME NEW c \in Event, HEmit(t, c) PROVE k \in s.kids /\ r.ev = s.ev
  <2>1. s.pc \in {"body", "await"} /\ task' = Restarted(s.bus, task)
    BY <1>10 DEF HEmit, InHandler, At
  <2>2. r = s
    BY <1>1, <2>1 DEF Restarted
  <2>3. QED
    BY <2>2
<1>11. ASSUME NEW c \in Event, NEW j \in Jumper, HAwait(t, c, j)
       PROVE  (k \in s.kids /\ r.ev = s.ev) \/ HAwait(t, c, k)
  BY <1>11, AwaitTasks
<1>12. QED
  BY <1>4, <1>5, <1>6, <1>7, <1>8, <1>9, <1>10, <1>11 DEF Body

\* A handler awaits the children it was given the tasks for.
LEMMA AwaitsChildStep ==
    ASSUME LInv, KidsThere, KidsThere', AwaitsChild, [Next]_vars
    PROVE  AwaitsChild'
<1> SUFFICES ASSUME NEW t \in Task, NEW k \in task'[t].kids
             PROVE  parent'[task'[k].ev] = task'[t].ev
  BY DEF AwaitsChild
<1>1. TypeOK
  BY DEF LInv, IInv
<1>2. task'[k].pc # "idle"
  BY DEF KidsThere
<1>3. CASE k \in task[t].kids /\ task'[t].ev = task[t].ev
  <2> DEFINE c == task[k].ev
  <2>1. k \in Jumper /\ task[k].pc # "idle" /\ task[t].pc = "await"
    BY <1>1, <1>3, KidsTypes, TaskFields DEF KidsThere, TaskOK
  <2>2. task'[k].ev = c
    BY <1>2, <2>1, JumperStays
  <2>3. parent[c] = task[t].ev
    BY <1>3 DEF AwaitsChild
  <2>4. task[t].ev \in Event
    BY <1>1, <2>1, TaskFields DEF TaskOK, Working
  <2>5. c \in Event
    BY <1>1, <2>1, JumperAtEvent
  <2>6. parent'[c] = parent[c]
    BY <2>3, <2>4, <2>5, KinStays DEF KinLasts
  <2>7. QED
    BY <1>3, <2>2, <2>3, <2>6
<1>4. CASE \E c \in Event : HAwait(t, c, k)
  <2>1. k \in Jumper
    BY TypeStep, <1>1 DEF TypeOK, TaskState
  <2>2. QED
    BY <1>4, <2>1, AwaitTasks
<1>5. QED
  BY <1>3, <1>4, HandlerActs

\* The parts of the invariant together.
LEMMA FStep ==
    ASSUME NoForwarding, LInv, SInv, HInv, RInv, KidsThere, KidsThere', FInv, [Next]_vars
    PROVE  FInv'
BY LinkedStep, ThereStep, AwaitedTaskStep, UpStep, AwaitsChildStep DEF FInv, HInv, RInv

\* It holds in the beginning.
LEMMA FInit == Init => FInv
<1> SUFFICES ASSUME Init PROVE FInv
  OBVIOUS
<1>1. \A t \in Task : task[t].pc \in {"get", "idle"} /\ task[t].kids = {}
  BY DEF Init, Fresh
<1>2. \A e \in Event : parent[e] = NoEvent /\ ~blocks[e]
  BY DEF Init
<1>3. QED
  BY <1>1, <1>2, NamesAssumption
  DEF FInv, ChildLinked, ChildThere, AwaitedHasTask, UpAbove, AwaitsChild

-----------------------------------------------------------------------------
(* The events of tasks that work for one another *)

\* A descendant of an event is nowhere but on the buses of the event, and is linked.
LEMMA DescendantThere ==
    ASSUME ChildLinked, ChildThere, NEW e \in Event, NEW d \in Below(e, Event)
    PROVE  path[d] \subseteq path[e] /\ d \in Below(e, Linked)
<1> DEFINE S == {x \in Event : path[x] \subseteq path[e] /\ x \in Below(e, Linked)}
<1>1. ASSUME NEW c \in Event, parent[c] \in S \cup {e} PROVE c \in S
  <2>1. parent[c] \in Event /\ path[parent[c]] \subseteq path[e]
        /\ parent[c] \in {e} \cup Below(e, Linked)
    BY <1>1
  <2>2. c \in Linked /\ path[c] \subseteq path[e]
    BY <2>1 DEF ChildLinked, ChildThere, Linked
  <2>3. c \in Below(e, Linked)
    BY <2>1, <2>2, ChildBelow
  <2>4. QED
    BY <2>2, <2>3
<1>2. S \in SUBSET Event
  OBVIOUS
<1> HIDE DEF S
<1>3. d \in S
  BY <1>1, <1>2 DEF Below
<1>4. QED
  BY <1>3 DEF S

\* Who is at or below one at or below x is at or below x.
LEMMA AtOrBelowOn ==
    ASSUME NEW d, NEW c, NEW x, AtOrBelow(d, c), AtOrBelow(c, x)
    PROVE  AtOrBelow(d, x)
BY BelowBelow DEF AtOrBelow

\* A task that works for another has the other's event or one below it.
LEMMA UnderIsBelow ==
    ASSUME TypeOK, KidsThere, ChildLinked, AwaitsChild, NEW w \in Task, NEW t \in Under(w)
    PROVE  AtOrBelow(task[t].ev, task[w].ev)
<1> DEFINE e == task[w].ev
           S == {u \in Task : AtOrBelow(task[u].ev, e)}
<1>1. Kids \in [Task -> SUBSET Task] /\ \A u \in Task : Kids[u] = task[u].kids /\ task[u].kids \subseteq Jumper
  BY KidsTypes
<1>2. ASSUME NEW u \in S, NEW k \in task[u].kids PROVE k \in S
  <2> DEFINE c == task[k].ev
  <2>1. u \in Task /\ k \in Jumper /\ k \in Task /\ task[k].pc # "idle" /\ task[u].pc = "await"
    BY <1>1, TaskKinds, TaskFields DEF KidsThere, TaskOK
  <2>2. c \in Event /\ task[u].ev \in Event
    BY <2>1, JumperAtEvent, TaskFields DEF TaskOK, Working
  <2>3. parent[c] = task[u].ev
    BY <2>1 DEF AwaitsChild
  <2>4. c \in Linked
    BY <2>2, <2>3 DEF ChildLinked, Linked
  <2>5. c \in Below(e, Linked)
    BY <2>3, <2>4, ChildBelow DEF AtOrBelow
  <2>6. QED
    BY <2>1, <2>5 DEF AtOrBelow
<1>3. S \in SUBSET Task /\ w \in S
  BY DEF AtOrBelow
<1> HIDE DEF S
<1>4. \A u \in S : Kids[u] \subseteq S
  BY <1>1, <1>2, <1>3
<1>5. t \in S
  BY <1>3, <1>4, ReachLeast, UnderReach
<1>6. QED
  BY <1>5 DEF S

-----------------------------------------------------------------------------
(* What a bus took before is with a task *)

\* An event that a bus has taken and that is not complete is still with a task that
\* is not done, or one below it is.
LEMMA SomebodyHasIt ==
    ASSUME NoForwarding, LInv, SInv, HInv, RInv, FInv, NEW b \in Bus, NEW e \in Unfinished(b)
    PROVE  \E u \in Task : task[u].pc \in AtEvent \ {"done", "failed"} /\ task[u].ev \in {e} \cup Below(e, Event)
<1>1. e \in Event /\ b \in path[e] /\ e \notin Range(queue[b]) /\ status[e] # "completed"
  BY DEF Unfinished
<1>2. path[e] = {b}
  <2>1. ~Forwarded(e)
    BY <1>1, NothingForwarded
  <2>2. QED
    BY <1>1, <2>1 DEF HInv, OneBusOnly
<1>3. status[e] # "new"
  BY <1>1 DEF SInv, Emitted
<1>4. CASE \E x \in Below(e, Blocking) : status[x] # "completed"
  <2>1. PICK x \in Below(e, Blocking) : status[x] # "completed"
    BY <1>4
  <2>2. x \in Event /\ x \in Blocking /\ x \in Below(e, Event)
    BY <2>1, BelowEvents, BelowMono, ParentBelow
  <2>3. blocks[x] /\ ~signal[x]
    BY <2>1, <2>2 DEF Blocking, LInv, Kin, SignalIsStatus
  <2>4. PICK j \in Jumper : task[j].pc # "idle" /\ task[j].ev = x
    BY <2>2, <2>3 DEF FInv, AwaitedHasTask
  <2>5. task[j].pc \in AtEvent /\ j \in Task
    BY <2>4, TaskKinds, JumperAtEvent DEF LInv, IInv
  <2>6. task[j].pc \notin {"done", "failed"}
    BY <2>3, <2>4, <2>5 DEF SInv, AwaitedIsComplete, RInv, NobodyCancelled, Sound
  <2>7. QED
    BY <2>2, <2>4, <2>5, <2>6
<1>5. CASE ResultsReady(e, {}) /\ \A x \in Below(e, Blocking) : status[x] = "completed"
  <2>1. PICK u \in Task : Owes(task[u], e)
    BY <1>1, <1>3, <1>5 DEF RInv, NothingOwed, Ready
  <2>2. CASE task[u].pc \in Taken /\ task[u].ev \in {e} \cup Below(e, Event)
    BY <2>2 DEF Taken, AtEvent, Working
  <2>3. CASE task[u].pc = "prop" /\ task[u].up \in Below(e, Event)
    <3>1. task[u].ev \in {task[u].up} \cup Below(task[u].up, Event)
      BY <2>3 DEF FInv, UpAbove
    <3>2. task[u].ev \in Below(e, Event)
      BY <2>3, <3>1, BelowBelow
    <3>3. QED
      BY <2>3, <3>2 DEF AtEvent, Working
  <2>4. QED
    BY <2>1, <2>2, <2>3 DEF Owes
<1>6. CASE \E h \in Handler : result[e][h] \notin Terminal \cup {"none"}
  <2>1. PICK h \in Handler : result[e][h] \notin Terminal \cup {"none"}
    BY <1>6
  <2>2. result[e][h] \in {"pending", "started"}
    BY <1>1, <2>1, TypeParts DEF LInv, IInv, ResultTypes, ResultStatus, Terminal
  <2>3. CASE result[e][h] = "pending"
    BY <1>1, <2>3 DEF RInv, PendingHasTask, Picks, Chosen, AtEvent, Working
  <2>4. CASE result[e][h] = "started"
    BY <1>1, <2>4 DEF LInv, IInv, StartedIsRunning, Running, AtEvent, Working
  <2>5. QED
    BY <2>2, <2>3, <2>4
<1>7. CASE \E a \in Bus : InUse(a, e)
  <2>1. PICK a \in Bus : InUse(a, e)
    BY <1>7
  <2>2. e \notin Range(queue[a])
    BY <1>1, <1>2 DEF HInv, InPath
  <2>3. PICK u \in Task : Has(task[u], a, e)
    BY <1>1, <2>1, <2>2 DEF InUse, RInv, UsedByTask
  <2>4. QED
    BY <2>3 DEF Has, Taken, AtEvent, Working
<1>8. QED
  BY <1>4, <1>5, <1>6, <1>7 DEF ResultsReady

\* A bus that has an event to work on is the one below which the event's handler
\* runs.
LEMMA BusOfTask ==
    ASSUME NoForwarding, LInv, HInv, FInv, KidsThere,
           NEW a \in Bus, NEW t \in Under(a), task[t].pc = "body", task[a].pc \in Working,
           NEW u \in Bus, task[u].pc \in AtEvent, path[task[u].ev] \subseteq {task[t].bus}
    PROVE  u = a
<1>1. TypeOK /\ ChildLinked /\ ChildThere /\ AwaitsChild /\ a \in Task /\ u \in Task /\ t \in Task
  BY TaskKinds DEF LInv, IInv, FInv, Under
<1> DEFINE b == task[t].bus
           e == task[a].ev
<1>2. task[u].pc \in Working /\ task[u].bus = u /\ task[u].ev \in Event
  BY <1>1, TaskFields, TaskKinds DEF TaskOK, AtEvent
<1>3. task[a].bus = a /\ e \in Event
  BY <1>1, TaskFields DEF TaskOK
<1>4. u = b
  BY <1>1, <1>2 DEF HInv, InPath
<1>5. AtOrBelow(task[t].ev, e)
  BY <1>1, UnderIsBelow
<1>6. path[task[t].ev] \subseteq path[e]
  <2>1. Below(e, Linked) \subseteq Below(e, Event)
    BY BelowMono DEF Linked
  <2>2. QED
    BY <1>1, <1>3, <1>5, <2>1, DescendantThere DEF AtOrBelow
<1>7. b \in path[task[t].ev] /\ a \in path[e]
  BY <1>1, <1>3 DEF HInv, InPath, Working
<1>8. ~Forwarded(e)
  BY <1>3, NothingForwarded
<1>9. QED
  BY <1>3, <1>4, <1>6, <1>7, <1>8 DEF HInv, OneBusOnly

\* Of two events with a common descendant, one is at or below the other.
LEMMA CommonDescendant ==
    ASSUME ChildLinked, ChildThere, NEW e \in Event, NEW x \in Event, NEW f, AtOrBelow(f, e), AtOrBelow(f, x)
    PROVE  AtOrBelow(e, x) \/ AtOrBelow(x, e)
<1>1. CASE f = e
  BY <1>1
<1>2. CASE f \in Below(e, Linked)
  <2>1. f \in Below(e, Event) /\ f \in {x} \cup Below(x, Linked)
    BY <1>2, BelowMono DEF AtOrBelow, Linked
  <2>2. e = x \/ e \in Below(x, Linked) \/ x \in Below(e, Event)
    BY <2>1, Comparable
  <2>3. QED
    BY <2>2, DescendantThere DEF AtOrBelow
<1>3. QED
  BY <1>1, <1>2 DEF AtOrBelow

\* What works for a now() that nobody waits for is out of turn.
LEMMA AdriftIsOutOfTurn ==
    ASSUME TypeOK, KidsThere, ChildLinked, ChildThere, AwaitsChild, NEW t \in Task, Adrift(t),
           NEW e \in Event, AtOrBelow(task[t].ev, e)
    PROVE  OutOfTurn(e)
<1>1. PICK j \in Jumper : Loose(j) /\ t \in Under(j)
  BY DEF Adrift
<1>2. j \in Task /\ task[j].ev \in Event
  BY <1>1, TaskKinds, JumperAtEvent DEF Loose
<1>3. AtOrBelow(task[t].ev, task[j].ev)
  BY <1>1, <1>2, UnderIsBelow
<1>4. AtOrBelow(e, task[j].ev) \/ AtOrBelow(task[j].ev, e)
  BY <1>2, <1>3, CommonDescendant
<1>5. QED
  BY <1>1, <1>4 DEF OutOfTurn

\* A task that has another work for it awaits.
LEMMA AwaitsIfOver ==
    ASSUME TypeOK, NEW w \in Task, NEW t \in Under(w), t # w
    PROVE  task[w].pc = "await"
<1>1. Kids \in [Task -> SUBSET Task] /\ Kids[w] = task[w].kids /\ t \in Reach(Kids, w)
  BY KidsTypes, UnderReach
<1>2. \E k \in Kids[w] : t \in Reach(Kids, k)
  BY <1>1, ReachSteps
<1>3. QED
  BY <1>1, <1>2, TaskFields DEF TaskOK

\* A task at an event is below a now() that nobody waits for, or below the bus that
\* owns the lock, or is the run loop of a bus.
LEMMA AtEventBelow ==
    ASSUME TypeOK, NEW l, ForestInv(l), NEW u \in Task, task[u].pc \in AtEvent \ {"done", "failed"}
    PROVE  u \in Bus \/ Adrift(u) \/ \E b \in Bus : owner[l] = b /\ u \in Under(b)
<1> SUFFICES ASSUME u \in Jumper
             PROVE  Adrift(u) \/ \E b \in Bus : owner[l] = b /\ u \in Under(b)
  BY TaskKinds
<1>2. PICK r \in Task : TreeRoot(r) /\ u \in Under(r)
  BY DEF ForestInv, Rooted, AtEvent, Working
<1>3. r # u => task[r].pc = "await"
  BY <1>2, AwaitsIfOver
<1>4. CASE r \in Bus
  <2>1. r # u /\ Permit(r, l) /\ task[r].pc \in Inside
    BY <1>3, <1>4, TaskKinds DEF ForestInv, Inside
  <2>2. owner[l] = r
    BY <1>4, <2>1 DEF Permit
  <2>3. QED
    BY <1>2, <1>4, <2>2
<1>5. CASE r \in Jumper
  <2>1. task[r].pc \notin {"idle", "done", "failed"}
    BY <1>3 DEF AtEvent, Working
  <2>2. Loose(r)
    BY <1>2, <1>5, <2>1, TaskKinds DEF Loose, TreeRoot
  <2>3. QED
    BY <1>2, <1>5, <2>2 DEF Adrift
<1>6. QED
  BY <1>4, <1>5, TaskKinds

\* Of two now() of one handler, the later event of one is not taken while the other
\* works for it, unless the two are for different children.
LEMMA SideBySideOrder ==
    ASSUME TypeOK, CallerHoldsLock, NoCycle, KidsThere, ChildLinked, ChildThere, AwaitsChild,
           NEW t \in Task, task[t].pc = "body", NEW u \in Task, SideBySide(t, u),
           NEW e \in Event, AtOrBelow(task[u].ev, e)
    PROVE  AtOrBelow(task[t].ev, e) \/ AwaitedAtOnce(task[t].ev, e)
<1>1. PICK v \in Task : \E j, k \in task[v].kids : j # k /\ t \in Under(j) /\ u \in Under(k)
  BY DEF SideBySide
<1>2. PICK j \in task[v].kids, k \in task[v].kids : j # k /\ t \in Under(j) /\ u \in Under(k)
  BY <1>1
<1> DEFINE c == task[j].ev
           x == task[k].ev
           p == task[v].ev
<1>3. /\ j \in Task /\ k \in Task /\ j \in Jumper /\ k \in Jumper
      /\ task[v].pc = "await" /\ p \in Event
  BY <1>1, <1>2, KidsTypes, TaskKinds, TaskFields DEF TaskOK, Working
<1>4. task[j].pc # "idle" /\ task[k].pc # "idle"
  BY <1>1, <1>2 DEF KidsThere
<1>5. c \in Event /\ x \in Event /\ parent[c] = p /\ parent[x] = p
  BY <1>1, <1>2, <1>3, <1>4, JumperAtEvent DEF AwaitsChild
<1>6. c \in Linked /\ x \in Linked
  BY <1>3, <1>5 DEF ChildLinked, Linked
<1>7. AtOrBelow(task[t].ev, c) /\ AtOrBelow(task[u].ev, x)
  BY <1>2, <1>3, UnderIsBelow
<1>8. AtOrBelow(e, x) \/ AtOrBelow(x, e)
  BY <1>5, <1>7, CommonDescendant
<1> HIDE DEF c, x, p
<1>9. CASE AtOrBelow(e, x) /\ c # x
  <2>1. AwaitedAtOnce(task[t].ev, e)
    BY <1>1, <1>2, <1>7, <1>9 DEF AwaitedAtOnce, c, x
  <2>2. QED
    BY <2>1
<1>10. CASE e = x /\ c = x
  BY <1>7, <1>10
<1>11. CASE e # x /\ AtOrBelow(e, x) /\ c = x
  <2>1. task[j].pc \in {"body", "await"}
    <3>1. CASE t = j
      BY <3>1
    <3>2. CASE t # j
      BY <1>2, <1>3, <3>2, AwaitsIfOver
    <3>3. QED
      BY <3>1, <3>2
  <2>2. u # k
    <3> SUFFICES ASSUME u = k PROVE FALSE
      OBVIOUS
    <3>1. e \in Below(x, Linked) /\ x \in Below(e, Linked)
      BY <1>11 DEF AtOrBelow, x
    <3>2. e \in Below(e, Linked) /\ Linked \subseteq Event
      BY <3>1, BelowBelow DEF Linked
    <3>3. e \in Below(e, Event)
      BY <3>2, BelowMono
    <3>4. QED
      BY <3>3 DEF NoCycle
  <2>3. task[k].pc = "await"
    BY <1>2, <1>3, <2>2, AwaitsIfOver
  <2>4. owner[c] = j /\ owner[x] = k
    BY <1>3, <2>1, <2>3 DEF CallerHoldsLock, Locking, c, x
  <2>5. QED
    BY <1>2, <1>11, <2>4
<1>12. CASE x # e /\ AtOrBelow(x, e)
  <2>1. x \in Below(e, Linked)
    BY <1>12 DEF AtOrBelow
  <2>2. p \in {e} \cup Below(e, Linked)
    BY <1>5, <2>1, ParentBelow
  <2>3. c \in Below(e, Linked)
    BY <1>5, <1>6, <2>2, ChildBelow
  <2>4. AtOrBelow(c, e)
    BY <2>3 DEF AtOrBelow
  <2>5. QED
    BY <1>7, <2>4, AtOrBelowOn
<1>13. AtOrBelow(x, e) /\ x = e => AtOrBelow(e, x)
  OBVIOUS
<1>14. QED
  BY <1>8, <1>9, <1>10, <1>11, <1>12, <1>13

\* A bus processes its events in order: a handler runs only when every event that
\* the bus took before is complete or is an ancestor of the handler's event, or the
\* two are for different children that one handler awaits at once; what a now() that
\* no handler waits for has put first is exempt (_run_loop under the event lock;
\* now() takes its event out of turn, on behalf of the handler that awaits it).  For
\* any events, handlers and queue-jumps on one bus, and on buses that share their
\* lock, where nothing is forwarded or cancelled.
THEOREM BusesKeepOrder ==
    ASSUME NEW l, OneLock(l), NoForwarding, Middlewares = FALSE, MayCancel = FALSE
    PROVE  Spec => []FifoPerBus
<1>1. Unmixed
  BY NothingForwarded DEF Unmixed
<1>2. Spec => [](LInv /\ LockInv /\ SInv /\ HInv)
  BY <1>1, HInductive
<1>3. Spec => [](LInv /\ LockInv /\ SInv /\ RInv)
  BY RInductive
<1>4. Spec => [](TypeOK /\ ForestInv(l))
  BY ForestInductive
<1>5. ForestInv(l) => KidsThere
  BY DEF ForestInv
<1>6. Init => FInv
  BY FInit
<1>7. LInv /\ SInv /\ HInv /\ RInv /\ KidsThere /\ KidsThere' /\ FInv /\ [Next]_vars => FInv'
  BY FStep
<1>8. ASSUME LInv, SInv, HInv, RInv, ForestInv(l), FInv, NEW t \in Task, task[t].pc = "body",
             NEW e \in Unfinished(task[t].bus)
      PROVE  \/ AtOrBelow(task[t].ev, e) \/ AwaitedAtOnce(task[t].ev, e)
             \/ OutOfTurn(e) \/ OutOfTurn(task[t].ev)
  <2> DEFINE b == task[t].bus
             d == task[t].ev
  <2>1. TypeOK /\ CallerHoldsLock /\ NoCycle /\ KidsThere /\ ChildLinked /\ ChildThere /\ AwaitsChild
    BY <1>8 DEF LInv, IInv, RInv, ForestInv, FInv
  <2>2. b \in Bus /\ d \in Event
    BY <1>8, <2>1, TaskFields DEF TaskOK, Working
  <2>3. e \in Event /\ b \in path[e] /\ path[e] \subseteq {b}
    <3>1. e \in Event /\ b \in path[e]
      BY <1>8 DEF Unfinished
    <3>2. ~Forwarded(e)
      BY <1>8, <3>1, NothingForwarded
    <3>3. QED
      BY <1>8, <3>1, <3>2 DEF HInv, OneBusOnly
  <2>4. PICK u \in Task : task[u].pc \in AtEvent \ {"done", "failed"} /\ task[u].ev \in {e} \cup Below(e, Event)
    BY <1>8, <2>2, SomebodyHasIt
  <2>5. path[task[u].ev] \subseteq {b} /\ AtOrBelow(task[u].ev, e)
    BY <2>1, <2>3, <2>4, DescendantThere DEF AtOrBelow
  <2>6. CASE Adrift(t)
    <3>1. AtOrBelow(d, d)
      BY DEF AtOrBelow
    <3>2. OutOfTurn(d)
      BY <2>1, <2>2, <2>6, <3>1, AdriftIsOutOfTurn
    <3>3. QED
      BY <3>2
  <2>7. CASE Adrift(u)
    <3>1. OutOfTurn(e)
      BY <2>1, <2>3, <2>5, <2>7, AdriftIsOutOfTurn
    <3>2. QED
      BY <3>1
  <2>8. CASE ~Adrift(t) /\ ~Adrift(u)
    <3>1. PICK a \in Bus : owner[l] = a /\ t \in Under(a)
      BY <1>8, <2>1, <2>8, RunsBelow
    <3>2. a \in Task
      BY TaskKinds
    <3>3. task[a].pc \in Working
      <4>1. a # t => task[a].pc = "await"
        BY <2>1, <3>1, <3>2, AwaitsIfOver
      <4>2. QED
        BY <1>8, <4>1 DEF Working
    <3>4. u \in Under(a)
      <4>1. CASE u \in Bus
        <5>1. u = a
          BY <1>8, <2>1, <2>4, <2>5, <3>1, <3>3, <4>1, BusOfTask
        <5>2. QED
          BY <5>1 DEF Under
      <4>2. CASE u \notin Bus
        BY <1>8, <2>1, <2>4, <2>8, <3>1, <4>2, AtEventBelow
      <4>3. QED
        BY <4>1, <4>2
    <3>5. t \in Under(u) \/ u \in Under(t) \/ SideBySide(t, u)
      BY <2>1, <3>1, <3>2, <3>4, Related
    <3>6. CASE t \in Under(u)
      <4>1. AtOrBelow(d, task[u].ev)
        BY <2>1, <3>6, UnderIsBelow
      <4>2. AtOrBelow(d, e)
        BY <2>5, <4>1, AtOrBelowOn
      <4>3. QED
        BY <4>2
    <3>7. CASE u \in Under(t)
      <4>1. task[t].kids = {}
        BY <1>8, <2>1, TaskFields DEF TaskOK
      <4>2. u = t
        BY <1>8, <2>1, <3>7, <4>1, OnlyItself
      <4>3. QED
        BY <2>5, <4>2
    <3>8. CASE SideBySide(t, u)
      BY <1>8, <2>1, <2>3, <2>5, <3>8, SideBySideOrder
    <3>9. QED
      BY <3>5, <3>6, <3>7, <3>8
  <2>9. QED
    BY <2>6, <2>7, <2>8
<1>9. LInv /\ SInv /\ HInv /\ RInv /\ ForestInv(l) /\ FInv => FifoPerBus
  BY <1>8 DEF FifoPerBus
<1>10. QED
  BY <1>2, <1>3, <1>4, <1>5, <1>6, <1>7, <1>9, PTL DEF Spec
=============================================================================
