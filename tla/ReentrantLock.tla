--------------------------- MODULE ReentrantLock ---------------------------
(***************************************************************************)
(* The re-entrant lock of src/abxbus/lock_manager.py: an asyncio.Semaphore *)
(* of one permit, plus a depth that every asyncio context carries for the  *)
(* lock.  A context whose depth is positive enters without touching the    *)
(* semaphore.  A task that is created inherits a copy of its creator's     *)
(* context, and a handler's context is marked as holding the lock without  *)
(* acquiring it, so "this context holds the lock" and "this task acquired  *)
(* the semaphore" are two different facts: this module is about the gap.   *)
(***************************************************************************)
EXTENDS Naturals, Sequences, SequencesExt

CONSTANTS
    Task,      \* asyncio tasks
    NoTask,    \* "no creator"
    Root,      \* tasks that start in a clean context (run loops)
    MaxScope,  \* bound: nesting of the scopes one task has open
    Bypass,    \* TRUE: queue-jump runs handlers with the lock not held
    Detach     \* TRUE: a scope may end while a task created in it still runs

ASSUME RootAssumption == Root \subseteq Task
ASSUME NoTaskAssumption == NoTask \notin Task
ASSUME MaxScopeAssumption == MaxScope \in Nat
ASSUME FlagAssumption == Bypass \in BOOLEAN /\ Detach \in BOOLEAN

VARIABLES
    value,     \* permits left in the semaphore
    waiters,   \* acquirers asleep in the semaphore, oldest first
    granted,   \* acquirers the semaphore has woken that have not run yet
    run,       \* tasks that exist and have not finished
    depth,     \* held_lock_depths[lock_id] of each task's context
    scopes,    \* open scopes of each task: "sem", "nested" or "mark"
    creator,   \* the task that created each task
    ancestors, \* history variable: the creators above a task
    holder     \* history variable: whose acquisition a context's depth is from

vars == <<value, waiters, granted, run, depth, scopes, creator, ancestors, holder>>

Scope == {"sem", "nested", "mark"}

Asleep(t) == t \in granted \/ t \in Range(waiters)

\* Tasks that acquired the semaphore and have not released it.
Holders == {t \in Task : "sem" \in Range(scopes[t])}

\* Tasks inside an `async with lock:` block of their own.
Inside == {t \in Task : \E s \in Range(scopes[t]) : s # "mark"}

LiveChildren(t) == {u \in run : creator[u] = t}

Runnable(t) == t \in run /\ ~Asleep(t)

\* The processing task awaits its handler task, and the handler the tasks of
\* now(), before it leaves the scope they were created in.  A handler that
\* outlives its timeout, and a task user code left running, do not wait.
MayLeaveScope(t) == Detach \/ LiveChildren(t) = {}

Init ==
    /\ value = 1
    /\ waiters = <<>>
    /\ granted = {}
    /\ run = Root
    /\ depth = [t \in Task |-> 0]
    /\ scopes = [t \in Task |-> <<>>]
    /\ creator = [t \in Task |-> NoTask]
    /\ ancestors = [t \in Task |-> {}]
    /\ holder = [t \in Task |-> NoTask]

Open(t, s) ==
    /\ Len(scopes[t]) < MaxScope
    /\ scopes' = [scopes EXCEPT ![t] = Append(@, s)]

Close(t, s) ==
    /\ scopes[t] # <<>>
    /\ Last(scopes[t]) = s
    /\ MayLeaveScope(t)
    /\ scopes' = [scopes EXCEPT ![t] = Front(@)]

-----------------------------------------------------------------------------
(* __aenter__ *)

\* The context already holds the lock: only the depth grows.
EnterNested(t) ==
    /\ Runnable(t)
    /\ depth[t] > 0
    /\ Open(t, "nested")
    /\ depth' = [depth EXCEPT ![t] = @ + 1]
    /\ UNCHANGED <<value, waiters, granted, run, creator, ancestors, holder>>

\* A free semaphore is acquired without suspending.
EnterFree(t) ==
    /\ Runnable(t)
    /\ depth[t] = 0
    /\ value = 1
    /\ Open(t, "sem")
    /\ value' = 0
    /\ depth' = [depth EXCEPT ![t] = 1]
    /\ holder' = [holder EXCEPT ![t] = t]
    /\ UNCHANGED <<waiters, granted, run, creator, ancestors>>

EnterWait(t) ==
    /\ Runnable(t)
    /\ depth[t] = 0
    /\ value = 0
    /\ Len(scopes[t]) < MaxScope
    /\ waiters' = Append(waiters, t)
    /\ UNCHANGED <<value, granted, run, depth, scopes, creator, ancestors, holder>>

\* The acquirer the semaphore woke runs again: acquire() returns.
EnterResume(t) ==
    /\ t \in granted
    /\ granted' = granted \ {t}
    /\ Open(t, "sem")
    /\ depth' = [depth EXCEPT ![t] = 1]
    /\ holder' = [holder EXCEPT ![t] = t]
    /\ UNCHANGED <<value, waiters, run, creator, ancestors>>

\* Semaphore.release(): hand the permit to the oldest sleeping acquirer, or
\* put it back.
ReleasePermit ==
    IF waiters = <<>>
    THEN value' = 1 /\ UNCHANGED <<waiters, granted>>
    ELSE /\ granted' = granted \cup {Head(waiters)}
         /\ waiters' = Tail(waiters)
         /\ UNCHANGED value

\* A task cancelled while it sleeps in acquire() leaves the queue.
CancelAsleep(t) ==
    /\ MayLeaveScope(t)
    /\ \E i \in 1..Len(waiters) :
           waiters[i] = t /\ waiters' = RemoveAt(waiters, i)
    /\ run' = run \ {t}
    /\ UNCHANGED <<value, granted, depth, scopes, creator, ancestors, holder>>

\* A task cancelled after it was woken and before it ran gives its permit on.
CancelGranted(t) ==
    /\ t \in granted
    /\ MayLeaveScope(t)
    /\ IF waiters = <<>>
       THEN value' = 1 /\ granted' = granted \ {t} /\ UNCHANGED waiters
       ELSE /\ granted' = (granted \ {t}) \cup {Head(waiters)}
            /\ waiters' = Tail(waiters)
            /\ UNCHANGED value
    /\ run' = run \ {t}
    /\ UNCHANGED <<depth, scopes, creator, ancestors, holder>>

-----------------------------------------------------------------------------
(* __aexit__ *)

\* Mutant: leaving a nested block releases the semaphore too.
ExitAtAnyDepth(t) ==
    /\ Runnable(t)
    /\ \/ Close(t, "sem")
       \/ Close(t, "nested")
    /\ depth' = [depth EXCEPT ![t] = IF @ > 0 THEN @ - 1 ELSE 0]
    /\ IF depth[t] > 0
       THEN ReleasePermit /\ holder' = [holder EXCEPT ![t] = NoTask]
       ELSE UNCHANGED <<value, waiters, granted, holder>>
    /\ UNCHANGED <<run, creator, ancestors>>

\* A depth that reaches zero releases the semaphore, a nested one keeps it,
\* and a context without the lock has nothing to do.
Exit(t) ==
    /\ Runnable(t)
    /\ \/ Close(t, "sem")
       \/ Close(t, "nested")
    /\ depth' = [depth EXCEPT ![t] = IF @ > 0 THEN @ - 1 ELSE 0]
    /\ IF depth[t] = 1
       THEN ReleasePermit /\ holder' = [holder EXCEPT ![t] = NoTask]
       ELSE UNCHANGED <<value, waiters, granted, holder>>
    /\ UNCHANGED <<run, creator, ancestors>>

-----------------------------------------------------------------------------
(* Contexts *)

\* _run_with_handler_dispatch_context: the handler's context counts as a
\* holder of the event lock whether or not the event was processed under it.
MarkHeld(t) ==
    /\ Runnable(t)
    /\ Bypass \/ depth[t] > 0
    /\ Open(t, "mark")
    /\ depth' = [depth EXCEPT ![t] = @ + 1]
    /\ UNCHANGED <<value, waiters, granted, run, creator, ancestors, holder>>

\* Mutant: the mark is undone by forgetting the lock.
ResetMarkToZero(t) ==
    /\ Runnable(t)
    /\ Close(t, "mark")
    /\ depth' = [depth EXCEPT ![t] = 0]
    /\ UNCHANGED <<value, waiters, granted, run, creator, ancestors, holder>>

ResetMark(t) ==
    /\ Runnable(t)
    /\ Close(t, "mark")
    /\ depth' = [depth EXCEPT ![t] = @ - 1]
    /\ UNCHANGED <<value, waiters, granted, run, creator, ancestors, holder>>

\* asyncio.create_task: the new task runs in a copy of the creator's context.
CreateTask(t, u) ==
    /\ Runnable(t)
    /\ u \in Task \ (run \cup Root)
    /\ creator[u] = NoTask
    /\ run' = run \cup {u}
    /\ creator' = [creator EXCEPT ![u] = t]
    /\ ancestors' = [ancestors EXCEPT ![u] = ancestors[t] \cup {t}]
    /\ depth' = [depth EXCEPT ![u] = depth[t]]
    /\ holder' = [holder EXCEPT ![u] = holder[t]]
    /\ UNCHANGED <<value, waiters, granted, scopes>>

Finish(t) ==
    /\ Runnable(t)
    /\ scopes[t] = <<>>
    /\ MayLeaveScope(t)
    /\ run' = run \ {t}
    /\ UNCHANGED <<value, waiters, granted, depth, scopes, creator, ancestors, holder>>

-----------------------------------------------------------------------------
Next ==
    \E t \in Task :
        \/ EnterNested(t) \/ EnterFree(t) \/ EnterWait(t) \/ EnterResume(t)
        \/ CancelAsleep(t) \/ CancelGranted(t)
        \/ Exit(t) \/ MarkHeld(t) \/ ResetMark(t)
        \/ Finish(t)
        \/ \E u \in Task : CreateTask(t, u)

Spec == Init /\ [][Next]_vars

-----------------------------------------------------------------------------
TypeOK ==
    /\ value \in {0, 1}
    /\ waiters \in Seq(Task)
    /\ granted \subseteq Task
    /\ run \subseteq Task
    /\ depth \in [Task -> Nat]
    /\ scopes \in [Task -> Seq(Scope)]
    /\ creator \in [Task -> Task \cup {NoTask}]
    /\ ancestors \in [Task -> SUBSET Task]
    /\ holder \in [Task -> Task \cup {NoTask}]

\* The permit is in exactly one place: in the semaphore, on its way to the one
\* acquirer that was woken, or with the one task that acquired it.  In
\* particular no copied or marked context ever releases a permit it did not
\* take, however the scopes of the tasks interleave (ReentrantLock.__aexit__).
PermitConserved ==
    /\ value = 1 <=> granted \cup Holders = {}
    /\ granted \cap Holders = {}
    /\ \A t, u \in granted \cup Holders : t = u

\* When every scope waits for the tasks created in it and no handler runs
\* outside the lock, all tasks inside `async with lock:` blocks work for one
\* acquisition: two bus-serial events are never processed at once.
MutualExclusion ==
    \A t, u \in run \cap Inside : holder[t] = holder[u] /\ holder[t] \in Holders

\* An acquirer sleeps only while somebody will release the permit.
WaitersHaveHolder == waiters # <<>> => granted \cup Holders # {}
=============================================================================
