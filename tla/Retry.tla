------------------------------- MODULE Retry -------------------------------
(***************************************************************************)
(* Calls of one function under @retry: how a call gets a permit of the     *)
(* semaphore (an in-process counter with a condition, or slot files that   *)
(* the processes of a machine share), which context variable marks the     *)
(* semaphores a context holds, how attempts follow one another, and how    *)
(* the permit is given back.  Clocks are abstract: whatever may time out   *)
(* may do so at any moment.                                                *)
(***************************************************************************)
EXTENDS Integers, FiniteSets

CONSTANTS
    Calls,
    MaxContext,    \* bound: contexts (tasks, threads) that calls are made in
    Selves,        \* the receivers of the calls (args[0])
    SelfOf,        \* call -> its receiver
    ClassOf,       \* receiver -> its class
    Shared,        \* the key of a semaphore without receiver or class
    None,
    Limit,         \* semaphore_limit
    Configs,       \* arguments that the decorator may be given
    MaxCrashes     \* bound: processes that die

Kinds == {"async", "thread", "block", "await"}
Scopes == {"global", "class", "instance", "multiprocess"}
Classes == {ClassOf[s] : s \in Selves}
Keys == Selves \cup Classes \cup {Shared}
Slots == 0 .. Limit - 1
Contexts == 1 .. MaxContext
Times == Nat \cup {None}

ASSUME CallAssumption ==
    /\ SelfOf \in [Calls -> Selves]
    /\ IsFiniteSet(Calls) /\ None \notin Calls /\ None \notin Nat
    /\ None \notin [by : Calls, written : BOOLEAN]
    /\ MaxContext \in Nat
ASSUME LimitAssumption == Limit \in Nat \ {0} /\ MaxCrashes \in Nat
ASSUME ConfigAssumption ==
    Configs \subseteq [scope : Scopes, semaphore_timeout : Times, timeout : Times,
                       lax : BOOLEAN, max_attempts : Nat \ {0},
                       kinds : SUBSET Kinds, places : SUBSET {"copy", "inline"}]

VARIABLES
    cfg,        \* the arguments of the decorator
    kind,       \* "async" def, a def in a "thread", a def that "block"s the
                \* loop, a def on the loop that returns something to "await"
    pc, attempt,
    ctx,        \* the context that the call runs in
    outer,      \* the call whose body made it and waits for it
    heldIn,     \* HELD_RETRY_SEMAPHORES in every context
    token,      \* what ContextVar.set returned: the context and the old value
    value,      \* _RetrySemaphore._value
    holders,    \* calls whose permit has not been given back
    slot, file, \* the slot that a call tries; the slot files
    active,     \* _active_retry_operations
    dead        \* calls whose process has died

wrapVars == <<kind, ctx, outer>>
heldVars == <<heldIn, token>>
slotVars == <<slot, file, dead>>
vars == <<cfg, wrapVars, pc, attempt, heldVars, value, holders, slotVars, active>>

----------------------------------------------------------------------------
(* Keys, timeouts and where code runs.                                     *)

Max1(n) == IF n > 1 THEN n ELSE 1

\* _calculate_semaphore_timeout
SemTimeout ==
    IF cfg.semaphore_timeout # None THEN cfg.semaphore_timeout
    ELSE IF cfg.timeout = None THEN None
    ELSE cfg.timeout * Max1(Limit - 1)

\* None and zero both wait for ever.
Timed == SemTimeout # None /\ SemTimeout > 0

Files == cfg.scope = "multiprocess"

\* _get_semaphore_key
Key(c) == CASE cfg.scope = "instance" -> SelfOf[c]
            [] cfg.scope = "class" -> ClassOf[SelfOf[c]]
            [] OTHER -> Shared

Settled(c) == pc[c] \in {"done", "dropped"} \/ c \in dead
Made(c) == pc[c] # "idle"
OnStack(c) == pc[c] \notin {"idle", "done", "dropped", "coro"} /\ c \notin dead
Innermost(c) == \A d \in Calls : OnStack(d) => outer[d] # c

\* What runs without suspending keeps every other task of the loop waiting.
Occupies(c) ==
    /\ kind[c] \in {"block", "await"} /\ OnStack(c) /\ Innermost(c)
    /\ ~Files

Turn(c) ==
    kind[c] = "thread" \/ \A d \in Calls \ {c} : ~Occupies(d)

Used == {ctx[c] : c \in {d \in Calls : Made(d)}} \cup {token[c][1] : c \in holders}
IsNew(x) == x \in Contexts \ Used /\ \A y \in Contexts \ Used : x <= y
InThread(x) == \E c \in Calls : Made(c) /\ ctx[c] = x /\ kind[c] = "thread"

\* Code of context x runs now: in the body of the call p, or in no call's.
RunsIn(x, p) ==
    /\ x \in Used
    /\ IF p = None THEN \A c \in Calls : OnStack(c) => ctx[c] # x
       ELSE /\ ctx[p] = x /\ pc[p] = "body" /\ p \notin dead
            /\ kind[p] # "await" /\ Innermost(p)

----------------------------------------------------------------------------
(* A call begins: the wrapper looks in its context for the key.            *)

Start(c, k, x, p, held) ==
    /\ k # "thread" => \A d \in Calls : ~Occupies(d) \/ d = p
    /\ kind' = [kind EXCEPT ![c] = k]
    /\ ctx' = [ctx EXCEPT ![c] = x]
    /\ outer' = [outer EXCEPT ![c] = p]
    /\ heldIn' = [heldIn EXCEPT ![x] = held]
    /\ pc' = [pc EXCEPT ![c] =
            IF Key(c) \in held THEN "body"
            ELSE IF Files THEN "try"
            ELSE IF k = "async" THEN "poll" ELSE "enter"]
    /\ attempt' = [attempt EXCEPT ![c] = 1]
    /\ active' = IF Key(c) \in held THEN active + 1 ELSE active
    /\ UNCHANGED <<cfg, token, value, holders, slotVars>>

\* In a task, a thread or a process that has called nothing yet.
CallFresh(c) ==
    /\ pc[c] = "idle"
    /\ \E k \in cfg.kinds, x \in Contexts : IsNew(x) /\ Start(c, k, x, None, {})

\* In a task or a thread made by code that runs in y: it starts from a copy
\* of the context (create_task, gather, to_thread).
CallCopied(c) ==
    /\ pc[c] = "idle" /\ "copy" \in cfg.places
    /\ \E k \in cfg.kinds, x \in Contexts, y \in Used, p \in Calls \cup {None} :
        /\ IsNew(x) /\ RunsIn(y, p)
        /\ InThread(y) \/ \A d \in Calls : Occupies(d) => d = p
        /\ Start(c, k, x, None, heldIn[y])

\* In the context of the code that makes it, which waits for it.
CallInline(c) ==
    /\ pc[c] = "idle" /\ "inline" \in cfg.places
    /\ \E k \in cfg.kinds, x \in Used, p \in Calls \cup {None} :
        /\ RunsIn(x, p)
        /\ (k = "thread") = InThread(x)
        /\ p # None /\ kind[p] = "block" => k # "async"
        /\ Start(c, k, x, p, heldIn[x])

----------------------------------------------------------------------------
(* Getting a permit.                                                       *)

\* With a permit the key is marked in the context; then the body runs.
Admitted(c) ==
    /\ holders' = holders \cup {c}
    /\ token' = [token EXCEPT ![c] = <<ctx[c], heldIn[ctx[c]]>>]
    /\ heldIn' = [heldIn EXCEPT ![ctx[c]] = @ \cup {Key(c)}]
    /\ pc' = [pc EXCEPT ![c] = "body"]
    /\ active' = active + 1

\* Mutant: a thread that was woken takes a permit without looking again.
AcquireOnceWoken(c) ==
    /\ pc[c] \in {"poll", "enter", "woken", "late"} /\ Turn(c)
    /\ value[Key(c)] > 0 \/ pc[c] = "woken"
    /\ value' = [value EXCEPT ![Key(c)] = @ - 1]
    /\ Admitted(c)
    /\ UNCHANGED <<cfg, wrapVars, attempt, slotVars>>

\* try_acquire, called by acquire_async over and over; acquire_sync, entered
\* or gone on with after the condition was notified or the wait ran out.
Acquire(c) ==
    /\ pc[c] \in {"poll", "enter", "woken", "late"} /\ Turn(c)
    /\ value[Key(c)] > 0
    /\ value' = [value EXCEPT ![Key(c)] = @ - 1]
    /\ Admitted(c)
    /\ UNCHANGED <<cfg, wrapVars, attempt, slotVars>>

Sleep(c) ==
    /\ pc[c] \in {"enter", "woken"} /\ value[Key(c)] = 0
    /\ pc' = [pc EXCEPT ![c] = "wait"]
    /\ UNCHANGED <<cfg, wrapVars, attempt, heldVars, value, holders, slotVars, active>>

\* Condition.wait(remaining) runs out; the thread stays among the waiters
\* until it has the lock again.
WaitRunsOut(c) ==
    /\ pc[c] = "wait" /\ Timed
    /\ pc' = [pc EXCEPT ![c] = "late"]
    /\ UNCHANGED <<cfg, wrapVars, attempt, heldVars, value, holders, slotVars, active>>

\* No permit in time: an error, or (lax) the body runs without one.
Refused(c) ==
    IF cfg.lax
    THEN /\ pc' = [pc EXCEPT ![c] = "body"]
         /\ active' = active + 1
    ELSE /\ pc' = [pc EXCEPT ![c] = "done"]
         /\ UNCHANGED active

GiveUp(c) ==
    /\ Timed /\ Turn(c)
    /\ \/ pc[c] \in {"poll", "woken", "late"} /\ value[Key(c)] = 0
       \/ pc[c] = "pause" /\ c \notin dead
    /\ Refused(c)
    /\ UNCHANGED <<cfg, wrapVars, attempt, heldVars, value, holders, slotVars>>

\* The task is cancelled in asyncio.sleep while it waits for a permit.
CancelWait(c) ==
    /\ pc[c] \in {"poll", "pause"} /\ kind[c] = "async" /\ c \notin dead /\ Turn(c)
    /\ pc' = [pc EXCEPT ![c] = "done"]
    /\ UNCHANGED <<cfg, wrapVars, attempt, heldVars, value, holders, slotVars, active>>

----------------------------------------------------------------------------
(* Slot files: every call is a process of its own.                         *)

NextSlot(c) ==
    IF slot[c] + 1 < Limit
    THEN /\ slot' = [slot EXCEPT ![c] = @ + 1]
         /\ pc' = [pc EXCEPT ![c] = "try"]
    ELSE /\ slot' = [slot EXCEPT ![c] = 0]
         /\ pc' = [pc EXCEPT ![c] = "pause"]

slotUnchanged == <<cfg, wrapVars, attempt, heldVars, value, holders, dead, active>>

\* os.open with O_CREAT | O_EXCL
TryCreate(c) ==
    /\ pc[c] = "try" /\ c \notin dead
    /\ UNCHANGED slot
    /\ IF file[slot[c]] = None
       THEN /\ file' = [file EXCEPT ![slot[c]] = [by |-> c, written |-> FALSE]]
            /\ pc' = [pc EXCEPT ![c] = "write"]
       ELSE /\ pc' = [pc EXCEPT ![c] = "look"]
            /\ UNCHANGED file
    /\ UNCHANGED slotUnchanged

\* The owner goes into the file that was opened, under its name or not.
WriteOwner(c) ==
    /\ pc[c] = "write" /\ c \notin dead
    /\ file' = IF file[slot[c]] = [by |-> c, written |-> FALSE]
               THEN [file EXCEPT ![slot[c]] = [by |-> c, written |-> TRUE]]
               ELSE file
    /\ Admitted(c)
    /\ UNCHANGED <<cfg, wrapVars, attempt, value, slot, dead>>

\* Mutants: an empty file is stale at once; it never is.
StaleIfEmpty(f) == f # None /\ (f.by \in dead \/ ~f.written)
StaleIfNamed(f) == f # None /\ f.written /\ f.by \in dead

\* A file is stale if it names a process that is gone, or names none and is
\* old: the process that made it died before it wrote.
Stale(f) == f # None /\ f.by \in dead

\* The owner is read and its process asked for.  An empty file may still be
\* too young to be taken for stale.
Look(c) ==
    /\ pc[c] = "look" /\ c \notin dead
    /\ \/ /\ Stale(file[slot[c]])
          /\ pc' = [pc EXCEPT ![c] = "unlink"]
          /\ UNCHANGED slot
       \/ /\ Stale(file[slot[c]]) => ~file[slot[c]].written
          /\ NextSlot(c)
    /\ UNCHANGED <<slotUnchanged, file>>

\* The file that has the name by now goes.
Unlink(c) ==
    /\ pc[c] = "unlink" /\ c \notin dead
    /\ file' = [file EXCEPT ![slot[c]] = None]
    /\ NextSlot(c)
    /\ UNCHANGED slotUnchanged

\* The sleep between two rounds ends.
NextRound(c) ==
    /\ pc[c] = "pause" /\ c \notin dead
    /\ pc' = [pc EXCEPT ![c] = "try"]
    /\ UNCHANGED <<slotUnchanged, slot, file>>

\* kill -9: what the process has in its slot stays.
Crash(c) ==
    /\ Files /\ Made(c) /\ ~Settled(c)
    /\ Cardinality(dead) < MaxCrashes
    /\ dead' = dead \cup {c}
    /\ UNCHANGED <<cfg, wrapVars, pc, attempt, heldVars, value, holders, slot, file, active>>

----------------------------------------------------------------------------
(* Attempts, and what is given back when they are over.                    *)

Waiters(k) == {c \in Calls : pc[c] \in {"wait", "late"} /\ Key(c) = k}

\* Mutant: the condition is not notified.
ReleaseSilently(c, last) ==
    /\ value' = [value EXCEPT ![Key(c)] = @ + 1]
    /\ pc' = [pc EXCEPT ![c] = last]

\* A late thread is a waiter until it has looked again; telling it is telling
\* one that will look in any case.
Release(c, last) ==
    /\ value' = [value EXCEPT ![Key(c)] = @ + 1]
    /\ \/ /\ Waiters(Key(c)) = {}
          /\ pc' = [pc EXCEPT ![c] = last]
       \/ \E w \in Waiters(Key(c)) :
            pc' = [pc EXCEPT ![c] = last, ![w] = "woken"]

\* The finally clause: the mark is taken from the context that it was put
\* into, which raises in any other, and after that the permit is given back.
Finish(c) ==
    /\ active' = active - 1
    /\ IF c \in holders /\ token[c][1] = ctx[c]
       THEN /\ heldIn' = [heldIn EXCEPT ![ctx[c]] = token[c][2]]
            /\ IF Files
               THEN /\ pc' = [pc EXCEPT ![c] = "release"]
                    /\ UNCHANGED <<value, holders>>
               ELSE /\ holders' = holders \ {c}
                    /\ Release(c, "done")
       ELSE /\ pc' = [pc EXCEPT ![c] = "done"]
            /\ UNCHANGED <<heldIn, value, holders>>
    /\ UNCHANGED token

\* The attempt returns or raises.  Only an Exception that matches is tried
\* again; a cancellation is none.
EndAttempt(c) ==
    /\ pc[c] = "body" /\ c \notin dead /\ Innermost(c) /\ Turn(c)
    /\ kind[c] # "await"
    /\ Finish(c)
    /\ UNCHANGED <<cfg, wrapVars, attempt, slotVars>>

FailAttempt(c) ==
    /\ pc[c] = "body" /\ c \notin dead /\ Innermost(c) /\ Turn(c)
    /\ attempt[c] < cfg.max_attempts
    /\ attempt' = [attempt EXCEPT ![c] = @ + 1]
    /\ pc' = [pc EXCEPT ![c] = "backoff"]
    /\ UNCHANGED <<cfg, wrapVars, heldVars, value, holders, slotVars, active>>

NextAttempt(c) ==
    /\ pc[c] = "backoff" /\ c \notin dead /\ Turn(c)
    /\ pc' = [pc EXCEPT ![c] = "body"]
    /\ UNCHANGED <<cfg, wrapVars, attempt, heldVars, value, holders, slotVars, active>>

\* Mutant: the permit is given back where attempts end, not in a finally.
CancelBackoffOut(c) ==
    /\ pc[c] = "backoff" /\ c \notin dead /\ kind[c] = "async" /\ Turn(c)
    /\ pc' = [pc EXCEPT ![c] = "done"] /\ active' = active - 1
    /\ UNCHANGED <<cfg, wrapVars, attempt, heldVars, value, holders, slotVars>>

\* The task is cancelled between two attempts.
CancelBackoff(c) ==
    /\ pc[c] = "backoff" /\ c \notin dead /\ kind[c] = "async" /\ Turn(c)
    /\ Finish(c)
    /\ UNCHANGED <<cfg, wrapVars, attempt, slotVars>>

\* The function was a plain one and raises, or returns something to await:
\* the wrapper returns a coroutine that will finish the call.
EndPlainPart(c) ==
    /\ pc[c] = "body" /\ c \notin dead /\ Innermost(c) /\ Turn(c)
    /\ kind[c] = "await"
    /\ \/ /\ pc' = [pc EXCEPT ![c] = "coro"]
          /\ UNCHANGED <<active, heldVars, value, holders>>
       \/ Finish(c)
    /\ UNCHANGED <<cfg, wrapVars, attempt, slotVars>>

\* finalize_async_result is awaited where the call was made, or in a task of
\* its own; from here on the call goes on as that of an async function.
AwaitIt(c) ==
    /\ pc[c] = "coro" /\ c \notin dead /\ Turn(c)
    /\ \/ \E p \in Calls \cup {None} :
            /\ RunsIn(ctx[c], p) /\ (p # None => kind[p] = "async")
            /\ outer' = [outer EXCEPT ![c] = p]
            /\ UNCHANGED <<ctx, heldIn>>
       \/ \E x \in Contexts :
            /\ "copy" \in cfg.places /\ IsNew(x)
            /\ ctx' = [ctx EXCEPT ![c] = x]
            /\ heldIn' = [heldIn EXCEPT ![x] = heldIn[ctx[c]]]
            /\ outer' = [outer EXCEPT ![c] = None]
    /\ kind' = [kind EXCEPT ![c] = "async"]
    /\ pc' = [pc EXCEPT ![c] = "body"]
    /\ UNCHANGED <<cfg, attempt, token, value, holders, slotVars, active>>

\* The coroutine is dropped, and what it would have run never runs.
Drop(c) ==
    /\ pc[c] = "coro" /\ c \notin dead /\ Turn(c)
    /\ pc' = [pc EXCEPT ![c] = "dropped"]
    /\ UNCHANGED <<cfg, wrapVars, attempt, heldVars, value, holders, slotVars, active>>

\* The slot file is read; it goes if it has the token of the call.
ReadToken(c) ==
    /\ pc[c] = "release" /\ c \notin dead
    /\ IF file[slot[c]] = [by |-> c, written |-> TRUE]
       THEN /\ pc' = [pc EXCEPT ![c] = "remove"]
            /\ UNCHANGED holders
       ELSE /\ pc' = [pc EXCEPT ![c] = "done"]
            /\ holders' = holders \ {c}
    /\ UNCHANGED <<cfg, wrapVars, attempt, heldVars, value, slotVars, active>>

RemoveFile(c) ==
    /\ pc[c] = "remove" /\ c \notin dead
    /\ file' = [file EXCEPT ![slot[c]] = None]
    /\ holders' = holders \ {c}
    /\ pc' = [pc EXCEPT ![c] = "done"]
    /\ UNCHANGED <<cfg, wrapVars, attempt, heldVars, value, slot, dead, active>>

----------------------------------------------------------------------------
Init ==
    /\ cfg \in Configs
    /\ kind = [c \in Calls |-> "async"]
    /\ pc = [c \in Calls |-> "idle"]
    /\ attempt = [c \in Calls |-> 0]
    /\ ctx = [c \in Calls |-> 0]
    /\ outer = [c \in Calls |-> None]
    /\ heldIn = [x \in Contexts |-> {}]
    /\ token = [c \in Calls |-> <<0, {}>>]
    /\ value = [k \in Keys |-> Limit]
    /\ holders = {} /\ active = 0 /\ dead = {}
    /\ slot = [c \in Calls |-> 0]
    /\ file = [s \in Slots |-> None]

Call(c) == CallFresh(c) \/ CallCopied(c) \/ CallInline(c)
Wait(c) == Acquire(c) \/ Sleep(c) \/ WaitRunsOut(c)
Contend(c) == TryCreate(c) \/ WriteOwner(c) \/ Look(c) \/ Unlink(c) \/ NextRound(c)
Attempt(c) == EndAttempt(c) \/ NextAttempt(c) \/ EndPlainPart(c)
GiveBack(c) == ReadToken(c) \/ RemoveFile(c)
Interrupt(c) == GiveUp(c) \/ CancelWait(c) \/ CancelBackoff(c) \/ Crash(c)

Next == \E c \in Calls :
    \/ Call(c) \/ Wait(c) \/ Contend(c) \/ Attempt(c) \/ FailAttempt(c)
    \/ AwaitIt(c) \/ Drop(c) \/ GiveBack(c) \/ Interrupt(c)

Spec == Init /\ [][Next]_vars

\* What the wrapper does once it runs it goes on with; a function ends, and a
\* coroutine is awaited or dropped.
Progress(c) ==
    \/ Wait(c) \/ Contend(c) \/ Attempt(c) \/ GiveBack(c) \/ AwaitIt(c) \/ Drop(c)
    \/ pc[c] = "late" /\ GiveUp(c)
FairSpec == Spec /\ \A c \in Calls :
    /\ WF_vars(Progress(c))
    /\ SF_vars(Look(c) /\ pc'[c] = "unlink")   \* a file becomes old in time

----------------------------------------------------------------------------
(* Properties.                                                             *)

InBody == {"body", "backoff", "coro", "dropped"}
Running(c) == pc[c] \in {"body", "backoff"} /\ c \notin dead
HoldersOf(k) == {c \in holders : Key(c) = k}
Lost == {c \in holders : pc[c] \in {"done", "dropped"} /\ c \notin dead}

\* Every call, counter, context and slot file has a value of its type.
TypeOK ==
    /\ cfg \in Configs
    /\ kind \in [Calls -> Kinds]
    /\ pc \in [Calls -> {"idle", "poll", "enter", "wait", "woken", "late", "try", "write",
                         "look", "unlink", "pause", "body", "backoff", "coro",
                         "release", "remove", "done", "dropped"}]
    /\ attempt \in [Calls -> Nat] /\ active \in Int
    /\ ctx \in [Calls -> Contexts \cup {0}]
    /\ outer \in [Calls -> Calls \cup {None}]
    /\ heldIn \in [Contexts -> SUBSET Keys]
    /\ token \in [Calls -> (Contexts \cup {0}) \X SUBSET Keys]
    /\ value \in [Keys -> Int]
    /\ holders \subseteq Calls /\ dead \subseteq Calls
    /\ slot \in [Calls -> Slots]
    /\ file \in [Slots -> [by : Calls, written : BOOLEAN] \cup {None}]

\* A semaphore in the process never has more or fewer permits, free and given
\* out, than its limit, whatever is retried, refused, cancelled or nested, and
\* the number of active operations is that of the calls in their bodies.
PermitsConserved ==
    /\ ~Files => \A k \in Keys :
            value[k] >= 0 /\ value[k] + Cardinality(HoldersOf(k)) = Limit
    /\ active = Cardinality({c \in Calls : pc[c] \in InBody})

\* A finished call keeps a permit only if its coroutine was dropped, or was
\* awaited in a task of its own, where the mark of the context that the call
\* was made in cannot be taken back.
PermitReturned ==
    \A c \in Lost : pc[c] = "dropped" \/ token[c][1] # ctx[c]

\* While threads sleep on the condition, every free permit has a thread that
\* was woken for it, though tasks that poll take permits past the sleepers.
NoSleeperForgotten ==
    \A k \in Keys : Waiters(k) # {} =>
        value[k] <= Cardinality({c \in Calls : pc[c] = "woken" /\ Key(c) = k})

\* As long as no process dies, who has a slot has its file, with its token:
\* no release and no search for stale files removes another's.
SlotsExclusive ==
    Files /\ dead = {} =>
        \A c \in holders : file[slot[c]] = [by |-> c, written |-> TRUE]

\* docs/api/retry.mdx: "Max concurrent executions sharing the same semaphore."
WithinLimit ==
    cfg.scope = "multiprocess" /\ ~cfg.lax =>
        Cardinality({c \in Calls : Running(c)}) <= Limit

\* A plain function that waits for a permit on the loop's own thread, while
\* only tasks of that loop have one.
LoopStuck ==
    \E d \in Calls :
        /\ Occupies(d) /\ pc[d] = "wait"
        /\ \A c \in HoldersOf(Key(d)) : kind[c] # "thread"

\* Every call comes to an end: no permit is lost between releases, wake-ups
\* and timeouts, and the slot of a process that died is taken again; unless a
\* coroutine has kept a permit, or the loop waits for one of its own tasks.
EveryCallEnds ==
    \A c \in Calls : (Made(c) /\ pc[c] # "coro") ~>
        (Settled(c) \/ pc[c] = "coro" \/ Lost # {} \/ LoopStuck)
=============================================================================
