---------------------------- MODULE HandlerRuns ----------------------------
(***************************************************************************)
(* One event's handlers on the buses that it is on, as _process_event,     *)
(* _run_handlers, run_handler and _call_handler run them: one after the    *)
(* other or in parallel, all of them or until the first result, under      *)
(* deadlines of the event and of each handler.  What asyncio does with a   *)
(* cancellation is modelled: a request is delivered where the task next    *)
(* suspends or is suspended, and is lost in a place that swallows it.      *)
(***************************************************************************)
EXTENDS Naturals, Sequences, SequencesExt

CONSTANTS
    Bus, Handler,
    HandlersFor,   \* bus -> its handlers for the event
    Rank,          \* the order of registration
    OwnTimeout,    \* handlers that have a handler_timeout
    Configs,       \* the modes that the buses may have for the event
    Unwinds,       \* whether leaving a handler suspends (cancel_and_await)
    NoBus, NoHandler

Mode == SUBSET {"parallel", "first", "deadline"}

ASSUME BusAssumption ==
    /\ HandlersFor \in [Bus -> (SUBSET Handler) \ {{}}]
    /\ \A h \in Handler : \E b \in Bus : h \in HandlersFor[b]
    /\ \A a, b \in Bus : a # b => HandlersFor[a] \cap HandlersFor[b] = {}
    /\ OwnTimeout \subseteq Handler /\ Unwinds \in BOOLEAN
    /\ NoBus \notin Bus /\ NoHandler \notin Handler
ASSUME RankAssumption ==
    /\ Rank \in [Handler -> Nat]
    /\ \A g, h \in Handler : Rank[g] = Rank[h] => g = h
ASSUME ConfigAssumption == Configs \subseteq [Bus -> Mode]

VARIABLES
    mode,         \* parallel or serial, first or all, with or without deadline
    main,         \* where the task that processes the event on a bus is
    todo,         \* the handlers it has not seen end
    interrupted,  \* buses whose task is to be cancelled where it waits
    expired,      \* buses whose deadline for the event has passed
    run,          \* where run_handler is
    out,          \* what _call_handler came to
    cancel,       \* handlers whose run_handler is to be cancelled
    fired,        \* handlers whose own deadline has passed
    body,         \* the task of the handler itself
    result, error,\* EventResult.status and the kind of EventResult.error
    owner, waiting,  \* the event's handler lock
    cpu           \* the bus whose task is between two suspensions

mainVars == <<main, todo, interrupted, expired>>
runVars == <<run, out, cancel, fired>>
resultVars == <<result, error>>
lockVars == <<owner, waiting>>
vars == <<mode, mainVars, runVars, body, resultVars, lockVars, cpu>>

Settled == {"completed", "error"}
Alive == {"run", "resists"}
BodyResult == {"value", "nothing", "raised"}

Parallel(b) == "parallel" \in mode[b]
FirstWins(b) == "first" \in mode[b]
BusOf(h) == CHOOSE b \in Bus : h \in HandlersFor[b]
Timed(h) == h \in OwnTimeout \/ "deadline" \in mode[BusOf(h)]
Winning(h) == result[h] = "completed" /\ error[h] = "none" /\ out[h] = "value"

\* In first-result mode a winning result stops the others.
Stops(b, h) == FirstWins(b) /\ Winning(h)

\* The next handler in the order of registration.
Head1(b) == CHOOSE h \in todo[b] : \A g \in todo[b] : Rank[h] <= Rank[g]

Init ==
    /\ mode \in Configs
    /\ main = [b \in Bus |-> "new"]
    /\ todo = [b \in Bus |-> {}]
    /\ interrupted = {} /\ expired = {}
    /\ run = [h \in Handler |-> "idle"]
    /\ out = [h \in Handler |-> "none"]
    /\ cancel = {} /\ fired = {}
    /\ body = [h \in Handler |-> "none"]
    /\ result = [h \in Handler |-> "none"]
    /\ error = [h \in Handler |-> "none"]
    /\ owner = NoHandler /\ waiting = <<>>
    /\ cpu = NoBus

-----------------------------------------------------------------------------
(* Helpers *)

\* A serial run is part of its bus's task, which goes on when the run ends.
BackToMain(h) == cpu' = IF Parallel(BusOf(h)) THEN NoBus ELSE BusOf(h)

\* The event has one handler lock for all buses.
LockFree == owner = NoHandler

Release(h) ==
    IF owner # h THEN UNCHANGED lockVars
    ELSE /\ owner' = IF waiting = <<>> THEN NoHandler ELSE Head(waiting)
         /\ waiting' = IF waiting = <<>> THEN waiting ELSE Tail(waiting)

\* The results in S that are not settled become errors.
Fail(S, kind) ==
    LET open == {g \in S : result[g] \notin Settled} IN
    /\ result' = [g \in Handler |-> IF g \in open THEN "error" ELSE result[g]]
    /\ error' = [g \in Handler |-> IF g \in open THEN kind[g] ELSE error[g]]

Cancelled == [g \in Handler |-> "cancelled"]

\* Cancelling the runs in S.  A run that waits for its body itself, and not for
\* a shield around it, passes the request on.
Stop(S) ==
    LET live == {h \in S : run[h] # "ended"}
        passing == {h \in live : run[h] = "body" /\ ~Timed(h) /\ body[h] \in Alive}
    IN /\ cancel' = cancel \cup (live \ passing)
       /\ body' = [h \in Handler |-> IF h \in passing THEN "asked" ELSE body[h]]

\* run_handler behind the lock: a settled result is left alone.
Call(h) ==
    /\ result[h] \notin Settled
    /\ result' = [result EXCEPT ![h] = "started"]
    /\ run' = [run EXCEPT ![h] = "body"]
    /\ body' = [body EXCEPT ![h] = "run"]
    /\ UNCHANGED <<out, error>>

Skip(h) ==
    /\ result[h] \in Settled
    /\ run' = [run EXCEPT ![h] = "ended"]
    /\ out' = [out EXCEPT ![h] = "skipped"]
    /\ UNCHANGED <<body, resultVars>>

\* Mutant: the value of a body that returned is taken, deadline or not.
EndLate(h, o) ==
    /\ run' = [run EXCEPT ![h] = "ended"]
    /\ out' = [out EXCEPT ![h] = o]
    /\ result' = [result EXCEPT ![h] = IF body[h] = "value" THEN "completed" ELSE "error"]
    /\ error' = [error EXCEPT ![h] = IF body[h] = "value" THEN "none" ELSE "failed"]

\* How run_handler ends: update(result=...) leaves an earlier error in place.
End(h, o) ==
    /\ run' = [run EXCEPT ![h] = "ended"]
    /\ out' = [out EXCEPT ![h] = o]
    /\ result' = [result EXCEPT ![h] = IF o \in {"value", "nothing"} THEN "completed" ELSE "error"]
    /\ error' = [error EXCEPT ![h] =
           CASE o \in {"value", "nothing"} -> error[h]
             [] o = "raised" -> "failed"
             [] o = "timeout" -> "timeout"
             [] o = "cancelled" -> "aborted"]

-----------------------------------------------------------------------------
(* The task that processes the event on a bus *)

Begin(b) ==
    /\ cpu = NoBus /\ main[b] = "new"
    /\ result' = [h \in Handler |-> IF h \in HandlersFor[b] THEN "pending" ELSE result[h]]
    /\ todo' = [todo EXCEPT ![b] = HandlersFor[b]]
    /\ \/ /\ Parallel(b)
          /\ run' = [h \in Handler |-> IF h \in HandlersFor[b] THEN "created" ELSE run[h]]
          /\ main' = [main EXCEPT ![b] = "await"]
          /\ UNCHANGED cpu
       \/ /\ ~Parallel(b)
          /\ main' = [main EXCEPT ![b] = "next"]
          /\ cpu' = b
          /\ UNCHANGED run
    /\ UNCHANGED <<mode, interrupted, expired, out, cancel, fired, body, error, lockVars>>

\* The serial loop goes to the next handler, and waits for the lock if another
\* bus's handler has it.
NextRun(b) ==
    /\ cpu = b /\ main[b] = "next"
    /\ \/ /\ todo[b] = {}
          /\ main' = [main EXCEPT ![b] = "closing"]
          /\ cpu' = NoBus
          /\ UNCHANGED <<run, out, body, resultVars, lockVars>>
       \/ /\ todo[b] # {}
          /\ main' = [main EXCEPT ![b] = "await"]
          /\ LET h == Head1(b) IN
             \/ LockFree /\ Call(h) /\ owner' = h /\ cpu' = NoBus /\ UNCHANGED waiting
             \/ LockFree /\ Skip(h) /\ UNCHANGED <<lockVars, cpu>>
             \/ /\ ~LockFree
                /\ waiting' = Append(waiting, h)
                /\ run' = [run EXCEPT ![h] = "lock"]
                /\ cpu' = NoBus
                /\ UNCHANGED <<owner, out, body, resultVars>>
    /\ UNCHANGED <<mode, todo, interrupted, expired, cancel, fired>>

\* The serial loop after a handler.
Returned(b) ==
    /\ cpu = b /\ main[b] = "await"
    /\ LET h == Head1(b) IN
       \/ /\ out[h] = "cancelled"
          /\ main' = [main EXCEPT ![b] = "expiring"]
          /\ cpu' = NoBus
          /\ UNCHANGED <<todo, resultVars>>
       \/ /\ out[h] # "cancelled" /\ Stops(b, h)
          /\ Fail(todo[b] \ {h}, Cancelled)
          /\ main' = [main EXCEPT ![b] = "closing"]
          /\ cpu' = NoBus
          /\ UNCHANGED todo
       \/ /\ out[h] # "cancelled" /\ ~Stops(b, h)
          /\ todo' = [todo EXCEPT ![b] = @ \ {h}]
          /\ main' = [main EXCEPT ![b] = "next"]
          /\ UNCHANGED <<cpu, resultVars>>
    /\ UNCHANGED <<mode, interrupted, expired, runVars, body, lockVars>>

\* Parallel, all results: the runs are awaited in order.
AwaitAll(b) ==
    /\ cpu = NoBus /\ main[b] = "await" /\ Parallel(b) /\ ~FirstWins(b)
    /\ LET h == Head1(b) IN
       /\ run[h] = "ended"
       /\ \/ /\ b \in interrupted \/ out[h] = "cancelled"
             /\ Stop(HandlersFor[b])
             /\ main' = [main EXCEPT ![b] = "gather"]
             /\ UNCHANGED todo
          \/ /\ b \notin interrupted /\ out[h] # "cancelled"
             /\ todo' = [todo EXCEPT ![b] = @ \ {h}]
             /\ main' = [main EXCEPT ![b] = IF todo[b] = {h} THEN "closing" ELSE "await"]
             /\ UNCHANGED <<cancel, body>>
    /\ interrupted' = interrupted \ {b}
    /\ UNCHANGED <<mode, expired, run, out, fired, resultVars, lockVars, cpu>>

\* Parallel, first result: asyncio.wait, until a run has a winning result.
AwaitFirst(b) ==
    /\ cpu = NoBus /\ main[b] = "await" /\ Parallel(b) /\ FirstWins(b)
    /\ LET ended == {h \in todo[b] : run[h] = "ended"}
           won == {h \in ended : Stops(b, h)}
       IN
       \/ /\ b \in interrupted
          /\ Stop(todo[b])
          /\ main' = [main EXCEPT ![b] = "gather"]
          /\ UNCHANGED todo
       \/ /\ b \notin interrupted /\ won # {}
          /\ Stop(todo[b])
          /\ main' = [main EXCEPT ![b] = "winner"]
          /\ UNCHANGED todo
       \/ /\ b \notin interrupted /\ ended # {} /\ won = {}
          /\ todo' = [todo EXCEPT ![b] = @ \ ended]
          /\ main' = [main EXCEPT ![b] = IF ended = todo[b] THEN "closing" ELSE "await"]
          /\ UNCHANGED <<cancel, body>>
    /\ interrupted' = interrupted \ {b}
    /\ UNCHANGED <<mode, expired, run, out, fired, resultVars, lockVars, cpu>>

\* The cancelled runs have ended; behind a winner the others' results are marked.
Gathered(b) ==
    /\ cpu = NoBus /\ main[b] \in {"gather", "winner"}
    /\ \A h \in HandlersFor[b] : run[h] = "ended"
    /\ IF main[b] = "winner" /\ b \notin interrupted
       THEN /\ Fail(HandlersFor[b], Cancelled)
            /\ main' = [main EXCEPT ![b] = "closing"]
       ELSE /\ main' = [main EXCEPT ![b] = "expiring"]
            /\ UNCHANGED resultVars
    /\ interrupted' = interrupted \ {b}
    /\ UNCHANGED <<mode, todo, expired, runVars, body, lockVars, cpu>>

\* The event's deadline passes: asyncio cancels whatever the task waits for.
EventTimer(b) ==
    /\ cpu = NoBus /\ main[b] \in {"await", "winner"}
    /\ "deadline" \in mode[b] /\ b \notin expired
    /\ expired' = expired \cup {b}
    /\ \/ /\ main[b] = "await" /\ ~(Parallel(b) /\ FirstWins(b)) /\ run[Head1(b)] # "ended"
          /\ cancel' = cancel \cup {Head1(b)}
          /\ UNCHANGED interrupted
       \/ /\ main[b] = "await" => Parallel(b) /\ (FirstWins(b) \/ run[Head1(b)] = "ended")
          /\ interrupted' = interrupted \cup {b}
          /\ UNCHANGED cancel
    /\ UNCHANGED <<mode, main, todo, run, out, fired, body, resultVars, lockVars, cpu>>

\* Mutant: results that never started are left as they are.
FinalizeStarted(b) ==
    /\ cpu = NoBus /\ main[b] = "expiring"
    /\ Fail({h \in Handler : result[h] = "started"}, [h \in Handler |-> "aborted"])
    /\ main' = [main EXCEPT ![b] = "done"]
    /\ UNCHANGED <<mode, todo, interrupted, expired, runVars, body, lockVars, cpu>>

\* _finalize_event_timeout: the results of all buses that are not settled.
Finalize(b) ==
    /\ cpu = NoBus /\ main[b] = "expiring"
    /\ Fail({h \in Handler : result[h] # "none"},
            [h \in Handler |-> IF result[h] = "pending" THEN "cancelled" ELSE "aborted"])
    /\ main' = [main EXCEPT ![b] = "done"]
    /\ UNCHANGED <<mode, todo, interrupted, expired, runVars, body, lockVars, cpu>>

Close(b) ==
    /\ cpu = NoBus /\ main[b] = "closing"
    /\ main' = [main EXCEPT ![b] = "done"]
    /\ UNCHANGED <<mode, todo, interrupted, expired, runVars, body, resultVars, lockVars, cpu>>

-----------------------------------------------------------------------------
(* run_handler *)

\* The first step of a run that has a task of its own.
FirstStep(h) ==
    /\ cpu = NoBus /\ run[h] = "created"
    /\ \/ /\ h \in cancel
          /\ run' = [run EXCEPT ![h] = "ended"]
          /\ out' = [out EXCEPT ![h] = "cancelled"]
          /\ UNCHANGED <<body, resultVars>>
       \/ h \notin cancel /\ (Call(h) \/ Skip(h))
    /\ UNCHANGED <<mode, mainVars, cancel, fired, lockVars, cpu>>

LockGranted(h) ==
    /\ cpu = NoBus /\ run[h] = "lock" /\ owner = h /\ h \notin cancel
    /\ \/ Call(h) /\ UNCHANGED <<lockVars, cpu>>
       \/ Skip(h) /\ Release(h) /\ BackToMain(h)
    /\ UNCHANGED <<mode, mainVars, cancel, fired>>

\* A cancelled waiter leaves the queue, or hands the lock on.
LockCancelled(h) ==
    /\ cpu = NoBus /\ run[h] = "lock" /\ h \in cancel
    /\ \/ owner = h /\ Release(h)
       \/ /\ owner # h
          /\ \E i \in 1..Len(waiting) :
                waiting[i] = h /\ waiting' = RemoveAt(waiting, i)
          /\ UNCHANGED owner
    /\ End(h, "cancelled") /\ BackToMain(h)
    /\ UNCHANGED <<mode, mainVars, cancel, fired, body>>

HandlerTimer(h) ==
    /\ cpu = NoBus /\ run[h] = "body" /\ Timed(h) /\ h \notin fired
    /\ fired' = fired \cup {h}
    /\ UNCHANGED <<mode, mainVars, run, out, cancel, body, resultVars, lockVars, cpu>>

\* Mutant: without a shield, a deadline waits for the body to stop.
ResumesUnshielded(h) == body[h] \in BodyResult \cup {"cancelled"}

\* What _call_handler waits for.
Resumes(h) == h \in cancel \cup fired \/ body[h] \in BodyResult \cup {"cancelled"}

\* The event's cancellation goes before the handler's own deadline, and both
\* before what the body has come to.
Outcome(h) ==
    IF h \in cancel THEN "cancelled" ELSE IF h \in fired THEN "timeout" ELSE body[h]

\* Mutant: a body that is abandoned is not stopped.
AbandonRunning(h, o) == UNCHANGED body

\* A body that is not waited for any longer is asked to stop.
Abandon(h, o) ==
    body' = [body EXCEPT ![h] = IF @ \in Alive /\ o \in {"cancelled", "timeout"} THEN "asked" ELSE @]

\* _call_handler resumes; a timeout is recorded at once (_on_handler_timeout).
Wake(h) ==
    /\ cpu = NoBus /\ run[h] = "body"
    /\ Resumes(h)
    /\ LET o == Outcome(h) IN
          /\ IF Unwinds
             THEN /\ run' = [run EXCEPT ![h] = "unwind"]
                  /\ out' = [out EXCEPT ![h] = o]
                  /\ IF o = "timeout"
                     THEN /\ result' = [result EXCEPT ![h] = "error"]
                          /\ error' = [error EXCEPT ![h] = "timeout"]
                     ELSE UNCHANGED resultVars
                  /\ UNCHANGED <<lockVars, cpu>>
             ELSE End(h, o) /\ Release(h) /\ BackToMain(h)
          /\ Abandon(h, o)
    /\ cancel' = cancel \ {h} /\ fired' = fired \ {h}
    /\ UNCHANGED <<mode, mainVars>>

\* The slow-handler monitor is gone; cancel_and_await has swallowed any request
\* that came meanwhile.
Unwound(h) ==
    /\ cpu = NoBus /\ run[h] = "unwind"
    /\ End(h, out[h]) /\ Release(h) /\ BackToMain(h)
    /\ cancel' = cancel \ {h}
    /\ UNCHANGED <<mode, mainVars, fired, body>>

-----------------------------------------------------------------------------
(* The handler's own task *)

BodyEnds(h) ==
    /\ cpu = NoBus /\ body[h] \in Alive
    /\ \E o \in BodyResult : body' = [body EXCEPT ![h] = o]
    /\ UNCHANGED <<mode, mainVars, runVars, resultVars, lockVars, cpu>>

\* The body gets its CancelledError, and may ignore it.  This is followed only
\* while somebody waits for the body: of one that was abandoned, "asked" stands
\* for all that it may still do.
BodyAsked(h) ==
    /\ cpu = NoBus /\ body[h] = "asked" /\ run[h] = "body"
    /\ \E o \in {"cancelled", "resists"} : body' = [body EXCEPT ![h] = o]
    /\ UNCHANGED <<mode, mainVars, runVars, resultVars, lockVars, cpu>>

\* The child events that a body emits now are taken (emit,
\* current_handler_context_is_stale).
Stale(h) == body[h] \in {"asked", "resists"} \/ error[h] \in {"timeout", "cancelled", "aborted"}
EmitsAccepted(h) == body[h] \in Alive \cup {"asked"} /\ ~Stale(h)

-----------------------------------------------------------------------------
Main(b) ==
    \/ Begin(b) \/ NextRun(b) \/ Returned(b) \/ AwaitAll(b) \/ AwaitFirst(b)
    \/ Gathered(b) \/ Finalize(b) \/ Close(b)
Run(h) == FirstStep(h) \/ LockGranted(h) \/ LockCancelled(h) \/ Wake(h) \/ Unwound(h)
Body(h) == BodyEnds(h) \/ BodyAsked(h)

Next ==
    \/ \E b \in Bus : Main(b) \/ EventTimer(b)
    \/ \E h \in Handler : Run(h) \/ HandlerTimer(h) \/ Body(h)

Spec == Init /\ [][Next]_vars

\* asyncio runs what is ready and fires timers that are due.  Handlers need not
\* return.
Fairness ==
    /\ \A b \in Bus : WF_vars(Main(b)) /\ WF_vars(EventTimer(b))
    /\ \A h \in Handler : WF_vars(Run(h)) /\ WF_vars(HandlerTimer(h))
FairSpec == Spec /\ Fairness

-----------------------------------------------------------------------------
(* Properties *)

TypeOK ==
    /\ mode \in [Bus -> Mode]
    /\ main \in [Bus -> {"new", "next", "await", "gather", "winner", "closing", "expiring", "done"}]
    /\ todo \in [Bus -> SUBSET Handler]
    /\ interrupted \subseteq Bus /\ expired \subseteq Bus
    /\ run \in [Handler -> {"idle", "created", "lock", "body", "unwind", "ended"}]
    /\ out \in [Handler -> {"none", "skipped", "timeout", "cancelled"} \cup BodyResult]
    /\ cancel \subseteq Handler /\ fired \subseteq Handler
    /\ body \in [Handler -> {"none", "asked", "cancelled"} \cup Alive \cup BodyResult]
    /\ result \in [Handler -> {"none", "pending", "started"} \cup Settled]
    /\ error \in [Handler -> {"none", "failed", "timeout", "cancelled", "aborted"}]
    /\ owner \in Handler \cup {NoHandler} /\ waiting \in Seq(Handler)
    /\ cpu \in Bus \cup {NoBus}

\* When a bus is done with the event, all its results are settled, whatever was
\* cancelled, skipped or never begun (the caller then looks for completion).
DoneMeansSettled ==
    \A b \in Bus : main[b] = "done" => \A h \in HandlersFor[b] : result[h] \in Settled

\* When a bus is done with the event, each of its handlers has returned or has
\* been asked to stop (_call_handler's finally).
NoneLeftRunning ==
    \A b \in Bus : main[b] = "done" => \A h \in HandlersFor[b] : body[h] # "run"

\* A result is marked as cancelled only when another handler of its bus won or
\* a deadline passed.
CancelledForReason ==
    \A b \in Bus : \A h \in HandlersFor[b] : error[h] = "cancelled" =>
        expired # {} \/ (FirstWins(b) /\ \E g \in HandlersFor[b] : Winning(g))

\* Serial handlers never overlap, on one bus or on several.
SerialBodies ==
    \A a, b \in Bus : ~Parallel(a) /\ ~Parallel(b) =>
        \A g \in HandlersFor[a], h \in HandlersFor[b] :
            run[g] \in {"body", "unwind"} /\ run[h] \in {"body", "unwind"} => g = h

\* Once a result is settled, what the handler still does is not accepted: the
\* result stays, unless another bus's deadline settled it while the handler ran.
LateResultsIgnored ==
    [][\A b \in Bus : \A h \in HandlersFor[b] :
          result[h] \in Settled /\ expired \subseteq {b}
          => result'[h] = result[h] /\ error'[h] = error[h]]_vars

\* Nor are the child events that it emits.
LateEmitsIgnored == \A h \in Handler : EmitsAccepted(h) => result[h] = "started"

\* With deadlines on all handlers, every bus is done with the event in the end,
\* though handlers hang or ignore cancellation.
AllTimed == \A h \in Handler : Timed(h)
DeadlinesEndEvents == AllTimed => <>(\A b \in Bus : main[b] = "done")
=============================================================================
