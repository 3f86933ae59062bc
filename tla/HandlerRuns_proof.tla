------------------------ MODULE HandlerRuns_proof ------------------------
(***************************************************************************)
(* Proofs about HandlerRuns, for any buses, handlers and modes: types, one *)
(* serial handler at a time, and that a bus that is done with the event    *)
(* has all results settled and no handler running.                         *)
(***************************************************************************)
EXTENDS HandlerRuns, SequenceLemmas

-----------------------------------------------------------------------------
(* The inductive invariant *)

Ending == BodyResult \cup {"timeout", "cancelled"}
Live == {"created", "lock", "body", "unwind"}
Undisturbed == {"none", "run"} \cup BodyResult

MainTypes ==
    /\ mode \in [Bus -> Mode]
    /\ main \in [Bus -> {"new", "next", "await", "gather", "winner", "closing", "expiring", "done"}]
    /\ todo \in [Bus -> SUBSET Handler]
    /\ interrupted \subseteq Bus /\ expired \subseteq Bus
RunTypes ==
    /\ run \in [Handler -> {"idle", "created", "lock", "body", "unwind", "ended"}]
    /\ out \in [Handler -> {"none", "skipped", "timeout", "cancelled"} \cup BodyResult]
    /\ cancel \subseteq Handler /\ fired \subseteq Handler
    /\ body \in [Handler -> {"none", "asked", "cancelled"} \cup Alive \cup BodyResult]
ResultTypes ==
    /\ result \in [Handler -> {"none", "pending", "started"} \cup Settled]
    /\ error \in [Handler -> {"none", "failed", "timeout", "cancelled", "aborted"}]
LockTypes ==
    /\ owner \in Handler \cup {NoHandler} /\ waiting \in Seq(Handler)
    /\ cpu \in Bus \cup {NoBus}

\* What _call_handler came to is known while the monitor is awaited.
UnwindingHasOutcome == \A h \in Handler : run[h] = "unwind" => out[h] \in Ending

\* A bus has results exactly for the handlers of the buses that have begun.
BegunHasResults ==
    \A b \in Bus : \A h \in HandlersFor[b] :
        /\ main[b] = "new" => result[h] = "none" /\ run[h] = "idle" /\ out[h] = "none"
                              /\ body[h] = "none" /\ h \notin cancel
        /\ main[b] # "new" => result[h] # "none"

\* A run that has ended left a settled result, unless it was cancelled in a task
\* of its own before its first step.
EndedIsSettled ==
    \A b \in Bus : \A h \in HandlersFor[b] : run[h] = "ended" =>
        result[h] \in Settled \/ (out[h] = "cancelled" /\ Parallel(b))

\* While first results are awaited no run has been cancelled.
AwaitFirstUndisturbed ==
    \A b \in Bus : main[b] = "await" /\ Parallel(b) /\ FirstWins(b) =>
        \A h \in HandlersFor[b] :
            /\ h \notin cancel /\ out[h] # "cancelled"
            /\ run[h] = "body" => body[h] \in Undisturbed

\* What has left todo is over.
TodoIsOpen ==
    \A b \in Bus :
        /\ todo[b] \subseteq HandlersFor[b]
        /\ main[b] = "await" => todo[b] # {}
        /\ main[b] \in {"next", "await"} =>
               \A h \in HandlersFor[b] \ todo[b] : result[h] \in Settled /\ run[h] \notin Live

\* A serial bus runs the handler at the head of todo, and no other.
SerialRunsHead ==
    \A b \in Bus : ~Parallel(b) =>
        /\ \A h \in HandlersFor[b] :
               /\ run[h] # "created"
               /\ run[h] \in Live => main[b] = "await" /\ h = Head1(b)
        /\ main[b] \notin {"gather", "winner"}
        /\ main[b] = "next" => \A h \in todo[b] : run[h] = "idle"
        /\ main[b] = "await" => \A h \in todo[b] : run[h] = "idle" \/ h = Head1(b)
        /\ cpu = b /\ main[b] = "await" => run[Head1(b)] = "ended"
OnCpuIsSerial ==
    \A b \in Bus : cpu = b => ~Parallel(b) /\ main[b] \in {"next", "await"}

\* When a bus only has to close, its handlers are over.
ClosingIsOver ==
    \A b \in Bus : main[b] \in {"closing", "expiring", "done"} =>
        \A h \in HandlersFor[b] :
            run[h] \notin Live /\ (main[b] # "expiring" => result[h] \in Settled)

\* A serial handler runs under the event's handler lock.
RunsUnderLock ==
    \A b \in Bus : ~Parallel(b) =>
        \A h \in HandlersFor[b] : run[h] \in {"body", "unwind"} => owner = h

\* A body that was not asked to stop is waited for, and its result is open or
\* was settled by a deadline.
RunningIsAwaited ==
    \A h \in Handler : body[h] = "run" =>
        run[h] = "body" /\ (result[h] = "started" \/ error[h] \in {"cancelled", "aborted"})

\* Nothing is cancelled before the deadline, but for the losers of a first result.
Asked(h) == h \in cancel \/ out[h] = "cancelled" \/ (run[h] = "body" /\ body[h] \notin Undisturbed)
CancelledByDeadline ==
    /\ interrupted \subseteq expired
    /\ \A b \in Bus :
           /\ main[b] \in {"gather", "expiring"} => b \in expired
           /\ \A h \in HandlersFor[b] : Asked(h) => b \in expired \/ (Parallel(b) /\ FirstWins(b))

\* A result is open until its run is over, unless another bus's deadline has
\* settled it or its own deadline has just done so.
OtherExpired(b) == \E a \in expired : a # b
TimedOut(h) ==
    run[h] = "unwind" /\ out[h] = "timeout" /\ result[h] = "error" /\ error[h] = "timeout"
OpenUntilOver ==
    \A b \in Bus : main[b] \in {"next", "await", "gather", "winner"} =>
        \A h \in HandlersFor[b] :
            result[h] \in Settled /\ (run[h] \in Live \/ (run[h] = "idle" /\ h \in todo[b]))
            => OtherExpired(b) \/ TimedOut(h)

\* A result with a value is that of a run that has ended, and stays.
CompletedIsEnded == \A h \in Handler : result[h] = "completed" => run[h] = "ended"

\* The losers are cancelled for a winner.
WinnerIsKnown ==
    \A b \in Bus : main[b] = "winner" => FirstWins(b) /\ \E g \in HandlersFor[b] : Winning(g)

IInv ==
    /\ TypeOK /\ UnwindingHasOutcome /\ BegunHasResults /\ EndedIsSettled
    /\ AwaitFirstUndisturbed /\ TodoIsOpen /\ SerialRunsHead /\ OnCpuIsSerial
    /\ ClosingIsOver /\ RunsUnderLock /\ RunningIsAwaited
    /\ CancelledByDeadline /\ OpenUntilOver /\ CompletedIsEnded /\ WinnerIsKnown
    /\ CancelledForReason

-----------------------------------------------------------------------------
(* Lemmas about handlers, todo and the lock's queue *)

\* Each handler is on one bus.
LEMMA BusFacts ==
    /\ \A b \in Bus : HandlersFor[b] \subseteq Handler /\ HandlersFor[b] # {}
    /\ \A b \in Bus : \A h \in HandlersFor[b] : BusOf(h) = b
    /\ \A h \in Handler : BusOf(h) \in Bus /\ h \in HandlersFor[BusOf(h)]
<1>1. \A b \in Bus : HandlersFor[b] \subseteq Handler /\ HandlersFor[b] # {}
  <2>1. ASSUME NEW b \in Bus PROVE HandlersFor[b] \in (SUBSET Handler) \ {{}}
    BY BusAssumption
  <2> QED
    BY <2>1
<1>2. \A h \in Handler : BusOf(h) \in Bus /\ h \in HandlersFor[BusOf(h)]
  BY BusAssumption DEF BusOf
<1>3. ASSUME NEW b \in Bus, NEW h \in HandlersFor[b] PROVE BusOf(h) = b
  BY <1>1, <1>2, BusAssumption
<1> QED
  BY <1>1, <1>2, <1>3

\* The serial loop takes one of the handlers it has not run.
LEMMA HeadIsOpen ==
    ASSUME TypeOK, NEW b \in Bus, todo[b] # {}
    PROVE  Head1(b) \in todo[b] /\ Head1(b) \in Handler
<1>1. todo[b] \subseteq Handler
  BY DEF TypeOK
<1> DEFINE T == {Rank[h] : h \in todo[b]}
<1>2. T \subseteq Nat /\ T # {}
  BY <1>1, RankAssumption
<1>3. \E m \in T : \A n \in T : m <= n
  BY <1>2, Least
<1>4. \E h \in todo[b] : \A g \in todo[b] : Rank[h] <= Rank[g]
  BY <1>3
<1> QED
  BY <1>1, <1>4 DEF Head1

\* It stays the same while todo does.
LEMMA HeadStays ==
    ASSUME NEW b \in Bus, todo'[b] = todo[b]
    PROVE  Head1(b)' = Head1(b)
BY DEF Head1

\* The operations on the lock's queue give queues.
LEMMA QueueTypes ==
    ASSUME NEW s \in Seq(Handler)
    PROVE  /\ \A h \in Handler : Append(s, h) \in Seq(Handler)
           /\ s # <<>> => Head(s) \in Handler /\ Tail(s) \in Seq(Handler)
           /\ \A i \in 1..Len(s) : RemoveAt(s, i) \in Seq(Handler)
<1>1. \A i \in 1..Len(s) : RemoveAt(s, i) \in Seq(Handler)
  BY RemoveAtOfSeq
<1> QED
  BY <1>1
LEMMA ReleaseTypes ==
    ASSUME TypeOK, NEW h \in Handler, Release(h)
    PROVE  owner' \in Handler \cup {NoHandler} /\ waiting' \in Seq(Handler)
BY QueueTypes DEF TypeOK, Release, lockVars

LEMMA BackToMainType ==
    ASSUME NEW h \in Handler, BackToMain(h)
    PROVE  cpu' \in Bus \cup {NoBus}
BY BusFacts DEF BackToMain

-----------------------------------------------------------------------------
\* A bus that begins gives results to its own handlers only.
LEMMA BeginKeeps ==
    ASSUME IInv, NEW b \in Bus, Begin(b)
    PROVE  IInv'
<1>0. \A g \in Handler : Winning(g) => Winning(g)'
  BY DEF IInv, Begin, Winning, BegunHasResults
<1>1. TypeOK'
  <2>1. MainTypes'
    BY BusFacts
       DEF IInv, TypeOK, Begin, mainVars, runVars, resultVars, lockVars,
         MainTypes, Mode
  <2>2. RunTypes'
    BY DEF IInv, TypeOK, Begin, RunTypes
  <2>3. ResultTypes'
    BY DEF IInv, TypeOK, Begin, ResultTypes
  <2>4. LockTypes'
    BY DEF IInv, TypeOK, Begin, lockVars, LockTypes
  <2> QED
    BY <2>1, <2>2, <2>3, <2>4
       DEF TypeOK, MainTypes, RunTypes, ResultTypes, LockTypes
<1>2. UnwindingHasOutcome'
  BY DEF IInv, Begin, UnwindingHasOutcome
<1>3. BegunHasResults'
  BY BusFacts DEF IInv, Begin, TypeOK, BegunHasResults
<1>4. EndedIsSettled'
  BY BusAssumption DEF IInv, Begin, EndedIsSettled, BegunHasResults, Parallel
<1>5. AwaitFirstUndisturbed'
  <2> SUFFICES ASSUME NEW c \in Bus, main'[c] = "await", Parallel(c), FirstWins(c),
                      NEW h \in HandlersFor[c]
               PROVE  /\ h \notin cancel' /\ out'[h] # "cancelled"
                      /\ run'[h] = "body" => body'[h] \in Undisturbed
    BY DEF AwaitFirstUndisturbed, Begin, Parallel, FirstWins
  <2>1. CASE c = b
    BY <2>1, BusFacts DEF IInv, BegunHasResults, Begin
  <2>2. CASE c # b
    <3>1. h \notin HandlersFor[b] /\ h \in Handler
      BY <2>2, BusFacts
    <3>2. run'[h] = run[h] /\ main'[c] = main[c]
      BY <2>2, <3>1 DEF IInv, TypeOK, Begin
    <3> QED
      BY <3>2 DEF IInv, AwaitFirstUndisturbed, Begin
  <2> QED
    BY <2>1, <2>2
<1>6. TodoIsOpen'
  BY BusFacts DEF IInv, Begin, TypeOK, TodoIsOpen
<1>7. SerialRunsHead'
  BY BusAssumption, BusFacts, HeadStays
     DEF IInv, Begin, TypeOK, SerialRunsHead, BegunHasResults, TodoIsOpen,
       Parallel
<1>8. OnCpuIsSerial'
  BY DEF IInv, Begin, TypeOK, OnCpuIsSerial, Parallel
<1>9. ClosingIsOver'
  BY BusFacts
     DEF IInv, Begin, TypeOK, ClosingIsOver, BegunHasResults, TodoIsOpen,
       SerialRunsHead, Settled, Parallel, FirstWins
<1>10. RunsUnderLock'
  BY BusFacts DEF IInv, Begin, lockVars, TypeOK, RunsUnderLock, Parallel
<1>11. RunningIsAwaited'
  BY DEF IInv, Begin, RunningIsAwaited, BegunHasResults
<1>12. CancelledByDeadline'
  BY BusFacts
     DEF IInv, Begin, TypeOK, CancelledByDeadline, Asked, Parallel, FirstWins
<1>13. OpenUntilOver'
  BY BusFacts
     DEF IInv, Begin, TypeOK, OpenUntilOver, OtherExpired, TimedOut, Settled
<1>14. CompletedIsEnded'
  BY DEF IInv, Begin, CompletedIsEnded
<1>15. WinnerIsKnown'
  BY <1>0, BusFacts DEF IInv, Begin, TypeOK, WinnerIsKnown, FirstWins
<1>16. CancelledForReason'
  BY <1>0, BusFacts DEF IInv, Begin, CancelledForReason, FirstWins
<1> QED
  BY <1>1, <1>2, <1>3, <1>4, <1>5, <1>6, <1>7, <1>8, <1>9, <1>10, <1>11, <1>12,
    <1>13, <1>14, <1>15, <1>16
     DEF IInv

\* The serial loop runs its head only when the lock is free.
LEMMA NextRunKeeps ==
    ASSUME IInv, NEW b \in Bus, NextRun(b)
    PROVE  IInv'
<1>0. \A g \in Handler : Winning(g) => Winning(g)'
  <2>1. CASE todo[b] = {}
    BY <2>1 DEF NextRun, Winning, resultVars
  <2>2. CASE todo[b] # {}
    <3> DEFINE h == Head1(b)
    <3>1. h \in Handler /\ run[h] = "idle"
      BY <2>2, HeadIsOpen DEF IInv, NextRun, SerialRunsHead, OnCpuIsSerial
    <3>2. result[h] # "completed"
      BY <3>1 DEF IInv, CompletedIsEnded
    <3>3. Call(h) \/ Skip(h) \/ UNCHANGED <<out, resultVars>>
      BY <2>2 DEF NextRun
    <3> HIDE DEF h
    <3> QED
      BY <3>1, <3>2, <3>3 DEF IInv, TypeOK, Call, Skip, Winning, resultVars
  <2> QED
    BY <2>1, <2>2
<1>1. TypeOK'
  <2>1. MainTypes'
    BY DEF IInv, TypeOK, NextRun, MainTypes
  <2>2. RunTypes'
    <3>1. CASE todo[b] = {}
      BY <3>1 DEF IInv, TypeOK, RunTypes, NextRun
    <3>2. CASE todo[b] # {}
      <4> DEFINE h == Head1(b)
      <4>1. h \in Handler
        BY <3>2, HeadIsOpen DEF IInv
      <4>2. Call(h) \/ Skip(h) \/ (run' = [run EXCEPT ![h] = "lock"] /\ UNCHANGED <<out, body, resultVars>>)
        BY <3>2 DEF NextRun
      <4>3. cancel' = cancel /\ fired' = fired
        BY DEF NextRun
      <4> HIDE DEF h
      <4> QED
        BY <4>1, <4>2, <4>3
           DEF IInv, TypeOK, RunTypes, Call, Skip, resultVars, Alive
    <3> QED
      BY <3>1, <3>2
  <2>3. ResultTypes'
    BY DEF IInv, TypeOK, NextRun, Call, Skip, resultVars, ResultTypes
  <2>4. LockTypes'
    <3>1. cpu' \in Bus \cup {NoBus}
      BY DEF IInv, TypeOK, NextRun
    <3>2. CASE todo[b] = {}
      BY <3>1, <3>2 DEF IInv, TypeOK, LockTypes, NextRun, lockVars
    <3>3. CASE todo[b] # {}
      <4>1. Head1(b) \in Handler
        BY <3>3, HeadIsOpen DEF IInv
      <4>2. Append(waiting, Head1(b)) \in Seq(Handler)
        BY <4>1 DEF IInv, TypeOK
      <4> QED
        BY <3>1, <3>3, <4>1, <4>2
           DEF IInv, TypeOK, LockTypes, NextRun, lockVars
    <3> QED
      BY <3>2, <3>3
  <2> QED
    BY <2>1, <2>2, <2>3, <2>4
       DEF TypeOK, MainTypes, RunTypes, ResultTypes, LockTypes
<1>2. UnwindingHasOutcome'
  BY DEF IInv, NextRun, Call, Skip, TypeOK, UnwindingHasOutcome
<1>3. BegunHasResults'
  BY BusFacts, HeadIsOpen
     DEF IInv, NextRun, Call, Skip, resultVars, TypeOK, BegunHasResults,
       TodoIsOpen
<1>4. EndedIsSettled'
  BY BusAssumption
     DEF IInv, NextRun, Call, Skip, resultVars, TypeOK, EndedIsSettled,
       Parallel
<1>5. AwaitFirstUndisturbed'
  BY BusAssumption
     DEF IInv, NextRun, Call, Skip, TypeOK, AwaitFirstUndisturbed,
       OnCpuIsSerial, Parallel, FirstWins, Undisturbed
<1>6. TodoIsOpen'
  <2> DEFINE h == Head1(b)
  <2>1. todo' = todo /\ main' = [main EXCEPT ![b] = IF todo[b] = {} THEN "closing" ELSE "await"]
    BY DEF IInv, TypeOK, NextRun
  <2>2. main[b] = "next"
    BY DEF NextRun
  <2>3. ASSUME NEW c \in Bus, NEW g \in HandlersFor[c] \ todo[c]
        PROVE  run'[g] = run[g] /\ result'[g] = result[g]
    <3>1. CASE todo[b] = {}
      BY <3>1 DEF NextRun, resultVars
    <3>2. CASE todo[b] # {}
      <4>1. h \in todo[b] /\ h \in HandlersFor[b]
        BY <3>2, HeadIsOpen DEF IInv, TodoIsOpen
      <4>2. g # h /\ g \in Handler
        BY <2>3, <4>1, BusFacts
      <4> HIDE DEF h
      <4>3. Call(h) \/ Skip(h) \/ (run' = [run EXCEPT ![h] = "lock"] /\ UNCHANGED resultVars)
        BY <3>2 DEF NextRun, h, resultVars
      <4> QED
        BY <4>1, <4>2, <4>3 DEF IInv, TypeOK, Call, Skip, resultVars
    <3> QED
      BY <3>1, <3>2
  <2> QED
    BY <2>1, <2>2, <2>3 DEF IInv, TodoIsOpen
<1>7. SerialRunsHead'
  BY BusAssumption, BusFacts, HeadIsOpen, HeadStays
     DEF IInv, NextRun, Call, Skip, LockFree, TypeOK, SerialRunsHead,
       TodoIsOpen, Parallel
<1>8. OnCpuIsSerial'
  BY BusAssumption DEF IInv, NextRun, TypeOK, OnCpuIsSerial, Parallel
<1>9. ClosingIsOver'
  BY BusAssumption, HeadIsOpen
     DEF IInv, NextRun, Call, Skip, LockFree, resultVars, TypeOK,
       ClosingIsOver, TodoIsOpen, Settled
<1>10. RunsUnderLock'
  BY BusAssumption
     DEF IInv, NextRun, Call, Skip, LockFree, lockVars, TypeOK, RunsUnderLock,
       Parallel
<1>11. RunningIsAwaited'
  BY HeadIsOpen
     DEF IInv, NextRun, Call, Skip, LockFree, resultVars, lockVars, TypeOK,
       RunningIsAwaited, BegunHasResults, SerialRunsHead, OnCpuIsSerial
<1>12. CancelledByDeadline'
  BY BusFacts
     DEF IInv, NextRun, Call, Skip, TypeOK, CancelledByDeadline, TodoIsOpen,
       Asked, Undisturbed, Live, Parallel, FirstWins
<1>13. OpenUntilOver'
  BY BusAssumption, BusFacts, HeadIsOpen
     DEF IInv, NextRun, Call, Skip, resultVars, TypeOK, OpenUntilOver,
       ClosingIsOver, SerialRunsHead, TodoIsOpen, OnCpuIsSerial, OtherExpired,
       TimedOut, Settled
<1>14. CompletedIsEnded'
  BY HeadIsOpen
     DEF IInv, NextRun, Call, Skip, resultVars, TypeOK, CompletedIsEnded,
       SerialRunsHead, OnCpuIsSerial
<1>15. WinnerIsKnown'
  BY <1>0, BusFacts DEF IInv, NextRun, TypeOK, WinnerIsKnown, FirstWins
<1>16. CancelledForReason'
  BY <1>0, BusFacts
     DEF IInv, NextRun, Call, Skip, resultVars, CancelledForReason, FirstWins
<1> QED
  BY <1>1, <1>2, <1>3, <1>4, <1>5, <1>6, <1>7, <1>8, <1>9, <1>10, <1>11, <1>12,
    <1>13, <1>14, <1>15, <1>16
     DEF IInv

\* What the serial loop leaves behind is settled.
LEMMA ReturnedKeeps ==
    ASSUME IInv, NEW b \in Bus, Returned(b)
    PROVE  IInv'
<1>0. \A g \in Handler : Winning(g) => Winning(g)'
  <2>1. \A g \in Handler : result[g] = "completed" =>
            result'[g] = result[g] /\ error'[g] = error[g]
    BY DEF IInv, TypeOK, Returned, Fail, resultVars
  <2>2. out' = out
    BY DEF Returned, runVars
  <2> QED
    BY <2>1, <2>2 DEF Winning
<1>1. TypeOK'
  <2>1. MainTypes'
    BY DEF IInv, TypeOK, Returned, Winning, MainTypes
  <2>2. RunTypes'
    BY DEF IInv, TypeOK, Returned, runVars, RunTypes
  <2>3. ResultTypes'
    BY DEF IInv, TypeOK, Returned, Fail, Cancelled, resultVars, ResultTypes,
        Settled
  <2>4. LockTypes'
    BY DEF IInv, TypeOK, Returned, lockVars, LockTypes
  <2> QED
    BY <2>1, <2>2, <2>3, <2>4
       DEF TypeOK, MainTypes, RunTypes, ResultTypes, LockTypes
<1>2. UnwindingHasOutcome'
  BY DEF IInv, Returned, runVars, UnwindingHasOutcome
<1>3. BegunHasResults'
  BY BusAssumption
     DEF IInv, Returned, Fail, runVars, resultVars, TypeOK, BegunHasResults,
       TodoIsOpen
<1>4. EndedIsSettled'
  BY BusFacts
     DEF IInv, Returned, Fail, runVars, resultVars, EndedIsSettled, Parallel
<1>5. AwaitFirstUndisturbed'
  BY DEF IInv, Returned, runVars, TypeOK, AwaitFirstUndisturbed, Parallel,
      FirstWins
<1>6. TodoIsOpen'
  <2>1. ~Parallel(b) /\ Head1(b) \in todo[b] /\ run[Head1(b)] = "ended"
    BY HeadIsOpen DEF IInv, Returned, TodoIsOpen, SerialRunsHead, OnCpuIsSerial
  <2>2. \A h \in Handler : result[h] \in Settled => result'[h] \in Settled
    BY DEF Returned, Fail, resultVars
  <2>3. todo'[b] \subseteq todo[b] /\ main'[b] # "await" /\ run' = run
    BY DEF IInv, TypeOK, Returned, runVars
  <2>4. ASSUME main'[b] = "next", NEW h \in HandlersFor[b] \ todo'[b]
        PROVE  result'[h] \in Settled /\ run'[h] \notin Live
    <3>1. out[Head1(b)] # "cancelled" /\ todo'[b] = todo[b] \ {Head1(b)}
      BY <2>4 DEF IInv, TypeOK, Returned
    <3>2. CASE h = Head1(b)
      BY <2>1, <2>2, <2>3, <3>1, <3>2, BusFacts DEF IInv, EndedIsSettled, Live
    <3>3. CASE h # Head1(b)
      BY <2>2, <2>3, <3>1, <3>3, BusFacts DEF IInv, TodoIsOpen, Returned
    <3> QED
      BY <3>2, <3>3
  <2>5. ASSUME NEW c \in Bus, c # b
        PROVE  todo'[c] = todo[c] /\ main'[c] = main[c]
    BY <2>5 DEF IInv, TypeOK, Returned
  <2> QED
    BY <2>2, <2>3, <2>4, <2>5, BusFacts DEF IInv, TodoIsOpen
<1>7. SerialRunsHead'
  BY BusAssumption, HeadStays
     DEF IInv, Returned, runVars, TypeOK, SerialRunsHead, Live, Parallel
<1>8. OnCpuIsSerial'
  BY BusAssumption DEF IInv, Returned, TypeOK, OnCpuIsSerial, Parallel
<1>9. ClosingIsOver'
  <2> DEFINE h == Head1(b)
  <2>1. ~Parallel(b) /\ h \in todo[b] /\ run[h] = "ended" /\ main[b] = "await"
    BY HeadIsOpen DEF IInv, Returned, TodoIsOpen, SerialRunsHead, OnCpuIsSerial
  <2>2. \A g \in Handler : result[g] \in Settled => result'[g] \in Settled
    BY DEF Returned, Fail, resultVars
  <2>3. \A g \in HandlersFor[b] : run'[g] \notin Live
    BY <2>1 DEF IInv, SerialRunsHead, Returned, Live, runVars
  <2>4. ASSUME main'[b] = "closing", NEW g \in HandlersFor[b]
        PROVE  result'[g] \in Settled
    <3>1. Winning(h) /\ Fail(todo[b] \ {h}, Cancelled)
      BY <2>4 DEF IInv, TypeOK, Returned, Stops
    <3>2. CASE g = h
      BY <2>2, <3>1, <3>2, BusFacts DEF Winning, Settled
    <3>3. CASE g \in todo[b] \ {h}
      BY <3>1, <3>3, BusFacts DEF Fail, Settled
    <3>4. CASE g \notin todo[b]
      BY <2>1, <2>2, <3>4, BusFacts DEF IInv, TodoIsOpen
    <3> QED
      BY <3>2, <3>3, <3>4
  <2>5. main'[b] # "done" /\ \A c \in Bus : c # b => main'[c] = main[c]
    BY DEF IInv, TypeOK, Returned
  <2>6. run' = run
    BY DEF Returned, runVars
  <2> HIDE DEF h
  <2> QED
    BY <2>2, <2>3, <2>4, <2>5, <2>6, BusFacts DEF IInv, ClosingIsOver
<1>10. RunsUnderLock'
  BY DEF IInv, Returned, runVars, lockVars, RunsUnderLock, Parallel
<1>11. RunningIsAwaited'
  BY DEF IInv, Returned, Fail, Cancelled, runVars, resultVars, RunningIsAwaited
<1>12. CancelledByDeadline'
  BY HeadIsOpen
     DEF IInv, Returned, runVars, TypeOK, CancelledByDeadline, OnCpuIsSerial,
       TodoIsOpen, Asked, Parallel, FirstWins
<1>13. OpenUntilOver'
  BY BusFacts
     DEF IInv, Returned, Fail, runVars, resultVars, lockVars, TypeOK,
       OpenUntilOver, BegunHasResults, SerialRunsHead, TodoIsOpen,
       OtherExpired, TimedOut
<1>14. CompletedIsEnded'
  BY DEF IInv, Returned, Fail, runVars, resultVars, CompletedIsEnded
<1>15. WinnerIsKnown'
  BY <1>0, BusFacts DEF IInv, Returned, Stops, TypeOK, WinnerIsKnown, FirstWins
<1>16. CancelledForReason'
  <2> DEFINE h == Head1(b)
  <2>1. h \in todo[b] /\ todo[b] \subseteq HandlersFor[b]
    BY HeadIsOpen DEF IInv, Returned, TodoIsOpen
  <2>2. expired' = expired /\ mode' = mode
    BY DEF Returned
  <2>3. CASE UNCHANGED resultVars
    <3>1. error' = error
      BY <2>3 DEF resultVars
    <3> QED
      BY <1>0, <2>2, <3>1, BusFacts DEF IInv, CancelledForReason, FirstWins
  <2>4. CASE Stops(b, h) /\ Fail(todo[b] \ {h}, Cancelled)
    <3>1. FirstWins(b) /\ Winning(h) /\ h \in HandlersFor[b]
      BY <2>1, <2>4 DEF Stops
    <3>2. \A g \in Handler : g \notin HandlersFor[b] => error'[g] = error[g]
      BY <2>1, <2>4 DEF IInv, TypeOK, Fail
    <3>3. \A c \in Bus, g \in Handler : c # b /\ g \in HandlersFor[c] => g \notin HandlersFor[b]
      BY BusFacts
    <3> HIDE DEF h
    <3> QED
      BY <1>0, <2>2, <3>1, <3>2, <3>3, BusFacts
         DEF IInv, CancelledForReason, FirstWins
  <2> QED
    BY <2>3, <2>4 DEF Returned
<1> QED
  BY <1>1, <1>2, <1>3, <1>4, <1>5, <1>6, <1>7, <1>8, <1>9, <1>10, <1>11, <1>12,
    <1>13, <1>14, <1>15, <1>16
     DEF IInv

\* What is taken from todo has ended; all are cancelled together.
LEMMA AwaitAllKeeps ==
    ASSUME IInv, NEW b \in Bus, AwaitAll(b)
    PROVE  IInv'
<1>0. \A g \in Handler : Winning(g) => Winning(g)'
  BY DEF AwaitAll, Winning, resultVars
<1>1. TypeOK'
  <2>1. MainTypes'
    BY DEF IInv, TypeOK, AwaitAll, MainTypes
  <2>2. RunTypes'
    <3>1. CASE Stop(HandlersFor[b])
      BY <3>1, BusFacts DEF IInv, TypeOK, RunTypes, AwaitAll, Stop
    <3>2. CASE UNCHANGED <<cancel, body>>
      BY <3>2 DEF IInv, TypeOK, RunTypes, AwaitAll
    <3> QED
      BY <3>1, <3>2 DEF AwaitAll
  <2>3. ResultTypes'
    BY DEF IInv, TypeOK, AwaitAll, resultVars, ResultTypes
  <2>4. LockTypes'
    BY DEF IInv, TypeOK, AwaitAll, lockVars, LockTypes
  <2> QED
    BY <2>1, <2>2, <2>3, <2>4
       DEF TypeOK, MainTypes, RunTypes, ResultTypes, LockTypes
<1>2. UnwindingHasOutcome'
  BY DEF IInv, AwaitAll, UnwindingHasOutcome
<1>3. BegunHasResults'
  BY BusAssumption
     DEF IInv, AwaitAll, Stop, resultVars, TypeOK, BegunHasResults
<1>4. EndedIsSettled'
  BY DEF IInv, AwaitAll, resultVars, EndedIsSettled, Parallel
<1>5. AwaitFirstUndisturbed'
  <2> SUFFICES ASSUME NEW c \in Bus, main'[c] = "await", Parallel(c), FirstWins(c),
                      NEW h \in HandlersFor[c]
               PROVE  /\ h \notin cancel' /\ out'[h] # "cancelled"
                      /\ run'[h] = "body" => body'[h] \in Undisturbed
    BY DEF AwaitFirstUndisturbed, AwaitAll, Parallel, FirstWins
  <2>1. c # b
    BY DEF AwaitAll, FirstWins
  <2>2. h \notin HandlersFor[b] /\ h \in Handler
    BY <2>1, BusFacts
  <2>3. main'[c] = main[c] /\ run' = run /\ out' = out
    BY <2>1 DEF IInv, TypeOK, AwaitAll
  <2>4. (h \in cancel' <=> h \in cancel) /\ body'[h] = body[h]
    BY <2>2 DEF AwaitAll, Stop
  <2> QED
    BY <2>3, <2>4 DEF IInv, AwaitFirstUndisturbed
<1>6. TodoIsOpen'
  BY HeadIsOpen
     DEF IInv, AwaitAll, resultVars, TypeOK, TodoIsOpen, EndedIsSettled,
       AwaitFirstUndisturbed, Live
<1>7. SerialRunsHead'
  BY HeadStays DEF IInv, AwaitAll, TypeOK, SerialRunsHead, Parallel
<1>8. OnCpuIsSerial'
  BY BusAssumption DEF AwaitAll, OnCpuIsSerial
<1>9. ClosingIsOver'
  BY DEF IInv, AwaitAll, resultVars, TypeOK, ClosingIsOver, EndedIsSettled,
      TodoIsOpen, Live
<1>10. RunsUnderLock'
  BY DEF IInv, AwaitAll, lockVars, RunsUnderLock, Parallel
<1>11. RunningIsAwaited'
  BY DEF IInv, AwaitAll, Stop, resultVars, RunningIsAwaited
<1>12. CancelledByDeadline'
  BY BusFacts, HeadIsOpen
     DEF IInv, AwaitAll, Stop, TypeOK, CancelledByDeadline, TodoIsOpen, Asked,
       Parallel, FirstWins
<1>13. OpenUntilOver'
  BY DEF IInv, AwaitAll, resultVars, TypeOK, OpenUntilOver, ClosingIsOver,
      OtherExpired, TimedOut
<1>14. CompletedIsEnded'
  BY DEF IInv, AwaitAll, resultVars, CompletedIsEnded
<1>15. WinnerIsKnown'
  BY <1>0, BusFacts
     DEF IInv, AwaitAll, TypeOK, WinnerIsKnown, FirstWins, Winning
<1>16. CancelledForReason'
  BY <1>0, BusFacts
     DEF IInv, AwaitAll, resultVars, CancelledForReason, FirstWins
<1> QED
  BY <1>1, <1>2, <1>3, <1>4, <1>5, <1>6, <1>7, <1>8, <1>9, <1>10, <1>11, <1>12,
    <1>13, <1>14, <1>15, <1>16
     DEF IInv

\* The losers are cancelled when the wait for a first result is over.
LEMMA AwaitFirstKeeps ==
    ASSUME IInv, NEW b \in Bus, AwaitFirst(b)
    PROVE  IInv'
<1>0. \A g \in Handler : Winning(g) => Winning(g)'
  BY DEF AwaitFirst, Winning, resultVars
<1>1. TypeOK'
  <2>1. MainTypes'
    BY DEF IInv, TypeOK, AwaitFirst, Stops, Alive, resultVars, lockVars,
        MainTypes, TodoIsOpen
  <2>2. RunTypes'
    BY DEF IInv, TypeOK, AwaitFirst, Stop, RunTypes
  <2>3. ResultTypes'
    BY DEF IInv, TypeOK, AwaitFirst, resultVars, ResultTypes
  <2>4. LockTypes'
    BY DEF IInv, TypeOK, AwaitFirst, lockVars, LockTypes
  <2> QED
    BY <2>1, <2>2, <2>3, <2>4
       DEF TypeOK, MainTypes, RunTypes, ResultTypes, LockTypes
<1>2. UnwindingHasOutcome'
  BY DEF IInv, AwaitFirst, UnwindingHasOutcome
<1>3. BegunHasResults'
  BY BusAssumption
     DEF IInv, AwaitFirst, Stop, resultVars, TypeOK, BegunHasResults,
       TodoIsOpen
<1>4. EndedIsSettled'
  BY DEF IInv, AwaitFirst, resultVars, EndedIsSettled, Parallel
<1>5. AwaitFirstUndisturbed'
  BY BusAssumption
     DEF IInv, AwaitFirst, Stop, TypeOK, AwaitFirstUndisturbed, TodoIsOpen,
       Parallel, FirstWins
<1>6. TodoIsOpen'
  BY DEF IInv, AwaitFirst, resultVars, TypeOK, TodoIsOpen, EndedIsSettled,
      AwaitFirstUndisturbed, Live
<1>7. SerialRunsHead'
  BY HeadStays DEF IInv, AwaitFirst, TypeOK, SerialRunsHead, Parallel
<1>8. OnCpuIsSerial'
  BY BusAssumption DEF AwaitFirst, OnCpuIsSerial
<1>9. ClosingIsOver'
  BY DEF IInv, AwaitFirst, resultVars, TypeOK, ClosingIsOver, EndedIsSettled,
      AwaitFirstUndisturbed, TodoIsOpen, Live
<1>10. RunsUnderLock'
  BY DEF IInv, AwaitFirst, lockVars, RunsUnderLock, Parallel
<1>11. RunningIsAwaited'
  BY DEF IInv, AwaitFirst, Stop, resultVars, RunningIsAwaited
<1>12. CancelledByDeadline'
  BY BusAssumption
     DEF IInv, AwaitFirst, Stop, TypeOK, CancelledByDeadline, TodoIsOpen,
       Asked, Parallel, FirstWins
<1>13. OpenUntilOver'
  BY DEF IInv, AwaitFirst, resultVars, TypeOK, OpenUntilOver, OtherExpired,
      TimedOut
<1>14. CompletedIsEnded'
  BY DEF IInv, AwaitFirst, resultVars, CompletedIsEnded
<1>15. WinnerIsKnown'
  <2>1. ASSUME main'[b] = "winner"
        PROVE  FirstWins(b) /\ \E g \in HandlersFor[b] : Winning(g)
    <3>1. \E g \in todo[b] : Stops(b, g)
      BY <2>1 DEF IInv, TypeOK, AwaitFirst
    <3> QED
      BY <3>1 DEF IInv, TodoIsOpen, Stops, AwaitFirst
  <2>2. \A c \in Bus : c # b => main'[c] = main[c]
    BY DEF IInv, TypeOK, AwaitFirst
  <2>3. mode' = mode
    BY DEF AwaitFirst
  <2> QED
    BY <1>0, <2>1, <2>2, <2>3, BusFacts DEF IInv, WinnerIsKnown, FirstWins
<1>16. CancelledForReason'
  BY <1>0, BusFacts
     DEF IInv, AwaitFirst, resultVars, CancelledForReason, FirstWins
<1> QED
  BY <1>1, <1>2, <1>3, <1>4, <1>5, <1>6, <1>7, <1>8, <1>9, <1>10, <1>11, <1>12,
    <1>13, <1>14, <1>15, <1>16
     DEF IInv

\* Behind a winner all results of the bus are settled.
LEMMA GatheredKeeps ==
    ASSUME IInv, NEW b \in Bus, Gathered(b)
    PROVE  IInv'
<1>0. \A g \in Handler : Winning(g) => Winning(g)'
  BY BusFacts
     DEF IInv, Gathered, Fail, Winning, TypeOK, runVars, resultVars, BodyResult
<1>1. TypeOK'
  <2>1. MainTypes'
    BY DEF IInv, TypeOK, Gathered, MainTypes
  <2>2. RunTypes'
    BY DEF IInv, TypeOK, Gathered, runVars, RunTypes
  <2>3. ResultTypes'
    BY DEF IInv, TypeOK, Gathered, Fail, Cancelled, resultVars, ResultTypes,
        Settled
  <2>4. LockTypes'
    BY DEF IInv, TypeOK, Gathered, lockVars, LockTypes
  <2> QED
    BY <2>1, <2>2, <2>3, <2>4
       DEF TypeOK, MainTypes, RunTypes, ResultTypes, LockTypes
<1>2. UnwindingHasOutcome'
  BY DEF IInv, Gathered, runVars, UnwindingHasOutcome
<1>3. BegunHasResults'
  BY BusFacts
     DEF IInv, Gathered, Fail, runVars, resultVars, TypeOK, BegunHasResults
<1>4. EndedIsSettled'
  BY BusAssumption
     DEF IInv, Gathered, Fail, Cancelled, runVars, resultVars, EndedIsSettled,
       Parallel
<1>5. AwaitFirstUndisturbed'
  BY DEF IInv, Gathered, runVars, resultVars, TypeOK, AwaitFirstUndisturbed,
      OnCpuIsSerial, Parallel, FirstWins
<1>6. TodoIsOpen'
  BY BusAssumption
     DEF IInv, Gathered, Fail, runVars, resultVars, TypeOK, TodoIsOpen,
       EndedIsSettled
<1>7. SerialRunsHead'
  BY HeadStays DEF IInv, Gathered, runVars, TypeOK, SerialRunsHead, Parallel
<1>8. OnCpuIsSerial'
  BY BusAssumption DEF Gathered, OnCpuIsSerial
<1>9. ClosingIsOver'
  BY BusFacts
     DEF IInv, Gathered, Fail, runVars, resultVars, TypeOK, ClosingIsOver,
       Live, Settled
<1>10. RunsUnderLock'
  BY DEF IInv, Gathered, runVars, lockVars, RunsUnderLock, Parallel
<1>11. RunningIsAwaited'
  BY DEF IInv, Gathered, Fail, runVars, resultVars, RunningIsAwaited
<1>12. CancelledByDeadline'
  BY DEF IInv, Gathered, runVars, TypeOK, CancelledByDeadline, Asked, Parallel,
      FirstWins
<1>13. OpenUntilOver'
  <2> SUFFICES ASSUME NEW c \in Bus, main'[c] \in {"next", "await", "gather", "winner"},
                      NEW h \in HandlersFor[c], result'[h] \in Settled,
                      run'[h] \in Live \/ (run'[h] = "idle" /\ h \in todo'[c])
               PROVE  OtherExpired(c)' \/ TimedOut(h)'
    BY DEF OpenUntilOver
  <2>1. c # b /\ main'[c] = main[c]
    BY DEF IInv, TypeOK, Gathered
  <2>2. h \notin HandlersFor[b] /\ h \in Handler
    BY <2>1, BusFacts
  <2>3. result'[h] = result[h] /\ error'[h] = error[h]
    BY <2>2 DEF IInv, TypeOK, Gathered, Fail, resultVars
  <2>4. run' = run /\ out' = out /\ todo' = todo /\ expired' = expired
    BY DEF Gathered, runVars
  <2> QED
    BY <2>1, <2>3, <2>4 DEF IInv, OpenUntilOver, OtherExpired, TimedOut
<1>14. CompletedIsEnded'
  BY DEF IInv, Gathered, Fail, runVars, resultVars, CompletedIsEnded
<1>15. WinnerIsKnown'
  BY <1>0, BusFacts DEF IInv, Gathered, TypeOK, WinnerIsKnown, FirstWins
<1>16. CancelledForReason'
  BY <1>0, BusFacts
     DEF IInv, Gathered, Fail, CancelledForReason, WinnerIsKnown,
       CancelledByDeadline, FirstWins
<1> QED
  BY <1>1, <1>2, <1>3, <1>4, <1>5, <1>6, <1>7, <1>8, <1>9, <1>10, <1>11, <1>12,
    <1>13, <1>14, <1>15, <1>16
     DEF IInv

\* The deadline is known before anything is cancelled for it.
LEMMA EventTimerKeeps ==
    ASSUME IInv, NEW b \in Bus, EventTimer(b)
    PROVE  IInv'
<1>0. \A g \in Handler : Winning(g) => Winning(g)'
  BY DEF EventTimer, Winning, resultVars
<1>1. TypeOK'
  <2>1. MainTypes'
    BY DEF IInv, TypeOK, EventTimer, MainTypes
  <2>2. RunTypes'
    BY HeadIsOpen DEF IInv, TypeOK, EventTimer, RunTypes, TodoIsOpen
  <2>3. ResultTypes'
    BY DEF IInv, TypeOK, EventTimer, resultVars, ResultTypes
  <2>4. LockTypes'
    BY DEF IInv, TypeOK, EventTimer, lockVars, LockTypes
  <2> QED
    BY <2>1, <2>2, <2>3, <2>4
       DEF TypeOK, MainTypes, RunTypes, ResultTypes, LockTypes
<1>2. UnwindingHasOutcome'
  BY DEF IInv, EventTimer, UnwindingHasOutcome
<1>3. BegunHasResults'
  BY HeadIsOpen DEF IInv, EventTimer, resultVars, BegunHasResults, TodoIsOpen
<1>4. EndedIsSettled'
  BY DEF IInv, EventTimer, resultVars, EndedIsSettled, Parallel
<1>5. AwaitFirstUndisturbed'
  BY BusAssumption, HeadIsOpen
     DEF IInv, EventTimer, AwaitFirstUndisturbed, TodoIsOpen, Parallel,
       FirstWins
<1>6. TodoIsOpen'
  BY DEF IInv, EventTimer, resultVars, TodoIsOpen
<1>7. SerialRunsHead'
  BY HeadStays DEF IInv, EventTimer, SerialRunsHead, Parallel
<1>8. OnCpuIsSerial'
  BY BusAssumption DEF EventTimer, OnCpuIsSerial
<1>9. ClosingIsOver'
  BY DEF IInv, EventTimer, resultVars, ClosingIsOver
<1>10. RunsUnderLock'
  BY DEF IInv, EventTimer, lockVars, RunsUnderLock, Parallel
<1>11. RunningIsAwaited'
  BY DEF IInv, EventTimer, resultVars, RunningIsAwaited
<1>12. CancelledByDeadline'
  BY BusFacts, HeadIsOpen
     DEF IInv, EventTimer, CancelledByDeadline, TodoIsOpen, Asked, Parallel,
       FirstWins
<1>13. OpenUntilOver'
  BY DEF IInv, EventTimer, resultVars, OpenUntilOver, OtherExpired, TimedOut
<1>14. CompletedIsEnded'
  BY DEF IInv, EventTimer, resultVars, CompletedIsEnded
<1>15. WinnerIsKnown'
  BY <1>0, BusFacts DEF IInv, EventTimer, WinnerIsKnown, FirstWins
<1>16. CancelledForReason'
  BY <1>0 DEF EventTimer, CancelledForReason
<1> QED
  BY <1>1, <1>2, <1>3, <1>4, <1>5, <1>6, <1>7, <1>8, <1>9, <1>10, <1>11, <1>12,
    <1>13, <1>14, <1>15, <1>16
     DEF IInv

\* Every result that is open is settled.
LEMMA FinalizeKeeps ==
    ASSUME IInv, NEW b \in Bus, Finalize(b)
    PROVE  IInv'
<1>0. \A g \in Handler : Winning(g) => Winning(g)'
  BY DEF IInv, Finalize, Fail, Winning, TypeOK, runVars, BodyResult
<1>1. TypeOK'
  <2>1. MainTypes'
    BY DEF IInv, TypeOK, Finalize, MainTypes
  <2>2. RunTypes'
    BY DEF IInv, TypeOK, Finalize, runVars, RunTypes
  <2>3. ResultTypes'
    BY DEF IInv, TypeOK, Finalize, Fail, ResultTypes, Settled
  <2>4. LockTypes'
    BY DEF IInv, TypeOK, Finalize, lockVars, LockTypes
  <2> QED
    BY <2>1, <2>2, <2>3, <2>4
       DEF TypeOK, MainTypes, RunTypes, ResultTypes, LockTypes
<1>2. UnwindingHasOutcome'
  BY DEF IInv, Finalize, runVars, UnwindingHasOutcome
<1>3. BegunHasResults'
  BY BusAssumption DEF IInv, Finalize, Fail, runVars, BegunHasResults
<1>4. EndedIsSettled'
  BY BusFacts
     DEF IInv, Finalize, Fail, runVars, EndedIsSettled, BegunHasResults,
       Settled
<1>5. AwaitFirstUndisturbed'
  BY DEF IInv, Finalize, runVars, AwaitFirstUndisturbed, Parallel, FirstWins
<1>6. TodoIsOpen'
  BY BusFacts DEF IInv, Finalize, Fail, runVars, TodoIsOpen
<1>7. SerialRunsHead'
  BY HeadStays DEF IInv, Finalize, runVars, SerialRunsHead, Parallel
<1>8. OnCpuIsSerial'
  BY BusAssumption DEF Finalize, OnCpuIsSerial
<1>9. ClosingIsOver'
  BY BusAssumption
     DEF IInv, Finalize, Fail, runVars, ClosingIsOver, BegunHasResults, Settled
<1>10. RunsUnderLock'
  BY DEF IInv, Finalize, runVars, lockVars, RunsUnderLock, Parallel
<1>11. RunningIsAwaited'
  BY DEF IInv, Finalize, Fail, runVars, RunningIsAwaited
<1>12. CancelledByDeadline'
  BY DEF IInv, Finalize, runVars, CancelledByDeadline, Asked, Parallel,
      FirstWins
<1>13. OpenUntilOver'
  BY DEF IInv, Finalize, OpenUntilOver, CancelledByDeadline, OtherExpired
<1>14. CompletedIsEnded'
  BY DEF IInv, Finalize, Fail, runVars, CompletedIsEnded
<1>15. WinnerIsKnown'
  BY <1>0, BusFacts DEF IInv, Finalize, WinnerIsKnown, FirstWins
<1>16. CancelledForReason'
  BY <1>0 DEF IInv, Finalize, CancelledForReason, CancelledByDeadline
<1> QED
  BY <1>1, <1>2, <1>3, <1>4, <1>5, <1>6, <1>7, <1>8, <1>9, <1>10, <1>11, <1>12,
    <1>13, <1>14, <1>15, <1>16
     DEF IInv

\* The handlers of a bus that closes are over.
LEMMA CloseKeeps ==
    ASSUME IInv, NEW b \in Bus, Close(b)
    PROVE  IInv'
<1>0. \A g \in Handler : Winning(g) => Winning(g)'
  BY DEF Close, Winning, runVars, resultVars
<1>1. TypeOK'
  <2>1. MainTypes'
    BY DEF IInv, TypeOK, Close, MainTypes
  <2>2. RunTypes'
    BY DEF IInv, TypeOK, Close, runVars, RunTypes
  <2>3. ResultTypes'
    BY DEF IInv, TypeOK, Close, resultVars, ResultTypes
  <2>4. LockTypes'
    BY DEF IInv, TypeOK, Close, lockVars, LockTypes
  <2> QED
    BY <2>1, <2>2, <2>3, <2>4
       DEF TypeOK, MainTypes, RunTypes, ResultTypes, LockTypes
<1>2. UnwindingHasOutcome'
  BY DEF IInv, Close, runVars, UnwindingHasOutcome
<1>3. BegunHasResults'
  BY DEF IInv, Close, runVars, resultVars, BegunHasResults
<1>4. EndedIsSettled'
  BY DEF IInv, Close, runVars, resultVars, EndedIsSettled, Parallel
<1>5. AwaitFirstUndisturbed'
  BY DEF IInv, Close, runVars, AwaitFirstUndisturbed, Parallel, FirstWins
<1>6. TodoIsOpen'
  BY DEF IInv, Close, runVars, resultVars, TodoIsOpen
<1>7. SerialRunsHead'
  BY HeadStays DEF IInv, Close, runVars, SerialRunsHead, Parallel
<1>8. OnCpuIsSerial'
  BY BusAssumption DEF Close, OnCpuIsSerial
<1>9. ClosingIsOver'
  BY DEF IInv, Close, runVars, resultVars, ClosingIsOver
<1>10. RunsUnderLock'
  BY DEF IInv, Close, runVars, lockVars, RunsUnderLock, Parallel
<1>11. RunningIsAwaited'
  BY DEF IInv, Close, runVars, resultVars, RunningIsAwaited
<1>12. CancelledByDeadline'
  BY DEF IInv, Close, runVars, CancelledByDeadline, Asked, Parallel, FirstWins
<1>13. OpenUntilOver'
  BY DEF IInv, Close, runVars, resultVars, OpenUntilOver, OtherExpired,
      TimedOut
<1>14. CompletedIsEnded'
  BY DEF IInv, Close, runVars, resultVars, CompletedIsEnded
<1>15. WinnerIsKnown'
  BY <1>0, BusFacts DEF IInv, Close, WinnerIsKnown, FirstWins, Winning
<1>16. CancelledForReason'
  BY <1>0, BusFacts DEF IInv, Close, resultVars, CancelledForReason, FirstWins
<1> QED
  BY <1>1, <1>2, <1>3, <1>4, <1>5, <1>6, <1>7, <1>8, <1>9, <1>10, <1>11, <1>12,
    <1>13, <1>14, <1>15, <1>16
     DEF IInv

\* A run with a task of its own is not serial.
LEMMA FirstStepKeeps ==
    ASSUME IInv, NEW h \in Handler, FirstStep(h)
    PROVE  IInv'
<1>0. \A g \in Handler : Winning(g) => Winning(g)'
  BY DEF IInv, FirstStep, Call, Skip, Winning, TypeOK, CompletedIsEnded,
      resultVars
<1>1. TypeOK'
  <2>1. MainTypes'
    BY DEF IInv, TypeOK, FirstStep, mainVars, MainTypes
  <2>2. RunTypes'
    <3>1. CASE h \in cancel
      BY <3>1 DEF IInv, TypeOK, FirstStep, RunTypes
    <3>2. CASE Call(h) \/ Skip(h)
      BY <3>2 DEF IInv, TypeOK, FirstStep, Call, Skip, RunTypes, Alive
    <3> QED
      BY <3>1, <3>2 DEF FirstStep
  <2>3. ResultTypes'
    BY DEF IInv, TypeOK, FirstStep, Call, Skip, resultVars, ResultTypes
  <2>4. LockTypes'
    BY DEF IInv, TypeOK, FirstStep, lockVars, LockTypes
  <2> QED
    BY <2>1, <2>2, <2>3, <2>4
       DEF TypeOK, MainTypes, RunTypes, ResultTypes, LockTypes
<1>2. UnwindingHasOutcome'
  <2> SUFFICES ASSUME NEW g \in Handler, run'[g] = "unwind"
               PROVE  out'[g] \in Ending
    BY DEF UnwindingHasOutcome
  <2>1. g # h
    BY DEF IInv, TypeOK, FirstStep, Call, Skip
  <2>2. run'[g] = run[g] /\ out'[g] = out[g]
    BY <2>1 DEF IInv, TypeOK, FirstStep, Call, Skip
  <2> QED
    BY <2>2 DEF IInv, UnwindingHasOutcome
<1>3. BegunHasResults'
  BY BusFacts
     DEF IInv, FirstStep, Call, Skip, mainVars, resultVars, TypeOK,
       BegunHasResults
<1>4. EndedIsSettled'
  BY BusAssumption
     DEF IInv, FirstStep, Call, Skip, resultVars, TypeOK, EndedIsSettled,
       SerialRunsHead, Parallel
<1>5. AwaitFirstUndisturbed'
  BY BusFacts
     DEF IInv, FirstStep, Call, Skip, mainVars, TypeOK, AwaitFirstUndisturbed,
       Parallel, FirstWins, Undisturbed
<1>6. TodoIsOpen'
  BY BusFacts, HeadIsOpen
     DEF IInv, FirstStep, Call, Skip, mainVars, resultVars, lockVars, TypeOK,
       TodoIsOpen, BegunHasResults, Live
<1>7. SerialRunsHead'
  BY BusAssumption, HeadStays
     DEF IInv, FirstStep, Call, Skip, mainVars, TypeOK, SerialRunsHead, Live,
       Parallel
<1>8. OnCpuIsSerial'
  BY BusAssumption DEF FirstStep, OnCpuIsSerial
<1>9. ClosingIsOver'
  BY BusFacts
     DEF IInv, FirstStep, Call, Skip, mainVars, resultVars, TypeOK,
       ClosingIsOver, Live
<1>10. RunsUnderLock'
  BY BusFacts
     DEF IInv, FirstStep, Call, Skip, lockVars, TypeOK, RunsUnderLock,
       SerialRunsHead, Parallel
<1>11. RunningIsAwaited'
  BY DEF IInv, FirstStep, Call, Skip, resultVars, TypeOK, RunningIsAwaited
<1>12. CancelledByDeadline'
  BY BusFacts
     DEF IInv, FirstStep, Call, Skip, mainVars, TypeOK, CancelledByDeadline,
       Asked, Undisturbed, Parallel, FirstWins
<1>13. OpenUntilOver'
  BY BusFacts
     DEF IInv, FirstStep, Call, Skip, mainVars, resultVars, lockVars, TypeOK,
       OpenUntilOver, BegunHasResults, OtherExpired, TimedOut, Live, Settled
<1>14. CompletedIsEnded'
  BY DEF IInv, FirstStep, Call, Skip, resultVars, TypeOK, CompletedIsEnded
<1>15. WinnerIsKnown'
  BY <1>0, BusFacts DEF IInv, FirstStep, mainVars, WinnerIsKnown, FirstWins
<1>16. CancelledForReason'
  BY <1>0, BusFacts
     DEF IInv, FirstStep, Call, Skip, mainVars, resultVars, CancelledForReason,
       FirstWins
<1> QED
  BY <1>1, <1>2, <1>3, <1>4, <1>5, <1>6, <1>7, <1>8, <1>9, <1>10, <1>11, <1>12,
    <1>13, <1>14, <1>15, <1>16
     DEF IInv

\* The handler that is given the lock is the head of its bus.
LEMMA LockGrantedKeeps ==
    ASSUME IInv, NEW h \in Handler, LockGranted(h)
    PROVE  IInv'
<1>0. \A g \in Handler : Winning(g) => Winning(g)'
  BY DEF IInv, LockGranted, Call, Skip, Winning, TypeOK, CompletedIsEnded,
      resultVars
<1>1. TypeOK'
  <2>1. MainTypes'
    BY DEF IInv, TypeOK, LockGranted, mainVars, MainTypes
  <2>2. RunTypes'
    <3>1. CASE Call(h)
      BY <3>1 DEF IInv, TypeOK, RunTypes, LockGranted, Call, Alive
    <3>2. CASE Skip(h)
      BY <3>2 DEF IInv, TypeOK, RunTypes, LockGranted, Skip
    <3> QED
      BY <3>1, <3>2 DEF LockGranted
  <2>3. ResultTypes'
    BY DEF IInv, TypeOK, LockGranted, Call, Skip, resultVars, ResultTypes
  <2>4. LockTypes'
    BY ReleaseTypes, BackToMainType
       DEF IInv, TypeOK, LockTypes, LockGranted, lockVars
  <2> QED
    BY <2>1, <2>2, <2>3, <2>4
       DEF TypeOK, MainTypes, RunTypes, ResultTypes, LockTypes
<1>2. UnwindingHasOutcome'
  BY DEF IInv, LockGranted, Call, Skip, TypeOK, UnwindingHasOutcome
<1>3. BegunHasResults'
  BY BusAssumption
     DEF IInv, LockGranted, Call, Skip, mainVars, resultVars, TypeOK,
       BegunHasResults
<1>4. EndedIsSettled'
  BY BusAssumption
     DEF IInv, LockGranted, Call, Skip, resultVars, TypeOK, EndedIsSettled,
       UnwindingHasOutcome, SerialRunsHead, Settled, Parallel
<1>5. AwaitFirstUndisturbed'
  <2> SUFFICES ASSUME NEW c \in Bus, main[c] = "await", Parallel(c), FirstWins(c),
                      NEW g \in HandlersFor[c]
               PROVE  /\ g \notin cancel' /\ out'[g] # "cancelled"
                      /\ run'[g] = "body" => body'[g] \in Undisturbed
    BY DEF AwaitFirstUndisturbed, LockGranted, Parallel, FirstWins, mainVars
  <2>1. g \in Handler
    BY BusFacts
  <2>2. cancel' = cancel /\ g \notin cancel /\ out[g] # "cancelled"
    BY DEF IInv, AwaitFirstUndisturbed, LockGranted
  <2>3. out'[g] # "cancelled"
    BY <2>1, <2>2 DEF IInv, TypeOK, LockGranted, Call, Skip
  <2>4. CASE g = h
    BY <2>4, <2>2, <2>3 DEF IInv, TypeOK, LockGranted, Call, Skip, Undisturbed
  <2>5. CASE g # h
    <3>1. run'[g] = run[g] /\ body'[g] = body[g]
      BY <2>1, <2>5 DEF IInv, TypeOK, LockGranted, Call, Skip
    <3> QED
      BY <2>2, <2>3, <3>1 DEF IInv, AwaitFirstUndisturbed
  <2> QED
    BY <2>4, <2>5
<1>6. TodoIsOpen'
  <2>1. main' = main /\ todo' = todo /\ run[h] = "lock"
    BY DEF LockGranted, mainVars
  <2>2. ASSUME NEW g \in Handler, run[g] \notin Live, result[g] \in Settled
        PROVE  run'[g] \notin Live /\ result'[g] \in Settled
    <3>1. g # h
      BY <2>1, <2>2 DEF Live
    <3>2. run'[g] = run[g] /\ result'[g] = result[g]
      BY <3>1 DEF IInv, TypeOK, LockGranted, Call, Skip, resultVars
    <3> QED
      BY <2>2, <3>2
  <2> QED
    BY <2>1, <2>2, BusFacts DEF IInv, TodoIsOpen
<1>7. SerialRunsHead'
  BY BusAssumption, BusFacts, HeadStays
     DEF IInv, LockGranted, Call, Skip, BackToMain, mainVars, TypeOK,
       SerialRunsHead, Live, Parallel
<1>8. OnCpuIsSerial'
  BY BusFacts
     DEF IInv, LockGranted, BackToMain, mainVars, OnCpuIsSerial,
       SerialRunsHead, Live, Parallel
<1>9. ClosingIsOver'
  BY BusAssumption
     DEF IInv, LockGranted, Call, Skip, mainVars, resultVars, TypeOK,
       ClosingIsOver, Live
<1>10. RunsUnderLock'
  BY BusAssumption
     DEF IInv, LockGranted, Call, Skip, lockVars, TypeOK, RunsUnderLock, Live,
       Parallel
<1>11. RunningIsAwaited'
  BY BusAssumption, BusFacts
     DEF IInv, LockGranted, Call, Skip, Release, BackToMain, mainVars, runVars,
       resultVars, lockVars, TypeOK, RunningIsAwaited, BegunHasResults,
       Parallel, Settled
<1>12. CancelledByDeadline'
  <2>1. \A g \in Handler : Asked(g)' => Asked(g)
    BY DEF IInv, TypeOK, LockGranted, Call, Skip, Asked, Undisturbed
  <2>2. main' = main /\ interrupted' = interrupted /\ expired' = expired /\ mode' = mode
    BY DEF LockGranted, mainVars
  <2> QED
    BY <2>1, <2>2, BusFacts DEF IInv, CancelledByDeadline, Parallel, FirstWins
<1>13. OpenUntilOver'
  BY BusFacts
     DEF IInv, LockGranted, Call, Skip, mainVars, resultVars, lockVars, TypeOK,
       OpenUntilOver, BegunHasResults, SerialRunsHead, OtherExpired, TimedOut,
       Live, Settled
<1>14. CompletedIsEnded'
  <2>1. CASE Call(h)
    BY <2>1 DEF IInv, TypeOK, CompletedIsEnded, Call
  <2>2. CASE Skip(h)
    BY <2>2 DEF IInv, TypeOK, CompletedIsEnded, Skip, resultVars
  <2> QED
    BY <2>1, <2>2 DEF LockGranted
<1>15. WinnerIsKnown'
  BY <1>0, BusFacts DEF IInv, LockGranted, mainVars, WinnerIsKnown, FirstWins
<1>16. CancelledForReason'
  BY <1>0, BusFacts
     DEF IInv, LockGranted, Call, Skip, mainVars, resultVars,
       CancelledForReason, FirstWins
<1> QED
  BY <1>1, <1>2, <1>3, <1>4, <1>5, <1>6, <1>7, <1>8, <1>9, <1>10, <1>11, <1>12,
    <1>13, <1>14, <1>15, <1>16
     DEF IInv

\* A waiter that leaves the queue has not run.
LEMMA LockCancelledKeeps ==
    ASSUME IInv, NEW h \in Handler, LockCancelled(h)
    PROVE  IInv'
<1>0. \A g \in Handler : Winning(g) => Winning(g)'
  BY DEF IInv, LockCancelled, End, Winning, CompletedIsEnded
<1>1. TypeOK'
  <2>1. MainTypes'
    BY DEF IInv, TypeOK, LockCancelled, mainVars, MainTypes
  <2>2. RunTypes'
    BY DEF IInv, TypeOK, LockCancelled, End, RunTypes
  <2>3. ResultTypes'
    BY DEF IInv, TypeOK, LockCancelled, End, ResultTypes, Settled
  <2>4. LockTypes'
    <3>1. owner' \in Handler \cup {NoHandler} /\ waiting' \in Seq(Handler)
      BY ReleaseTypes, QueueTypes DEF IInv, TypeOK, LockCancelled
    <3> QED
      BY <3>1, BackToMainType DEF LockTypes, LockCancelled
  <2> QED
    BY <2>1, <2>2, <2>3, <2>4
       DEF TypeOK, MainTypes, RunTypes, ResultTypes, LockTypes
<1>2. UnwindingHasOutcome'
  BY DEF IInv, LockCancelled, End, UnwindingHasOutcome
<1>3. BegunHasResults'
  BY DEF IInv, LockCancelled, End, mainVars, BegunHasResults
<1>4. EndedIsSettled'
  BY DEF IInv, LockCancelled, End, TypeOK, EndedIsSettled, Settled, Parallel
<1>5. AwaitFirstUndisturbed'
  BY DEF IInv, LockCancelled, End, mainVars, AwaitFirstUndisturbed, Parallel,
      FirstWins
<1>6. TodoIsOpen'
  BY DEF IInv, LockCancelled, End, mainVars, TodoIsOpen, Live
<1>7. SerialRunsHead'
  BY BusFacts, HeadStays
     DEF IInv, LockCancelled, End, BackToMain, mainVars, TypeOK,
       SerialRunsHead, Live, Parallel
<1>8. OnCpuIsSerial'
  BY BusFacts
     DEF IInv, LockCancelled, BackToMain, mainVars, OnCpuIsSerial,
       SerialRunsHead, Live, Parallel
<1>9. ClosingIsOver'
  BY DEF IInv, LockCancelled, End, mainVars, ClosingIsOver, Live
<1>10. RunsUnderLock'
  BY DEF IInv, LockCancelled, End, RunsUnderLock, Parallel
<1>11. RunningIsAwaited'
  BY DEF IInv, LockCancelled, End, RunningIsAwaited
<1>12. CancelledByDeadline'
  BY DEF IInv, LockCancelled, End, mainVars, CancelledByDeadline, Asked,
      Parallel, FirstWins
<1>13. OpenUntilOver'
  BY DEF IInv, LockCancelled, End, mainVars, TypeOK, OpenUntilOver,
      OtherExpired, TimedOut, Live
<1>14. CompletedIsEnded'
  BY DEF IInv, LockCancelled, End, CompletedIsEnded
<1>15. WinnerIsKnown'
  BY <1>0, BusFacts DEF IInv, LockCancelled, mainVars, WinnerIsKnown, FirstWins
<1>16. CancelledForReason'
  BY <1>0, BusFacts
     DEF IInv, LockCancelled, End, mainVars, CancelledForReason, FirstWins
<1> QED
  BY <1>1, <1>2, <1>3, <1>4, <1>5, <1>6, <1>7, <1>8, <1>9, <1>10, <1>11, <1>12,
    <1>13, <1>14, <1>15, <1>16
     DEF IInv

\* A handler's own deadline only wakes it.
LEMMA HandlerTimerKeeps ==
    ASSUME IInv, NEW h \in Handler, HandlerTimer(h)
    PROVE  IInv'
<1>0. \A g \in Handler : Winning(g) => Winning(g)'
  BY DEF HandlerTimer, Winning, resultVars
<1>1. TypeOK'
  <2>1. MainTypes'
    BY DEF IInv, TypeOK, HandlerTimer, mainVars, MainTypes
  <2>2. RunTypes'
    BY DEF IInv, TypeOK, HandlerTimer, RunTypes
  <2>3. ResultTypes'
    BY DEF IInv, TypeOK, HandlerTimer, resultVars, ResultTypes
  <2>4. LockTypes'
    BY DEF IInv, TypeOK, HandlerTimer, lockVars, LockTypes
  <2> QED
    BY <2>1, <2>2, <2>3, <2>4
       DEF TypeOK, MainTypes, RunTypes, ResultTypes, LockTypes
<1>2. UnwindingHasOutcome'
  BY DEF IInv, HandlerTimer, UnwindingHasOutcome
<1>3. BegunHasResults'
  BY DEF IInv, HandlerTimer, mainVars, resultVars, BegunHasResults
<1>4. EndedIsSettled'
  BY DEF IInv, HandlerTimer, resultVars, EndedIsSettled, Parallel
<1>5. AwaitFirstUndisturbed'
  BY DEF IInv, HandlerTimer, mainVars, AwaitFirstUndisturbed, Parallel,
      FirstWins
<1>6. TodoIsOpen'
  BY DEF IInv, HandlerTimer, mainVars, resultVars, TodoIsOpen
<1>7. SerialRunsHead'
  BY HeadStays DEF IInv, HandlerTimer, mainVars, SerialRunsHead, Parallel
<1>8. OnCpuIsSerial'
  BY BusAssumption DEF HandlerTimer, OnCpuIsSerial
<1>9. ClosingIsOver'
  BY DEF IInv, HandlerTimer, mainVars, resultVars, ClosingIsOver
<1>10. RunsUnderLock'
  BY DEF IInv, HandlerTimer, lockVars, RunsUnderLock, Parallel
<1>11. RunningIsAwaited'
  BY DEF IInv, HandlerTimer, resultVars, RunningIsAwaited
<1>12. CancelledByDeadline'
  BY DEF IInv, HandlerTimer, mainVars, CancelledByDeadline, Asked, Parallel,
      FirstWins
<1>13. OpenUntilOver'
  BY DEF IInv, HandlerTimer, mainVars, resultVars, OpenUntilOver, OtherExpired,
      TimedOut
<1>14. CompletedIsEnded'
  BY DEF IInv, HandlerTimer, resultVars, CompletedIsEnded
<1>15. WinnerIsKnown'
  BY <1>0, BusFacts DEF IInv, HandlerTimer, mainVars, WinnerIsKnown, FirstWins
<1>16. CancelledForReason'
  BY <1>0, BusFacts
     DEF IInv, HandlerTimer, mainVars, resultVars, CancelledForReason,
       FirstWins
<1> QED
  BY <1>1, <1>2, <1>3, <1>4, <1>5, <1>6, <1>7, <1>8, <1>9, <1>10, <1>11, <1>12,
    <1>13, <1>14, <1>15, <1>16
     DEF IInv

\* A run that stops waiting leaves its body asked to stop.
LEMMA WakeKeeps ==
    ASSUME IInv, NEW h \in Handler, Wake(h)
    PROVE  IInv'
<1>0. \A g \in Handler : Winning(g) => Winning(g)'
  BY DEF IInv, Wake, End, Winning, TypeOK, CompletedIsEnded, resultVars
<1>1. TypeOK'
  <2>1. MainTypes'
    BY DEF IInv, TypeOK, Wake, mainVars, MainTypes
  <2>2. RunTypes'
    BY DEF IInv, TypeOK, Wake, Resumes, Outcome, Abandon, End, lockVars,
        RunTypes
  <2>3. ResultTypes'
    BY DEF IInv, TypeOK, Wake, Resumes, Outcome, End, Release, BackToMain,
        BodyResult, mainVars, resultVars, lockVars, ResultTypes, Settled
  <2>4. LockTypes'
    BY ReleaseTypes, BackToMainType DEF IInv, TypeOK, LockTypes, Wake, lockVars
  <2> QED
    BY <2>1, <2>2, <2>3, <2>4
       DEF TypeOK, MainTypes, RunTypes, ResultTypes, LockTypes
<1>2. UnwindingHasOutcome'
  <2>1. Outcome(h) \in Ending
    BY DEF Wake, Resumes, Outcome, Ending
  <2> SUFFICES ASSUME NEW g \in Handler, run'[g] = "unwind"
               PROVE  out'[g] \in Ending
    BY DEF UnwindingHasOutcome
  <2>2. CASE g = h
    BY <2>1, <2>2 DEF IInv, TypeOK, Wake, End
  <2>3. CASE g # h
    <3>1. run'[g] = run[g] /\ out'[g] = out[g]
      BY <2>3 DEF IInv, TypeOK, Wake, End
    <3> QED
      BY <3>1 DEF IInv, UnwindingHasOutcome
  <2> QED
    BY <2>2, <2>3
<1>3. BegunHasResults'
  BY BusAssumption
     DEF IInv, Wake, Abandon, End, mainVars, resultVars, TypeOK,
       BegunHasResults
<1>4. EndedIsSettled'
  BY BusAssumption
     DEF IInv, Wake, Outcome, End, resultVars, TypeOK, EndedIsSettled, Settled,
       Parallel
<1>5. AwaitFirstUndisturbed'
  BY BusAssumption
     DEF IInv, Wake, Outcome, Abandon, End, BodyResult, mainVars, TypeOK,
       AwaitFirstUndisturbed, Parallel, FirstWins, Undisturbed
<1>6. TodoIsOpen'
  BY BusAssumption
     DEF IInv, Wake, End, mainVars, resultVars, TypeOK, TodoIsOpen, Live,
       Settled
<1>7. SerialRunsHead'
  BY BusFacts, HeadIsOpen, HeadStays
     DEF IInv, Wake, End, BackToMain, mainVars, TypeOK, SerialRunsHead,
       TodoIsOpen, Live, Parallel
<1>8. OnCpuIsSerial'
  BY BusFacts
     DEF IInv, Wake, BackToMain, mainVars, OnCpuIsSerial, SerialRunsHead, Live,
       Parallel
<1>9. ClosingIsOver'
  BY BusFacts
     DEF IInv, Wake, End, mainVars, resultVars, TypeOK, ClosingIsOver, Live
<1>10. RunsUnderLock'
  BY BusAssumption
     DEF IInv, Wake, End, Release, lockVars, TypeOK, RunsUnderLock, Parallel
<1>11. RunningIsAwaited'
  BY DEF IInv, Wake, Resumes, Outcome, Abandon, End, BodyResult, resultVars,
      TypeOK, RunningIsAwaited
<1>12. CancelledByDeadline'
  BY BusAssumption
     DEF IInv, Wake, Outcome, Abandon, End, BodyResult, mainVars, TypeOK,
       CancelledByDeadline, Asked, Undisturbed, Parallel, FirstWins
<1>13. OpenUntilOver'
  BY BusAssumption
     DEF IInv, Wake, End, mainVars, resultVars, TypeOK, OpenUntilOver,
       OtherExpired, TimedOut, Live
<1>14. CompletedIsEnded'
  BY DEF IInv, Wake, End, resultVars, TypeOK, CompletedIsEnded
<1>15. WinnerIsKnown'
  BY <1>0, BusFacts DEF IInv, Wake, mainVars, WinnerIsKnown, FirstWins
<1>16. CancelledForReason'
  BY <1>0, BusFacts
     DEF IInv, Wake, Resumes, Outcome, End, BodyResult, mainVars, resultVars,
       TypeOK, CancelledForReason, FirstWins
<1> QED
  BY <1>1, <1>2, <1>3, <1>4, <1>5, <1>6, <1>7, <1>8, <1>9, <1>10, <1>11, <1>12,
    <1>13, <1>14, <1>15, <1>16
     DEF IInv

\* The result is that of the outcome, and the lock goes on.
LEMMA UnwoundKeeps ==
    ASSUME IInv, NEW h \in Handler, Unwound(h)
    PROVE  IInv'
<1>0. \A g \in Handler : Winning(g) => Winning(g)'
  BY DEF Unwound, End, Winning
<1>1. TypeOK'
  <2>1. MainTypes'
    BY DEF IInv, TypeOK, Unwound, mainVars, MainTypes
  <2>2. RunTypes'
    BY DEF IInv, TypeOK, Unwound, End, RunTypes
  <2>3. ResultTypes'
    BY DEF IInv, TypeOK, Unwound, End, BodyResult, ResultTypes, Settled,
        UnwindingHasOutcome, Ending
  <2>4. LockTypes'
    BY ReleaseTypes, BackToMainType DEF IInv, LockTypes, Unwound
  <2> QED
    BY <2>1, <2>2, <2>3, <2>4
       DEF TypeOK, MainTypes, RunTypes, ResultTypes, LockTypes
<1>2. UnwindingHasOutcome'
  BY DEF IInv, Unwound, End, UnwindingHasOutcome
<1>3. BegunHasResults'
  BY DEF IInv, Unwound, End, mainVars, BegunHasResults
<1>4. EndedIsSettled'
  BY DEF IInv, Unwound, End, TypeOK, EndedIsSettled, Settled, Parallel
<1>5. AwaitFirstUndisturbed'
  BY DEF IInv, Unwound, End, mainVars, AwaitFirstUndisturbed, Parallel,
      FirstWins
<1>6. TodoIsOpen'
  BY DEF IInv, Unwound, End, mainVars, TodoIsOpen, Live
<1>7. SerialRunsHead'
  BY BusFacts, HeadStays
     DEF IInv, Unwound, End, BackToMain, mainVars, TypeOK, SerialRunsHead,
       Live, Parallel
<1>8. OnCpuIsSerial'
  BY BusFacts
     DEF IInv, Unwound, BackToMain, mainVars, OnCpuIsSerial, SerialRunsHead,
       Live, Parallel
<1>9. ClosingIsOver'
  BY DEF IInv, Unwound, End, mainVars, ClosingIsOver, Live
<1>10. RunsUnderLock'
  BY DEF IInv, Unwound, End, Release, lockVars, TypeOK, RunsUnderLock, Parallel
<1>11. RunningIsAwaited'
  BY DEF IInv, Unwound, End, RunningIsAwaited
<1>12. CancelledByDeadline'
  BY DEF IInv, Unwound, End, mainVars, CancelledByDeadline, Asked, Parallel,
      FirstWins
<1>13. OpenUntilOver'
  BY DEF IInv, Unwound, End, mainVars, TypeOK, OpenUntilOver, OtherExpired,
      TimedOut, Live
<1>14. CompletedIsEnded'
  BY DEF IInv, Unwound, End, TypeOK, CompletedIsEnded
<1>15. WinnerIsKnown'
  BY <1>0 DEF IInv, Unwound, End, mainVars, WinnerIsKnown, FirstWins, Winning
<1>16. CancelledForReason'
  <2>1. out[h] \in Ending
    BY DEF IInv, UnwindingHasOutcome, Unwound
  <2>2. \A g \in Handler : error'[g] = "cancelled" => error[g] = "cancelled"
    BY <2>1 DEF Unwound, End, Ending, BodyResult
  <2>3. expired' = expired /\ mode' = mode
    BY DEF Unwound, mainVars
  <2> QED
    BY <1>0, <2>2, <2>3, BusFacts DEF IInv, CancelledForReason, FirstWins
<1> QED
  BY <1>1, <1>2, <1>3, <1>4, <1>5, <1>6, <1>7, <1>8, <1>9, <1>10, <1>11, <1>12,
    <1>13, <1>14, <1>15, <1>16
     DEF IInv

\* A body that ends is still waited for.
LEMMA BodyEndsKeeps ==
    ASSUME IInv, NEW h \in Handler, BodyEnds(h)
    PROVE  IInv'
<1>0. \A g \in Handler : Winning(g) => Winning(g)'
  BY DEF BodyEnds, Winning, runVars, resultVars
<1>1. TypeOK'
  <2>1. MainTypes'
    BY DEF IInv, TypeOK, BodyEnds, mainVars, MainTypes
  <2>2. RunTypes'
    BY DEF IInv, TypeOK, BodyEnds, runVars, RunTypes
  <2>3. ResultTypes'
    BY DEF IInv, TypeOK, BodyEnds, resultVars, ResultTypes
  <2>4. LockTypes'
    BY DEF IInv, TypeOK, BodyEnds, lockVars, LockTypes
  <2> QED
    BY <2>1, <2>2, <2>3, <2>4
       DEF TypeOK, MainTypes, RunTypes, ResultTypes, LockTypes
<1>2. UnwindingHasOutcome'
  BY DEF IInv, BodyEnds, runVars, UnwindingHasOutcome
<1>3. BegunHasResults'
  BY DEF IInv, BodyEnds, Alive, mainVars, runVars, resultVars, BegunHasResults
<1>4. EndedIsSettled'
  BY DEF IInv, BodyEnds, runVars, resultVars, EndedIsSettled, Parallel
<1>5. AwaitFirstUndisturbed'
  BY DEF IInv, BodyEnds, mainVars, runVars, AwaitFirstUndisturbed, Parallel,
      FirstWins, Undisturbed
<1>6. TodoIsOpen'
  BY DEF IInv, BodyEnds, mainVars, runVars, resultVars, TodoIsOpen
<1>7. SerialRunsHead'
  BY HeadStays DEF IInv, BodyEnds, mainVars, runVars, SerialRunsHead, Parallel
<1>8. OnCpuIsSerial'
  BY BusAssumption DEF BodyEnds, OnCpuIsSerial
<1>9. ClosingIsOver'
  BY DEF IInv, BodyEnds, mainVars, runVars, resultVars, ClosingIsOver
<1>10. RunsUnderLock'
  BY DEF IInv, BodyEnds, runVars, lockVars, RunsUnderLock, Parallel
<1>11. RunningIsAwaited'
  BY DEF IInv, BodyEnds, BodyResult, runVars, resultVars, RunningIsAwaited
<1>12. CancelledByDeadline'
  BY DEF IInv, BodyEnds, mainVars, runVars, CancelledByDeadline, Asked,
      Undisturbed, Parallel, FirstWins
<1>13. OpenUntilOver'
  BY DEF IInv, BodyEnds, mainVars, runVars, resultVars, OpenUntilOver,
      OtherExpired, TimedOut
<1>14. CompletedIsEnded'
  BY DEF IInv, BodyEnds, runVars, resultVars, CompletedIsEnded
<1>15. WinnerIsKnown'
  BY <1>0, BusFacts DEF IInv, BodyEnds, mainVars, WinnerIsKnown, FirstWins
<1>16. CancelledForReason'
  BY <1>0, BusFacts
     DEF IInv, BodyEnds, mainVars, resultVars, CancelledForReason, FirstWins
<1> QED
  BY <1>1, <1>2, <1>3, <1>4, <1>5, <1>6, <1>7, <1>8, <1>9, <1>10, <1>11, <1>12,
    <1>13, <1>14, <1>15, <1>16
     DEF IInv

\* A body that is asked to stop is not undisturbed.
LEMMA BodyAskedKeeps ==
    ASSUME IInv, NEW h \in Handler, BodyAsked(h)
    PROVE  IInv'
<1>0. \A g \in Handler : Winning(g) => Winning(g)'
  BY DEF BodyAsked, Winning, runVars, resultVars
<1>1. TypeOK'
  <2>1. MainTypes'
    BY DEF IInv, TypeOK, BodyAsked, mainVars, MainTypes
  <2>2. RunTypes'
    BY DEF IInv, TypeOK, BodyAsked, runVars, RunTypes, Alive
  <2>3. ResultTypes'
    BY DEF IInv, TypeOK, BodyAsked, resultVars, ResultTypes
  <2>4. LockTypes'
    BY DEF IInv, TypeOK, BodyAsked, lockVars, LockTypes
  <2> QED
    BY <2>1, <2>2, <2>3, <2>4
       DEF TypeOK, MainTypes, RunTypes, ResultTypes, LockTypes
<1>2. UnwindingHasOutcome'
  BY DEF IInv, BodyAsked, runVars, UnwindingHasOutcome
<1>3. BegunHasResults'
  BY DEF IInv, BodyAsked, mainVars, runVars, resultVars, BegunHasResults
<1>4. EndedIsSettled'
  BY DEF IInv, BodyAsked, runVars, resultVars, EndedIsSettled, Parallel
<1>5. AwaitFirstUndisturbed'
  BY DEF IInv, BodyAsked, mainVars, runVars, AwaitFirstUndisturbed, Parallel,
      FirstWins, Undisturbed, BodyResult
<1>6. TodoIsOpen'
  BY DEF IInv, BodyAsked, mainVars, runVars, resultVars, TodoIsOpen
<1>7. SerialRunsHead'
  BY HeadStays DEF IInv, BodyAsked, mainVars, runVars, SerialRunsHead, Parallel
<1>8. OnCpuIsSerial'
  BY BusAssumption DEF BodyAsked, OnCpuIsSerial
<1>9. ClosingIsOver'
  BY DEF IInv, BodyAsked, mainVars, runVars, resultVars, ClosingIsOver
<1>10. RunsUnderLock'
  BY DEF IInv, BodyAsked, runVars, lockVars, RunsUnderLock, Parallel
<1>11. RunningIsAwaited'
  BY DEF IInv, BodyAsked, runVars, resultVars, RunningIsAwaited
<1>12. CancelledByDeadline'
  BY DEF IInv, BodyAsked, mainVars, runVars, CancelledByDeadline, Asked,
      Undisturbed, BodyResult, Parallel, FirstWins
<1>13. OpenUntilOver'
  BY DEF IInv, BodyAsked, mainVars, runVars, resultVars, OpenUntilOver,
      OtherExpired, TimedOut
<1>14. CompletedIsEnded'
  BY DEF IInv, BodyAsked, runVars, resultVars, CompletedIsEnded
<1>15. WinnerIsKnown'
  BY <1>0, BusFacts DEF IInv, BodyAsked, mainVars, WinnerIsKnown, FirstWins
<1>16. CancelledForReason'
  BY <1>0, BusFacts
     DEF IInv, BodyAsked, mainVars, resultVars, CancelledForReason, FirstWins
<1> QED
  BY <1>1, <1>2, <1>3, <1>4, <1>5, <1>6, <1>7, <1>8, <1>9, <1>10, <1>11, <1>12,
    <1>13, <1>14, <1>15, <1>16
     DEF IInv

-----------------------------------------------------------------------------
(* The invariant holds in every state *)

LEMMA InvInit == ASSUME Init PROVE IInv
<1>1. TypeOK /\ BegunHasResults
  BY ConfigAssumption, BusFacts DEF Init, TypeOK, BegunHasResults
<1>2. UnwindingHasOutcome /\ EndedIsSettled /\ RunningIsAwaited /\ CompletedIsEnded
  BY BusFacts DEF Init, UnwindingHasOutcome, EndedIsSettled, RunningIsAwaited, CompletedIsEnded
<1>3. AwaitFirstUndisturbed /\ TodoIsOpen /\ ClosingIsOver /\ WinnerIsKnown
  BY DEF Init, AwaitFirstUndisturbed, TodoIsOpen, ClosingIsOver, WinnerIsKnown
<1>4. SerialRunsHead /\ OnCpuIsSerial /\ RunsUnderLock
  BY BusFacts, BusAssumption DEF Init, SerialRunsHead, OnCpuIsSerial, RunsUnderLock, Live
<1>5. CancelledByDeadline /\ OpenUntilOver /\ CancelledForReason
  BY BusFacts
     DEF Init, CancelledByDeadline, Asked, OpenUntilOver, CancelledForReason
<1> QED
  BY <1>1, <1>2, <1>3, <1>4, <1>5 DEF IInv

LEMMA InvNext == ASSUME IInv, [Next]_vars PROVE IInv'
<1>1. ASSUME NEW b \in Bus, Main(b) PROVE IInv'
  BY <1>1, BeginKeeps, NextRunKeeps, ReturnedKeeps, AwaitAllKeeps,
     AwaitFirstKeeps, GatheredKeeps, FinalizeKeeps, CloseKeeps
     DEF Main
<1>2. ASSUME NEW h \in Handler, Run(h) PROVE IInv'
  BY <1>2, FirstStepKeeps, LockGrantedKeeps, LockCancelledKeeps, WakeKeeps,
     UnwoundKeeps
     DEF Run
<1>3. ASSUME NEW h \in Handler, Body(h) PROVE IInv'
  BY <1>3, BodyEndsKeeps, BodyAskedKeeps DEF Body
<1>4. CASE UNCHANGED vars
  <2>1. TypeOK' /\ UnwindingHasOutcome' /\ BegunHasResults' /\ EndedIsSettled'
    BY <1>4 DEF IInv, vars, mainVars, runVars, resultVars, lockVars, TypeOK,
       UnwindingHasOutcome, BegunHasResults, EndedIsSettled, Parallel
  <2>2. AwaitFirstUndisturbed' /\ TodoIsOpen' /\ ClosingIsOver' /\ RunsUnderLock'
    BY <1>4 DEF IInv, vars, mainVars, runVars, resultVars, lockVars, Parallel,
       FirstWins, AwaitFirstUndisturbed, TodoIsOpen, ClosingIsOver, RunsUnderLock
  <2>3. SerialRunsHead' /\ OnCpuIsSerial'
    BY <1>4, HeadStays DEF IInv, vars, mainVars, runVars, lockVars, Parallel,
       SerialRunsHead, OnCpuIsSerial
  <2>4. RunningIsAwaited' /\ CancelledByDeadline' /\ OpenUntilOver' /\ CompletedIsEnded'
    BY <1>4 DEF IInv, vars, mainVars, runVars, resultVars, Parallel, FirstWins,
       RunningIsAwaited, CancelledByDeadline, Asked, OpenUntilOver, OtherExpired,
       TimedOut, CompletedIsEnded
  <2>5. WinnerIsKnown' /\ CancelledForReason'
    BY <1>4 DEF IInv, vars, mainVars, runVars, resultVars, FirstWins, Winning,
       WinnerIsKnown, CancelledForReason
  <2> QED
    BY <2>1, <2>2, <2>3, <2>4, <2>5 DEF IInv
<1> QED
  BY <1>1, <1>2, <1>3, <1>4, EventTimerKeeps, HandlerTimerKeeps DEF Next

LEMMA InvAlways == Spec => []IInv
<1>1. Init => IInv
  BY InvInit
<1>2. IInv /\ [Next]_vars => IInv'
  BY InvNext
<1> QED
  BY <1>1, <1>2, PTL DEF Spec

-----------------------------------------------------------------------------
(* The theorems *)

\* The variables keep their types, for any buses, handlers and modes.
THEOREM TypeCorrect == Spec => []TypeOK
<1>1. IInv => TypeOK
  BY DEF IInv
<1> QED
  BY <1>1, InvAlways, PTL

\* A bus that is done with the event has left no result of its handlers open,
\* whatever was cancelled, skipped or never begun (_process_event).
THEOREM SettledWhenDone == Spec => []DoneMeansSettled
<1>1. IInv => DoneMeansSettled
  BY DEF IInv, ClosingIsOver, DoneMeansSettled
<1> QED
  BY <1>1, InvAlways, PTL

\* Nor has it left a handler running that was not asked to stop (_call_handler).
THEOREM NobodyForgotten == Spec => []NoneLeftRunning
<1>1. ASSUME IInv PROVE NoneLeftRunning
  <2> SUFFICES ASSUME NEW b \in Bus, main[b] = "done", NEW h \in HandlersFor[b]
               PROVE  body[h] # "run"
    BY DEF NoneLeftRunning
  <2>1. run[h] # "body" /\ h \in Handler
    BY <1>1, BusFacts DEF IInv, ClosingIsOver, Live
  <2> QED
    BY <1>1, <2>1 DEF IInv, RunningIsAwaited
<1> QED
  BY <1>1, InvAlways, PTL

\* The event's handler lock lets one serial handler run at a time, on whatever
\* buses the event is (run_handler).
THEOREM SerialExclusion == Spec => []SerialBodies
<1>1. IInv => SerialBodies
  BY DEF IInv, RunsUnderLock, SerialBodies
<1> QED
  BY <1>1, InvAlways, PTL

\* A handler's child events are accepted only while its result is open (emit).
THEOREM NoLateEmits == Spec => []LateEmitsIgnored
<1>1. ASSUME IInv PROVE LateEmitsIgnored
  <2> SUFFICES ASSUME NEW h \in Handler, EmitsAccepted(h) PROVE result[h] = "started"
    BY DEF LateEmitsIgnored
  <2>1. body[h] = "run" /\ error[h] \notin {"timeout", "cancelled", "aborted"}
    BY DEF EmitsAccepted, Stale, Alive
  <2> QED
    BY <1>1, <2>1 DEF IInv, RunningIsAwaited
<1> QED
  BY <1>1, InvAlways, PTL

\* A result is marked as cancelled only behind a deadline or a winner on its bus
\* (_run_handlers, _finalize_event_timeout).
THEOREM NoIdleCancellation == Spec => []CancelledForReason
<1>1. IInv => CancelledForReason
  BY DEF IInv
<1> QED
  BY <1>1, InvAlways, PTL

\* Fail leaves settled results alone, and so does a call.
LEMMA SettledStays ==
    ASSUME TypeOK, NEW h \in Handler, result[h] \in Settled,
           \/ \E S \in SUBSET Handler, k \in [Handler -> {"cancelled", "aborted"}] : Fail(S, k)
           \/ \E g \in Handler : Call(g) \/ Skip(g)
           \/ UNCHANGED resultVars
    PROVE  result'[h] = result[h] /\ error'[h] = error[h]
BY DEF TypeOK, Fail, Call, Skip, resultVars

\* A run that ends finds its result open, but for its own timeout's or another
\* bus's deadline's doing.
LEMMA EndFindsOpen ==
    ASSUME IInv, NEW b \in Bus, NEW h \in HandlersFor[b], run[h] \in Live,
           result[h] \in Settled, expired \subseteq {b}
    PROVE  TimedOut(h)
<1>1. main[b] \in {"next", "await", "gather", "winner"}
  BY BusFacts DEF IInv, TypeOK, BegunHasResults, ClosingIsOver, Live
<1> QED
  BY <1>1 DEF IInv, OpenUntilOver, OtherExpired

LEMMA LateStep ==
    ASSUME IInv, [Next]_vars, NEW b \in Bus, NEW h \in HandlersFor[b],
           result[h] \in Settled, expired \subseteq {b}
    PROVE  result'[h] = result[h] /\ error'[h] = error[h]
<1>h. h \in Handler /\ TypeOK
  BY BusFacts DEF IInv
<1>1. ASSUME NEW c \in Bus, Begin(c) PROVE result'[h] = result[h] /\ error'[h] = error[h]
  <2>1. h \notin HandlersFor[c]
    BY <1>1, BusFacts DEF IInv, BegunHasResults, Begin, Settled
  <2> QED
    BY <1>1, <1>h, <2>1 DEF Begin
<1>2. ASSUME NEW c \in Bus, NextRun(c) PROVE result'[h] = result[h] /\ error'[h] = error[h]
  <2>1. todo[c] # {} => Head1(c) \in Handler
    BY <1>h, HeadIsOpen
  <2> QED
    BY <1>2, <1>h, <2>1, SettledStays DEF NextRun, resultVars
<1>3. ASSUME NEW c \in Bus, Returned(c) \/ Gathered(c) \/ Finalize(c)
      PROVE result'[h] = result[h] /\ error'[h] = error[h]
  BY <1>3, <1>h DEF Returned, Gathered, Finalize, Fail, resultVars
<1>4. ASSUME NEW c \in Bus, AwaitAll(c) \/ AwaitFirst(c) \/ Close(c) \/ EventTimer(c)
      PROVE result'[h] = result[h] /\ error'[h] = error[h]
  BY <1>4 DEF AwaitAll, AwaitFirst, Close, EventTimer, resultVars
<1>5. ASSUME NEW g \in Handler, FirstStep(g) \/ LockGranted(g)
      PROVE result'[h] = result[h] /\ error'[h] = error[h]
  BY <1>5, <1>h, SettledStays DEF FirstStep, LockGranted, resultVars
<1>6. ASSUME NEW g \in Handler, LockCancelled(g)
      PROVE result'[h] = result[h] /\ error'[h] = error[h]
  <2>1. g # h
    BY <1>6, EndFindsOpen DEF LockCancelled, Live, TimedOut
  <2> QED
    BY <1>6, <1>h, <2>1 DEF TypeOK, LockCancelled, End
<1>7. ASSUME NEW g \in Handler, Wake(g) PROVE result'[h] = result[h] /\ error'[h] = error[h]
  <2>1. g # h
    BY <1>7, EndFindsOpen DEF Wake, Live, TimedOut
  <2> QED
    BY <1>7, <1>h, <2>1 DEF TypeOK, Wake, End, resultVars
<1>8. ASSUME NEW g \in Handler, Unwound(g) PROVE result'[h] = result[h] /\ error'[h] = error[h]
  <2>1. CASE g = h
    <3>1. TimedOut(h)
      BY <1>8, <2>1, EndFindsOpen DEF Unwound, Live
    <3> QED
      BY <1>8, <1>h, <2>1, <3>1 DEF TypeOK, Unwound, End, TimedOut
  <2>2. CASE g # h
    BY <1>8, <1>h, <2>2 DEF TypeOK, Unwound, End
  <2> QED
    BY <2>1, <2>2
<1>9. ASSUME NEW g \in Handler, HandlerTimer(g) \/ Body(g)
      PROVE result'[h] = result[h] /\ error'[h] = error[h]
  BY <1>9 DEF HandlerTimer, Body, BodyEnds, BodyAsked, resultVars
<1>10. CASE UNCHANGED vars
  BY <1>10 DEF vars, resultVars
<1> QED
  BY <1>1, <1>2, <1>3, <1>4, <1>5, <1>6, <1>7, <1>8, <1>9, <1>10
     DEF Next, Main, Run

\* A settled result stays as it is, unless another bus's deadline settled it
\* while the handler ran (EventResult.update, run_handler).
THEOREM NoLateResults == Spec => LateResultsIgnored
<1> DEFINE Stays ==
      \A b \in Bus : \A h \in HandlersFor[b] :
          result[h] \in Settled /\ expired \subseteq {b}
          => result'[h] = result[h] /\ error'[h] = error[h]
<1>1. IInv /\ [Next]_vars => [Stays]_vars
  BY LateStep
<1> QED
  BY <1>1, InvAlways, PTL DEF Spec, LateResultsIgnored
=============================================================================
