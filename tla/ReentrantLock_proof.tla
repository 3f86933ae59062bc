------------------------ MODULE ReentrantLock_proof ------------------------
(***************************************************************************)
(* Proofs about ReentrantLock, for any set of tasks and any nesting: the   *)
(* semaphore's permit is conserved, whatever the contexts do, and the      *)
(* blocks are mutually exclusive when every scope waits for the tasks      *)
(* created in it and nobody runs handlers outside the lock.                *)
(***************************************************************************)
EXTENDS ReentrantLock, SequenceLemmas

\* A context's depth counts its open scopes and what it inherited; only the
\* outermost scope of a context that inherited nothing can hold the permit.
ScopeShape ==
    \A t \in Task :
        /\ Len(scopes[t]) <= depth[t]
        /\ \A i \in 1..Len(scopes[t]) :
              scopes[t][i] = "sem" => i = 1 /\ depth[t] = Len(scopes[t])
        /\ Len(scopes[t]) > 0 /\ scopes[t][1] = "nested" => depth[t] > Len(scopes[t])
        /\ t \notin run => Len(scopes[t]) = 0

\* A sleeping acquirer sleeps once, in a context that does not hold the lock.
SleepShape ==
    /\ \A i \in 1..Len(waiters) :
          waiters[i] \in run /\ waiters[i] \notin granted /\ depth[waiters[i]] = 0
    /\ \A i, j \in 1..Len(waiters) : waiters[i] = waiters[j] => i = j
    /\ \A t \in granted : t \in run /\ depth[t] = 0

\* An acquirer never sleeps beside a free permit.
NoIdlePermit == value = 1 => waiters = <<>>

IInv == TypeOK /\ ScopeShape /\ SleepShape /\ PermitConserved /\ NoIdlePermit

\* Every task above a live one, in the tree of creators, has a live child on
\* the way down to it.
LiveLine ==
    \A t \in run : \A a \in ancestors[t] :
        \E w \in run : creator[w] = a /\ (w = t \/ w \in ancestors[t])

\* A positive depth comes from an acquisition still open, by the task itself or
\* by one above it.
HolderAbove ==
    /\ \A t \in run :
          depth[t] > 0 => /\ holder[t] \in Holders
                          /\ holder[t] = t \/ holder[t] \in ancestors[t]
    /\ \A t \in Holders : holder[t] = t

\* The strengthening that mutual exclusion needs.
XInv == LiveLine /\ HolderAbove

-----------------------------------------------------------------------------
(* What opening and closing a scope, and a release, change. *)

\* Opening a scope puts it behind the others.
LEMMA OpenShape ==
    ASSUME TypeOK, NEW t \in Task, NEW s \in Scope, Open(t, s)
    PROVE  /\ scopes' \in [Task -> Seq(Scope)]
           /\ \A u \in Task \ {t} : scopes'[u] = scopes[u]
           /\ Len(scopes'[t]) = Len(scopes[t]) + 1
           /\ scopes'[t][Len(scopes[t]) + 1] = s
           /\ \A i \in 1..Len(scopes[t]) : scopes'[t][i] = scopes[t][i]
<1>1. scopes[t] \in Seq(Scope) /\ scopes'[t] = Append(scopes[t], s)
  BY DEF TypeOK, Open
<1>2. QED
  BY <1>1 DEF TypeOK, Open

LEMMA CloseShape ==
    ASSUME TypeOK, NEW t \in Task, NEW s \in Scope, Close(t, s)
    PROVE  /\ scopes' \in [Task -> Seq(Scope)]
           /\ \A u \in Task \ {t} : scopes'[u] = scopes[u]
           /\ Len(scopes[t]) \in Nat \ {0}
           /\ Len(scopes'[t]) = Len(scopes[t]) - 1
           /\ scopes[t][Len(scopes[t])] = s
           /\ \A i \in 1..Len(scopes'[t]) : scopes'[t][i] = scopes[t][i]
<1>1. scopes[t] \in Seq(Scope) /\ scopes'[t] = Front(scopes[t])
  BY DEF TypeOK, Close
<1>2. QED
  BY <1>1, FrontOfSeq DEF TypeOK, Close

LEMMA HolderIndex ==
    ASSUME TypeOK
    PROVE  \A t \in Task :
              t \in Holders <=> \E i \in 1..Len(scopes[t]) : scopes[t][i] = "sem"
BY RangeIndex DEF TypeOK, Holders

\* What handing the permit back does: a sleeper that was first in the queue is
\* the only one that can be granted.
LEMMA ReleaseShape ==
    ASSUME TypeOK, ReleasePermit
    PROVE  /\ value' \in {0, 1} /\ waiters' \in Seq(Task) /\ granted' \subseteq Task
           /\ \/ waiters = <<>> /\ value' = 1 /\ waiters' = waiters /\ granted' = granted
              \/ /\ waiters # <<>> /\ value' = value
                 /\ granted' = granted \cup {waiters[1]}
                 /\ Len(waiters) \in Nat \ {0}
                 /\ Len(waiters') = Len(waiters) - 1
                 /\ \A i \in 1..Len(waiters') : waiters'[i] = waiters[i + 1]
<1>1. CASE waiters = <<>>
  BY <1>1 DEF TypeOK, ReleasePermit
<1>2. CASE waiters # <<>>
  <2>1. /\ Tail(waiters) \in Seq(Task) /\ Len(Tail(waiters)) = Len(waiters) - 1
        /\ Head(waiters) = waiters[1] /\ Head(waiters) \in Task
        /\ \A j \in 1..(Len(waiters) - 1) : Tail(waiters)[j] = waiters[j + 1]
        /\ Len(waiters) \in Nat \ {0}
    BY <1>2, TailOfSeq DEF TypeOK
  <2>2. QED
    BY <1>2, <2>1 DEF TypeOK, ReleasePermit
<1>3. QED
  BY <1>1, <1>2
-----------------------------------------------------------------------------
(* Type correctness *)

LEMMA TypeInit == Init => TypeOK
BY RootAssumption, NoTaskAssumption DEF Init, TypeOK, Scope

LEMMA TypeStep == TypeOK /\ ScopeShape /\ [Next]_vars => TypeOK'
<1> SUFFICES ASSUME TypeOK, ScopeShape, [Next]_vars
             PROVE  TypeOK'
  OBVIOUS
<1>1. ASSUME NEW t \in Task, EnterNested(t)
      PROVE  TypeOK'
  BY <1>1, OpenShape DEF EnterNested, TypeOK, Scope
<1>2. ASSUME NEW t \in Task, EnterFree(t)
      PROVE  TypeOK'
  BY <1>2, OpenShape DEF EnterFree, TypeOK, Scope
<1>3. ASSUME NEW t \in Task, EnterWait(t)
      PROVE  TypeOK'
  BY <1>3 DEF EnterWait, TypeOK
<1>4. ASSUME NEW t \in Task, EnterResume(t)
      PROVE  TypeOK'
  BY <1>4, OpenShape DEF EnterResume, TypeOK, Scope
<1>5. ASSUME NEW t \in Task, CancelAsleep(t)
      PROVE  TypeOK'
  <2>1. PICK i \in 1..Len(waiters) : waiters' = RemoveAt(waiters, i)
    BY <1>5 DEF CancelAsleep
  <2>2. waiters' \in Seq(Task)
    BY <2>1, RemoveAtOfSeq DEF TypeOK
  <2>3. QED
    BY <1>5, <2>2 DEF CancelAsleep, TypeOK
<1>6. ASSUME NEW t \in Task, CancelGranted(t)
      PROVE  TypeOK'
  <2>1. waiters # <<>> => Head(waiters) \in Task /\ Tail(waiters) \in Seq(Task)
    BY TailOfSeq DEF TypeOK
  <2>2. QED
    BY <1>6, <2>1 DEF CancelGranted, TypeOK
<1>7. ASSUME NEW t \in Task, Exit(t)
      PROVE  TypeOK'
  <2>1. scopes' \in [Task -> Seq(Scope)]
    BY <1>7, CloseShape DEF Exit, Scope
  <2>2. value' \in {0, 1} /\ waiters' \in Seq(Task) /\ granted' \subseteq Task
    BY <1>7, ReleaseShape DEF Exit, TypeOK
  <2>3. depth' \in [Task -> Nat]
    BY <1>7 DEF Exit, TypeOK
  <2>5. holder' \in [Task -> Task \cup {NoTask}]
    BY <1>7 DEF Exit, TypeOK
  <2>4. QED
    BY <1>7, <2>1, <2>2, <2>3, <2>5 DEF Exit, TypeOK
<1>8. ASSUME NEW t \in Task, MarkHeld(t)
      PROVE  TypeOK'
  BY <1>8, OpenShape DEF MarkHeld, TypeOK, Scope
<1>9. ASSUME NEW t \in Task, ResetMark(t)
      PROVE  TypeOK'
  <2>1. scopes' \in [Task -> Seq(Scope)] /\ Len(scopes[t]) \in Nat \ {0}
    BY <1>9, CloseShape DEF ResetMark, Scope
  <2>2. depth[t] \in Nat \ {0}
    BY <2>1 DEF ScopeShape, TypeOK
  <2>3. depth' \in [Task -> Nat]
    BY <1>9, <2>2 DEF ResetMark, TypeOK
  <2>4. QED
    BY <1>9, <2>1, <2>3 DEF ResetMark, TypeOK
<1>10. ASSUME NEW t \in Task, Finish(t)
       PROVE  TypeOK'
  BY <1>10 DEF Finish, TypeOK
<1>11. ASSUME NEW t \in Task, NEW u \in Task, CreateTask(t, u)
       PROVE  TypeOK'
  BY <1>11 DEF CreateTask, TypeOK, Runnable
<1>12. CASE UNCHANGED vars
  BY <1>12 DEF vars, TypeOK
<1>13. QED
  BY <1>1, <1>2, <1>3, <1>4, <1>5, <1>6, <1>7, <1>8, <1>9, <1>10, <1>11, <1>12 DEF Next
-----------------------------------------------------------------------------
(* The shape of the scopes *)

\* Opening a scope under the conditions of the three ways to do it keeps the
\* shape: a nested scope opens on a positive depth, "sem" on depth zero.
LEMMA OpenStep ==
    ASSUME TypeOK, ScopeShape, NEW t \in Task, NEW s \in Scope, Open(t, s),
           t \in run, run' = run, depth' = [depth EXCEPT ![t] = depth[t] + 1],
           s = "nested" => depth[t] > 0, s = "sem" => depth[t] = 0
    PROVE  ScopeShape'
<1> DEFINE n == Len(scopes[t])
<1>1. /\ scopes' \in [Task -> Seq(Scope)]
      /\ \A u \in Task \ {t} : scopes'[u] = scopes[u]
      /\ Len(scopes'[t]) = n + 1
      /\ scopes'[t][n + 1] = s
      /\ \A i \in 1..n : scopes'[t][i] = scopes[t][i]
  BY OpenShape
<1>2. n \in Nat /\ depth[t] \in Nat /\ depth'[t] = depth[t] + 1
  BY DEF TypeOK
<1>3. ASSUME NEW u \in Task \ {t}
      PROVE  scopes'[u] = scopes[u] /\ depth'[u] = depth[u]
  BY <1>1 DEF TypeOK
<1>4. n <= depth[t]
  BY DEF ScopeShape
<1>5. ASSUME NEW i \in 1..(n + 1), scopes'[t][i] = "sem"
      PROVE  i = 1 /\ depth[t] = n
  <2>1. CASE i = n + 1
    BY <1>1, <1>2, <1>4, <1>5, <2>1
  <2>2. CASE i # n + 1
    <3>1. i \in 1..n
      BY <1>2, <2>2
    <3>2. scopes[t][i] = "sem"
      BY <1>1, <1>5, <3>1
    <3>3. QED
      BY <3>1, <3>2 DEF ScopeShape
  <2>3. QED
    BY <2>1, <2>2
<1>6. ASSUME scopes'[t][1] = "nested"
      PROVE  depth[t] > n
  <2>1. CASE n = 0
    BY <1>1, <1>2, <1>6, <2>1
  <2>2. CASE n # 0
    BY <1>1, <1>2, <1>6, <2>2 DEF ScopeShape
  <2>3. QED
    BY <2>1, <2>2
<1> HIDE DEF n
<1>7. /\ Len(scopes'[t]) <= depth'[t]
      /\ \A i \in 1..Len(scopes'[t]) :
            scopes'[t][i] = "sem" => i = 1 /\ depth'[t] = Len(scopes'[t])
      /\ Len(scopes'[t]) > 0 /\ scopes'[t][1] = "nested" => depth'[t] > Len(scopes'[t])
  BY <1>1, <1>2, <1>4, <1>5, <1>6
<1>8. QED
  BY <1>3, <1>7 DEF ScopeShape

\* So does closing the innermost scope.
LEMMA CloseStep ==
    ASSUME TypeOK, ScopeShape, NEW t \in Task, NEW s \in Scope, Close(t, s),
           t \in run, run' = run, depth' = [depth EXCEPT ![t] = depth[t] - 1]
    PROVE  ScopeShape'
<1> DEFINE n == Len(scopes[t])
<1>1. /\ scopes' \in [Task -> Seq(Scope)]
      /\ \A u \in Task \ {t} : scopes'[u] = scopes[u]
      /\ n \in Nat \ {0}
      /\ Len(scopes'[t]) = n - 1
      /\ \A i \in 1..(n - 1) : scopes'[t][i] = scopes[t][i]
  BY CloseShape
<1>2. depth[t] \in Nat /\ depth'[t] = depth[t] - 1
  BY DEF TypeOK
<1>3. ASSUME NEW u \in Task \ {t}
      PROVE  scopes'[u] = scopes[u] /\ depth'[u] = depth[u]
  BY <1>1 DEF TypeOK
<1>4. n <= depth[t]
  BY DEF ScopeShape
<1>5. ASSUME NEW i \in 1..(n - 1), scopes'[t][i] = "sem"
      PROVE  i = 1 /\ depth[t] = n
  BY <1>1, <1>5 DEF ScopeShape
<1>6. ASSUME n - 1 > 0, scopes'[t][1] = "nested"
      PROVE  depth[t] > n
  BY <1>1, <1>6 DEF ScopeShape
<1> HIDE DEF n
<1>7. /\ Len(scopes'[t]) <= depth'[t]
      /\ \A i \in 1..Len(scopes'[t]) :
            scopes'[t][i] = "sem" => i = 1 /\ depth'[t] = Len(scopes'[t])
      /\ Len(scopes'[t]) > 0 /\ scopes'[t][1] = "nested" => depth'[t] > Len(scopes'[t])
  BY <1>1, <1>2, <1>4, <1>5, <1>6
<1>8. QED
  BY <1>3, <1>7 DEF ScopeShape

\* A task that closes a scope has a positive depth, and the one scope whose
\* closing brings the depth to zero in __aexit__ is the one that acquired.
LEMMA ExitDepth ==
    ASSUME TypeOK, ScopeShape, NEW t \in Task, NEW s \in Scope, Close(t, s)
    PROVE  /\ depth[t] \in Nat \ {0}
           /\ s = "sem" => depth[t] = 1 /\ Len(scopes[t]) = 1
           /\ s = "nested" => depth[t] # 1
<1> DEFINE n == Len(scopes[t])
<1>1. n \in Nat \ {0} /\ scopes[t][n] = s
  BY CloseShape
<1>2. depth[t] \in Nat /\ n <= depth[t]
  BY DEF ScopeShape, TypeOK
<1>3. s = "sem" => n = 1 /\ depth[t] = n
  <2>1. n \in 1..n
    BY <1>1
  <2>2. QED
    BY <1>1, <2>1 DEF ScopeShape
<1>4. s = "nested" /\ depth[t] = 1 => n = 1 /\ scopes[t][1] = "nested"
  <2> SUFFICES ASSUME s = "nested", depth[t] = 1
               PROVE  n = 1 /\ scopes[t][1] = "nested"
    OBVIOUS
  <2> HIDE DEF n
  <2>1. n = 1
    BY <1>1, <1>2
  <2>2. QED
    BY <1>1, <2>1
<1>5. scopes[t][1] = "nested" => depth[t] > n
  BY <1>1 DEF ScopeShape
<1>6. QED
  BY <1>1, <1>2, <1>3, <1>4, <1>5

LEMMA ScopeStep == TypeOK /\ ScopeShape /\ SleepShape /\ [Next]_vars => ScopeShape'
<1> SUFFICES ASSUME TypeOK, ScopeShape, SleepShape, [Next]_vars
             PROVE  ScopeShape'
  OBVIOUS
<1>0. \A t \in Task : scopes[t] \in Seq(Scope) /\ depth[t] \in Nat
  BY DEF TypeOK
<1>1. ASSUME NEW t \in Task, EnterNested(t)
      PROVE  ScopeShape'
  <2>1. depth' = [depth EXCEPT ![t] = depth[t] + 1] /\ t \in run /\ run' = run
    BY <1>0, <1>1 DEF EnterNested, Runnable
  <2>2. QED
    BY <2>1, <1>1, OpenStep DEF EnterNested, Runnable, Scope
<1>2. ASSUME NEW t \in Task, EnterFree(t)
      PROVE  ScopeShape'
  <2>1. depth' = [depth EXCEPT ![t] = depth[t] + 1] /\ t \in run /\ run' = run
    BY <1>0, <1>2 DEF EnterFree, Runnable
  <2>2. QED
    BY <2>1, <1>2, OpenStep DEF EnterFree, Runnable, Scope
<1>3. ASSUME NEW t \in Task, EnterWait(t)
      PROVE  ScopeShape'
  BY <1>3 DEF EnterWait, ScopeShape
<1>4. ASSUME NEW t \in Task, EnterResume(t)
      PROVE  ScopeShape'
  <2>1. depth[t] = 0 /\ t \in run
    BY <1>4 DEF EnterResume, SleepShape
  <2>2. depth' = [depth EXCEPT ![t] = depth[t] + 1] /\ run' = run
    BY <2>1, <1>4 DEF EnterResume
  <2>3. QED
    BY <2>1, <2>2, <1>4, OpenStep DEF EnterResume, Scope
<1>5. ASSUME NEW t \in Task, CancelAsleep(t)
      PROVE  ScopeShape'
  <2>1. depth[t] = 0
    BY <1>5 DEF CancelAsleep, SleepShape
  <2>2. Len(scopes[t]) = 0
    BY <1>0, <2>1 DEF ScopeShape
  <2>3. QED
    BY <1>5, <2>2 DEF CancelAsleep, ScopeShape
<1>6. ASSUME NEW t \in Task, CancelGranted(t)
      PROVE  ScopeShape'
  <2>1. depth[t] = 0
    BY <1>6 DEF CancelGranted, SleepShape
  <2>2. Len(scopes[t]) = 0
    BY <1>0, <2>1 DEF ScopeShape
  <2>3. QED
    BY <1>6, <2>2 DEF CancelGranted, ScopeShape
<1>7. ASSUME NEW t \in Task, Exit(t)
      PROVE  ScopeShape'
  <2>1. PICK s \in Scope : Close(t, s)
    BY <1>7 DEF Exit, Scope
  <2>2. depth[t] \in Nat \ {0}
    BY <2>1, ExitDepth
  <2>3. depth' = [depth EXCEPT ![t] = depth[t] - 1] /\ t \in run /\ run' = run
    <3>1. (IF depth[t] > 0 THEN depth[t] - 1 ELSE 0) = depth[t] - 1
      BY <2>2
    <3>2. QED
      BY <1>7, <3>1 DEF Exit, Runnable
  <2>4. QED
    BY <2>1, <2>3, CloseStep
<1>8. ASSUME NEW t \in Task, MarkHeld(t)
      PROVE  ScopeShape'
  <2>1. depth' = [depth EXCEPT ![t] = depth[t] + 1] /\ t \in run /\ run' = run
    BY <1>0, <1>8 DEF MarkHeld, Runnable
  <2>2. QED
    BY <2>1, <1>8, OpenStep DEF MarkHeld, Runnable, Scope
<1>9. ASSUME NEW t \in Task, ResetMark(t)
      PROVE  ScopeShape'
  <2>1. t \in run /\ run' = run
    BY <1>9 DEF ResetMark, Runnable
  <2>2. QED
    BY <1>9, <2>1, CloseStep DEF ResetMark, Scope
<1>10. ASSUME NEW t \in Task, Finish(t)
       PROVE  ScopeShape'
  BY <1>10 DEF Finish, ScopeShape
<1>11. ASSUME NEW t \in Task, NEW u \in Task, CreateTask(t, u)
       PROVE  ScopeShape'
  BY <1>0, <1>11 DEF CreateTask, Runnable, TypeOK, ScopeShape
<1>12. CASE UNCHANGED vars
  BY <1>12 DEF vars, ScopeShape
<1>13. QED
  BY <1>1, <1>2, <1>3, <1>4, <1>5, <1>6, <1>7, <1>8, <1>9, <1>10, <1>11, <1>12 DEF Next
-----------------------------------------------------------------------------
(* The shape of the queue of acquirers *)

\* An action of a task that is awake and leaves the queue alone.
LEMMA AwakeStep ==
    ASSUME TypeOK, SleepShape, NEW t \in Task, Runnable(t),
           waiters' = waiters, granted' = granted, run \subseteq run',
           \A u \in run \ {t} : depth'[u] = depth[u]
    PROVE  SleepShape'
<1>1. t \notin granted /\ \A i \in 1..Len(waiters) : waiters[i] # t
  BY RangeIndex DEF Runnable, Asleep, TypeOK
<1>2. QED
  BY <1>1 DEF SleepShape, TypeOK

\* Handing the permit on moves the head of the queue to the granted.
LEMMA ReleaseStep ==
    ASSUME TypeOK, SleepShape, ReleasePermit, NEW t \in Task, Runnable(t),
           run' = run, \A u \in Task \ {t} : depth'[u] = depth[u]
    PROVE  SleepShape'
<1>1. t \notin granted /\ \A i \in 1..Len(waiters) : waiters[i] # t
  BY RangeIndex DEF Runnable, Asleep, TypeOK
<1>2. CASE waiters' = waiters /\ granted' = granted
  BY <1>1, <1>2 DEF SleepShape, TypeOK
<1>3. CASE /\ waiters # <<>> /\ granted' = granted \cup {waiters[1]}
           /\ Len(waiters) \in Nat \ {0}
           /\ Len(waiters') = Len(waiters) - 1
           /\ \A i \in 1..Len(waiters') : waiters'[i] = waiters[i + 1]
  <2>1. \A i \in 1..Len(waiters') : i + 1 \in 1..Len(waiters) /\ i + 1 # 1
    BY <1>3
  <2>2. 1 \in 1..Len(waiters) /\ waiters[1] \in Task
    BY <1>3 DEF TypeOK
  <2>3. \A u \in Task \ {t} : depth'[u] = depth[u]
    OBVIOUS
  <2>4. \A i \in 1..Len(waiters) : waiters[i] \in Task /\ waiters[i] # t
    BY <1>1 DEF TypeOK
  <2>5. ASSUME NEW i \in 1..Len(waiters')
        PROVE  waiters'[i] \in run /\ waiters'[i] \notin granted' /\ depth'[waiters'[i]] = 0
    <3>1. waiters'[i] = waiters[i + 1] /\ waiters[i + 1] # waiters[1]
      BY <1>3, <2>1, <2>2 DEF SleepShape
    <3>2. QED
      BY <1>3, <2>1, <2>3, <2>4, <3>1 DEF SleepShape
  <2>6. ASSUME NEW i \in 1..Len(waiters'), NEW j \in 1..Len(waiters'), waiters'[i] = waiters'[j]
        PROVE  i = j
    <3>1. waiters[i + 1] = waiters[j + 1]
      BY <1>3, <2>6
    <3>2. i + 1 = j + 1
      BY <2>1, <3>1 DEF SleepShape
    <3>3. QED
      BY <3>2
  <2>7. ASSUME NEW u \in granted'
        PROVE  u \in run /\ depth'[u] = 0
    <3>1. u \in Task /\ u # t /\ u \in run /\ depth[u] = 0
      BY <1>1, <1>3, <2>2, <2>4, <2>7 DEF SleepShape, TypeOK
    <3>2. QED
      BY <2>3, <3>1
  <2>8. QED
    BY <2>5, <2>6, <2>7 DEF SleepShape
<1>4. QED
  BY <1>2, <1>3, ReleaseShape

LEMMA SleepStep == TypeOK /\ ScopeShape /\ SleepShape /\ [Next]_vars => SleepShape'
<1> SUFFICES ASSUME TypeOK, ScopeShape, SleepShape, [Next]_vars
             PROVE  SleepShape'
  OBVIOUS
<1>1. ASSUME NEW t \in Task, EnterNested(t) \/ MarkHeld(t) \/ EnterFree(t) \/ ResetMark(t)
      PROVE  SleepShape'
  <2>1. /\ Runnable(t) /\ waiters' = waiters /\ granted' = granted /\ run' = run
        /\ \A u \in Task \ {t} : depth'[u] = depth[u]
    BY <1>1 DEF EnterNested, MarkHeld, EnterFree, ResetMark, TypeOK
  <2>2. QED
    BY <2>1, AwakeStep DEF TypeOK
<1>2. ASSUME NEW t \in Task, EnterWait(t)
      PROVE  SleepShape'
  <2> DEFINE n == Len(waiters)
  <2>1. t \notin granted /\ t \in run /\ depth[t] = 0 /\ \A i \in 1..n : waiters[i] # t
    BY <1>2, RangeIndex DEF EnterWait, Runnable, Asleep, TypeOK
  <2>2. /\ n \in Nat /\ Len(waiters') = n + 1 /\ waiters'[n + 1] = t
        /\ \A i \in 1..n : waiters'[i] = waiters[i]
    BY <1>2 DEF EnterWait, TypeOK
  <2>3. run' = run /\ granted' = granted /\ depth' = depth
    BY <1>2 DEF EnterWait
  <2>4. \A i \in 1..n : waiters[i] \in run /\ waiters[i] \notin granted /\ depth[waiters[i]] = 0
    BY DEF SleepShape
  <2>5. \A i, j \in 1..n : waiters[i] = waiters[j] => i = j
    BY DEF SleepShape
  <2> HIDE DEF n
  <2>6. \A i \in 1..(n + 1) : i \in 1..n \/ i = n + 1
    BY <2>2
  <2>7. \A i \in 1..(n + 1) :
            waiters'[i] \in run /\ waiters'[i] \notin granted /\ depth[waiters'[i]] = 0
    BY <2>1, <2>2, <2>4, <2>6
  <2>8. \A i, j \in 1..(n + 1) : waiters'[i] = waiters'[j] => i = j
    BY <2>1, <2>2, <2>5, <2>6
  <2>9. QED
    BY <2>2, <2>3, <2>7, <2>8 DEF SleepShape
<1>3. ASSUME NEW t \in Task, EnterResume(t)
      PROVE  SleepShape'
  <2>1. \A u \in Task \ {t} : depth'[u] = depth[u]
    BY <1>3 DEF EnterResume, TypeOK
  <2>2. \A i \in 1..Len(waiters) : waiters[i] # t /\ waiters[i] \in Task
    BY <1>3 DEF EnterResume, SleepShape, TypeOK
  <2>3. granted' = granted \ {t} /\ waiters' = waiters /\ run' = run
    BY <1>3 DEF EnterResume
  <2>4. QED
    BY <2>1, <2>2, <2>3 DEF SleepShape, TypeOK
<1>4. ASSUME NEW t \in Task, CancelAsleep(t)
      PROVE  SleepShape'
  <2>1. PICK i \in 1..Len(waiters) : waiters[i] = t /\ waiters' = RemoveAt(waiters, i)
    BY <1>4 DEF CancelAsleep
  <2> DEFINE n == Len(waiters)
             k(j) == IF j < i THEN j ELSE j + 1
  <2>2. Len(waiters') = n - 1 /\ n \in Nat
        /\ \A j \in 1..(n - 1) : waiters'[j] = IF j < i THEN waiters[j] ELSE waiters[j + 1]
    <3>1. waiters \in Seq(Task) /\ Len(waiters) \in Nat
      BY DEF TypeOK
    <3>2. QED
      BY <2>1, <3>1, RemoveAtOfSeq
  <2>3. \A j \in 1..(n - 1) : waiters'[j] = waiters[k(j)] /\ k(j) \in 1..n /\ k(j) # i
    BY <2>1, <2>2
  <2>4. \A j, l \in 1..(n - 1) : k(j) = k(l) => j = l
    BY <2>2
  <2>5. granted' = granted /\ depth' = depth /\ run' = run \ {t}
    BY <1>4 DEF CancelAsleep
  <2>6. /\ \A j \in 1..n : waiters[j] \in run /\ waiters[j] \notin granted /\ depth[waiters[j]] = 0
        /\ \A j, l \in 1..n : waiters[j] = waiters[l] => j = l
        /\ \A u \in granted : u \in run /\ depth[u] = 0
    BY DEF SleepShape
  <2> HIDE DEF n, k
  <2>7. t \notin granted /\ \A j \in 1..n : j # i => waiters[j] # t
    BY <2>1, <2>6 DEF n
  <2>8. \A j \in 1..(n - 1) :
           waiters'[j] \in run' /\ waiters'[j] \notin granted' /\ depth'[waiters'[j]] = 0
    BY <2>3, <2>5, <2>6, <2>7
  <2>9. \A j, l \in 1..(n - 1) : waiters'[j] = waiters'[l] => j = l
    BY <2>3, <2>4, <2>6
  <2>10. QED
    BY <2>2, <2>5, <2>6, <2>7, <2>8, <2>9 DEF SleepShape
<1>5. ASSUME NEW t \in Task, CancelGranted(t)
      PROVE  SleepShape'
  <2>1. t \in granted /\ run' = run \ {t} /\ depth' = depth
    BY <1>5 DEF CancelGranted
  <2>2. \A i \in 1..Len(waiters) : waiters[i] # t
    BY <2>1 DEF SleepShape
  <2>3. CASE waiters = <<>>
    BY <1>5, <2>1, <2>2, <2>3 DEF CancelGranted, SleepShape
  <2>4. CASE waiters # <<>>
    <3> DEFINE n == Len(waiters)
    <3>1. /\ n \in Nat \ {0} /\ Len(waiters') = n - 1
          /\ granted' = (granted \ {t}) \cup {waiters[1]}
          /\ \A j \in 1..(n - 1) : waiters'[j] = waiters[j + 1]
      <4>1. waiters \in Seq(Task)
        BY DEF TypeOK
      <4>2. /\ n \in Nat \ {0} /\ Len(Tail(waiters)) = n - 1
            /\ Head(waiters) = waiters[1]
            /\ \A j \in 1..(n - 1) : Tail(waiters)[j] = waiters[j + 1]
        BY <2>4, <4>1, TailOfSeq
      <4>3. /\ granted' = (granted \ {t}) \cup {Head(waiters)}
            /\ waiters' = Tail(waiters)
        BY <1>5, <2>4 DEF CancelGranted
      <4>4. QED
        BY <4>2, <4>3
    <3>2. /\ \A j \in 1..n : waiters[j] \in run /\ waiters[j] \notin granted /\ depth[waiters[j]] = 0
          /\ \A j, l \in 1..n : waiters[j] = waiters[l] => j = l
          /\ \A u \in granted : u \in run /\ depth[u] = 0
          /\ \A j \in 1..n : waiters[j] # t
      BY <2>2 DEF SleepShape
    <3> HIDE DEF n
    <3>3. \A j \in 1..(n - 1) : j + 1 \in 1..n /\ j + 1 # 1 /\ 1 \in 1..n
      BY <3>1
    <3>4. \A j \in 1..(n - 1) :
             waiters'[j] \in run' /\ waiters'[j] \notin granted' /\ depth'[waiters'[j]] = 0
      BY <2>1, <3>1, <3>2, <3>3
    <3>5. ASSUME NEW j \in 1..(n - 1), NEW l \in 1..(n - 1), waiters'[j] = waiters'[l]
          PROVE  j = l
      <4>1. j + 1 = l + 1
        BY <3>1, <3>2, <3>3, <3>5
      <4>2. QED
        BY <4>1
    <3>6. 1 \in 1..n
      BY <3>1
    <3>7. \A u \in granted' : u \in run' /\ depth'[u] = 0
      BY <2>1, <3>1, <3>2, <3>6
    <3>8. QED
      BY <3>1, <3>4, <3>5, <3>7 DEF SleepShape
  <2>5. QED
    BY <2>3, <2>4
<1>6. ASSUME NEW t \in Task, Exit(t)
      PROVE  SleepShape'
  <2>1. /\ Runnable(t) /\ run' = run
        /\ \A u \in Task \ {t} : depth'[u] = depth[u]
    BY <1>6 DEF Exit, TypeOK
  <2>2. CASE depth[t] = 1
    BY <1>6, <2>1, <2>2, ReleaseStep DEF Exit
  <2>3. CASE depth[t] # 1
    <3>1. waiters' = waiters /\ granted' = granted
      BY <1>6, <2>3 DEF Exit
    <3>2. QED
      BY <2>1, <3>1, AwakeStep DEF TypeOK
  <2>4. QED
    BY <2>2, <2>3
<1>7. ASSUME NEW t \in Task, Finish(t)
      PROVE  SleepShape'
  <2>1. t \notin granted /\ \A i \in 1..Len(waiters) : waiters[i] # t
    BY <1>7, RangeIndex DEF Finish, Runnable, Asleep, TypeOK
  <2>2. QED
    BY <1>7, <2>1 DEF Finish, SleepShape
<1>8. ASSUME NEW t \in Task, NEW u \in Task, CreateTask(t, u)
      PROVE  SleepShape'
  <2>1. \A v \in run : depth'[v] = depth[v]
    BY <1>8 DEF CreateTask, TypeOK
  <2>2. Runnable(t) /\ waiters' = waiters /\ granted' = granted /\ run \subseteq run'
    BY <1>8 DEF CreateTask
  <2>3. QED
    BY <2>1, <2>2, AwakeStep
<1>9. CASE UNCHANGED vars
  BY <1>9 DEF vars, SleepShape
<1>10. QED
  BY <1>1, <1>2, <1>3, <1>4, <1>5, <1>6, <1>7, <1>8, <1>9 DEF Next
-----------------------------------------------------------------------------
(* The permit *)

LEMMA HoldersOpen ==
    ASSUME TypeOK, NEW t \in Task, NEW s \in Scope, Open(t, s)
    PROVE  Holders' = IF s = "sem" THEN Holders \cup {t} ELSE Holders
<1> DEFINE n == Len(scopes[t])
<1>1. /\ scopes' \in [Task -> Seq(Scope)]
      /\ \A u \in Task \ {t} : scopes'[u] = scopes[u]
      /\ Len(scopes'[t]) = n + 1
      /\ scopes'[t][n + 1] = s
      /\ \A i \in 1..n : scopes'[t][i] = scopes[t][i]
  BY OpenShape
<1>2. n \in Nat
  BY DEF TypeOK
<1>3. \A u \in Task : u \in Holders <=> \E i \in 1..Len(scopes[u]) : scopes[u][i] = "sem"
  BY HolderIndex
<1>4. \A u \in Task : u \in Holders' <=> \E i \in 1..Len(scopes'[u]) : scopes'[u][i] = "sem"
  BY <1>1, RangeIndex DEF Holders
<1> HIDE DEF n
<1>5. \A i \in 1..(n + 1) : i \in 1..n \/ i = n + 1
  BY <1>2
<1>6. (\E i \in 1..(n + 1) : scopes'[t][i] = "sem")
         <=> (s = "sem" \/ \E i \in 1..n : scopes[t][i] = "sem")
  BY <1>1, <1>2, <1>5
<1>7. t \in Holders' <=> s = "sem" \/ t \in Holders
  BY <1>1, <1>3, <1>4, <1>6 DEF n
<1>8. \A u \in Task \ {t} : u \in Holders' <=> u \in Holders
  BY <1>1, <1>3, <1>4
<1>9. Holders \subseteq Task /\ Holders' \subseteq Task
  BY DEF Holders
<1>10. QED
  BY <1>7, <1>8, <1>9

LEMMA HoldersClose ==
    ASSUME TypeOK, ScopeShape, NEW t \in Task, NEW s \in Scope, Close(t, s)
    PROVE  IF s = "sem" THEN t \in Holders /\ Holders' = Holders \ {t}
                        ELSE Holders' = Holders
<1> DEFINE n == Len(scopes[t])
<1>1. /\ scopes' \in [Task -> Seq(Scope)]
      /\ \A u \in Task \ {t} : scopes'[u] = scopes[u]
      /\ n \in Nat \ {0}
      /\ Len(scopes'[t]) = n - 1
      /\ scopes[t][n] = s
      /\ \A i \in 1..(n - 1) : scopes'[t][i] = scopes[t][i]
  BY CloseShape
<1>2. s = "sem" => n = 1
  BY ExitDepth
<1>3. \A u \in Task : u \in Holders <=> \E i \in 1..Len(scopes[u]) : scopes[u][i] = "sem"
  BY HolderIndex
<1>4. \A u \in Task : u \in Holders' <=> \E i \in 1..Len(scopes'[u]) : scopes'[u][i] = "sem"
  BY <1>1, RangeIndex DEF Holders
<1> HIDE DEF n
<1>5. \A i \in 1..n : i \in 1..(n - 1) \/ i = n
  BY <1>1
<1>6. s # "sem" => ((\E i \in 1..(n - 1) : scopes'[t][i] = "sem")
                        <=> \E i \in 1..n : scopes[t][i] = "sem")
  BY <1>1, <1>5
<1>7. s # "sem" => (t \in Holders' <=> t \in Holders)
  BY <1>1, <1>3, <1>4, <1>6 DEF n
<1>8. s = "sem" => t \in Holders /\ t \notin Holders'
  <2> SUFFICES ASSUME s = "sem"
               PROVE  t \in Holders /\ t \notin Holders'
    OBVIOUS
  <2>1. n = 1 /\ 1 \in 1..n /\ Len(scopes'[t]) = 0
    BY <1>1, <1>2
  <2>2. t \in Holders
    BY <1>1, <1>3, <2>1 DEF n
  <2>3. t \notin Holders'
    BY <1>4, <2>1
  <2>4. QED
    BY <2>2, <2>3
<1>9. \A u \in Task \ {t} : u \in Holders' <=> u \in Holders
  BY <1>1, <1>3, <1>4
<1>10. Holders \subseteq Task /\ Holders' \subseteq Task
  BY DEF Holders
<1>11. QED
  BY <1>7, <1>8, <1>9, <1>10

\* The holders change only when "sem" opens or closes.
LEMMA HoldersStill ==
    ASSUME scopes' = scopes
    PROVE  Holders' = Holders
BY DEF Holders

LEMMA PermitStep == IInv /\ [Next]_vars => PermitConserved'
<1> SUFFICES ASSUME TypeOK, ScopeShape, SleepShape, PermitConserved, [Next]_vars
             PROVE  PermitConserved'
  BY DEF IInv
<1>1. ASSUME NEW t \in Task, EnterNested(t) \/ MarkHeld(t) \/ ResetMark(t)
      PROVE  PermitConserved'
  <2>1. Holders' = Holders
    BY <1>1, HoldersOpen, HoldersClose DEF EnterNested, MarkHeld, ResetMark, Scope
  <2>2. value' = value /\ granted' = granted
    BY <1>1 DEF EnterNested, MarkHeld, ResetMark
  <2>3. QED
    BY <2>1, <2>2 DEF PermitConserved
<1>2. ASSUME NEW t \in Task, EnterFree(t)
      PROVE  PermitConserved'
  <2>1. Holders' = Holders \cup {t}
    BY <1>2, HoldersOpen DEF EnterFree, Scope
  <2>2. value = 1 /\ value' = 0 /\ granted' = granted
    BY <1>2 DEF EnterFree
  <2>3. QED
    BY <2>1, <2>2 DEF PermitConserved
<1>3. ASSUME NEW t \in Task, NEW u \in Task,
             EnterWait(t) \/ CancelAsleep(t) \/ Finish(t) \/ CreateTask(t, u)
      PROVE  PermitConserved'
  <2>1. value' = value /\ granted' = granted /\ Holders' = Holders
    BY <1>3, HoldersStill DEF EnterWait, CancelAsleep, Finish, CreateTask
  <2>2. QED
    BY <2>1 DEF PermitConserved
<1>4. ASSUME NEW t \in Task, EnterResume(t)
      PROVE  PermitConserved'
  <2>1. Holders' = Holders \cup {t}
    BY <1>4, HoldersOpen DEF EnterResume, Scope
  <2>2. t \in granted /\ value' = value /\ granted' = granted \ {t}
    BY <1>4 DEF EnterResume
  <2>3. granted = {t} /\ Holders = {} /\ value # 1
    BY <2>2 DEF PermitConserved
  <2>4. QED
    BY <2>1, <2>2, <2>3 DEF PermitConserved
<1>5. ASSUME NEW t \in Task, CancelGranted(t)
      PROVE  PermitConserved'
  <2>1. t \in granted /\ Holders' = Holders
    BY <1>5, HoldersStill DEF CancelGranted
  <2>2. granted = {t} /\ Holders = {} /\ value # 1
    BY <2>1 DEF PermitConserved
  <2>3. \/ value' = 1 /\ granted' = granted \ {t}
        \/ value' = value /\ granted' = (granted \ {t}) \cup {Head(waiters)}
    BY <1>5 DEF CancelGranted
  <2>4. QED
    BY <2>1, <2>2, <2>3 DEF PermitConserved
<1>6. ASSUME NEW t \in Task, Exit(t)
      PROVE  PermitConserved'
  <2>1. PICK s \in {"sem", "nested"} : Close(t, s)
    BY <1>6 DEF Exit
  <2>2. s = "sem" <=> depth[t] = 1
    BY <2>1, ExitDepth DEF Scope
  <2>3. CASE s = "sem"
    <3>1. t \in Holders /\ Holders' = Holders \ {t}
      BY <2>1, <2>3, HoldersClose DEF Scope
    <3>2. granted = {} /\ Holders = {t} /\ value # 1
      BY <3>1 DEF PermitConserved
    <3>3. \/ value' = 1 /\ granted' = granted
          \/ value' = value /\ granted' = granted \cup {waiters[1]}
      BY <1>6, <2>2, <2>3, ReleaseShape DEF Exit
    <3>4. QED
      BY <3>1, <3>2, <3>3 DEF PermitConserved
  <2>4. CASE s = "nested"
    <3>1. Holders' = Holders
      BY <2>1, <2>4, HoldersClose DEF Scope
    <3>2. value' = value /\ granted' = granted
      BY <1>6, <2>2, <2>4 DEF Exit
    <3>3. QED
      BY <3>1, <3>2 DEF PermitConserved
  <2>5. QED
    BY <2>3, <2>4
<1>7. CASE UNCHANGED vars
  BY <1>7, HoldersStill DEF vars, PermitConserved
<1>8. QED
  BY <1>1, <1>2, <1>3, <1>4, <1>5, <1>6, <1>7 DEF Next

\* The permit goes back only when nobody sleeps, and nobody goes to sleep
\* beside it.
LEMMA IdleStep == IInv /\ [Next]_vars => NoIdlePermit'
<1> SUFFICES ASSUME TypeOK, SleepShape, NoIdlePermit, [Next]_vars
             PROVE  NoIdlePermit'
  BY DEF IInv
<1>1. ASSUME NEW t \in Task, CancelAsleep(t)
      PROVE  NoIdlePermit'
  <2>1. waiters # <<>> /\ value' = value
    BY <1>1 DEF CancelAsleep
  <2>2. QED
    BY <2>1 DEF NoIdlePermit
<1>2. ASSUME NEW t \in Task, CancelGranted(t)
      PROVE  NoIdlePermit'
  <2>1. CASE waiters = <<>>
    BY <1>2, <2>1 DEF CancelGranted, NoIdlePermit
  <2>2. CASE waiters # <<>>
    BY <1>2, <2>2 DEF CancelGranted, NoIdlePermit
  <2>3. QED
    BY <2>1, <2>2
<1>3. ASSUME NEW t \in Task, Exit(t)
      PROVE  NoIdlePermit'
  <2>1. CASE ReleasePermit
    BY <2>1 DEF ReleasePermit, NoIdlePermit
  <2>2. CASE ~ReleasePermit
    BY <1>3, <2>2 DEF Exit, NoIdlePermit
  <2>3. QED
    BY <2>1, <2>2
<1>4. ASSUME NEW t \in Task, NEW u \in Task,
             \/ EnterNested(t) \/ EnterFree(t) \/ EnterWait(t) \/ EnterResume(t)
             \/ MarkHeld(t) \/ ResetMark(t) \/ Finish(t) \/ CreateTask(t, u)
      PROVE  NoIdlePermit'
  BY <1>4 DEF EnterNested, EnterFree, EnterWait, EnterResume, MarkHeld, ResetMark,
              Finish, CreateTask, NoIdlePermit
<1>5. CASE UNCHANGED vars
  BY <1>5 DEF vars, NoIdlePermit
<1>6. QED
  BY <1>1, <1>2, <1>3, <1>4, <1>5 DEF Next

LEMMA IInvInit == Init => IInv
<1> SUFFICES ASSUME Init
             PROVE  IInv
  OBVIOUS
<1>1. TypeOK
  BY TypeInit
<1>2. \A t \in Task : scopes[t] = <<>> /\ depth[t] = 0
  BY DEF Init
<1>3. ScopeShape
  BY <1>2 DEF ScopeShape
<1>4. SleepShape
  BY DEF Init, SleepShape
<1>5. Holders = {}
  BY <1>1, <1>2, HolderIndex DEF Holders
<1>6. QED
  BY <1>1, <1>3, <1>4, <1>5 DEF IInv, PermitConserved, NoIdlePermit, Init

\* IInv is an inductive invariant of the lock.
LEMMA IInvInductive == Spec => []IInv
<1>1. IInv /\ [Next]_vars => IInv'
  BY TypeStep, ScopeStep, SleepStep, PermitStep, IdleStep DEF IInv
<1>2. QED
  BY IInvInit, <1>1, PTL DEF Spec

\* Every variable keeps its type, for any set of tasks.
THEOREM TypeCorrect == Spec => []TypeOK
<1>1. IInv => TypeOK
  BY DEF IInv
<1>2. QED
  BY IInvInductive, <1>1, PTL

\* The permit of ReentrantLock's semaphore is never duplicated and never lost:
\* contexts that are copied or marked, and tasks that outlive the scope they
\* were created in, cannot release it (ReentrantLock.__aexit__).
THEOREM PermitConservation == Spec => []PermitConserved
<1>1. IInv => PermitConserved
  BY DEF IInv
<1>2. QED
  BY IInvInductive, <1>1, PTL

\* While a task sleeps in acquire(), the permit is with somebody who will
\* release it: it is never back in the semaphore unnoticed.
THEOREM WaitersAreServed == Spec => []WaitersHaveHolder
<1>1. IInv => WaitersHaveHolder
  BY DEF IInv, TypeOK, PermitConserved, NoIdlePermit, WaitersHaveHolder
<1>2. QED
  BY IInvInductive, <1>1, PTL
-----------------------------------------------------------------------------
(* Mutual exclusion *)

\* A task that nobody live was created by leaves no live task below it.
LEMMA NoChildNoLine ==
    ASSUME LiveLine, NEW t \in Task, LiveChildren(t) = {}
    PROVE  \A u \in run : t \notin ancestors[u]
BY DEF LiveLine, LiveChildren

LEMMA LineStep ==
    ASSUME ~Detach, TypeOK, LiveLine, [Next]_vars
    PROVE  LiveLine'
<1>1. ASSUME NEW t \in Task, CancelAsleep(t) \/ CancelGranted(t) \/ Finish(t)
      PROVE  LiveLine'
  <2>1. /\ LiveChildren(t) = {} /\ run' = run \ {t}
        /\ creator' = creator /\ ancestors' = ancestors
    BY <1>1 DEF CancelAsleep, CancelGranted, Finish, MayLeaveScope
  <2>2. \A u \in run : t \notin ancestors[u]
    BY <2>1, NoChildNoLine
  <2>3. ASSUME NEW u \in run', NEW a \in ancestors[u]
        PROVE  \E w \in run' : creator[w] = a /\ (w = u \/ w \in ancestors[u])
    <3>1. PICK w \in run : creator[w] = a /\ (w = u \/ w \in ancestors[u])
      BY <2>1, <2>3 DEF LiveLine
    <3>2. w # t
      BY <2>1, <2>2, <2>3, <3>1
    <3>3. QED
      BY <2>1, <3>1, <3>2
  <2>4. QED
    BY <2>1, <2>3 DEF LiveLine
<1>2. ASSUME NEW t \in Task, NEW u \in Task, CreateTask(t, u)
      PROVE  LiveLine'
  <2>1. /\ t \in run /\ u \notin run /\ run' = run \cup {u}
        /\ creator'[u] = t /\ ancestors'[u] = ancestors[t] \cup {t}
        /\ \A v \in run : creator'[v] = creator[v] /\ ancestors'[v] = ancestors[v]
    BY <1>2 DEF CreateTask, Runnable, TypeOK
  <2>2. ASSUME NEW v \in run, NEW a \in ancestors'[v]
        PROVE  \E w \in run' : creator'[w] = a /\ (w = v \/ w \in ancestors'[v])
    <3>1. PICK w \in run : creator[w] = a /\ (w = v \/ w \in ancestors[v])
      BY <2>1, <2>2 DEF LiveLine
    <3>2. QED
      BY <2>1, <3>1
  <2>3. ASSUME NEW a \in ancestors'[u]
        PROVE  \E w \in run' : creator'[w] = a /\ (w = u \/ w \in ancestors'[u])
    <3>1. CASE a = t
      BY <2>1, <3>1
    <3>2. CASE a \in ancestors[t]
      <4>1. PICK w \in run : creator[w] = a /\ (w = t \/ w \in ancestors[t])
        BY <2>1, <3>2 DEF LiveLine
      <4>2. QED
        BY <2>1, <4>1
    <3>3. QED
      BY <2>1, <2>3, <3>1, <3>2
  <2>4. QED
    BY <2>1, <2>2, <2>3 DEF LiveLine
<1>3. ASSUME NEW t \in Task,
             \/ EnterNested(t) \/ EnterFree(t) \/ EnterWait(t) \/ EnterResume(t)
             \/ Exit(t) \/ MarkHeld(t) \/ ResetMark(t)
      PROVE  LiveLine'
  BY <1>3 DEF EnterNested, EnterFree, EnterWait, EnterResume, Exit, MarkHeld, ResetMark,
              LiveLine
<1>4. CASE UNCHANGED vars
  BY <1>4 DEF vars, LiveLine
<1>5. QED
  BY <1>1, <1>2, <1>3, <1>4 DEF Next

LEMMA AboveStep ==
    ASSUME ~Bypass, ~Detach, IInv, XInv, [Next]_vars
    PROVE  HolderAbove'
<1>0. /\ TypeOK /\ ScopeShape /\ SleepShape /\ PermitConserved /\ LiveLine /\ HolderAbove
      /\ run \subseteq Task /\ Holders \subseteq Task
  BY DEF IInv, XInv, TypeOK, Holders
<1>1. ASSUME NEW t \in Task, EnterNested(t) \/ MarkHeld(t)
      PROVE  HolderAbove'
  <2>1. Holders' = Holders
    BY <1>0, <1>1, HoldersOpen DEF EnterNested, MarkHeld, Scope
  <2>2. /\ holder' = holder /\ ancestors' = ancestors /\ run' = run
        /\ depth[t] > 0 /\ \A u \in Task \ {t} : depth'[u] = depth[u]
    BY <1>0, <1>1 DEF EnterNested, MarkHeld, TypeOK
  <2>3. QED
    BY <1>0, <2>1, <2>2 DEF HolderAbove
<1>2. ASSUME NEW t \in Task, EnterFree(t) \/ EnterResume(t)
      PROVE  HolderAbove'
  <2>1. Holders' = Holders \cup {t}
    BY <1>0, <1>2, HoldersOpen DEF EnterFree, EnterResume, Scope
  <2>2. /\ ancestors' = ancestors /\ run' = run /\ holder'[t] = t
        /\ \A u \in Task \ {t} : depth'[u] = depth[u] /\ holder'[u] = holder[u]
    BY <1>0, <1>2 DEF EnterFree, EnterResume, TypeOK
  <2>3. QED
    BY <1>0, <2>1, <2>2 DEF HolderAbove
<1>3. ASSUME NEW t \in Task, EnterWait(t) \/ CancelAsleep(t) \/ CancelGranted(t) \/ Finish(t)
      PROVE  HolderAbove'
  <2>1. /\ holder' = holder /\ ancestors' = ancestors /\ run' \subseteq run
        /\ depth' = depth /\ Holders' = Holders
    BY <1>3, HoldersStill DEF EnterWait, CancelAsleep, CancelGranted, Finish
  <2>2. QED
    BY <1>0, <2>1 DEF HolderAbove
<1>4. ASSUME NEW t \in Task, ResetMark(t)
      PROVE  HolderAbove'
  <2>1. Holders' = Holders /\ depth[t] \in Nat \ {0}
    BY <1>0, <1>4, HoldersClose, ExitDepth DEF ResetMark, Scope
  <2>2. /\ holder' = holder /\ ancestors' = ancestors /\ run' = run
        /\ \A u \in Task \ {t} : depth'[u] = depth[u]
    BY <1>0, <1>4 DEF ResetMark, TypeOK
  <2>3. depth[t] > 0
    BY <2>1
  <2>4. QED
    BY <1>0, <2>1, <2>2, <2>3 DEF HolderAbove
<1>5. ASSUME NEW t \in Task, Exit(t)
      PROVE  HolderAbove'
  <2>1. PICK s \in {"sem", "nested"} : Close(t, s)
    BY <1>5 DEF Exit
  <2>2. /\ depth[t] \in Nat \ {0} /\ depth[t] > 0
        /\ s = "sem" <=> depth[t] = 1
    <3>1. depth[t] \in Nat \ {0} /\ (s = "sem" <=> depth[t] = 1)
      BY <1>0, <2>1, ExitDepth DEF Scope
    <3>2. QED
      BY <3>1
  <2>3. /\ ancestors' = ancestors /\ run' = run
        /\ \A u \in Task \ {t} : depth'[u] = depth[u]
        /\ depth'[t] = depth[t] - 1
    <3>1. (IF depth[t] > 0 THEN depth[t] - 1 ELSE 0) = depth[t] - 1
      BY <2>2
    <3>2. QED
      BY <1>0, <1>5, <3>1 DEF Exit, TypeOK
  <2>4. CASE s = "sem"
    <3>1. /\ t \in Holders /\ Holders' = Holders \ {t}
          /\ LiveChildren(t) = {}
      BY <1>0, <2>1, <2>4, HoldersClose DEF Scope, Close, MayLeaveScope
    <3>2. Holders = {t} /\ Holders' = {}
      BY <1>0, <3>1 DEF PermitConserved
    <3>3. \A u \in run : t \notin ancestors[u]
      BY <1>0, <3>1, NoChildNoLine
    <3>4. ASSUME NEW u \in run, u # t
          PROVE  ~(depth[u] > 0)
      BY <1>0, <3>2, <3>3, <3>4 DEF HolderAbove
    <3>5. depth'[t] = 0
      BY <2>2, <2>3, <2>4
    <3>6. QED
      BY <1>0, <2>3, <3>2, <3>4, <3>5 DEF HolderAbove
  <2>5. CASE s = "nested"
    <3>1. Holders' = Holders
      BY <1>0, <2>1, <2>5, HoldersClose DEF Scope
    <3>2. holder' = holder
      BY <1>5, <2>2, <2>5 DEF Exit
    <3>3. QED
      BY <1>0, <2>2, <2>3, <3>1, <3>2 DEF HolderAbove
  <2>6. QED
    BY <2>4, <2>5
<1>6. ASSUME NEW t \in Task, NEW u \in Task, CreateTask(t, u)
      PROVE  HolderAbove'
  <2>1. Holders' = Holders
    BY <1>6, HoldersStill DEF CreateTask
  <2>2. /\ t \in run /\ u \notin run /\ run' = run \cup {u}
        /\ ancestors'[u] = ancestors[t] \cup {t}
        /\ depth'[u] = depth[t] /\ holder'[u] = holder[t]
        /\ \A v \in Task \ {u} :
              ancestors'[v] = ancestors[v] /\ depth'[v] = depth[v] /\ holder'[v] = holder[v]
    BY <1>0, <1>6 DEF CreateTask, Runnable, TypeOK
  <2>3. Len(scopes[u]) = 0
    BY <1>0, <2>2 DEF ScopeShape
  <2>4. u \notin Holders
    BY <1>0, <2>3, HolderIndex
  <2>5. QED
    BY <1>0, <2>1, <2>2, <2>4 DEF HolderAbove
<1>7. CASE UNCHANGED vars
  BY <1>0, <1>7, HoldersStill DEF vars, HolderAbove
<1>8. QED
  BY <1>1, <1>2, <1>3, <1>4, <1>5, <1>6, <1>7 DEF Next

LEMMA XInvInit == Init => XInv
<1> SUFFICES ASSUME Init
             PROVE  XInv
  OBVIOUS
<1>1. IInv
  BY IInvInit
<1>2. \A t \in Task : depth[t] = 0 /\ scopes[t] = <<>> /\ ancestors[t] = {}
  BY DEF Init
<1>3. Holders = {} /\ run \subseteq Task
  BY <1>1, <1>2, HolderIndex DEF Holders, IInv, TypeOK
<1>4. QED
  BY <1>2, <1>3 DEF XInv, LiveLine, HolderAbove

\* When every scope waits for the tasks created in it and no handler runs with
\* the lock not held, all tasks inside `async with lock:` blocks work for one
\* acquisition: two events under the same event lock are never processed at
\* once (LockManager.get_lock_for_event, ReentrantLock.__aenter__).
THEOREM Exclusion ==
    ASSUME ~Bypass, ~Detach
    PROVE  Spec => []MutualExclusion
<1>1. IInv /\ XInv /\ [Next]_vars => XInv'
  BY LineStep, AboveStep DEF IInv, XInv
<1>2. IInv /\ XInv => MutualExclusion
  <2> SUFFICES ASSUME IInv, XInv, NEW t \in run \cap Inside
               PROVE  holder[t] \in Holders
    BY DEF IInv, PermitConserved, MutualExclusion
  <2>1. /\ t \in Task /\ scopes[t] \in Seq(Scope) /\ depth[t] \in Nat
        /\ Len(scopes[t]) <= depth[t]
    BY DEF Inside, IInv, TypeOK, ScopeShape
  <2>2. PICK s \in Range(scopes[t]) : s # "mark"
    BY DEF Inside
  <2>3. Len(scopes[t]) > 0
    BY <2>1, <2>2, RangeIndex
  <2>4. depth[t] > 0
    BY <2>1, <2>3
  <2>5. QED
    BY <2>4 DEF XInv, HolderAbove
<1>3. QED
  BY IInvInductive, XInvInit, <1>1, <1>2, PTL DEF Spec
=============================================================================
