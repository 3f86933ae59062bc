---------------------------- MODULE BusLife_proof ----------------------------
(***************************************************************************)
(* BusLife, for any buses, events, uses and restarts.  First what becomes  *)
(* of the events: none is forgotten between the queue and who processes    *)
(* it, none is handled twice, and a bus that says it is idle has nothing   *)
(* to do.  Then what the history keeps: each event once, all that may not  *)
(* be evicted, no more than its size, and nothing whose time is over.      *)
(***************************************************************************)
EXTENDS BusLife, SequenceLemmas

USE DEF historyVars, queueVars, busVars, taskVars, waitVars, ghostVars

\* Where a task is, and a call of wait_until_idle().
Where == {"none", "top", "get", "woken", "took", "made", "lock", "body", "ended"}
IdlerAt == {"new", "about", "asleep", "woken", "idle", "error"}

\* The types of what the arguments below look at.
Types ==
    /\ now \in Nat /\ done \in [Event -> Moments]
    /\ emits \in [Event -> Nat] /\ runs \in [Event -> Nat]
    /\ queue \in Seq(Event) /\ getters \in Seq(Runner)
    /\ at \in [Task -> Where]
    /\ ev \in [Runner -> Event \cup {None}]
    /\ idler \in [Idler -> IdlerAt]
    /\ {running, destroyed} \subseteq BOOLEAN /\ restarts \in Nat

\* Where the loop, a step() and a task of an event can be, and that the first
\* two have an event while they process one.
Places ==
    /\ at[Loop] \notin {"took", "made", "ended"}
    /\ at[Step] \notin {"top", "made", "ended"}
    /\ \A t \in Own : at[t] \notin {"top", "get", "woken", "took"}
    /\ \A t \in Runner : at[t] \in {"took", "lock", "body"} => ev[t] \in Event

\* No two places of a sequence have the same element, if it is this one.
Once(s, x) == \A i, j \in 1 .. Len(s) : s[i] = x /\ s[j] = x => i = j

\* Who has a future in the queue sleeps, and has one.
Sleepers == \A t \in Runner : Once(getters, t) /\ (t \in Range(getters) => at[t] = "get")

\* Before the first emit, and after a restart, no task exists.
NotYet == ~running /\ ~destroyed => \A t \in Task : at[t] = "none"

\* A bus that has been destroyed has nobody in the queue.
Closed == destroyed => ~running /\ getters = <<>> /\ at[Step] \notin {"get", "woken"}

\* Whoever processes an event that is not complete has marked it.
Marked == ~destroyed => \A e \in Event : InProcess(e) /\ ~Complete(e) => e \in processing

\* Of an event that was emitted once there is one copy: in the queue, with one
\* task, run, or lost; and none before it is emitted.
OneCopy(e) ==
    /\ Once(queue, e)
    /\ \A t, u \in Task : Claims(t, e) /\ Claims(u, e) => t = u
    /\ e \in Range(queue) => runs[e] = 0 /\ ~Complete(e) /\ \A t \in Task : ~Claims(t, e)
    /\ \A t \in Task : Claims(t, e) => ~Complete(e) /\ (at[t] # "body" => runs[e] = 0)
    /\ runs[e] <= 1
    /\ emits[e] = 0 => e \notin Range(queue) /\ ~Complete(e) /\ \A t \in Task : ~Claims(t, e)
    /\ emits[e] = 0 => runs[e] = 0

\* That is so as long as it was not emitted again.
Single == \A e \in Event : emits[e] <= 1 => OneCopy(e)


\* What does not depend on the events, and the invariant.
Frame == Types /\ Places /\ Sleepers /\ NotYet /\ Closed
Kept == EventKept /\ Marked /\ Single
BusInv == Frame /\ Kept

----------------------------------------------------------------------------
(* Tasks and sequences.                                                    *)

\* The loop and step() are two tasks, and neither is that of an event.
LEMMA Tasks ==
    /\ Loop \in Runner /\ Step \in Runner /\ Loop # Step /\ Runner \subseteq Task
    /\ Loop \in Task /\ Step \in Task /\ Own \subseteq Task
    /\ \A t \in Runner : (t = Loop \/ t = Step) /\ t \notin Own
    /\ \A t \in Task : t \in Runner \/ t \in Own
    /\ \A e \in Event, o \in {"emit", "loop"} :
         <<e, o>> \in Own /\ <<e, o>> \in Task /\ <<e, o>> \notin Runner
    /\ \A t \in Own : t[1] \in Event /\ t[2] \in {"emit", "loop"} /\ t = <<t[1], t[2]>>
<1>1. None \notin Event
  BY BusAssumption
<1>2. Loop # Step
  BY DEF Loop, Step
<1>3. Loop \notin Own /\ Step \notin Own
  BY <1>1 DEF Loop, Step, Own
<1>4. QED
  BY <1>2, <1>3 DEF Runner, Own, Task

\* r is q without one e.
Takes(S, q, e, r) ==
    /\ e \in Range(q) /\ r \in Seq(S) /\ Range(r) \subseteq Range(q)
    /\ \A d \in S \ {e} : d \in Range(q) => d \in Range(r)
    /\ \A d \in S : Once(q, d) => Once(r, d)
    /\ Once(q, e) => e \notin Range(r)

\* A sequence with one place less.
LEMMA WithoutOne ==
    ASSUME NEW S, NEW q \in Seq(S), NEW i \in 1 .. Len(q), NEW r \in Seq(S),
           Len(r) = Len(q) - 1,
           \A j \in 1 .. Len(q) - 1 : r[j] = IF j < i THEN q[j] ELSE q[j + 1]
    PROVE  Takes(S, q, q[i], r)
<1> DEFINE n == Len(q)
           g(j) == IF j < i THEN j ELSE j + 1
<1>1. n \in Nat /\ Len(r) = n - 1 /\ i \in 1 .. n
  OBVIOUS
<1>2. \A j \in 1 .. n - 1 : g(j) \in 1 .. n /\ g(j) # i /\ r[j] = q[g(j)]
  BY <1>1
<1>3. \A j, k \in 1 .. n - 1 : g(j) = g(k) => j = k
  BY <1>1
<1>4. \A k \in 1 .. n : k # i => \E j \in 1 .. n - 1 : g(j) = k
  <2>1. ASSUME NEW k \in 1 .. n, k # i PROVE \E j \in 1 .. n - 1 : g(j) = k
    <3>1. CASE k < i
      <4>1. k \in 1 .. n - 1 /\ g(k) = k
        BY <1>1, <3>1
      <4>2. QED
        BY <4>1
    <3>2. CASE k > i
      <4>1. k - 1 \in 1 .. n - 1 /\ g(k - 1) = k
        BY <1>1, <3>2
      <4>2. QED
        BY <4>1
    <3>3. QED
      BY <1>1, <2>1, <3>1, <3>2
  <2>2. QED
    BY <2>1
<1>5. /\ \A x : x \in Range(q) <=> \E k \in 1 .. n : q[k] = x
      /\ \A x : x \in Range(r) <=> \E k \in 1 .. n - 1 : r[k] = x
  BY RangeIndex
<1> HIDE DEF g, n
<1>6. q[i] \in Range(q) /\ Range(r) \subseteq Range(q)
  BY <1>1, <1>2, <1>5
<1>7. ASSUME NEW d \in S \ {q[i]}, d \in Range(q) PROVE d \in Range(r)
  <2>1. PICK k \in 1 .. n : q[k] = d
    BY <1>5, <1>7
  <2>2. PICK j \in 1 .. n - 1 : g(j) = k
    BY <1>4, <1>7, <2>1
  <2>3. QED
    BY <1>2, <1>5, <2>1, <2>2
<1>8. ASSUME NEW d \in S, Once(q, d) PROVE Once(r, d)
  <2>1. \A j, k \in 1 .. n - 1 : r[j] = d /\ r[k] = d => g(j) = g(k)
    BY <1>2, <1>8 DEF Once, n
  <2>2. \A j, k \in 1 .. n - 1 : r[j] = d /\ r[k] = d => j = k
    BY <1>3, <2>1
  <2>3. QED
    BY <1>1, <2>2 DEF Once
<1>9. ASSUME Once(q, q[i]) PROVE q[i] \notin Range(r)
  BY <1>1, <1>2, <1>5, <1>9 DEF Once, n
<1>10. QED
  BY <1>6, <1>7, <1>8, <1>9 DEF Takes

\* The first of the queue is taken.
LEMMA HeadTaken ==
    ASSUME NEW S, NEW q \in Seq(S), q # <<>>
    PROVE  Head(q) \in S /\ Takes(S, q, Head(q), Tail(q))
<1>1. /\ Len(q) \in Nat /\ Len(q) # 0 /\ Tail(q) \in Seq(S) /\ Len(Tail(q)) = Len(q) - 1
      /\ Head(q) = q[1] /\ \A j \in 1 .. Len(q) - 1 : Tail(q)[j] = q[j + 1]
  BY TailOfSeq
<1>2. 1 \in 1 .. Len(q) /\ \A j \in 1 .. Len(q) - 1 : ~(j < 1)
  BY <1>1
<1>3. \A j \in 1 .. Len(q) - 1 : Tail(q)[j] = IF j < 1 THEN q[j] ELSE q[j + 1]
  BY <1>1, <1>2
<1>4. PICK r : r = Tail(q)
  OBVIOUS
<1>5. r \in Seq(S) /\ Len(r) = Len(q) - 1
      /\ \A j \in 1 .. Len(q) - 1 : r[j] = IF j < 1 THEN q[j] ELSE q[j + 1]
  BY <1>1, <1>3, <1>4
<1>6. Takes(S, q, q[1], r)
  BY <1>2, <1>5, WithoutOne
<1>7. Head(q) \in S /\ Head(q) = q[1]
  BY <1>1
<1>8. QED
  BY <1>4, <1>6, <1>7

\* remove_item takes the first occurrence.
LEMMA FirstTaken ==
    ASSUME NEW S, NEW q \in Seq(S), NEW e, e \in Range(q)
    PROVE  Takes(S, q, e, RemoveFirst(q, e))
<1>1. \E i \in 1 .. Len(q) : q[i] = e
  BY RangeIndex
<1>2. PICK i \in 1 .. Len(q) : q[i] = e /\ RemoveFirst(q, e) = RemoveAt(q, i)
  BY <1>1, RemoveFirstOfSeq
<1>3. /\ RemoveAt(q, i) \in Seq(S) /\ Len(RemoveAt(q, i)) = Len(q) - 1
      /\ \A j \in 1 .. Len(q) - 1 : RemoveAt(q, i)[j] = IF j < i THEN q[j] ELSE q[j + 1]
  BY RemoveAtOfSeq
<1>4. QED
  BY <1>2, <1>3, WithoutOne

\* Appending adds one place.
LEMMA OneMore ==
    ASSUME NEW S, NEW q \in Seq(S), NEW e \in S
    PROVE  /\ Append(q, e) \in Seq(S) /\ Range(Append(q, e)) = Range(q) \cup {e}
           /\ \A d \in S \ {e} : Once(q, d) => Once(Append(q, e), d)
           /\ e \notin Range(q) => Once(Append(q, e), e)
<1> DEFINE n == Len(q)
           r == Append(q, e)
<1>1. /\ n \in Nat /\ r \in Seq(S) /\ Len(r) = n + 1 /\ r[n + 1] = e
      /\ \A i \in 1 .. n : r[i] = q[i]
  OBVIOUS
<1>2. \A i \in 1 .. n + 1 : i \in 1 .. n \/ i = n + 1
  BY <1>1
<1>3. Range(r) = Range(q) \cup {e}
  BY AppendRange
<1>4. \A i \in 1 .. n : q[i] \in Range(q)
  BY RangeIndex
<1> HIDE DEF n, r
<1>5. ASSUME NEW d \in S \ {e}, Once(q, d) PROVE Once(r, d)
  BY <1>1, <1>2, <1>5 DEF Once, n
<1>6. ASSUME e \notin Range(q) PROVE Once(r, e)
  BY <1>1, <1>2, <1>4, <1>6 DEF Once, n
<1>7. QED
  BY <1>1, <1>3, <1>5, <1>6 DEF r

\* The empty sequence has no element.
LEMMA NothingInIt ==
    ASSUME NEW S, NEW x
    PROVE  <<>> \in Seq(S) /\ x \notin Range(<<>>) /\ Once(<<>>, x)
<1> DEFINE q == <<>>
<1>1. q \in Seq(S) /\ Len(q) = 0
  OBVIOUS
<1>2. 1 .. 0 = {}
  OBVIOUS
<1> HIDE DEF q
<1>3. x \notin Range(q)
  BY <1>1, <1>2, RangeIndex
<1>4. Once(q, x)
  BY <1>1, <1>2 DEF Once
<1>5. QED
  BY <1>1, <1>3, <1>4 DEF q

\* A task that has no event, and one that processes an event.
NoClaim(t) == at[t] \notin {"lock", "body", "took"} /\ ~(at[t] = "made" /\ t[2] = "loop")
Works(t, e) == EvOf(t) = e /\ at[t] \in {"lock", "body"}

\* In a step, a task stays where it is, or has no event before and after it.
Unmoved(t) ==
    \/ at'[t] = at[t] /\ EvOf(t)' = EvOf(t)
    \/ NoClaim(t) /\ NoClaim(t)'

\* Such a task has what it had.
LEMMA UnmovedTask ==
    ASSUME NEW t, NEW d, Unmoved(t)
    PROVE  /\ Claims(t, d)' <=> Claims(t, d)
           /\ Works(t, d)' <=> Works(t, d)
           /\ Claims(t, d) => at'[t] = at[t]
<1>1. CASE at'[t] = at[t] /\ EvOf(t)' = EvOf(t)
  BY <1>1 DEF Claims, Works
<1>2. CASE NoClaim(t) /\ NoClaim(t)'
  BY <1>2 DEF Claims, Works, NoClaim
<1>3. QED
  BY <1>1, <1>2 DEF Unmoved

\* An event is in process by a task that works on it.
LEMMA InProcessBy ==
    ASSUME NEW e
    PROVE  /\ InProcess(e) <=> \E t \in Task : Works(t, e)
           /\ InProcess(e)' <=> \E t \in Task : Works(t, e)'
BY DEF InProcess, Works


\* A step that completes, runs, emits and takes nothing, in which a task may
\* go on to the lock, and nobody drops an event before the bus is destroyed.
LEMMA Quiet ==
    ASSUME Kept, UNCHANGED <<emits, done, runs, orphans>>,
           destroyed => destroyed',
           queue' = queue \/ (destroyed' /\ queue' = <<>>),
           destroyed' \/ processing \subseteq processing',
           \A t \in Task, d \in Event :
               /\ Claims(t, d)' => Claims(t, d) /\ (at'[t] # "body" => at[t] # "body")
               /\ ~destroyed' /\ Claims(t, d) => Claims(t, d)'
               /\ ~destroyed' /\ Works(t, d)' => Works(t, d) \/ d \in processing'
    PROVE  Kept'
<1>1. \A d : Complete(d)' <=> Complete(d)
  BY DEF Complete
<1>2. EventKept'
  BY <1>1, Zenon DEF Kept, EventKept, Accepted
<1>3. Marked'
  BY <1>1, InProcessBy, Zenon DEF Kept, Marked
<1>4. ASSUME NEW e \in Event, emits[e] <= 1 PROVE OneCopy(e)'
  <2>1. OneCopy(e)
    BY <1>4 DEF Kept, Single
  <2>2. (e \in Range(queue))' => e \in Range(queue)
    BY NothingInIt
  <2>3. Once(queue, e) => Once(queue, e)'
    BY NothingInIt
  <2>4. QED
    BY <1>1, <2>1, <2>2, <2>3 DEF OneCopy
<1>5. QED
  BY <1>2, <1>3, <1>4 DEF Kept, Single

\* A step in which a task takes an event out of the queue.
LEMMA Take ==
    ASSUME Kept, UNCHANGED <<emits, done, runs, orphans, destroyed>>,
           processing \subseteq processing',
           NEW e \in Event, NEW t \in Task, Takes(Event, queue, e, queue'),
           \A d \in Event : ~Claims(t, d) /\ (Claims(t, d)' <=> d = e),
           at'[t] # "body", \A d \in Event : Works(t, d)' => d \in processing',
           \A u \in Task \ {t} : Unmoved(u)
    PROVE  Kept'
<1>1. \A d : Complete(d)' <=> Complete(d)
  BY DEF Complete
<1>2. \A u \in Task \ {t}, d \in Event :
        /\ Claims(u, d)' <=> Claims(u, d)
        /\ Works(u, d)' <=> Works(u, d)
        /\ Claims(u, d) => at'[u] = at[u]
  BY UnmovedTask
<1>3. /\ e \in Range(queue)
      /\ \A d \in Event \ {e} : d \in Range(queue) => d \in Range(queue')
      /\ \A d \in Event : d \in Range(queue') => d \in Range(queue)
      /\ \A d \in Event : Once(queue, d) => Once(queue', d)
      /\ Once(queue, e) => e \notin Range(queue')
  BY DEF Takes
<1>4. EventKept'
  <2>1. ASSUME ~destroyed, NEW d \in Event, d \notin orphans, Accepted(d), ~Complete(d),
               ~ \E u \in Task : Claims(u, d)'
        PROVE  d \in Range(queue')
    <3>1. d # e /\ ~ \E u \in Task : Claims(u, d)
      BY <1>2, <2>1
    <3>2. d \in Range(queue)
      BY <2>1, <3>1 DEF Kept, EventKept
    <3>3. QED
      BY <1>3, <3>1, <3>2
  <2>2. QED
    BY <1>1, <2>1 DEF EventKept, Accepted
<1>5. Marked'
  <2>1. ASSUME ~destroyed, NEW d \in Event, ~Complete(d), NEW u \in Task, Works(u, d)'
        PROVE  d \in processing'
    <3>1. CASE u = t
      BY <2>1, <3>1
    <3>2. CASE u # t
      <4>1. InProcess(d)
        BY <1>2, <2>1, <3>2, InProcessBy
      <4>2. QED
        BY <2>1, <4>1 DEF Kept, Marked
    <3>3. QED
      BY <3>1, <3>2
  <2>2. QED
    BY <1>1, <2>1, InProcessBy DEF Marked
<1>6. ASSUME NEW d \in Event, emits[d] <= 1 PROVE OneCopy(d)'
  <2>1. OneCopy(d)
    BY <1>6 DEF Kept, Single
  <2>2. CASE d = e
    <3>1. \A u \in Task : ~Claims(u, e)
      BY <1>3, <2>1, <2>2 DEF OneCopy
    <3>2. \A u \in Task : Claims(u, e)' => u = t
      BY <1>2, <3>1
    <3>3. Once(queue', e) /\ e \notin Range(queue') /\ runs[e] = 0 /\ ~Complete(e) /\ emits[e] # 0
      BY <1>3, <2>1, <2>2 DEF OneCopy
    <3>4. QED
      BY <1>1, <2>2, <3>2, <3>3 DEF OneCopy
  <2>3. CASE d # e
    <3>1. \A u \in Task : (Claims(u, d)' <=> Claims(u, d)) /\ (Claims(u, d) => at'[u] = at[u])
      BY <1>2, <2>3
    <3>2. QED
      BY <1>1, <1>3, <2>1, <2>3, <3>1 DEF OneCopy
  <2>4. QED
    BY <2>2, <2>3
<1>7. QED
  BY <1>4, <1>5, <1>6 DEF Kept, Single

\* A step in which an event is emitted.
LEMMA Emitted ==
    ASSUME Kept, Types, UNCHANGED <<done, runs, orphans, destroyed, processing>>,
           NEW e \in Event, emits' = [emits EXCEPT ![e] = @ + 1],
           IF Complete(e) THEN queue' = queue ELSE queue' = Append(queue, e),
           \A u \in Task : Unmoved(u)
    PROVE  Kept'
<1>1. \A d : Complete(d)' <=> Complete(d)
  BY DEF Complete
<1>2. \A u \in Task, d \in Event :
        /\ Claims(u, d)' <=> Claims(u, d)
        /\ Works(u, d)' <=> Works(u, d)
        /\ Claims(u, d) => at'[u] = at[u]
  BY UnmovedTask
<1>3. /\ emits \in [Event -> Nat] /\ queue \in Seq(Event)
      /\ emits'[e] = emits[e] + 1 /\ \A d \in Event \ {e} : emits'[d] = emits[d]
  BY DEF Types
<1>4. /\ \A d \in Event \ {e} : Once(queue, d) => Once(queue', d)
      /\ \A d \in Event \ {e} : d \in Range(queue') <=> d \in Range(queue)
      /\ \A d \in Event : d \in Range(queue) => d \in Range(queue')
      /\ e \notin Range(queue) /\ ~Complete(e) => Once(queue', e)
      /\ ~Complete(e) => e \in Range(queue')
  <2>1. CASE Complete(e)
    BY <2>1
  <2>2. CASE ~Complete(e)
    <3>1. /\ queue' = Append(queue, e) /\ Range(Append(queue, e)) = Range(queue) \cup {e}
          /\ \A d \in Event \ {e} : Once(queue, d) => Once(Append(queue, e), d)
          /\ e \notin Range(queue) => Once(Append(queue, e), e)
      BY <1>3, <2>2, OneMore
    <3>2. QED
      BY <2>2, <3>1
  <2>3. QED
    BY <2>1, <2>2
<1>5. EventKept'
  <2>1. ASSUME NEW d \in Event, ~destroyed, d \notin orphans, Accepted(d)', ~Complete(d),
               ~ \E u \in Task : Claims(u, d)
        PROVE  d \in Range(queue')
    <3>1. CASE d = e
      BY <1>4, <2>1, <3>1
    <3>2. CASE d # e
      <4>1. Accepted(d)
        BY <1>3, <2>1, <3>2 DEF Accepted
      <4>2. d \in Range(queue)
        BY <2>1, <4>1 DEF Kept, EventKept
      <4>3. QED
        BY <1>4, <4>2
    <3>3. QED
      BY <3>1, <3>2
  <2>2. QED
    BY <1>1, <1>2, <2>1 DEF EventKept
<1>6. Marked'
  <2>1. \A d \in Event : InProcess(d)' <=> InProcess(d)
    BY <1>2, InProcessBy
  <2>2. QED
    BY <1>1, <2>1 DEF Kept, Marked
<1>7. ASSUME NEW d \in Event, emits'[d] <= 1 PROVE OneCopy(d)'
  <2>1. CASE d # e
    <3>1. OneCopy(d)
      BY <1>3, <1>7, <2>1 DEF Kept, Single
    <3>2. QED
      BY <1>1, <1>2, <1>3, <1>4, <2>1, <3>1 DEF OneCopy
  <2>2. CASE d = e
    <3>1. emits[e] = 0 /\ emits'[e] # 0 /\ emits[e] <= 1
      BY <1>3, <1>7, <2>2
    <3>2. OneCopy(e)
      BY <3>1 DEF Kept, Single
    <3>3. /\ e \notin Range(queue) /\ ~Complete(e) /\ runs[e] = 0
          /\ \A u \in Task : ~Claims(u, e)
      BY <3>1, <3>2 DEF OneCopy
    <3>4. Once(queue', e)
      BY <1>4, <3>3
    <3>5. QED
      BY <1>1, <1>2, <2>2, <3>1, <3>3, <3>4 DEF OneCopy
  <2>3. QED
    BY <2>1, <2>2
<1>8. QED
  BY <1>5, <1>6, <1>7 DEF Kept, Single

\* Who works on an event has it, and who has one is not without.
LEMMA WorkersClaim ==
    ASSUME NEW t, NEW e
    PROVE  /\ Works(t, e) => Claims(t, e)
           /\ Claims(t, e) => ~NoClaim(t)
           /\ ~NoClaim(t) /\ EvOf(t) = e => Claims(t, e)
BY DEF Works, Claims, NoClaim

\* A task that has taken an event has one.
LEMMA EventOfTask ==
    ASSUME Frame, NEW t \in Task, at[t] \in {"took", "lock", "body"}
    PROVE  EvOf(t) \in Event
<1>1. CASE t \in Runner
  BY <1>1 DEF Frame, Places, EvOf
<1>2. CASE t \in Own
  BY <1>2, Tasks DEF EvOf
<1>3. QED
  BY <1>1, <1>2, Tasks

\* A task has the lock: the event runs, and is not run by another.
LEMMA BeginKept ==
    ASSUME Frame, Kept, NEW t \in Task, Begin(t)
    PROVE  Kept'
<1>2. PICK e \in Event : e = EvOf(t)
  BY EventOfTask DEF Begin
<1>1. /\ at[t] = "lock" /\ ~Complete(e) /\ at \in [Task -> Where] 
      /\ at' = [at EXCEPT ![t] = "body"]
      /\ UNCHANGED <<done, emits, orphans, destroyed, processing, queue, ev>>
      /\ runs' = runs \/ runs' = [runs EXCEPT ![e] = @ + 1]
      /\ runs \in [Event -> Nat]
  BY <1>2 DEF Begin, Frame, Types
<1>3. \A u \in Task, d \in Event :
        /\ Claims(u, d)' <=> Claims(u, d)
        /\ Works(u, d)' <=> Works(u, d)
        /\ at'[u] = (IF u = t THEN "body" ELSE at[u])
  BY <1>1 DEF Claims, Works, EvOf
<1>4. Claims(t, e) /\ \A d : Claims(t, d) => d = e
  BY <1>1, <1>2 DEF Claims
<1>5. \A d : Complete(d)' <=> Complete(d)
  BY <1>1 DEF Complete
<1>6. \A d \in Event : d # e => runs'[d] = runs[d]
  BY <1>1
<1>7. runs[e] \in Nat /\ runs'[e] <= runs[e] + 1
  BY <1>1, <1>2
<1>8. EventKept'
  BY <1>1, <1>3, <1>5 DEF Kept, EventKept, Accepted
<1>9. Marked'
  <2>1. \A d \in Event : InProcess(d)' <=> InProcess(d)
    BY <1>3, InProcessBy
  <2>2. QED
    BY <1>1, <1>5, <2>1 DEF Kept, Marked
<1>10. ASSUME NEW d \in Event, emits[d] <= 1 PROVE OneCopy(d)'
  <2>1. OneCopy(d)
    BY <1>10 DEF Kept, Single
  <2>2. CASE d # e
    <3>1. \A u \in Task : Claims(u, d) => at'[u] = at[u]
      BY <1>3, <1>4, <2>2
    <3>2. QED
      BY <1>1, <1>3, <1>5, <1>6, <2>1, <2>2, <3>1 DEF OneCopy
  <2>3. CASE d = e
    <3>1. \A u \in Task : Claims(u, e) => u = t
      BY <1>4, <2>1, <2>3 DEF OneCopy
    <3>2. e \notin Range(queue) /\ runs[e] = 0 /\ emits[e] # 0 /\ Once(queue, e)
      BY <1>1, <1>4, <2>1, <2>3 DEF OneCopy
    <3>3. runs'[e] <= 1
      BY <1>7, <3>2
    <3>4. QED
      BY <1>1, <1>3, <1>5, <2>3, <3>1, <3>2, <3>3 DEF OneCopy
  <2>4. QED
    BY <2>2, <2>3
<1>11. QED
  BY <1>1, <1>8, <1>9, <1>10 DEF Kept, Single

\* Where a task is after its work.
LEMMA AfterWork ==
    ASSUME NEW t \in Task
    PROVE  After(t) \in {"none", "top", "ended"}
BY DEF After

\* A task is done with its event, which is complete then.
LEMMA FinishKept ==
    ASSUME Frame, Kept, NEW t \in Task, at[t] \in {"lock", "body"}, Finish(t),
           UNCHANGED <<emits, runs, orphans, destroyed, queue, ev, now>>
    PROVE  Kept'
<1>2. PICK e \in Event : e = EvOf(t)
  BY EventOfTask
<1>1. /\ at \in [Task -> Where] /\ at' = [at EXCEPT ![t] = After(t)]
      /\ done \in [Event -> Moments] /\ now \in Nat
      /\ (done' = done /\ Complete(e)) \/ done' = [done EXCEPT ![e] = now]
      /\ processing' = processing \ {e}
  BY <1>2 DEF Finish, Frame, Types
<1>3. /\ Claims(t, e) /\ \A d : Claims(t, d) => d = e
      /\ \A d : ~Claims(t, d)' /\ ~Works(t, d)'
  BY <1>1, <1>2, AfterWork DEF Claims, Works
<1>4. \A u \in Task \ {t}, d \in Event :
        /\ Claims(u, d)' <=> Claims(u, d)
        /\ Works(u, d)' <=> Works(u, d)
        /\ at'[u] = at[u]
  BY <1>1 DEF Claims, Works, EvOf
<1>5. Complete(e)' /\ \A d \in Event \ {e} : Complete(d)' <=> Complete(d)
  <2>1. None \notin Nat
    BY BusAssumption
  <2>2. QED
    BY <1>1, <1>2, <2>1 DEF Complete
<1>6. EventKept'
  <2>1. \A d \in Event \ {e}, u \in Task : Claims(u, d) => Claims(u, d)'
    BY <1>3, <1>4
  <2>2. QED
    BY <1>5, <2>1 DEF Kept, EventKept, Accepted
<1>7. Marked'
  <2>1. \A d \in Event : InProcess(d)' => InProcess(d)
    BY <1>3, <1>4, InProcessBy
  <2>2. QED
    BY <1>1, <1>5, <2>1 DEF Kept, Marked
<1>8. ASSUME NEW d \in Event, emits[d] <= 1 PROVE OneCopy(d)'
  <2>1. OneCopy(d)
    BY <1>8 DEF Kept, Single
  <2>2. CASE d # e
    <3>1. \A u \in Task : (Claims(u, d)' => Claims(u, d)) /\ (Claims(u, d)' => at'[u] = at[u])
      BY <1>3, <1>4, <2>2
    <3>2. QED
      BY <1>5, <2>1, <2>2, <3>1 DEF OneCopy
  <2>3. CASE d = e
    <3>1. \A u \in Task : ~Claims(u, e)'
      BY <1>3, <1>4, <2>1, <2>3 DEF OneCopy
    <3>2. e \notin Range(queue) /\ emits[e] # 0 /\ Once(queue, e) /\ runs[e] <= 1
      BY <1>3, <2>1, <2>3 DEF OneCopy
    <3>3. QED
      BY <2>3, <3>1, <3>2 DEF OneCopy
  <2>4. QED
    BY <2>2, <2>3
<1>9. QED
  BY <1>6, <1>7, <1>8 DEF Kept, Single

\* The queue goes into the dump, and who had an event is gone.
LEMMA RestartKept ==
    ASSUME Frame, Kept, Restart
    PROVE  Kept'
<1>1. /\ at' = [t \in Task |-> "none"] /\ UNCHANGED <<done, emits, queue, runs, destroyed>>
      /\ orphans' = orphans \cup {e \in Event : emits[e] > 0 /\ ~Complete(e) /\ e \notin Range(queue)}
  BY DEF Restart
<1>2. \A t \in Task, e \in Event : ~Claims(t, e)' /\ ~Works(t, e)'
  BY <1>1 DEF Claims, Works
<1>3. \A e : Complete(e)' <=> Complete(e)
  BY <1>1 DEF Complete
<1>4. EventKept'
  BY <1>1, <1>2, <1>3 DEF Kept, EventKept, Accepted
<1>5. Marked'
  BY <1>2, InProcessBy DEF Marked
<1>6. Single'
  BY <1>1, <1>2, <1>3 DEF Kept, Single, OneCopy
<1>7. QED
  BY <1>4, <1>5, <1>6 DEF Kept

\* A step that leaves the queue, the tasks and the bus alone.
Aside ==
    /\ UNCHANGED <<queue, processing, getters, running, destroyed, at, ev, runs, done, emits,
                   orphans, restarts>>
    /\ now' \in Nat
    /\ idler' \in [Idler -> IdlerAt]

\* Who waits for an idle bus is woken or left alone.
LEMMA Reconciled ==
    ASSUME Types, NEW q, NEW busy, SetFlag \/ Reconcile(q, busy)
    PROVE  /\ idler' \in [Idler -> IdlerAt]
           /\ \A w \in Idler : idler'[w] = "idle" => idler[w] = "idle"
<1>1. CASE SetFlag
  BY <1>1 DEF SetFlag, Types, IdlerAt
<1>2. CASE UNCHANGED idler
  BY <1>2 DEF Types
<1>3. QED
  BY <1>1, <1>2 DEF Reconcile

\* Such a step keeps the invariant.
LEMMA AsideKept ==
    ASSUME Frame, Aside
    PROVE  Frame' /\ (Kept => Kept')
<1>1. Frame'
  BY DEF Frame, Aside, Types, Places, Sleepers, NotYet, Closed
<1>2. \A t \in Task, d \in Event :
        /\ Claims(t, d)' <=> Claims(t, d)
        /\ Works(t, d)' <=> Works(t, d)
  BY DEF Aside, Claims, Works, EvOf
<1>3. ASSUME Kept PROVE Kept'
  BY <1>2, <1>3, Quiet DEF Aside
<1>4. QED
  BY <1>1, <1>3

\* Steps of that kind: rejected emits, the clock, retaining, find(), hooks.
LEMMA AsideSteps ==
    ASSUME Frame, 
           \/ \E e \in Event : EmitRejected(e) \/ RetainIt(e) \/ LetGo(e)
           \/ \E w \in Idler : IdleSleep(w)
           \/ \E f \in Finder : Find(f) \/ FindTimeout(f)
           \/ HooksBegin \/ HooksEnd \/ Tick \/ EditTtl
    PROVE  Aside
<1> USE DEF Aside, Frame, Types
<1>1. ASSUME NEW e \in Event, EmitRejected(e) PROVE Aside
  BY <1>1 DEF EmitRejected
<1>2. ASSUME NEW e \in Event, RetainIt(e) PROVE Aside
  BY <1>2 DEF RetainIt
<1>3. ASSUME NEW e \in Event, LetGo(e) PROVE Aside
  BY <1>3 DEF LetGo
<1>4. ASSUME NEW w \in Idler, IdleSleep(w) PROVE Aside
  BY <1>4 DEF IdleSleep, IdlerAt
<1>5. ASSUME NEW f \in Finder, Find(f) \/ FindTimeout(f) PROVE Aside
  BY <1>5 DEF Find, FindTimeout
<1>6. CASE HooksBegin
  BY <1>6 DEF HooksBegin
<1>7. CASE HooksEnd
  BY <1>7, Reconciled DEF HooksEnd
<1>8. CASE Tick
  BY <1>8 DEF Tick
<1>9. CASE EditTtl
  BY <1>9 DEF EditTtl
<1>10. QED
  BY <1>1, <1>2, <1>3, <1>4, <1>5, <1>6, <1>7, <1>8, <1>9

\* Before the loop is started it is nowhere, and nobody sleeps.
LEMMA LoopStarted ==
    ASSUME Frame, ~destroyed, NEW where, where \in [Task -> Where], where[Loop] = at[Loop]
    PROVE  /\ StartLoop(where) \in [Task -> Where]
           /\ \A u \in Task \ {Loop} : StartLoop(where)[u] = where[u]
           /\ \/ StartLoop(where)[Loop] = at[Loop]
              \/ ~running /\ at[Loop] = "none" /\ StartLoop(where)[Loop] = "top"
<1>1. "top" \in Where /\ (~running => at[Loop] = "none")
  <2>1. ~running => \A t \in Task : at[t] = "none"
    BY DEF Frame, NotYet
  <2>2. QED
    BY <2>1, Tasks DEF Where
<1>2. CASE running
  <2>1. StartLoop(where) = where
    BY <1>2 DEF StartLoop
  <2>2. QED
    BY <2>1
<1>3. CASE ~running
  <2>1. StartLoop(where) = [where EXCEPT ![Loop] = "top"]
    BY <1>3 DEF StartLoop
  <2>2. QED
    BY <1>1, <1>3, <2>1, Tasks
<1>4. QED
  BY <1>2, <1>3

\* put_nowait wakes who slept first.
LEMMA FirstWoken ==
    ASSUME Frame
    PROVE  /\ Woken(at) \in [Task -> Where]
           /\ \A u \in Task : \/ Woken(at)[u] = at[u] /\ (getters # <<>> => u # Head(getters))
                              \/ /\ getters # <<>> /\ u = Head(getters) /\ u \in Runner
                                 /\ at[u] = "get" /\ Woken(at)[u] = "woken"
           /\ ~running /\ ~destroyed => getters = <<>>
<1>1. at \in [Task -> Where] /\ getters \in Seq(Runner) /\ "woken" \in Where
  BY DEF Frame, Types, Where
<1>2. CASE getters = <<>>
  BY <1>1, <1>2 DEF Woken
<1>3. CASE getters # <<>>
  <2>1. Head(getters) \in Runner /\ Head(getters) \in Range(getters)
    BY <1>1, <1>3, HeadTaken DEF Takes
  <2>2. at[Head(getters)] = "get" /\ Head(getters) \in Task
    BY <2>1, Tasks DEF Frame, Sleepers
  <2>3. Woken(at) = [at EXCEPT ![Head(getters)] = "woken"]
    BY <1>3 DEF Woken
  <2>4. ~(~running /\ ~destroyed)
    BY <2>2 DEF Frame, NotYet
  <2>5. QED
    BY <1>1, <1>3, <2>1, <2>2, <2>3, <2>4
<1>4. QED
  BY <1>2, <1>3

\* What emit() does to the tasks.
EmitMoves(e, u) ==
    \/ at'[u] = at[u]
    \/ u \in Runner /\ at[u] = "get" /\ at'[u] = "woken"
    \/ u = Loop /\ at[u] = "none" /\ at'[u] = "top"
    \/ u = <<e, "emit">> /\ at[u] = "none" /\ at'[u] = "made"

\* emit() wakes who slept first, starts the loop and makes one task.
LEMMA EmitMove ==
    ASSUME Frame, NEW e \in Event, Emit(e)
    PROVE  /\ at' \in [Task -> Where] /\ \A u \in Task : EmitMoves(e, u)
           /\ getters # <<>> => \A u \in Task : u # Head(getters) /\ at[u] = "get" => at'[u] = "get"
           /\ getters = <<>> => \A u \in Task : at[u] = "get" => at'[u] = "get"
<1> DEFINE where == Woken(at)
           moved == StartLoop(where)
           own == <<e, "emit">>
<1>1. /\ ~destroyed
      /\ at' = IF Parallel(e) /\ at[own] = "none" THEN [moved EXCEPT ![own] = "made"]
               ELSE moved
  BY DEF Emit
<1>2. /\ where \in [Task -> Where]
      /\ \A u \in Task : \/ where[u] = at[u] /\ (getters # <<>> => u # Head(getters))
                         \/ /\ getters # <<>> /\ u = Head(getters) /\ u \in Runner
                            /\ at[u] = "get" /\ where[u] = "woken"
  BY FirstWoken
<1>3. /\ moved \in [Task -> Where]
      /\ \A u \in Task \ {Loop} : moved[u] = where[u]
      /\ \/ moved[Loop] = where[Loop]
         \/ at[Loop] = "none" /\ moved[Loop] = "top"
  <2>1. CASE running
    BY <1>2, <2>1 DEF StartLoop
  <2>2. CASE ~running
    <3>1. where = at
      BY <1>1, <2>2, FirstWoken DEF Woken
    <3>2. QED
      BY <1>1, <1>2, <3>1, LoopStarted, Tasks
  <2>3. QED
    BY <2>1, <2>2
<1>4. own \in Task /\ own \notin Runner /\ Loop \in Runner /\ "made" \in Where
  BY Tasks DEF Where
<1> HIDE DEF where, moved, own
<1>5. /\ at' \in [Task -> Where]
      /\ \A u \in Task : at'[u] = moved[u] \/ (u = own /\ at[u] = "none" /\ at'[u] = "made")
  BY <1>1, <1>3, <1>4
<1>6. \A u \in Task : EmitMoves(e, u)
  BY <1>2, <1>3, <1>5, <1>4 DEF EmitMoves, own
<1>7. \A u \in Task : where[u] = at[u] /\ at[u] = "get" => at'[u] = "get"
  BY <1>3, <1>5, <1>4
<1>8. QED
  BY <1>2, <1>5, <1>6, <1>7

\* Moves of tasks that have no event before and after, of whom a runner does
\* not change its event.
LEMMA EmitUnmoved ==
    ASSUME NEW e \in Event, UNCHANGED ev, NEW u \in Task, EmitMoves(e, u)
    PROVE  Unmoved(u)
<1>1. CASE at'[u] = at[u]
  BY <1>1 DEF Unmoved, EvOf
<1>2. CASE at'[u] # at[u]
  <2>1. \/ at[u] = "get" /\ at'[u] = "woken"
        \/ at[u] = "none" /\ at'[u] = "top"
        \/ at[u] = "none" /\ at'[u] = "made" /\ u = <<e, "emit">>
    BY <1>2 DEF EmitMoves
  <2>2. QED
    BY <2>1 DEF Unmoved, NoClaim
<1>3. QED
  BY <1>1, <1>2

\* emit() of an event that is not complete keeps the invariant.
LEMMA EmitKept ==
    ASSUME Frame, NEW e \in Event, Emit(e)
    PROVE  Frame' /\ (Kept => Kept')
<1>1. /\ emits' = [emits EXCEPT ![e] = @ + 1] /\ queue' = Append(queue, e)
      /\ getters' = IF getters = <<>> THEN getters ELSE Tail(getters)
      /\ running' = TRUE /\ ~Complete(e) /\ ~destroyed
      /\ UNCHANGED <<done, now, processing, destroyed, restarts, ev, runs, idler, orphans>>
  BY DEF Emit
<1>2. /\ at' \in [Task -> Where] /\ \A u \in Task : EmitMoves(e, u)
      /\ getters # <<>> => \A u \in Task : u # Head(getters) /\ at[u] = "get" => at'[u] = "get"
      /\ getters = <<>> => \A u \in Task : at[u] = "get" => at'[u] = "get"
  BY EmitMove
<1>3. emits \in [Event -> Nat] /\ queue \in Seq(Event) /\ getters \in Seq(Runner)
  BY DEF Frame, Types
<1>4. Types'
  <2>1. emits' \in [Event -> Nat] /\ queue' \in Seq(Event)
    BY <1>1, <1>3
  <2>2. getters' \in Seq(Runner)
    BY <1>1, <1>3, HeadTaken DEF Takes
  <2>3. QED
    BY <1>1, <1>2, <2>1, <2>2 DEF Frame, Types
<1>5. Places'
  <2>1. \A u \in Runner : at'[u] \in {"took", "made", "ended", "lock", "body"} => at'[u] = at[u]
    BY <1>2, Tasks DEF EmitMoves
  <2>2. \A u \in Runner : at'[u] = "top" => at[u] = "top" \/ u = Loop
    BY <1>2, Tasks DEF EmitMoves
  <2>3. \A u \in Own : at'[u] \in {"top", "get", "woken", "took"} => at'[u] = at[u]
    BY <1>2, Tasks DEF EmitMoves
  <2>4. QED
    BY <1>1, <2>1, <2>2, <2>3, Tasks DEF Frame, Places
<1>6. Sleepers'
  <2>1. CASE getters = <<>>
    BY <1>1, <1>2, <2>1, Tasks DEF Frame, Sleepers
  <2>2. CASE getters # <<>>
    <3>1. getters' = Tail(getters) /\ Takes(Runner, getters, Head(getters), Tail(getters))
      BY <1>1, <1>3, <2>2, HeadTaken
    <3>2. ASSUME NEW t \in Runner PROVE Once(getters', t) /\ (t \in Range(getters') => at'[t] = "get")
      <4>1. Once(getters, t) /\ (t \in Range(getters) => at[t] = "get")
        BY DEF Frame, Sleepers
      <4>2. Once(getters', t) /\ (t \in Range(getters') => t \in Range(getters) /\ t # Head(getters))
        BY <3>1, <4>1 DEF Takes
      <4>3. QED
        BY <1>2, <2>2, <4>1, <4>2, Tasks
    <3>3. QED
      BY <3>2 DEF Sleepers
  <2>3. QED
    BY <2>1, <2>2
<1>7. NotYet' /\ Closed'
  BY <1>1 DEF NotYet, Closed
<1>8. ASSUME Kept PROVE Kept'
  <2>1. \A u \in Task : Unmoved(u)
    BY <1>1, <1>2, EmitUnmoved
  <2>2. QED
    BY <1>1, <1>8, <2>1, Emitted DEF Frame
<1>9. QED
  BY <1>4, <1>5, <1>6, <1>7, <1>8 DEF Frame

\* emit() of a complete event does.
LEMMA EmitCompletedKept ==
    ASSUME Frame, NEW e \in Event, EmitCompleted(e)
    PROVE  Frame' /\ (Kept => Kept')
<1>1. /\ emits' = [emits EXCEPT ![e] = @ + 1] /\ at' = StartLoop(at)
      /\ running' = TRUE /\ Complete(e) /\ ~destroyed
      /\ UNCHANGED <<queue, getters, done, now, processing, destroyed, restarts, ev, runs, idler,
                     orphans>>
  BY DEF EmitCompleted
<1>2. at \in [Task -> Where] /\ emits \in [Event -> Nat]
  BY DEF Frame, Types
<1>3. /\ at' \in [Task -> Where] /\ \A u \in Task \ {Loop} : at'[u] = at[u]
      /\ \/ at'[Loop] = at[Loop]
         \/ at[Loop] = "none" /\ at'[Loop] = "top"
  BY <1>1, <1>2, LoopStarted
<1>4. Types'
  BY <1>1, <1>2, <1>3 DEF Frame, Types
<1>5. Places'
  BY <1>1, <1>3, Tasks DEF Frame, Places
<1>6. Sleepers'
  BY <1>1, <1>3, Tasks DEF Frame, Sleepers
<1>7. NotYet' /\ Closed'
  BY <1>1 DEF NotYet, Closed
<1>8. ASSUME Kept PROVE Kept'
  <2>1. \A u \in Task : EmitMoves(e, u)
    BY <1>3 DEF EmitMoves
  <2>2. \A u \in Task : Unmoved(u)
    BY <1>1, <2>1, EmitUnmoved
  <2>3. QED
    BY <1>1, <1>8, <2>2, Emitted DEF Frame
<1>9. QED
  BY <1>4, <1>5, <1>6, <1>7, <1>8 DEF Frame

\* A step in which one task moves, that takes nothing out of the queue.
Goes(t, x) == at' = [at EXCEPT ![t] = x] /\ x \in Where

\* What such a step does to where the tasks are.
LEMMA Gone ==
    ASSUME Frame, NEW t \in Task, NEW x, Goes(t, x)
    PROVE  /\ at' \in [Task -> Where] /\ at'[t] = x
           /\ \A u \in Task \ {t} : at'[u] = at[u]
BY DEF Goes, Frame, Types

\* A task that does not sleep has no future in the queue.
LEMMA AwakeTask ==
    ASSUME Frame, NEW t \in Task, at[t] # "get"
    PROVE  t \notin Range(getters)
<1>1. getters \in Seq(Runner)
  BY DEF Frame, Types
<1>2. \A i \in 1 .. Len(getters) : getters[i] \in Runner
  BY <1>1
<1>3. t \in Range(getters) => t \in Runner
  BY <1>1, <1>2, RangeIndex
<1>4. QED
  BY <1>3 DEF Frame, Sleepers

\* Such a step keeps the frame, if the task may be where it goes.
LEMMA GoneFrame ==
    ASSUME Frame, NEW t \in Task, NEW x, Goes(t, x), UNCHANGED <<getters, running, destroyed>>,
           Types', running \/ destroyed,
           t \notin Range(getters), x \notin {"get", "woken"},
           t = Loop => x \notin {"took", "made", "ended"},
           t = Step => x \notin {"top", "made", "ended"},
           t \in Own => x \notin {"top", "get", "woken", "took"},
           \A u \in Runner \ {t} : ev'[u] = ev[u],
           t \in Runner /\ x \in {"took", "lock", "body"} => ev'[t] \in Event
    PROVE  Frame'
<1>1. /\ at' \in [Task -> Where] /\ at'[t] = x
      /\ \A u \in Task \ {t} : at'[u] = at[u]
  BY Gone
<1>2. Places'
  <2>1. at'[Loop] \notin {"took", "made", "ended"} /\ at'[Step] \notin {"top", "made", "ended"}
    BY <1>1, Tasks DEF Frame, Places
  <2>2. \A u \in Own : at'[u] \notin {"top", "get", "woken", "took"}
    BY <1>1, Tasks DEF Frame, Places
  <2>3. \A u \in Runner : at'[u] \in {"took", "lock", "body"} => ev'[u] \in Event
    BY <1>1, Tasks DEF Frame, Places
  <2>4. QED
    BY <2>1, <2>2, <2>3 DEF Places
<1>3. Sleepers'
  BY <1>1, Tasks DEF Frame, Sleepers
<1>4. NotYet' /\ Closed'
  BY <1>1, Tasks DEF NotYet, Closed, Frame
<1>5. QED
  BY <1>2, <1>3, <1>4 DEF Frame

\* Another task does not move with it.
LEMMA OthersUnmoved ==
    ASSUME Frame, NEW t \in Task, NEW x, Goes(t, x), \A u \in Runner \ {t} : ev'[u] = ev[u]
    PROVE  \A u \in Task \ {t} : Unmoved(u)
<1>1. \A u \in Task \ {t} : at'[u] = at[u]
  BY Gone
<1>2. QED
  BY <1>1 DEF Unmoved, EvOf

\* A task that has no event before and after it.
LEMMA IdlyGone ==
    ASSUME Frame, Kept, NEW t \in Task, NEW x, Goes(t, x), NoClaim(t) \/ destroyed, NoClaim(t)',
           UNCHANGED <<ev, queue, processing, emits, done, runs, orphans, destroyed>>
    PROVE  Kept'
<1>1. \A u \in Task \ {t} : Unmoved(u)
  BY OthersUnmoved
<1>2. ASSUME NEW u \in Task, NEW d \in Event
      PROVE  /\ Claims(u, d)' => Claims(u, d) /\ (at'[u] # "body" => at[u] # "body")
             /\ ~destroyed' /\ Claims(u, d) => Claims(u, d)'
             /\ ~destroyed' /\ Works(u, d)' => Works(u, d) \/ d \in processing'
  <2>1. CASE u = t
    BY <2>1, WorkersClaim DEF NoClaim, Claims, Works
  <2>2. CASE u # t
    BY <1>1, <2>2, UnmovedTask
  <2>3. QED
    BY <2>1, <2>2
<1>3. QED
  BY <1>2, Quiet

\* A task that has an event asks for the lock.
LEMMA GoesToLock ==
    ASSUME Frame, Kept, NEW t \in Task, NEW e \in Event, Claims(t, e), at[t] # "body",
           Goes(t, "lock"), processing' = processing \cup {e},
           UNCHANGED <<ev, queue, emits, done, runs, orphans, destroyed>>
    PROVE  Kept'
<1>1. \A u \in Task \ {t} : Unmoved(u)
  BY OthersUnmoved
<1>2. at'[t] = "lock"
  BY Gone
<1>3. ASSUME NEW u \in Task, NEW d \in Event
      PROVE  /\ Claims(u, d)' => Claims(u, d) /\ (at'[u] # "body" => at[u] # "body")
             /\ ~destroyed' /\ Claims(u, d) => Claims(u, d)'
             /\ ~destroyed' /\ Works(u, d)' => Works(u, d) \/ d \in processing'
  <2>1. CASE u = t
    BY <1>2, <2>1 DEF Claims, Works, EvOf
  <2>2. CASE u # t
    BY <1>1, <2>2, UnmovedTask
  <2>3. QED
    BY <2>1, <2>2
<1>4. QED
  BY <1>3, Quiet

\* A body begins; the frame stays.
LEMMA BeginFrame ==
    ASSUME Frame, NEW t \in Task, Begin(t)
    PROVE  Frame'
<1>1. /\ at[t] = "lock" /\ Goes(t, "body") /\ UNCHANGED <<getters, running, destroyed, ev>>
      /\ UNCHANGED <<done, emits, queue, idler, restarts, now>>
      /\ runs' = runs \/ runs' = [runs EXCEPT ![EvOf(t)] = @ + 1]
  BY DEF Begin, Goes, Where
<1>2. runs \in [Event -> Nat] /\ t \in DOMAIN at
  BY DEF Frame, Types
<1>3. Types'
  <2>1. runs' \in [Event -> Nat] /\ at' \in [Task -> Where]
    BY <1>1, <1>2, Gone
  <2>2. QED
    BY <1>1, <2>1 DEF Frame, Types
<1>4. running \/ destroyed
  BY <1>1 DEF Frame, NotYet
<1>5. t \notin Range(getters)
  BY <1>1, AwakeTask
<1>6. t \in Runner => ev'[t] \in Event
  BY <1>1 DEF Frame, Places
<1>7. QED
  BY <1>1, <1>3, <1>4, <1>5, <1>6, GoneFrame

\* A task goes to sleep in the queue.
FallsAsleep(t) ==
    /\ Goes(t, "get") /\ getters' = Append(getters, t)
    /\ UNCHANGED <<queue, ev, now, done, emits, runs, idler, running, destroyed, restarts,
                   processing, orphans>>

\* Going to sleep keeps the invariant.
LEMMA AsleepKept ==
    ASSUME Frame, NEW t \in Runner, at[t] \in {"none", "top", "woken"}, running,
           FallsAsleep(t)
    PROVE  Frame' /\ (Kept => Kept')
<1>1. /\ t \in Task /\ Goes(t, "get") /\ getters' = Append(getters, t) /\ getters \in Seq(Runner)
      /\ UNCHANGED <<queue, ev, now, done, emits, runs, idler, running, destroyed, restarts,
                     processing, orphans>>
  BY Tasks DEF FallsAsleep, Frame, Types
<1>2. /\ at' \in [Task -> Where] /\ at'[t] = "get"
      /\ \A u \in Task \ {t} : at'[u] = at[u]
  BY <1>1, Gone
<1>3. /\ getters' \in Seq(Runner) /\ Range(getters') = Range(getters) \cup {t}
      /\ \A u \in Runner \ {t} : Once(getters, u) => Once(getters', u)
      /\ Once(getters', t)
  <2>1. t \notin Range(getters)
    BY <1>1, AwakeTask
  <2>2. QED
    BY <1>1, <2>1, OneMore
<1>4. Types'
  BY <1>1, <1>2, <1>3 DEF Frame, Types
<1>5. Places'
  BY <1>1, <1>2, Tasks DEF Frame, Places
<1>6. Sleepers'
  BY <1>1, <1>2, <1>3, Tasks DEF Frame, Sleepers
<1>7. NotYet' /\ Closed'
  BY <1>1 DEF NotYet, Closed, Frame
<1>8. ASSUME Kept PROVE Kept'
  <2>1. NoClaim(t) /\ NoClaim(t)'
    BY <1>2 DEF NoClaim
  <2>2. QED
    BY <1>1, <1>8, <2>1, IdlyGone
<1>9. QED
  BY <1>4, <1>5, <1>6, <1>7, <1>8 DEF Frame

\* The loop sleeps.
LEMMA LoopSleepKept ==
    ASSUME Frame, LoopSleep
    PROVE  Frame' /\ (Kept => Kept')
<1>1. Loop \in Runner /\ at[Loop] \in {"none", "top", "woken"} /\ running /\ FallsAsleep(Loop)
  BY Tasks DEF LoopSleep, FallsAsleep, Goes, Where
<1>2. QED
  BY <1>1, AsleepKept

\* The loop or a step() has the first event of the queue.
TakesHead(t, x) ==
    /\ queue # <<>> /\ queue' = Tail(queue)
    /\ Goes(t, x) /\ ev' = [ev EXCEPT ![t] = Head(queue)]
    /\ \/ x = "took" /\ UNCHANGED processing
       \/ x = "lock" /\ processing' = processing \cup {Head(queue)}
    /\ UNCHANGED <<getters, now, done, emits, runs, idler, running, destroyed, restarts, orphans>>

\* Taking the head keeps the invariant.
LEMMA HeadTakenKept ==
    ASSUME Frame, NEW t \in Runner, at[t] \in {"none", "top", "woken"}, running \/ destroyed,
           NEW x, TakesHead(t, x), t = Loop => x # "took"
    PROVE  Frame' /\ (Kept => Kept')
<1>1. PICK e : e = Head(queue)
  OBVIOUS
<1>2. /\ t \in Task /\ Goes(t, x) /\ x \in {"took", "lock"} /\ queue # <<>> /\ queue' = Tail(queue)
      /\ ev' = [ev EXCEPT ![t] = e] /\ queue \in Seq(Event) /\ ev \in [Runner -> Event \cup {None}]
      /\ processing \subseteq processing' /\ (x = "lock" => e \in processing')
      /\ UNCHANGED <<getters, now, done, emits, runs, idler, running, destroyed, restarts, orphans>>
  BY <1>1, Tasks DEF TakesHead, Frame, Types
<1>3. e \in Event /\ Takes(Event, queue, e, queue') /\ queue' \in Seq(Event)
  BY <1>1, <1>2, HeadTaken DEF Takes
<1>4. /\ at' \in [Task -> Where] /\ at'[t] = x
      /\ ev' \in [Runner -> Event \cup {None}] /\ ev'[t] = e /\ \A u \in Runner \ {t} : ev'[u] = ev[u]
  BY <1>2, <1>3, Gone
<1>5. Types'
  BY <1>2, <1>3, <1>4 DEF Frame, Types
<1>6. Frame'
  <2>1. t \notin Range(getters)
    BY <1>2, AwakeTask
  <2>2. t \notin Own /\ x \notin {"made", "ended", "top"}
    BY <1>2, Tasks
  <2>3. QED
    BY <1>2, <1>3, <1>4, <1>5, <2>1, <2>2, GoneFrame
<1>7. ASSUME Kept PROVE Kept'
  <2>1. \A u \in Task \ {t} : Unmoved(u)
    BY <1>2, <1>4, OthersUnmoved
  <2>2. \A d \in Event : ~Claims(t, d) /\ (Claims(t, d)' <=> d = e)
    BY <1>2, <1>4 DEF Claims, EvOf
  <2>3. at'[t] # "body" /\ \A d \in Event : Works(t, d)' => d \in processing'
    BY <1>2, <1>4 DEF Works, EvOf
  <2>4. QED
    BY <1>2, <1>3, <1>7, <2>1, <2>2, <2>3, Take
<1>8. QED
  BY <1>6, <1>7

\* step() gets an event, at once or when it is woken, or sleeps.
LEMMA StepGetsKept ==
    ASSUME Frame, StepCall \/ StepWoken
    PROVE  Frame' /\ (Kept => Kept')
<1>1. /\ Step \in Runner /\ Step # Loop /\ at[Step] \in {"none", "top", "woken"}
      /\ {"get", "took"} \subseteq Where
      /\ running
      /\ UNCHANGED <<now, done, emits, runs, idler, running, destroyed, restarts, processing, orphans>>
  BY Tasks DEF StepCall, StepWoken, Where, Frame, NotYet, Closed
<1>2. CASE queue = <<>>
  <2>1. FallsAsleep(Step)
    BY <1>1, <1>2 DEF StepCall, StepWoken, FallsAsleep, Goes
  <2>2. QED
    BY <1>1, <2>1, AsleepKept
<1>3. CASE queue # <<>>
  <2>1. TakesHead(Step, "took")
    BY <1>1, <1>3 DEF StepCall, StepWoken, TakesHead, Goes
  <2>2. QED
    BY <1>1, <2>1, HeadTakenKept
<1>4. QED
  BY <1>2, <1>3

\* The loop processes the event, or makes a task for it.
LEMMA LoopTakeKept ==
    ASSUME Frame, LoopTake
    PROVE  Frame' /\ (Kept => Kept')
<1>1. PICK e : e = Head(queue)
  OBVIOUS
<1>2. /\ at[Loop] \in {"none", "top", "woken"} /\ running /\ queue # <<>> /\ queue' = Tail(queue)
      /\ UNCHANGED <<getters, now, done, emits, runs, idler, running, destroyed, restarts, orphans>>
      /\ processing' = processing \cup {e} /\ Loop \in Runner /\ Loop \in Task /\ Loop # Step
  BY <1>1, Tasks DEF LoopTake, Enter
<1>3. CASE ~Parallel(e)
  <2>1. TakesHead(Loop, "lock")
    BY <1>1, <1>2, <1>3 DEF LoopTake, TakesHead, Enter, Goes, Where
  <2>2. QED
    BY <1>2, <2>1, HeadTakenKept
<1>4. CASE Parallel(e)
  <2> DEFINE own == <<e, "loop">>
  <2>1. /\ at[own] = "none" /\ ev' = ev /\ queue \in Seq(Event) /\ at \in [Task -> Where]
        /\ at' = [at EXCEPT ![Loop] = "top", ![own] = "made"]
    BY <1>1, <1>4 DEF LoopTake, Frame, Types
  <2>2. e \in Event /\ Takes(Event, queue, e, queue') /\ queue' \in Seq(Event)
    BY <1>1, <1>2, <2>1, HeadTaken DEF Takes
  <2>3. own \in Own /\ own \in Task /\ own \notin Runner /\ own[1] = e /\ own[2] = "loop"
    BY <2>2, Tasks
  <2> HIDE DEF own
  <2>4. /\ at' \in [Task -> Where] /\ at'[Loop] = "top" /\ at'[own] = "made"
        /\ \A u \in Task \ {Loop, own} : at'[u] = at[u]
    BY <1>2, <2>1, <2>3 DEF Where
  <2>5. Types'
    BY <1>2, <2>1, <2>2, <2>4 DEF Frame, Types
  <2>6. Places'
    BY <1>2, <2>1, <2>3, <2>4, Tasks DEF Frame, Places
  <2>7. Sleepers'
    <3>1. Loop \notin Range(getters)
      BY <1>2, AwakeTask
    <3>2. QED
      BY <1>2, <2>3, <2>4, <3>1, Tasks DEF Frame, Sleepers
  <2>8. NotYet' /\ Closed'
    BY <1>2 DEF NotYet, Closed, Frame
  <2>9. ASSUME Kept PROVE Kept'
    <3>1. Unmoved(Loop)
      BY <1>2, <2>1, <2>4 DEF Unmoved, NoClaim
    <3>2. \A u \in Task \ {own} : Unmoved(u)
      BY <2>1, <2>4, <3>1 DEF Unmoved, EvOf
    <3>3. /\ \A d \in Event : ~Claims(own, d) /\ (Claims(own, d)' <=> d = e) /\ ~Works(own, d)'
          /\ at'[own] # "body"
      BY <2>1, <2>3, <2>4 DEF Claims, EvOf, Works
    <3>4. QED
      BY <1>2, <2>2, <2>3, <2>9, <3>2, <3>3, Take
  <2>10. QED
    BY <2>5, <2>6, <2>7, <2>8, <2>9 DEF Frame
<1>5. QED
  BY <1>3, <1>4

\* The step() that is cancelled is no longer in the list, wherever it was.
LEMMA StepTimeoutKept ==
    ASSUME Frame, StepTimeout
    PROVE  Frame' /\ (Kept => Kept')
<1>1. /\ at[Step] \in {"get", "woken"} /\ running /\ Goes(Step, "none")
      /\ getters' = RemoveFirst(getters, Step)
      /\ UNCHANGED <<queue, processing, now, done, emits, ev, runs, running, destroyed, restarts,
                     orphans>>
      /\ Reconcile(queue, Busy(inflight, processing, at, hooks))
      /\ getters \in Seq(Runner) /\ Step \in Task /\ Step \in Runner /\ Step # Loop
  BY Tasks DEF StepTimeout, Goes, Where, Frame, Types
<1>2. /\ at' \in [Task -> Where] /\ at'[Step] = "none"
      /\ \A u \in Task \ {Step} : at'[u] = at[u]
  BY <1>1, Gone
<1>3. idler' \in [Idler -> IdlerAt]
  BY <1>1, Reconciled DEF Frame
<1>4. /\ getters' \in Seq(Runner) /\ Step \notin Range(getters')
      /\ \A u \in Runner : (u \in Range(getters') => u \in Range(getters))
      /\ \A u \in Runner : Once(getters, u) => Once(getters', u)
  <2>1. CASE Step \in Range(getters)
    <3>1. Takes(Runner, getters, Step, getters') /\ Once(getters, Step)
      BY <1>1, <2>1, FirstTaken DEF Frame, Sleepers
    <3>2. QED
      BY <3>1 DEF Takes
  <2>2. CASE Step \notin Range(getters)
    <3>1. getters' = getters
      BY <1>1, <2>2, RemoveFirstAbsent
    <3>2. QED
      BY <1>1, <2>2, <3>1
  <2>3. QED
    BY <2>1, <2>2
<1>5. Types'
  BY <1>1, <1>2, <1>3, <1>4 DEF Frame, Types
<1>6. Places'
  BY <1>1, <1>2, Tasks DEF Frame, Places
<1>7. Sleepers'
  BY <1>1, <1>2, <1>4, Tasks DEF Frame, Sleepers
<1>8. NotYet' /\ Closed'
  BY <1>1 DEF NotYet, Closed, Frame
<1>9. ASSUME Kept PROVE Kept'
  <2>1. NoClaim(Step) /\ NoClaim(Step)'
    BY <1>1, <1>2 DEF NoClaim
  <2>2. QED
    BY <1>1, <1>9, <2>1, IdlyGone
<1>10. QED
  BY <1>5, <1>6, <1>7, <1>8, <1>9 DEF Frame

\* step() goes on with the event it was given, or drops it with the bus.
LEMMA StepTookKept ==
    ASSUME Frame, StepTook
    PROVE  Frame' /\ (Kept => Kept')
<1>1. PICK e \in Event : e = ev[Step]
  BY Tasks DEF StepTook, Frame, Places
<1>2. /\ at[Step] = "took" /\ Step \in Runner /\ Step \in Task /\ Step # Loop /\ Step \notin Own
      /\ UNCHANGED <<queue, getters, now, done, emits, runs, ev, running, destroyed, restarts, orphans>>
      /\ running \/ destroyed
      /\ Step \notin Range(getters)
  <2>1. at[Step] = "took" /\ Step \in Runner /\ Step \in Task /\ Step # Loop /\ Step \notin Own
    BY Tasks DEF StepTook
  <2>2. running \/ destroyed
    BY <2>1 DEF Frame, NotYet
  <2>3. QED
    BY <2>1, <2>2, AwakeTask DEF StepTook
<1>3. CASE running
  <2>1. Goes(Step, "lock") /\ processing' = processing \cup {e} /\ UNCHANGED idler
    BY <1>1, <1>3 DEF StepTook, Enter, Goes, Where
  <2>2. Types'
    BY <1>2, <2>1, Gone DEF Frame, Types
  <2>3. Frame'
    BY <1>1, <1>2, <2>1, <2>2, GoneFrame
  <2>4. Claims(Step, e)
    BY <1>1, <1>2 DEF Claims, EvOf
  <2>5. QED
    BY <1>2, <2>1, <2>3, <2>4, GoesToLock
<1>4. CASE ~running
  <2>1. Goes(Step, "none") /\ UNCHANGED <<processing, idler>>
    BY <1>1, <1>4 DEF StepTook, Goes, Where
  <2>2. Types'
    BY <1>2, <2>1, Gone DEF Frame, Types
  <2>3. Frame'
    BY <1>2, <2>1, <2>2, GoneFrame
  <2>4. NoClaim(Step)'
    BY <1>2, <2>1, Gone DEF NoClaim
  <2>5. QED
    BY <1>2, <1>4, <2>1, <2>3, <2>4, IdlyGone
<1>5. QED
  BY <1>3, <1>4

\* The task of an event takes it, has it from the loop, or finds nothing.
LEMMA OwnTaskKept ==
    ASSUME Frame, NEW e \in Event, NEW o \in {"emit", "loop"}, OwnTask(e, o)
    PROVE  Frame' /\ (Kept => Kept')
<1>1. PICK t : t = <<e, o>>
  OBVIOUS
<1>2. /\ t \in Own /\ t \in Task /\ t \notin Runner /\ t # Loop /\ t # Step
      /\ t[1] = e /\ t[2] = o
  BY <1>1, Tasks
<1>3. /\ at[t] = "made" /\ ~destroyed
      /\ UNCHANGED <<getters, now, done, emits, runs, ev, idler, running, destroyed, restarts, orphans>>
      /\ queue \in Seq(Event)
  BY <1>1 DEF OwnTask, Enter, Frame, Types
<1>4. running \/ destroyed
  BY <1>2, <1>3 DEF Frame, NotYet
<1>5. t \notin Range(getters)
  BY <1>2, <1>3, AwakeTask
<1>6. ASSUME NEW x \in {"ended", "lock"}, Goes(t, x), queue' \in Seq(Event) PROVE Frame'
  <2>1. Types'
    BY <1>2, <1>3, <1>6, Gone DEF Frame, Types
  <2>2. QED
    BY <1>2, <1>3, <1>4, <1>5, <1>6, <2>1, GoneFrame
<1>7. CASE o = "emit" /\ e \notin Range(queue)
  <2>1. Goes(t, "ended") /\ UNCHANGED <<queue, processing>>
    BY <1>1, <1>7 DEF OwnTask, Goes, Where
  <2>2. NoClaim(t) /\ NoClaim(t)'
    BY <1>2, <1>3, <1>7, <2>1, Gone DEF NoClaim
  <2>3. QED
    BY <1>2, <1>3, <1>6, <2>1, <2>2, IdlyGone
<1>8. CASE o = "emit" /\ e \in Range(queue)
  <2>1. Goes(t, "lock") /\ processing' = processing \cup {e} /\ queue' = RemoveFirst(queue, e)
    BY <1>1, <1>8 DEF OwnTask, Enter, Goes, Where, Removed
  <2>2. Takes(Event, queue, e, queue') /\ queue' \in Seq(Event)
    BY <1>3, <1>8, <2>1, FirstTaken DEF Takes
  <2>3. Frame'
    BY <1>6, <2>1, <2>2
  <2>4. ASSUME Kept PROVE Kept'
    <3>1. at'[t] = "lock" /\ \A u \in Task \ {t} : Unmoved(u)
      BY <1>2, <1>3, <2>1, Gone, OthersUnmoved
    <3>2. \A d \in Event : ~Claims(t, d) /\ (Claims(t, d)' <=> d = e)
      BY <1>2, <1>3, <1>8, <3>1 DEF Claims, EvOf
    <3>3. \A d \in Event : Works(t, d)' => d \in processing'
      BY <1>2, <2>1, <3>1 DEF Works, EvOf
    <3>4. QED
      BY <1>2, <1>3, <2>1, <2>2, <2>4, <3>1, <3>2, <3>3, Take
  <2>5. QED
    BY <2>3, <2>4
<1>9. CASE o = "loop"
  <2>1. Goes(t, "lock") /\ processing' = processing \cup {e} /\ UNCHANGED queue
    BY <1>1, <1>9 DEF OwnTask, Enter, Goes, Where
  <2>2. Claims(t, e)
    BY <1>2, <1>3, <1>9 DEF Claims, EvOf
  <2>3. QED
    BY <1>2, <1>3, <1>6, <2>1, <2>2, GoesToLock
<1>10. QED
  BY <1>7, <1>8, <1>9

\* The task of an event is gone.
LEMMA OwnTaskGoneKept ==
    ASSUME Frame, NEW e \in Event, NEW o \in {"emit", "loop"}, OwnTaskGone(e, o)
    PROVE  Frame' /\ (Kept => Kept')
<1>1. PICK t : t = <<e, o>>
  OBVIOUS
<1>2. /\ t \in Own /\ t \in Task /\ t \notin Runner /\ t # Loop /\ t # Step
  BY <1>1, Tasks
<1>3. /\ at[t] = "ended" /\ Goes(t, "none")
      /\ UNCHANGED <<queue, getters, processing, now, done, emits, runs, ev, running, destroyed,
                     restarts, orphans>>
      /\ Reconcile(queue, Busy(inflight, processing, at', hooks))
  BY <1>1 DEF OwnTaskGone, Goes, Where
<1>4. running \/ destroyed
  BY <1>2, <1>3 DEF Frame, NotYet
<1>5. t \notin Range(getters)
  BY <1>2, <1>3, AwakeTask
<1>6. idler' \in [Idler -> IdlerAt]
  BY <1>3, Reconciled DEF Frame
<1>7. Types'
  BY <1>2, <1>3, <1>6, Gone DEF Frame, Types
<1>8. Frame'
  BY <1>2, <1>3, <1>4, <1>5, <1>7, GoneFrame
<1>9. NoClaim(t) /\ NoClaim(t)'
  BY <1>2, <1>3, Gone DEF NoClaim
<1>10. QED
  BY <1>2, <1>3, <1>8, <1>9, IdlyGone

\* The end of a task's work, by itself or because it is cancelled.
LEMMA FinishFrame ==
    ASSUME Frame, NEW t \in Task, End(t) \/ Interrupted(t)
    PROVE  Frame' /\ (Kept => Kept')
<1>1. /\ at[t] \in {"lock", "body"} /\ Finish(t)
      /\ UNCHANGED <<emits, now, queue, getters, running, destroyed, restarts, ev, runs, orphans>>
  BY DEF End, Interrupted
<1>2. Goes(t, After(t))
  BY <1>1, AfterWork DEF Finish, Goes, Where
<1>3. running \/ destroyed
  BY <1>1 DEF Frame, NotYet
<1>4. t \notin Range(getters)
  BY <1>1, AwakeTask
<1>5. idler' \in [Idler -> IdlerAt]
  BY <1>1, Reconciled DEF Frame, Finish
<1>6. done' \in [Event -> Moments]
  <2>1. now \in Moments
    BY DEF Frame, Types, Moments
  <2>2. QED
    BY <1>1, <2>1 DEF Finish, Frame, Types
<1>7. Types'
  BY <1>1, <1>2, <1>5, <1>6, Gone DEF Frame, Types
<1>8. /\ t = Loop => After(t) \in {"none", "top"}
      /\ t = Step => After(t) = "none"
      /\ t \in Own => After(t) = "ended"
  BY Tasks DEF After
<1>9. Frame'
  <2>1. PICK x : x = After(t)
    OBVIOUS
  <2>2. x \in {"none", "top", "ended"} /\ Goes(t, x)
    BY <1>2, <2>1, AfterWork
  <2>3. /\ t = Loop => x \notin {"took", "made", "ended"}
        /\ t = Step => x \notin {"top", "made", "ended"}
        /\ t \in Own => x \notin {"top", "get", "woken", "took"}
        /\ x \notin {"get", "woken"} /\ x \notin {"took", "lock", "body"}
    BY <1>8, <2>1, <2>2
  <2>4. QED
    BY <1>1, <1>3, <1>4, <1>7, <2>2, <2>3, GoneFrame
<1>10. QED
  BY <1>1, <1>9, FinishKept

\* Who was cancelled before the work began; the bus has been destroyed.
LEMMA NotBegunKept ==
    ASSUME Frame, NEW t \in Task, NotBegun(t)
    PROVE  Frame' /\ (Kept => Kept')
<1> DEFINE x == IF t = Loop THEN "none" ELSE "ended"
<1>1. /\ destroyed /\ t # Step /\ Goes(t, x)
      /\ UNCHANGED <<queue, getters, processing, now, done, emits, runs, ev, idler, running, destroyed,
                     restarts, orphans>>
  BY DEF NotBegun, Canceled, Goes, Where
<1>2. x \in {"none", "ended"} /\ (t = Loop => x = "none") /\ (t # Loop => t \notin Runner)
  BY <1>1, Tasks
<1> HIDE DEF x
<1>3. getters = <<>>
  BY <1>1 DEF Frame, Closed
<1>4. t \notin Range(getters)
  BY <1>3, NothingInIt
<1>5. Types'
  BY <1>1, Gone DEF Frame, Types
<1>6. Frame'
  BY <1>1, <1>2, <1>4, <1>5, Tasks, GoneFrame
<1>7. NoClaim(t)'
  BY <1>1, <1>2, Gone DEF NoClaim
<1>8. QED
  BY <1>1, <1>6, <1>7, IdlyGone

\* wait_until_idle() starts the loop, if it has not been.
LEMMA IdleCheckKept ==
    ASSUME Frame, NEW w \in Idler, IdleCheck(w)
    PROVE  Frame' /\ (Kept => Kept')
<1>1. /\ at' = IF destroyed THEN at ELSE StartLoop(at)
      /\ running' = (running \/ ~destroyed)
      /\ UNCHANGED <<queue, getters, done, now, processing, destroyed, restarts, ev, runs, emits,
                     orphans>>
  BY DEF IdleCheck
<1>2. at \in [Task -> Where]
  BY DEF Frame, Types
<1>3. /\ at' \in [Task -> Where] /\ \A u \in Task \ {Loop} : at'[u] = at[u]
      /\ \/ at'[Loop] = at[Loop]
         \/ at[Loop] = "none" /\ at'[Loop] = "top"
  BY <1>1, <1>2, LoopStarted
<1>4. idler' \in [Idler -> IdlerAt]
  BY DEF IdleCheck, Frame, Types, IdlerAt
<1>5. running' \in BOOLEAN
  BY <1>1
<1>6. Types'
  BY <1>1, <1>3, <1>4, <1>5 DEF Frame, Types
<1>7. Places'
  BY <1>1, <1>3, Tasks DEF Frame, Places
<1>8. Sleepers'
  BY <1>1, <1>3, Tasks DEF Frame, Sleepers
<1>9. NotYet' /\ Closed'
  BY <1>1, <1>3, Tasks DEF NotYet, Closed, Frame
<1>10. ASSUME Kept PROVE Kept'
  <2>1. \A u \in Task : Unmoved(u)
    BY <1>1, <1>3 DEF Unmoved, EvOf, NoClaim
  <2>2. \A u \in Task, d \in Event :
          /\ Claims(u, d)' <=> Claims(u, d)
          /\ Works(u, d)' <=> Works(u, d)
          /\ Claims(u, d) => at'[u] = at[u]
    BY <2>1, UnmovedTask
  <2>3. QED
    BY <1>1, <1>10, <2>2, Quiet
<1>11. QED
  BY <1>6, <1>7, <1>8, <1>9, <1>10 DEF Frame

\* The queue is emptied; who works goes on working until it is told.
LEMMA DestroyKept ==
    ASSUME Frame, Destroy
    PROVE  Frame' /\ (Kept => Kept')
<1> DEFINE x == IF at[Step] \in {"get", "woken"} THEN "none" ELSE at[Step]
<1>1. /\ destroyed' = TRUE /\ running' = FALSE /\ queue' = <<>> /\ getters' = <<>>
      /\ at' = [at EXCEPT ![Step] = x]
      /\ UNCHANGED <<done, emits, now, ev, runs, restarts, orphans>>
      /\ at \in [Task -> Where] /\ Step \in Task /\ Step \in Runner /\ Step # Loop /\ SetFlag
  BY Tasks DEF Destroy, Frame, Types
<1>2. /\ x \in Where /\ x \notin {"get", "woken"} /\ (x = at[Step] \/ x = "none")
      /\ at[Step] \in {"get", "woken"} \/ x = at[Step]
  BY <1>1 DEF Where
<1> HIDE DEF x
<1>3. /\ at' \in [Task -> Where] /\ at'[Step] = x
      /\ \A u \in Task \ {Step} : at'[u] = at[u]
  BY <1>1, <1>2
<1>4. /\ queue' \in Seq(Event) /\ getters' \in Seq(Runner)
      /\ \A u : u \notin Range(getters') /\ Once(getters', u)
  BY <1>1, NothingInIt
<1>5. idler' \in [Idler -> IdlerAt]
  BY <1>1, Reconciled DEF Frame
<1>6. Types'
  BY <1>1, <1>3, <1>4, <1>5 DEF Frame, Types
<1>7. Places'
  BY <1>1, <1>2, <1>3, Tasks DEF Frame, Places
<1>8. Sleepers'
  BY <1>4 DEF Sleepers
<1>9. NotYet' /\ Closed'
  BY <1>1, <1>2, <1>3 DEF NotYet, Closed
<1>10. ASSUME Kept PROVE Kept'
  <2>1. \A u \in Task : Unmoved(u)
    BY <1>1, <1>2, <1>3 DEF Unmoved, EvOf, NoClaim
  <2>2. \A u \in Task, d \in Event :
          /\ Claims(u, d)' <=> Claims(u, d)
          /\ Works(u, d)' <=> Works(u, d)
          /\ Claims(u, d) => at'[u] = at[u]
    BY <2>1, UnmovedTask
  <2>3. QED
    BY <1>1, <1>10, <2>2, Quiet
<1>11. QED
  BY <1>6, <1>7, <1>8, <1>9, <1>10 DEF Frame

\* After a restart nobody is anywhere.
LEMMA RestartFrame ==
    ASSUME Frame, Restart
    PROVE  Frame'
<1>1. /\ restarts' = restarts + 1 /\ getters' = <<>> /\ running' = FALSE /\ ~destroyed
      /\ at' = [t \in Task |-> "none"]
      /\ idler' = [w \in Idler |-> IF idler[w] = "new" THEN "new" ELSE "idle"]
      /\ UNCHANGED <<done, emits, now, queue, destroyed, ev, runs>>
  BY DEF Restart
<1>2. /\ getters' \in Seq(Runner)
      /\ \A u : u \notin Range(getters') /\ Once(getters', u)
  BY <1>1, NothingInIt
<1>3. at' \in [Task -> Where] /\ \A t \in Task : at'[t] = "none"
  BY <1>1 DEF Where
<1>4. Types'
  <2>1. idler' \in [Idler -> IdlerAt]
    BY <1>1 DEF IdlerAt
  <2>2. restarts' \in Nat /\ running' \in BOOLEAN
    <3>1. restarts \in Nat
      BY DEF Frame, Types
    <3>2. restarts' = restarts + 1
      BY <1>1
    <3>3. restarts' \in Nat
      BY <3>1, <3>2
    <3>4. running' \in BOOLEAN
      BY <1>1
    <3>5. QED
      BY <3>3, <3>4
  <2>3. QED
    BY <1>1, <1>2, <1>3, <2>1, <2>2 DEF Frame, Types
<1>5. Places' /\ Sleepers' /\ NotYet' /\ Closed'
  BY <1>1, <1>2, <1>3, Tasks DEF Places, Sleepers, NotYet, Closed
<1>6. QED
  BY <1>4, <1>5 DEF Frame

----------------------------------------------------------------------------

\* A bus that has just been made has nothing.
LEMMA BusInit == Init => BusInv
<1> SUFFICES ASSUME Init PROVE BusInv
  OBVIOUS
<1>1. /\ done = [e \in Event |-> None] /\ emits = [e \in Event |-> 0] /\ now = 0
      /\ queue = <<>> /\ getters = <<>> /\ running = FALSE /\ destroyed = FALSE /\ restarts = 0
      /\ at = [t \in Task |-> "none"] /\ ev = [t \in Runner |-> None]
      /\ runs = [e \in Event |-> 0] /\ idler = [w \in Idler |-> "new"]
  BY DEF Init
<1>2. /\ queue \in Seq(Event) /\ getters \in Seq(Runner)
      /\ \A u : u \notin Range(getters) /\ Once(getters, u)
      /\ \A u : u \notin Range(queue) /\ Once(queue, u)
  BY <1>1, NothingInIt
<1>3. at \in [Task -> Where] /\ \A t \in Task : at[t] = "none"
  BY <1>1 DEF Where
<1>4. Types
  BY <1>1, <1>2, <1>3 DEF Types, Moments, IdlerAt
<1>5. Places /\ Sleepers /\ NotYet /\ Closed
  BY <1>1, <1>2, <1>3, Tasks DEF Places, Sleepers, NotYet, Closed
<1>6. \A t \in Task, e \in Event : ~Claims(t, e) /\ ~Works(t, e)
  BY <1>3 DEF Claims, Works
<1>7. \A e \in Event : ~Complete(e) /\ ~Accepted(e) /\ runs[e] = 0 /\ emits[e] = 0
  BY <1>1 DEF Complete, Accepted
<1>8. EventKept
  BY <1>7 DEF EventKept
<1>9. Marked
  BY <1>6, InProcessBy DEF Marked
<1>10. Single
  BY <1>2, <1>6, <1>7 DEF Single, OneCopy
<1>11. QED
  BY <1>4, <1>5, <1>8, <1>9, <1>10 DEF BusInv, Frame, Kept

\* Every step keeps the invariant.
LEMMA BusStep == BusInv /\ [Next]_vars => BusInv'
<1> SUFFICES ASSUME Frame, Kept, [Next]_vars PROVE Frame' /\ Kept'
  BY DEF BusInv
<1>1. ASSUME NEW e \in Event, Emit(e) PROVE Frame' /\ Kept'
  BY <1>1, EmitKept
<1>2. ASSUME NEW e \in Event, EmitCompleted(e) PROVE Frame' /\ Kept'
  BY <1>2, EmitCompletedKept
<1>3. ASSUME Aside PROVE Frame' /\ Kept'
  BY <1>3, AsideKept
<1>4. ASSUME NEW e \in Event, EmitRejected(e) \/ RetainIt(e) \/ LetGo(e) PROVE Frame' /\ Kept'
  BY <1>3, <1>4, AsideSteps
<1>5. CASE LoopTake
  BY <1>5, LoopTakeKept
<1>6. CASE LoopSleep
  BY <1>6, LoopSleepKept
<1>7. CASE StepCall \/ StepWoken
  BY <1>7, StepGetsKept
<1>8. CASE StepTook
  BY <1>8, StepTookKept
<1>9. CASE StepTimeout
  BY <1>9, StepTimeoutKept
<1>10. ASSUME NEW e \in Event, NEW o \in {"emit", "loop"}, OwnTask(e, o) \/ OwnTaskGone(e, o)
       PROVE  Frame' /\ Kept'
  BY <1>10, OwnTaskKept, OwnTaskGoneKept
<1>11. ASSUME NEW t \in Task, Work(t) PROVE Frame' /\ Kept'
  <2>1. CASE Begin(t)
    BY <2>1, BeginFrame, BeginKept
  <2>2. CASE End(t) \/ Interrupted(t)
    BY <2>2, FinishFrame
  <2>3. CASE NotBegun(t)
    BY <2>3, NotBegunKept
  <2>4. QED
    BY <1>11, <2>1, <2>2, <2>3 DEF Work
<1>12. ASSUME NEW w \in Idler, Idling(w) PROVE Frame' /\ Kept'
  BY <1>3, <1>12, IdleCheckKept, AsideSteps DEF Idling
<1>13. ASSUME NEW f \in Finder, Find(f) \/ FindTimeout(f) PROVE Frame' /\ Kept'
  BY <1>3, <1>13, AsideSteps
<1>14. CASE HooksBegin \/ HooksEnd \/ Tick \/ EditTtl
  BY <1>3, <1>14, AsideSteps
<1>15. CASE Destroy
  BY <1>15, DestroyKept
<1>16. CASE Restart
  BY <1>16, RestartFrame, RestartKept
<1>17. CASE UNCHANGED vars
  <2>1. Aside
    BY <1>17 DEF vars, Aside, Frame, Types
  <2>2. QED
    BY <1>3, <2>1
<1>18. QED
  BY <1>1, <1>2, <1>4, <1>5, <1>6, <1>7, <1>8, <1>9, <1>10, <1>11, <1>12, <1>13, <1>14, <1>15,
     <1>16, <1>17 DEF Next, Consume, OwnStep

\* The invariant: events are kept, marked and, unless emitted again, in one place.
THEOREM BusInvariant == Spec => []BusInv
<1>1. QED
  BY BusInit, BusStep, PTL DEF Spec

\* An event that was accepted and is not complete is in the queue or with the task
\* that took it, whoever is cancelled: put_nowait, get, remove_item and step() pass
\* it on without a gap, until the bus is destroyed; a restart loses only orphans.
THEOREM EventsAreKept == Spec => []EventKept
<1>1. BusInv => EventKept
  BY DEF BusInv, Kept
<1>2. QED
  BY <1>1, BusInvariant, PTL

\* An event that was emitted once is handled once at most, whether the loop, a
\* step() or a task of its own takes it, and over a restart.
THEOREM EventsRunOnce == Spec => []HandledOnce
<1>1. BusInv => HandledOnce
  BY DEF BusInv, Kept, Single, OneCopy, HandledOnce
<1>2. QED
  BY <1>1, BusInvariant, PTL

\* A call of wait_until_idle() comes back.
IdleAt(w) == idler[w] # "idle" /\ idler'[w] = "idle" /\ restarts' = restarts

\* It looks at a bus that is not destroyed, and finds nothing.
LEMMA ToldByCheck ==
    ASSUME Frame, [Next]_vars, NEW w \in Idler, IdleAt(w)
    PROVE  IdleCheck(w) /\ ~destroyed /\ queue = <<>> /\ ~Busy(inflight, processing, at, hooks)
<1>1. idler \in [Idler -> IdlerAt] /\ idler' # idler
  BY DEF IdleAt, Frame, Types
<1>2. ~ SetFlag /\ \A q, busy : ~Reconcile(q, busy)
  BY Reconciled DEF IdleAt, Frame
<1>3. ASSUME NEW v \in Idler, Idling(v)
      PROVE  /\ IdleCheck(v) /\ v = w /\ ~destroyed
             /\ queue = <<>> /\ ~Busy(inflight, processing, at, hooks)
  <2>1. ~IdleSleep(v)
    BY <1>1 DEF IdleSleep, IdleAt
  <2>2. IdleCheck(v)
    BY <1>3, <2>1 DEF Idling
  <2>3. /\ idler' # [idler EXCEPT ![v] = "error"] /\ idler' # [idler EXCEPT ![v] = "about"]
    BY <1>1 DEF IdleAt
  <2>4. /\ ~destroyed /\ queue = <<>> /\ ~Busy(inflight, processing, at, hooks)
        /\ idler' = [x \in Idler |-> IF x = v THEN "idle"
                                     ELSE IF idler[x] = "asleep" THEN "woken" ELSE idler[x]]
    BY <2>2, <2>3 DEF IdleCheck
  <2>5. v = w
    BY <2>4 DEF IdleAt
  <2>6. QED
    BY <2>2, <2>4, <2>5
<1>4. ~ \E e \in Event : Emit(e) \/ EmitRejected(e) \/ EmitCompleted(e) \/ RetainIt(e) \/ LetGo(e)
  BY <1>1 DEF Emit, EmitRejected, EmitCompleted, RetainIt, LetGo
<1>5. ~Consume
  BY <1>1 DEF Consume, LoopTake, LoopSleep, StepWoken, StepTook, Enter
<1>6. ~OwnStep
  BY <1>1, <1>2 DEF OwnStep, OwnTask, OwnTaskGone, Enter
<1>7. ~ \E t \in Task : Work(t)
  BY <1>1, <1>2 DEF Work, Begin, End, Interrupted, NotBegun, Finish
<1>8. ~StepCall /\ ~StepTimeout
  BY <1>1, <1>2 DEF StepCall, StepTimeout
<1>9. ~ \E f \in Finder : Find(f) \/ FindTimeout(f)
  BY <1>1 DEF Find, FindTimeout
<1>10. ~(HooksBegin \/ HooksEnd \/ Tick \/ EditTtl \/ Destroy)
  BY <1>1, <1>2 DEF HooksBegin, HooksEnd, Tick, EditTtl, Destroy
<1>11. ~Restart
  BY DEF Restart, IdleAt, Frame, Types
<1>12. ~UNCHANGED vars
  BY <1>1 DEF vars
<1>13. QED
  BY <1>3, <1>4, <1>5, <1>6, <1>7, <1>8, <1>9, <1>10, <1>11, <1>12 DEF Next

\* An idle bus has nobody with an event but a step() that has not marked it.
LEMMA NobodyWorks ==
    ASSUME BusInv, ~destroyed, queue = <<>>, ~Busy(inflight, processing, at, hooks)
    PROVE  /\ hooks # "running"
           /\ \A e \in Event \ orphans : Accepted(e) => Complete(e) \/ JustTaken(e)
           /\ \A e \in Event : InProcess(e) => emits[e] > 1
<1>1. /\ inflight = {} /\ processing = {} /\ hooks # "running"
      /\ \A t \in Own : at[t] = "none"
  BY DEF Busy, Alive
<1>2. ASSUME NEW e \in Event, NEW t \in Task, Claims(t, e), ~Complete(e)
      PROVE  JustTaken(e)
  <2>1. ~InProcess(e)
    BY <1>1, <1>2 DEF BusInv, Kept, Marked
  <2>2. at[t] \notin {"lock", "body"} /\ EvOf(t) = e
    BY <1>2, <2>1 DEF InProcess, Claims
  <2>3. t \in Runner
    BY <1>1, <1>2, Tasks DEF Claims
  <2>4. at[t] = "took" /\ t = Step
    BY <1>2, <2>2, <2>3, Tasks DEF Claims, BusInv, Frame, Places
  <2>5. QED
    BY <1>1, <2>2, <2>3, <2>4 DEF JustTaken, EvOf
<1>3. ASSUME NEW e \in Event \ orphans, Accepted(e), ~Complete(e)
      PROVE  JustTaken(e)
  <2>1. \E t \in Task : Claims(t, e)
    BY <1>3, NothingInIt DEF BusInv, Kept, EventKept
  <2>2. QED
    BY <1>2, <1>3, <2>1
<1>4. ASSUME NEW e \in Event, InProcess(e), ~(emits[e] > 1)
      PROVE  FALSE
  <2>1. PICK t \in Task : Works(t, e)
    BY <1>4, InProcessBy
  <2>2. emits[e] \in Nat
    BY DEF BusInv, Frame, Types
  <2>3. emits[e] <= 1
    BY <1>4, <2>2
  <2>4. OneCopy(e) /\ Claims(t, e)
    BY <2>1, <2>3, WorkersClaim DEF BusInv, Kept, Single
  <2>5. ~Complete(e)
    BY <2>4 DEF OneCopy
  <2>6. QED
    BY <1>1, <1>4, <2>5 DEF BusInv, Kept, Marked
<1>5. QED
  BY <1>1, <1>3, <1>4

\* wait_until_idle() comes back only when every accepted event is complete and no
\* event is in process, but for one that step() was just given or that was emitted
\* again.
THEOREM IdleWaitersFindNothing == Spec => IdleMeansDone
<1> DEFINE Idles ==
      \A w \in Idler : idler[w] # "idle" /\ idler'[w] = "idle" /\ restarts' = restarts =>
        /\ \A e \in Event \ orphans : Accepted(e) => Complete(e) \/ JustTaken(e)
        /\ hooks # "running" /\ \A e \in Event : InProcess(e) => emits[e] > 1
<1>1. BusInv /\ [Next]_vars => Idles
  <2>1. ASSUME BusInv, [Next]_vars, NEW w \in Idler, IdleAt(w)
        PROVE  /\ \A e \in Event \ orphans : Accepted(e) => Complete(e) \/ JustTaken(e)
               /\ hooks # "running" /\ \A e \in Event : InProcess(e) => emits[e] > 1
    BY <2>1, ToldByCheck, NobodyWorks DEF BusInv
  <2>2. QED
    BY <2>1 DEF IdleAt
<1>2. QED
  BY <1>1, BusInvariant, PTL DEF Spec, IdleMeansDone

----------------------------------------------------------------------------
(* What the loops over the history return.                                 *)

\* What Only is made of.
OnlyBy(T, s, S, f) ==
    /\ f \in [0 .. Len(s) -> Seq(T)] /\ f[0] = <<>> /\ Only(s, S) = f[Len(s)]
    /\ \A i \in 1 .. Len(s) : f[i] = IF s[i] \in S THEN Append(f[i - 1], s[i]) ELSE f[i - 1]

\* Its rounds exist.
LEMMA OnlyRounds ==
    ASSUME NEW T, NEW s \in Seq(T), NEW S
    PROVE  \E f : OnlyBy(T, s, S, f)
<1> DEFINE n == Len(s)
           Body(f, i) == IF i = 0 THEN <<>>
                         ELSE IF s[i] \in S THEN Append(f[i - 1], s[i]) ELSE f[i - 1]
           F == CHOOSE some : some = [i \in 0 .. n |-> Body(some, i)]
           g == [p \in Seq(T) \X (1 .. n) |->
                    IF s[p[2]] \in S THEN Append(p[1], s[p[2]]) ELSE p[1]]
<1>1. n \in Nat /\ <<>> \in Seq(T) /\ \A i \in 1 .. n : s[i] \in T
  OBVIOUS
<1>2. g \in [Seq(T) \X (1 .. n) -> Seq(T)]
  <2>1. ASSUME NEW p \in Seq(T) \X (1 .. n)
        PROVE  (IF s[p[2]] \in S THEN Append(p[1], s[p[2]]) ELSE p[1]) \in Seq(T)
    <3>1. p[1] \in Seq(T) /\ s[p[2]] \in T
      BY <1>1
    <3>2. QED
      BY <3>1
  <2>2. QED
    BY <2>1
<1>3. \A q \in Seq(T), i \in 1 .. n :
         g[<<q, i>>] = IF s[i] \in S THEN Append(q, s[i]) ELSE q
  OBVIOUS
<1> HIDE DEF g
<1>4. PICK f \in [0 .. n -> Seq(T)] :
         f[0] = <<>> /\ \A i \in 1 .. n : f[i] = g[<<f[i - 1], i>>]
  <2>1. <<>> \in Seq(T) /\ n \in Nat
    BY <1>1
  <2>2. Repeats(Seq(T), <<>>, n, g)
    BY <1>2, <2>1 DEF Repeats
  <2>3. PICK f : Comes(Seq(T), <<>>, n, g, f)
    BY <2>2, Rounds
  <2>4. QED
    BY <2>3 DEF Comes
<1>5. \A i \in 1 .. n : f[i] = IF s[i] \in S THEN Append(f[i - 1], s[i]) ELSE f[i - 1]
  <2>1. \A i \in 1 .. n : i - 1 \in 0 .. n
    BY <1>1
  <2>2. QED
    BY <1>3, <1>4, <2>1
<1>6. f = [i \in 0 .. n |-> Body(f, i)]
  <2>1. \A i \in 0 .. n : i = 0 \/ i \in 1 .. n
    BY <1>1
  <2>2. \A i \in 0 .. n : f[i] = Body(f, i)
    BY <1>4, <1>5, <2>1
  <2>3. QED
    BY <2>2
<1>7. F = [i \in 0 .. n |-> Body(F, i)]
  <2> HIDE DEF Body
  <2>1. \E some : some = [i \in 0 .. n |-> Body(some, i)]
    BY <1>6
  <2>2. QED
    BY <2>1
<1>8. Only(s, S) = F[n]
  BY DEF Only
<1> HIDE DEF F
<1>9. /\ F[0] = <<>>
      /\ \A i \in 1 .. n : F[i] = IF s[i] \in S THEN Append(F[i - 1], s[i]) ELSE F[i - 1]
  <2>1. 0 \in 0 .. n /\ \A i \in 1 .. n : i # 0 /\ i \in 0 .. n
    BY <1>1
  <2>2. \A i \in 0 .. n : F[i] = Body(F, i)
    BY <1>7
  <2>3. QED
    BY <2>1, <2>2
<1>10. \A i \in 0 .. n : F[i] \in Seq(T)
  <2>1. ASSUME NEW i \in 1 .. n, F[i - 1] \in Seq(T) PROVE F[i] \in Seq(T)
    <3>1. s[i] \in T
      BY <1>1
    <3>2. Append(F[i - 1], s[i]) \in Seq(T)
      BY <2>1, <3>1
    <3>3. QED
      BY <1>9, <2>1, <3>2
  <2>2. F[0] \in Seq(T)
    BY <1>1, <1>9
  <2> HIDE DEF n
  <2>3. QED
    BY <1>1, <2>1, <2>2, StaysIn
<1>11. F \in [0 .. n -> Seq(T)]
  BY <1>7, <1>10
<1>12. QED
  BY <1>8, <1>9, <1>11 DEF OnlyBy

\* Only keeps what is in the set, and every element once if it had it once.
LEMMA OnlyOfSeq ==
    ASSUME NEW T, NEW s \in Seq(T), NEW S
    PROVE  /\ Only(s, S) \in Seq(T) /\ Range(Only(s, S)) = Range(s) \cap S
           /\ Len(Only(s, S)) <= Len(s) /\ (Distinct(s) => Distinct(Only(s, S)))
<1> DEFINE n == Len(s)
<1>0. PICK f : OnlyBy(T, s, S, f)
  BY OnlyRounds
<1>1. /\ f \in [0 .. n -> Seq(T)] /\ f[0] = <<>> /\ Only(s, S) = f[n]
      /\ \A i \in 1 .. n : f[i] = IF s[i] \in S THEN Append(f[i - 1], s[i]) ELSE f[i - 1]
  BY <1>0 DEF OnlyBy
<1> DEFINE Right(i) ==
             /\ Len(f[i]) <= i /\ (Distinct(s) => Distinct(f[i]))
             /\ \A x : x \in Range(f[i]) <=> x \in S /\ \E j \in 1 .. i : s[j] = x
           B == {i \in 0 .. n : Right(i)}
<1>2. n \in Nat /\ \A i \in 1 .. n : s[i] \in T
  OBVIOUS
<1>3. Right(0)
  <2>1. f[0] = <<>> /\ Len(f[0]) = 0 /\ 1 .. 0 = {}
    BY <1>1
  <2>2. Range(<<>>) = {}
    BY DEF Range
  <2>3. QED
    BY <2>1, <2>2 DEF Distinct
<1>4. ASSUME NEW i \in 1 .. n, Right(i - 1) PROVE Right(i)
  <2> DEFINE t == f[i - 1]
  <2>1. /\ t \in Seq(T) /\ i - 1 \in Nat /\ s[i] \in T /\ i \in 1 .. i /\ Len(t) \in Nat
        /\ \A j \in 1 .. i : j = i \/ j \in 1 .. i - 1
        /\ \A j \in 1 .. i - 1 : j \in 1 .. i /\ j \in 1 .. n /\ j # i
        /\ i \in 0 .. n /\ i - 1 \in 0 .. n
    BY <1>1, <1>2
  <2>2. /\ Len(t) <= i - 1 /\ (Distinct(s) => Distinct(t))
        /\ \A x : x \in Range(t) <=> x \in S /\ \E j \in 1 .. i - 1 : s[j] = x
    BY <1>4
  <2> HIDE DEF t
  <2>3. CASE s[i] \in S
    <3>1. f[i] = Append(t, s[i])
      BY <1>1, <2>3 DEF t
    <3>2. Len(f[i]) <= i
      BY <2>1, <2>2, <3>1
    <3>3. Range(f[i]) = Range(t) \cup {s[i]}
      BY <2>1, <3>1, AppendRange
    <3>4. ASSUME Distinct(s) PROVE Distinct(f[i])
      <4>1. s[i] \notin Range(t)
        BY <2>1, <2>2, <3>4 DEF Distinct
      <4>2. QED
        BY <2>1, <2>2, <3>1, <3>4, <4>1, AppendDistinct
    <3>5. \A x : x \in Range(f[i]) <=> x \in S /\ \E j \in 1 .. i : s[j] = x
      BY <2>1, <2>2, <2>3, <3>3
    <3>6. QED
      BY <3>2, <3>4, <3>5
  <2>4. CASE s[i] \notin S
    <3>1. f[i] = t
      BY <1>1, <2>4 DEF t
    <3>2. Len(f[i]) <= i
      BY <2>1, <2>2, <3>1
    <3>3. \A x : x \in Range(f[i]) <=> x \in S /\ \E j \in 1 .. i : s[j] = x
      BY <2>1, <2>2, <2>4, <3>1
    <3>4. QED
      BY <2>2, <3>1, <3>2, <3>3
  <2>5. QED
    BY <2>3, <2>4
<1>5. Right(n)
  <2>1. 0 \in B /\ \A i \in 1 .. n : i - 1 \in B => i \in B
    <3> HIDE DEF Right
    <3>1. QED
      BY <1>2, <1>3, <1>4
  <2> HIDE DEF B, n
  <2>2. n \in Nat /\ n \in 0 .. n
    BY <1>2
  <2>3. \A i \in 0 .. n : i \in B
    BY <2>1, <2>2, EveryRound
  <2>4. n \in B
    BY <2>2, <2>3
  <2>5. QED
    BY <2>4 DEF B
<1>6. n \in 0 .. n
  BY <1>2
<1>7. QED
  BY <1>1, <1>5, <1>6, RangeIndex

\* What Entered is made of.
KeysBefore(list, s, i) == Range(list) \cup {s[j] : j \in 1 .. i - 1}

\* f has the keys after every round.
EnteredBy(T, list, s, f) ==
    /\ f \in [0 .. Len(s) -> Seq(T)] /\ f[0] = list /\ Entered(list, s) = f[Len(s)]
    /\ \A i \in 1 .. Len(s) :
          f[i] = IF s[i] \in KeysBefore(list, s, i) THEN f[i - 1] ELSE Append(f[i - 1], s[i])

\* Its rounds exist.
LEMMA EnteredRounds ==
    ASSUME NEW T, NEW list \in Seq(T), NEW s \in Seq(T)
    PROVE  \E f : EnteredBy(T, list, s, f)
<1> DEFINE n == Len(s)
           Body(f, i) == IF i = 0 THEN list
                         ELSE IF s[i] \in Range(list) \cup {s[j] : j \in 1 .. i - 1} THEN f[i - 1]
                         ELSE Append(f[i - 1], s[i])
           F == CHOOSE keys : keys = [i \in 0 .. n |-> Body(keys, i)]
           g == [p \in Seq(T) \X (1 .. n) |->
                    IF s[p[2]] \in KeysBefore(list, s, p[2]) THEN p[1] ELSE Append(p[1], s[p[2]])]
<1>1. n \in Nat /\ \A i \in 1 .. n : s[i] \in T
  OBVIOUS
<1>2. g \in [Seq(T) \X (1 .. n) -> Seq(T)]
  <2>1. ASSUME NEW p \in Seq(T) \X (1 .. n)
        PROVE  (IF s[p[2]] \in KeysBefore(list, s, p[2]) THEN p[1] ELSE Append(p[1], s[p[2]]))
                  \in Seq(T)
    <3>1. p[1] \in Seq(T) /\ s[p[2]] \in T
      BY <1>1
    <3>2. QED
      BY <3>1
  <2>2. QED
    BY <2>1
<1>3. \A q \in Seq(T), i \in 1 .. n :
         g[<<q, i>>] = IF s[i] \in KeysBefore(list, s, i) THEN q ELSE Append(q, s[i])
  OBVIOUS
<1> HIDE DEF g
<1>4. PICK f : Comes(Seq(T), list, n, g, f)
  <2>1. Repeats(Seq(T), list, n, g)
    BY <1>1, <1>2 DEF Repeats
  <2>2. QED
    BY <2>1, Rounds
<1>5. /\ f \in [0 .. n -> Seq(T)] /\ f[0] = list
      /\ \A i \in 1 .. n : f[i] = g[<<f[i - 1], i>>]
  BY <1>4 DEF Comes
<1>6. \A i \in 1 .. n :
         f[i] = IF s[i] \in KeysBefore(list, s, i) THEN f[i - 1] ELSE Append(f[i - 1], s[i])
  <2>1. \A i \in 1 .. n : i - 1 \in 0 .. n
    BY <1>1
  <2>2. QED
    BY <1>3, <1>5, <2>1
<1>7. f = [i \in 0 .. n |-> Body(f, i)]
  <2>1. \A i \in 0 .. n : i = 0 \/ i \in 1 .. n
    BY <1>1
  <2>2. \A i \in 0 .. n : f[i] = Body(f, i)
    BY <1>5, <1>6, <2>1 DEF KeysBefore
  <2>3. QED
    BY <1>5, <2>2
<1>8. F = [i \in 0 .. n |-> Body(F, i)]
  <2> HIDE DEF Body
  <2>1. \E keys : keys = [i \in 0 .. n |-> Body(keys, i)]
    BY <1>7
  <2>2. QED
    BY <2>1
<1>9. Entered(list, s) = F[n]
  BY DEF Entered
<1> HIDE DEF F
<1>10. /\ F[0] = list
       /\ \A i \in 1 .. n :
             F[i] = IF s[i] \in KeysBefore(list, s, i) THEN F[i - 1] ELSE Append(F[i - 1], s[i])
  <2>1. 0 \in 0 .. n /\ \A i \in 1 .. n : i # 0 /\ i \in 0 .. n
    BY <1>1
  <2>2. \A i \in 0 .. n : F[i] = Body(F, i)
    BY <1>8
  <2>3. QED
    BY <2>1, <2>2 DEF KeysBefore
<1>11. \A i \in 0 .. n : F[i] \in Seq(T)
  <2>1. ASSUME NEW i \in 1 .. n, F[i - 1] \in Seq(T) PROVE F[i] \in Seq(T)
    <3>1. s[i] \in T
      BY <1>1
    <3>2. Append(F[i - 1], s[i]) \in Seq(T)
      BY <2>1, <3>1
    <3>3. QED
      BY <1>10, <2>1, <3>2
  <2>2. F[0] \in Seq(T)
    BY <1>10
  <2> HIDE DEF n
  <2>3. QED
    BY <1>1, <2>1, <2>2, StaysIn
<1>12. F \in [0 .. n -> Seq(T)]
  BY <1>8, <1>11
<1>13. QED
  BY <1>9, <1>10, <1>12 DEF EnteredBy

\* A table has its old keys and the new ones, each once.
LEMMA EnteredOfSeq ==
    ASSUME NEW T, NEW list \in Seq(T), NEW s \in Seq(T)
    PROVE  /\ Entered(list, s) \in Seq(T) /\ Range(Entered(list, s)) = Range(list) \cup Range(s)
           /\ Distinct(list) => Distinct(Entered(list, s))
<1> DEFINE n == Len(s)
<1>1. PICK f : EnteredBy(T, list, s, f)
  BY EnteredRounds
<1>2. /\ f \in [0 .. n -> Seq(T)] /\ f[0] = list /\ Entered(list, s) = f[n]
      /\ \A i \in 1 .. n :
            f[i] = IF s[i] \in KeysBefore(list, s, i) THEN f[i - 1] ELSE Append(f[i - 1], s[i])
  BY <1>1 DEF EnteredBy
<1> DEFINE Made(i) ==
             /\ Distinct(list) => Distinct(f[i])
             /\ \A x : x \in Range(f[i]) <=> x \in Range(list) \/ \E j \in 1 .. i : s[j] = x
           B == {i \in 0 .. n : Made(i)}
<1>3. n \in Nat /\ \A i \in 1 .. n : s[i] \in T
  OBVIOUS
<1>4. Made(0)
  <2>1. f[0] = list /\ 1 .. 0 = {}
    BY <1>2
  <2>2. QED
    BY <2>1
<1>5. ASSUME NEW i \in 1 .. n, Made(i - 1) PROVE Made(i)
  <2> DEFINE t == f[i - 1]
  <2>1. /\ t \in Seq(T) /\ s[i] \in T /\ i \in 1 .. i
        /\ \A j \in 1 .. i : j = i \/ j \in 1 .. i - 1
        /\ \A j \in 1 .. i - 1 : j \in 1 .. i
    BY <1>2, <1>3
  <2>2. /\ Distinct(list) => Distinct(t)
        /\ \A x : x \in Range(t) <=> x \in Range(list) \/ \E j \in 1 .. i - 1 : s[j] = x
        /\ s[i] \in KeysBefore(list, s, i) <=> s[i] \in Range(t)
    BY <1>5 DEF KeysBefore
  <2> HIDE DEF t
  <2>3. CASE s[i] \notin Range(t)
    <3>1. f[i] = Append(t, s[i])
      BY <1>2, <2>2, <2>3 DEF t
    <3>2. Range(f[i]) = Range(t) \cup {s[i]}
      BY <2>1, <3>1, AppendRange
    <3>3. Distinct(list) => Distinct(f[i])
      BY <2>1, <2>2, <2>3, <3>1, AppendDistinct
    <3>4. \A x : x \in Range(f[i]) <=> x \in Range(list) \/ \E j \in 1 .. i : s[j] = x
      BY <2>1, <2>2, <3>2
    <3>5. QED
      BY <3>3, <3>4
  <2>4. CASE s[i] \in Range(t)
    <3>1. f[i] = t
      BY <1>2, <2>2, <2>4 DEF t
    <3>2. \A x : x \in Range(f[i]) <=> x \in Range(list) \/ \E j \in 1 .. i : s[j] = x
      BY <2>1, <2>2, <2>4, <3>1
    <3>3. QED
      BY <2>2, <3>1, <3>2
  <2>5. QED
    BY <2>3, <2>4
<1>6. Made(n)
  <2>1. 0 \in B /\ \A i \in 1 .. n : i - 1 \in B => i \in B
    <3> HIDE DEF Made
    <3>1. QED
      BY <1>3, <1>4, <1>5
  <2> HIDE DEF B, n
  <2>2. n \in Nat /\ n \in 0 .. n
    BY <1>3
  <2>3. \A i \in 0 .. n : i \in B
    BY <2>1, <2>2, EveryRound
  <2>4. n \in B
    BY <2>2, <2>3
  <2>5. QED
    BY <2>4 DEF B
<1>7. n \in 0 .. n
  BY <1>3
<1>8. QED
  BY <1>2, <1>6, <1>7, RangeIndex

----------------------------------------------------------------------------
(* The rounds of trimming.                                                 *)

\* Every element once, in terms of each element.
LEMMA DistinctOnce ==
    ASSUME NEW T, NEW s \in Seq(T)
    PROVE  Distinct(s) <=> \A x \in T : Once(s, x)
<1>1. \A i \in 1 .. Len(s) : s[i] \in T
  OBVIOUS
<1>2. QED
  BY <1>1 DEF Distinct, Once

\* Taking out an element that is there once leaves the others.
LEMMA TakesDistinct ==
    ASSUME NEW T, NEW q \in Seq(T), NEW e \in T, NEW r, Distinct(q), Takes(T, q, e, r)
    PROVE  r \in Seq(T) /\ Distinct(r) /\ Range(r) = Range(q) \ {e}
<1>1. r \in Seq(T) /\ \A d \in T : Once(q, d) /\ Once(r, d)
  BY DistinctOnce DEF Takes
<1>2. \A x : x \in Range(q) => x \in T
  BY RangeIndex
<1>3. Range(r) = Range(q) \ {e}
  BY <1>1, <1>2 DEF Takes
<1>4. QED
  BY <1>1, <1>3, DistinctOnce

\* A round of trimming has a list and its leaves.
Trimming == [list : Seq(Event), leaves : Seq(Event)]

\* What is gone from the history had been completed, is not retained and has no
\* child in what is left.
GoneWell(k, dn, list) ==
    \A e \in Range(k.list) \ Range(list) :
        dn[e] # None /\ k.retained[e] = 0 /\ Children(list, e) = {}

\* After a round the leaves are what is spent in the list, and the rest is gone well.
RoundOK(k, dn, s) ==
    /\ s \in Trimming /\ Distinct(s.list) /\ Distinct(s.leaves)
    /\ Range(s.list) \subseteq Range(k.list) /\ Len(s.list) <= Len(k.list)
    /\ Range(s.leaves) = {x \in Range(s.list) : Spent(k, dn, s.list, x)}
    /\ GoneWell(k, dn, s.list)

\* No more rounds are needed.
Enough(policy, s) == s.leaves = <<>> \/ Len(s.list) <= policy.size

\* An evicted leaf leaves the round as it should be.
LEMMA LeafGoes ==
    ASSUME NEW policy, NEW k, NEW dn, NEW s, Len(k.list) \in Nat,
           RoundOK(k, dn, s), ~Enough(policy, s)
    PROVE  LET r == EvictFirst(policy, k, dn)[s]
           IN  RoundOK(k, dn, r) /\ Len(r.list) = Len(s.list) - 1
<1> DEFINE e == Head(s.leaves)
           rest == RemoveFirst(s.list, e)
           tail == Tail(s.leaves)
           p == Parent[e]
           freed == p \in Range(rest) /\ Spent(k, dn, rest, p)
           after == IF freed THEN Append(tail, p) ELSE tail
<1>1. /\ s \in Trimming /\ s.list \in Seq(Event) /\ s.leaves \in Seq(Event) /\ s.leaves # <<>>
      /\ Distinct(s.list) /\ Distinct(s.leaves)
      /\ Range(s.list) \subseteq Range(k.list)
      /\ Range(s.leaves) = {x \in Range(s.list) : Spent(k, dn, s.list, x)}
  BY DEF RoundOK, Trimming, Enough
<1>2. EvictFirst(policy, k, dn)[s] = [list |-> rest, leaves |-> after]
  <2>1. ~(s.leaves = <<>> \/ Len(s.list) <= policy.size)
    BY DEF Enough
  <2>2. QED
    BY <1>1, <2>1 DEF EvictFirst, Trimming
<1>3. e \in Event /\ e \in Range(s.leaves) /\ e \in Range(s.list) /\ Spent(k, dn, s.list, e)
  <2>1. e \in Event /\ e = s.leaves[1] /\ 1 \in 1 .. Len(s.leaves)
    BY <1>1
  <2>2. e \in Range(s.leaves)
    BY <1>1, <2>1, RangeIndex
  <2>3. QED
    BY <1>1, <2>1, <2>2
<1>4. rest \in Seq(Event) /\ Distinct(rest) /\ Range(rest) = Range(s.list) \ {e}
  <2>1. Takes(Event, s.list, e, RemoveFirst(s.list, e))
    BY <1>1, <1>3, FirstTaken
  <2>2. QED
    BY <1>1, <1>3, <2>1, TakesDistinct
<1>5. Len(rest) = Len(s.list) - 1
  <2>1. \E i \in 1 .. Len(s.list) : s.list[i] = e
    BY <1>1, <1>3, RangeIndex
  <2>2. PICK i \in 1 .. Len(s.list) : RemoveFirst(s.list, e) = RemoveAt(s.list, i)
    BY <1>1, <2>1, RemoveFirstOfSeq
  <2>3. Len(RemoveAt(s.list, i)) = Len(s.list) - 1
    BY <1>1, RemoveAtOfSeq
  <2>4. QED
    BY <2>2, <2>3
<1>6. tail \in Seq(Event) /\ Distinct(tail) /\ Range(tail) = Range(s.leaves) \ {e}
  <2>1. Takes(Event, s.leaves, Head(s.leaves), Tail(s.leaves))
    BY <1>1, HeadTaken
  <2>2. QED
    BY <1>1, <1>3, <2>1, TakesDistinct
<1> HIDE DEF rest, tail, e
<1>7. \A x : Children(rest, x) = Children(s.list, x) \ {e}
  BY <1>4 DEF Children
<1>8. /\ e \in Children(s.list, p) /\ ~Spent(k, dn, s.list, p)
      /\ \A x : x # p => (Spent(k, dn, rest, x) <=> Spent(k, dn, s.list, x))
  <2>1. e \in Children(s.list, p)
    BY <1>3 DEF Children
  <2>2. ~Spent(k, dn, s.list, p)
    BY <2>1 DEF Spent
  <2>3. ASSUME NEW x, x # p PROVE Spent(k, dn, rest, x) <=> Spent(k, dn, s.list, x)
    <3>1. e \notin Children(s.list, x)
      BY <2>3 DEF Children
    <3>2. Children(rest, x) = Children(s.list, x)
      BY <1>7, <3>1
    <3>3. QED
      BY <3>2 DEF Spent
  <2>4. QED
    BY <2>1, <2>2, <2>3
<1> HIDE DEF p
<1>9. p \notin Range(tail) /\ (freed => p \in Event)
  <2>1. \A x : x \in Range(rest) => x \in Event
    BY <1>4, RangeIndex
  <2>2. QED
    BY <1>1, <1>6, <1>8, <2>1
<1>10. after \in Seq(Event) /\ Distinct(after)
       /\ Range(after) = Range(tail) \cup (IF freed THEN {p} ELSE {})
  <2>1. CASE freed
    <3>1. after = Append(tail, p) /\ p \in Event
      BY <1>9, <2>1
    <3>2. after \in Seq(Event) /\ Distinct(after) /\ Range(after) = Range(tail) \cup {p}
      BY <1>6, <1>9, <3>1, AppendRange, AppendDistinct
    <3>3. QED
      BY <2>1, <3>2
  <2>2. CASE ~freed
    BY <1>6, <2>2
  <2>3. QED
    BY <2>1, <2>2
<1>11. Range(after) = {x \in Range(rest) : Spent(k, dn, rest, x)}
  <2>1. ASSUME NEW x \in Range(after) PROVE x \in Range(rest) /\ Spent(k, dn, rest, x)
    BY <1>1, <1>4, <1>6, <1>8, <1>10
  <2>2. ASSUME NEW x \in Range(rest), Spent(k, dn, rest, x) PROVE x \in Range(after)
    <3>1. CASE x = p
      BY <1>10, <2>2, <3>1
    <3>2. CASE x # p
      <4>1. x \in Range(s.leaves) /\ x # e
        BY <1>1, <1>4, <1>8, <2>2, <3>2
      <4>2. QED
        BY <1>6, <1>10, <4>1
    <3>3. QED
      BY <3>1, <3>2
  <2>3. QED
    BY <2>1, <2>2
<1>12. GoneWell(k, dn, rest)
  <2>1. ASSUME NEW x \in Range(k.list) \ Range(rest)
        PROVE  dn[x] # None /\ k.retained[x] = 0 /\ Children(rest, x) = {}
    <3>1. CASE x = e
      BY <1>3, <1>7, <3>1 DEF Spent
    <3>2. CASE x # e
      <4>1. x \in Range(k.list) \ Range(s.list)
        BY <1>4, <2>1, <3>2
      <4>2. dn[x] # None /\ k.retained[x] = 0 /\ Children(s.list, x) = {}
        BY <4>1 DEF RoundOK, GoneWell
      <4>3. QED
        BY <1>7, <4>2
    <3>3. QED
      BY <3>1, <3>2
  <2>2. QED
    BY <2>1 DEF GoneWell
<1> HIDE DEF after
<1>13. DEFINE r == [list |-> rest, leaves |-> after]
<1>14. r \in Trimming /\ r.list = rest /\ r.leaves = after
  BY <1>4, <1>10 DEF Trimming
<1>15. Range(rest) \subseteq Range(k.list) /\ Len(rest) <= Len(k.list)
  <2>1. Len(s.list) \in Nat /\ Len(s.list) <= Len(k.list)
    BY <1>1 DEF RoundOK
  <2>2. QED
    BY <1>1, <1>4, <1>5, <2>1
<1> HIDE DEF r
<1>16. RoundOK(k, dn, r)
  BY <1>4, <1>10, <1>11, <1>12, <1>14, <1>15 DEF RoundOK
<1>17. QED
  BY <1>2, <1>5, <1>14, <1>16 DEF r

\* A round makes of two sequences two sequences.
LEMMA EvictFirstTypes ==
    ASSUME NEW policy, NEW k, NEW dn, NEW s \in Trimming
    PROVE  EvictFirst(policy, k, dn)[s] \in Trimming
<1> DEFINE e == Head(s.leaves)
           rest == RemoveFirst(s.list, e)
           tail == Tail(s.leaves)
           p == Parent[e]
           freed == p \in Range(rest) /\ Spent(k, dn, rest, p)
           after == IF freed THEN Append(tail, p) ELSE tail
<1>1. s.list \in Seq(Event) /\ s.leaves \in Seq(Event)
  BY DEF Trimming
<1>2. EvictFirst(policy, k, dn)[s] =
         IF Enough(policy, s) THEN s ELSE [list |-> rest, leaves |-> after]
  BY DEF EvictFirst, Trimming, Enough
<1>3. CASE Enough(policy, s)
  BY <1>2, <1>3
<1>4. CASE ~Enough(policy, s)
  <2>1. tail \in Seq(Event)
    BY <1>1, <1>4 DEF Enough
  <2>2. rest \in Seq(Event)
    <3> HIDE DEF e
    <3>1. CASE e \in Range(s.list)
      BY <1>1, <3>1, FirstTaken DEF Takes
    <3>2. CASE e \notin Range(s.list)
      BY <1>1, <3>2, RemoveFirstAbsent
    <3>3. QED
      BY <3>1, <3>2
  <2> HIDE DEF rest, tail, p
  <2>3. freed => p \in Event
    BY <2>2, RangeIndex
  <2>4. after \in Seq(Event)
    BY <2>1, <2>3
  <2>5. QED
    BY <1>2, <1>4, <2>2, <2>4 DEF Trimming
<1>5. QED
  BY <1>3, <1>4

\* What TrimSize comes to: rounds until there is enough.
TrimmedTo(policy, k, dn, s) ==
    /\ RoundOK(k, dn, s) /\ Enough(policy, s)
    /\ TrimSize(policy, k, dn) =
         [Untrack(k, Range(k.list) \ Range(s.list)) EXCEPT !.list = s.list]

\* The rounds exist, and end with enough.
LEMMA TrimSizeRounds ==
    ASSUME NEW policy, NEW k, NEW dn, policy.size \in Nat \ {0},
           k.list \in Seq(Event), Distinct(k.list)
    PROVE  \E s : TrimmedTo(policy, k, dn, s)
<1> DEFINE n == Len(k.list)
           leaves == Only(k.list, {e \in Event : Spent(k, dn, k.list, e)})
           evict == EvictFirst(policy, k, dn)
           start == [list |-> k.list, leaves |-> leaves]
           Body(f, i) == IF i = 0 THEN start ELSE evict[f[i - 1]]
           F == CHOOSE round : round = [i \in 0 .. n |-> Body(round, i)]
           g == [x \in Trimming \X (1 .. n) |-> evict[x[1]]]
<1>1. n \in Nat
  OBVIOUS
<1>2. /\ leaves \in Seq(Event) /\ Distinct(leaves)
      /\ Range(leaves) = Range(k.list) \cap {e \in Event : Spent(k, dn, k.list, e)}
  BY OnlyOfSeq
<1>3. TrimSize(policy, k, dn) =
         [Untrack(k, Range(k.list) \ Range(F[n].list)) EXCEPT !.list = F[n].list]
  BY DEF TrimSize
<1> HIDE DEF leaves
<1>4. start \in Trimming
  BY <1>2 DEF Trimming
<1>5. RoundOK(k, dn, start)
  <2>1. start.list = k.list /\ start.leaves = leaves
    OBVIOUS
  <2>2. \A x \in Range(k.list) : x \in Event
    BY RangeIndex
  <2>3. Range(leaves) = {x \in Range(k.list) : Spent(k, dn, k.list, x)}
    BY <1>2, <2>2
  <2>4. GoneWell(k, dn, k.list)
    BY DEF GoneWell
  <2>5. Len(k.list) <= Len(k.list)
    BY <1>1
  <2> HIDE DEF start
  <2>6. QED
    BY <1>2, <1>4, <2>1, <2>3, <2>4, <2>5 DEF RoundOK
<1> HIDE DEF start, evict
<1>6. \A s \in Trimming : evict[s] \in Trimming
  BY EvictFirstTypes DEF evict
<1>7. PICK f : Comes(Trimming, start, n, g, f)
  <2>1. g \in [Trimming \X (1 .. n) -> Trimming]
    BY <1>6
  <2> HIDE DEF g
  <2>2. Repeats(Trimming, start, n, g)
    BY <1>1, <1>4, <2>1 DEF Repeats
  <2>3. QED
    BY <2>2, Rounds
<1>8. /\ f \in [0 .. n -> Trimming] /\ f[0] = start
      /\ \A i \in 1 .. n : f[i] = g[<<f[i - 1], i>>]
  BY <1>7 DEF Comes
<1>9. \A i \in 1 .. n : f[i] = evict[f[i - 1]]
  <2>1. \A i \in 1 .. n : i - 1 \in 0 .. n
    BY <1>1
  <2>2. \A s \in Trimming, i \in 1 .. n : g[<<s, i>>] = evict[s]
    OBVIOUS
  <2> HIDE DEF g
  <2>3. QED
    BY <1>8, <2>1, <2>2
<1>10. f = [i \in 0 .. n |-> Body(f, i)]
  <2>1. \A i \in 0 .. n : i = 0 \/ i \in 1 .. n
    BY <1>1
  <2>2. \A i \in 0 .. n : f[i] = Body(f, i)
    BY <1>8, <1>9, <2>1
  <2>3. QED
    BY <1>8, <2>2
<1>11. F = [i \in 0 .. n |-> Body(F, i)]
  <2> HIDE DEF Body
  <2>1. \E round : round = [i \in 0 .. n |-> Body(round, i)]
    BY <1>10
  <2>2. QED
    BY <2>1
<1> HIDE DEF F, g
<1>12. F[0] = start /\ \A i \in 1 .. n : F[i] = evict[F[i - 1]]
  <2>1. 0 \in 0 .. n /\ \A i \in 1 .. n : i # 0 /\ i \in 0 .. n
    BY <1>1
  <2>2. \A i \in 0 .. n : F[i] = Body(F, i)
    BY <1>11
  <2>3. QED
    BY <2>1, <2>2
<1> DEFINE OK(i) == /\ RoundOK(k, dn, F[i])
                    /\ Enough(policy, F[i]) \/ Len(F[i].list) + i = n
           B == {i \in 0 .. n : OK(i)}
<1>13. OK(0)
  <2>1. start.list = k.list
    BY DEF start
  <2>2. QED
    BY <1>1, <1>5, <1>12, <2>1
<1>14. ASSUME NEW i \in 1 .. n, OK(i - 1) PROVE OK(i)
  <2> DEFINE s == F[i - 1]
  <2>1. RoundOK(k, dn, s) /\ s \in Trimming /\ F[i] = evict[s] /\ s.list \in Seq(Event)
    BY <1>12, <1>14 DEF RoundOK, Trimming
  <2>2. Enough(policy, s) \/ Len(s.list) + (i - 1) = n
    BY <1>14
  <2> HIDE DEF s
  <2>3. CASE Enough(policy, s)
    <3>1. F[i] = s
      BY <2>1, <2>3 DEF evict, EvictFirst, Enough, Trimming
    <3>2. QED
      BY <2>1, <2>3, <3>1
  <2>4. CASE ~Enough(policy, s)
    <3>1. RoundOK(k, dn, F[i]) /\ Len(F[i].list) = Len(s.list) - 1
      BY <1>1, <2>1, <2>4, LeafGoes DEF evict
    <3>2. Len(F[i].list) + i = n
      <4>1. Len(s.list) \in Nat
        BY <2>1
      <4>2. QED
        BY <1>1, <2>2, <2>4, <3>1, <4>1
    <3>3. QED
      BY <3>1, <3>2
  <2>5. QED
    BY <2>3, <2>4
<1>15. OK(n)
  <2>1. 0 \in B /\ \A i \in 1 .. n : i - 1 \in B => i \in B
    <3> HIDE DEF OK
    <3>1. QED
      BY <1>1, <1>13, <1>14
  <2> HIDE DEF B, n
  <2>2. n \in Nat /\ n \in 0 .. n
    BY <1>1
  <2>3. \A i \in 0 .. n : i \in B
    BY <2>1, <2>2, EveryRound
  <2>4. n \in B
    BY <2>2, <2>3
  <2>5. QED
    BY <2>4 DEF B
<1>16. Enough(policy, F[n])
  <2>1. CASE Len(F[n].list) + n = n
    <3>1. F[n].list \in Seq(Event)
      BY <1>15 DEF RoundOK, Trimming
    <3>2. Len(F[n].list) \in Nat
      BY <3>1
    <3>3. Len(F[n].list) <= policy.size
      <4>1. \A a, b, z \in Nat : a + b = b => a <= z
        OBVIOUS
      <4> HIDE DEF n
      <4>2. QED
        BY <1>1, <2>1, <3>2, <4>1
    <3>4. QED
      BY <3>3 DEF Enough
  <2>2. QED
    BY <1>15, <2>1
<1>17. QED
  BY <1>3, <1>15, <1>16 DEF TrimmedTo

----------------------------------------------------------------------------
(* Deadlines.                                                              *)

\* The times to live that bear on an event.
Ttls(k, e) == {t \in {k.ttl} \cup (IF e \in k.results THEN {k.resultTtl} ELSE {}) : t # None}

\* A deadline is that of the least of them, counted from the completion.
LEMMA DeadlineOf ==
    ASSUME NEW k \in History, NEW dn \in [Event -> Moments], NEW e \in Event
    PROVE  \/ (dn[e] = None \/ Ttls(k, e) = {}) /\ Deadline(k, dn, e) = None
           \/ /\ dn[e] \in Nat
              /\ \E t \in Ttls(k, e) :
                    /\ t \in Nat /\ \A u \in Ttls(k, e) : u \in Nat /\ t <= u
                    /\ Deadline(k, dn, e) = IF t = 0 THEN 0 ELSE dn[e] + t
<1>1. CASE dn[e] = None \/ Ttls(k, e) = {}
  BY <1>1 DEF Deadline, Ttls
<1>2. CASE ~(dn[e] = None \/ Ttls(k, e) = {})
  <2> DEFINE ttls == Ttls(k, e)
             least == CHOOSE t \in ttls : \A u \in ttls : t <= u
  <2>1. ttls \in SUBSET Nat /\ ttls # {} /\ dn[e] \in Nat
    BY <1>2 DEF Ttls, History, Moments
  <2>2. Deadline(k, dn, e) = IF least = 0 THEN 0 ELSE dn[e] + least
    BY <1>2 DEF Deadline, Ttls
  <2> HIDE DEF ttls
  <2>3. \E t \in ttls : \A u \in ttls : t <= u
    BY <2>1, Least
  <2>4. least \in ttls /\ \A u \in ttls : least <= u
    BY <2>3
  <2> HIDE DEF least
  <2>5. least \in Nat /\ \A u \in ttls : u \in Nat
    BY <2>1, <2>4
  <2>6. QED
    BY <2>1, <2>2, <2>4, <2>5 DEF ttls
<1>3. QED
  BY <1>1, <1>2

\* A deadline is a time or none.
LEMMA DeadlineType ==
    ASSUME NEW k \in History, NEW dn \in [Event -> Moments], NEW e \in Event
    PROVE  Deadline(k, dn, e) \in Moments
<1>1. CASE Deadline(k, dn, e) = None
  BY <1>1 DEF Moments
<1>2. CASE Deadline(k, dn, e) # None
  <2>1. PICK t \in Nat : dn[e] \in Nat /\ Deadline(k, dn, e) = IF t = 0 THEN 0 ELSE dn[e] + t
    BY <1>2, DeadlineOf
  <2>2. Deadline(k, dn, e) \in Nat
    BY <2>1
  <2>3. QED
    BY <2>2 DEF Moments
<1>3. QED
  BY <1>1, <1>2

\* Nobody has a deadline before it is completed.
LEMMA DeadlineOfIncomplete ==
    ASSUME NEW k, NEW dn, NEW e, dn[e] = None
    PROVE  Deadline(k, dn, e) = None
BY DEF Deadline

\* The deadline is at hand when the time to live is over.
LEMMA DeadlineComes ==
    ASSUME NEW k \in History, NEW dn \in [Event -> Moments], NEW e \in Event, NEW when \in Nat,
           Expired(k, dn, e, when)
    PROVE  Deadline(k, dn, e) \in Nat /\ Deadline(k, dn, e) <= when
<1>1. k.ttl \in Nat /\ dn[e] \in Nat /\ (k.ttl = 0 \/ dn[e] + k.ttl <= when)
  BY DEF Expired, History, Moments
<1>2. k.ttl \in Ttls(k, e) /\ dn[e] # None
  BY <1>1, BusAssumption DEF Ttls
<1>3. PICK t \in Nat : t <= k.ttl /\ Deadline(k, dn, e) = IF t = 0 THEN 0 ELSE dn[e] + t
  BY <1>2, DeadlineOf
<1>4. CASE t = 0
  BY <1>3, <1>4
<1>5. CASE t # 0
  <2>1. k.ttl # 0
    BY <1>1, <1>3, <1>5
  <2>2. dn[e] + t <= when /\ dn[e] + t \in Nat
    BY <1>1, <1>3, <2>1
  <2>3. QED
    BY <1>3, <1>5, <2>2
<1>6. QED
  BY <1>4, <1>5

\* It is to come when no time to live is over.
LEMMA DeadlineToCome ==
    ASSUME NEW k \in History, NEW dn \in [Event -> Moments], NEW e \in Event, NEW when \in Nat,
           dn[e] \in Nat, dn[e] <= when,
           \A t \in Ttls(k, e) : ~(when - dn[e] >= t)
    PROVE  Deadline(k, dn, e) = None \/ (Deadline(k, dn, e) \in Nat /\ Deadline(k, dn, e) > when)
<1>1. CASE Deadline(k, dn, e) = None
  BY <1>1
<1>2. CASE Deadline(k, dn, e) # None
  <2>1. PICK t \in Ttls(k, e) : t \in Nat /\ Deadline(k, dn, e) = IF t = 0 THEN 0 ELSE dn[e] + t
    BY <1>2, DeadlineOf
  <2>2. ~(when - dn[e] >= t)
    OBVIOUS
  <2>3. t # 0 /\ dn[e] + t > when /\ dn[e] + t \in Nat
    BY <2>1, <2>2
  <2>4. QED
    BY <2>1, <2>3
<1>3. QED
  BY <1>1, <1>2

\* The deadlines that the table has for these events are in the queue.
QueuedOn(k, S) == \A e \in S : k.deadline[e] # None => <<k.deadline[e], e>> \in k.queue

\* All deadlines of the table are.
Queued(k) == QueuedOn(k, Event)

\* The table has the right deadlines for these events.
RightOn(k, dn, S) == \A e \in Range(k.list) \cap S : dn[e] # None => k.deadline[e] = Deadline(k, dn, e)

\* The deadlines were made with the policy that the history has.
Current(k) == k.signature = <<k.ttl, k.resultTtl>>

\* A policy with the edited time to live was not used before the edit.
Edited(k) == k.signature = <<1, k.resultTtl>> => k.ttl = 1

\* The deadlines are queued, and right unless the policy has been edited since.
Timed(k, dn) == Queued(k) /\ Edited(k) /\ (Current(k) => RightOn(k, dn, Event))

\* What does not change when deadlines are tracked.
SameButTimes(k, g) ==
    /\ g \in History /\ g.list = k.list /\ g.retained = k.retained /\ g.changes = k.changes
    /\ g.results = k.results /\ g.ttl = k.ttl /\ g.resultTtl = k.resultTtl

\* The deadline depends on the times to live and on whose results there are.
LEMMA DeadlineSame ==
    ASSUME NEW k, NEW g, NEW dn, NEW e, g.ttl = k.ttl, g.resultTtl = k.resultTtl,
           e \in g.results <=> e \in k.results
    PROVE  Deadline(g, dn, e) = Deadline(k, dn, e)
<1> DEFINE D(ttls) == IF dn[e] = None \/ ttls = {} THEN None
                      ELSE LET least == CHOOSE t \in ttls : \A u \in ttls : t <= u
                           IN  IF least = 0 THEN 0 ELSE dn[e] + least
<1>1. Ttls(g, e) = Ttls(k, e)
  BY DEF Ttls
<1>2. Deadline(g, dn, e) = D(Ttls(g, e))
  BY DEF Deadline, Ttls
<1>3. Deadline(k, dn, e) = D(Ttls(k, e))
  BY DEF Deadline, Ttls
<1> HIDE DEF D
<1>4. QED
  BY <1>1, <1>2, <1>3

\* Tracking makes the deadlines right and queues them.
LEMMA TrackTimes ==
    ASSUME NEW k \in History, NEW dn \in [Event -> Moments], NEW S \in SUBSET Event
    PROVE  LET g == Track(k, dn, S)
           IN  /\ SameButTimes(k, g) /\ g.signature = k.signature
               /\ \A e \in Event :
                     g.deadline[e] = IF e \in S THEN Deadline(k, dn, e) ELSE k.deadline[e]
               /\ QueuedOn(k, {e \in Event : e \notin S \/ Deadline(k, dn, e) = k.deadline[e]})
                    => Queued(g)
               /\ RightOn(k, dn, Event \ S) => RightOn(g, dn, Event)
<1> DEFINE new(e) == Deadline(k, dn, e)
           moved == {e \in S : new(e) # None /\ new(e) # k.deadline[e]}
           d == [e \in Event |-> IF e \in S THEN new(e) ELSE k.deadline[e]]
           q == k.queue \cup {<<new(e), e>> : e \in moved}
<1>1. PICK g : g = Track(k, dn, S)
  OBVIOUS
<1>2. g = [k EXCEPT !.deadline = d, !.queue = q]
  BY <1>1 DEF Track
<1>3. d \in [Event -> Moments]
  <2>1. \A e \in Event : new(e) \in Moments
    BY DeadlineType
  <2>2. k.deadline \in [Event -> Moments]
    BY DEF History
  <2> HIDE DEF new
  <2>3. QED
    BY <2>1, <2>2
<1>4. q \subseteq Nat \X Event
  <2>1. \A e \in Event : new(e) \in Moments
    BY DeadlineType
  <2>2. k.queue \subseteq Nat \X Event
    BY DEF History
  <2> HIDE DEF new
  <2>3. \A e \in moved : new(e) \in Nat /\ e \in Event
    BY <2>1 DEF Moments
  <2>4. QED
    BY <2>2, <2>3
<1>5. /\ g.deadline = d /\ g.queue = q /\ g.signature = k.signature
      /\ g.list = k.list /\ g.retained = k.retained /\ g.changes = k.changes
      /\ g.results = k.results /\ g.ttl = k.ttl /\ g.resultTtl = k.resultTtl
  <2> HIDE DEF d, q
  <2>1. QED
    BY <1>2 DEF History
<1>6. g \in History
  <2> HIDE DEF d, q
  <2>1. QED
    BY <1>2, <1>3, <1>4 DEF History
<1>7. \A e \in Event : g.deadline[e] = IF e \in S THEN Deadline(k, dn, e) ELSE k.deadline[e]
  BY <1>5
<1>8. ASSUME QueuedOn(k, {e \in Event : e \notin S \/ Deadline(k, dn, e) = k.deadline[e]}),
             NEW e \in Event, g.deadline[e] # None
      PROVE  <<g.deadline[e], e>> \in g.queue
  <2>1. CASE e \in moved
    <3>1. e \in S /\ g.deadline[e] = new(e)
      BY <1>7, <2>1
    <3> HIDE DEF new
    <3>2. <<new(e), e>> \in q
      BY <2>1
    <3>3. QED
      BY <1>5, <3>1, <3>2
  <2>2. CASE e \notin moved
    <3>1. g.deadline[e] = k.deadline[e]
      BY <1>7, <1>8, <2>2
    <3>2. e \notin S \/ Deadline(k, dn, e) = k.deadline[e]
      BY <1>7, <1>8, <2>2
    <3>4. <<k.deadline[e], e>> \in k.queue
      BY <1>8, <3>1, <3>2 DEF QueuedOn
    <3> HIDE DEF new, moved
    <3>3. QED
      BY <1>5, <3>1, <3>4
  <2>3. QED
    BY <2>1, <2>2
<1>9. ASSUME RightOn(k, dn, Event \ S), NEW e \in Range(g.list) \cap Event, dn[e] # None
      PROVE  g.deadline[e] = Deadline(g, dn, e)
  <2>1. Deadline(g, dn, e) = Deadline(k, dn, e)
    BY <1>5, DeadlineSame
  <2>2. e \notin S => k.deadline[e] = Deadline(k, dn, e)
    BY <1>5, <1>9 DEF RightOn
  <2>3. QED
    BY <1>7, <2>1, <2>2
<1>10. SameButTimes(k, g)
  BY <1>5, <1>6 DEF SameButTimes
<1>11. QED
  BY <1>1, <1>5, <1>7, <1>8, <1>9, <1>10 DEF Queued, QueuedOn, RightOn

\* Once they are tracked again, all deadlines are right.
LEMMA RetrackTimes ==
    ASSUME NEW k \in History, NEW dn \in [Event -> Moments], Timed(k, dn)
    PROVE  LET g == Retrack(k, dn)
           IN  SameButTimes(k, g) /\ Queued(g) /\ Edited(g) /\ RightOn(g, dn, Event)
<1>1. PICK g : g = Retrack(k, dn)
  OBVIOUS
<1>2. CASE Current(k)
  <2>1. g = k
    BY <1>1, <1>2 DEF Retrack, Current
  <2>2. QED
    BY <1>1, <1>2, <2>1 DEF SameButTimes, Timed
<1>3. CASE ~Current(k)
  <2> DEFINE c == [k EXCEPT !.signature = <<k.ttl, k.resultTtl>>]
             S == {e \in Range(k.list) : dn[e] # None}
  <2>1. /\ c \in History /\ c.signature = <<k.ttl, k.resultTtl>> /\ SameButTimes(k, c)
        /\ c.deadline = k.deadline /\ c.queue = k.queue
    BY DEF History, SameButTimes
  <2>2. g = Track(c, dn, S)
    BY <1>1, <1>3 DEF Retrack, Current
  <2> HIDE DEF c
  <2>3. S \in SUBSET Event
    <3>1. k.list \in Seq(Event)
      BY DEF History
    <3>2. QED
      BY <3>1, RangeIndex
  <2>4. Queued(c) /\ RightOn(c, dn, Event \ S)
    BY <2>1 DEF Timed, Queued, QueuedOn, RightOn, SameButTimes
  <2> HIDE DEF S
  <2>5. SameButTimes(c, g) /\ g.signature = c.signature /\ Queued(g) /\ RightOn(g, dn, Event)
    <3>1. QueuedOn(c, {e \in Event : e \notin S \/ Deadline(c, dn, e) = c.deadline[e]})
      BY <2>4 DEF Queued, QueuedOn
    <3>2. c \in History
      BY <2>1
    <3>3. QED
      BY <2>2, <2>3, <2>4, <3>1, <3>2, TrackTimes
  <2>6. SameButTimes(k, g)
    BY <2>1, <2>5 DEF SameButTimes
  <2>7. Edited(g)
    BY <2>1, <2>5, <2>6 DEF Edited, SameButTimes
  <2>8. QED
    BY <1>1, <2>5, <2>6, <2>7
<1>4. QED
  BY <1>2, <1>3

----------------------------------------------------------------------------
(* A history that lets go of events.                                       *)

\* g is k with fewer events.
Slimmer(k, g) ==
    /\ g \in History /\ Distinct(g.list)
    /\ Range(g.list) \subseteq Range(k.list) /\ Len(g.list) <= Len(k.list)
    /\ g.retained = k.retained /\ g.ttl = k.ttl /\ g.resultTtl = k.resultTtl

\* It is so twice.
LEMMA SlimmerTwice ==
    ASSUME NEW k \in History, NEW g, NEW f, Slimmer(k, g), Slimmer(g, f)
    PROVE  Slimmer(k, f)
<1>1. k.list \in Seq(Event) /\ g.list \in Seq(Event) /\ f.list \in Seq(Event)
  BY DEF Slimmer, History
<1>2. Len(f.list) \in Nat /\ Len(g.list) \in Nat /\ Len(k.list) \in Nat
  BY <1>1
<1>3. Len(f.list) <= Len(k.list)
  BY <1>2 DEF Slimmer
<1>4. QED
  BY <1>3 DEF Slimmer

\* g lets go of events, and of their deadlines.
Lets(k, g) ==
    /\ Slimmer(k, g) /\ g.results = k.results /\ g.signature = k.signature /\ g.queue = k.queue
    /\ \A e \in Event : g.deadline[e] \in {k.deadline[e], None}
    /\ \A e \in Range(g.list) : g.deadline[e] = k.deadline[e]

\* The deadlines that are left are as they should be.
LEMMA LetsTimed ==
    ASSUME NEW k, NEW g, NEW dn, Lets(k, g), Timed(k, dn)
    PROVE  Timed(g, dn)
<1>1. Queued(g)
  BY DEF Lets, Timed, Queued, QueuedOn
<1>2. Edited(g)
  BY DEF Lets, Slimmer, Timed, Edited
<1>3. ASSUME Current(g) PROVE RightOn(g, dn, Event)
  <2>1. RightOn(k, dn, Event)
    BY <1>3 DEF Lets, Slimmer, Timed, Current
  <2>2. ASSUME NEW e \in Range(g.list) \cap Event, dn[e] # None
        PROVE  g.deadline[e] = Deadline(g, dn, e)
    <3>1. Deadline(g, dn, e) = Deadline(k, dn, e)
      BY DeadlineSame DEF Lets, Slimmer
    <3>2. k.deadline[e] = Deadline(k, dn, e)
      BY <2>1, <2>2 DEF RightOn, Lets, Slimmer
    <3>3. QED
      BY <3>1, <3>2 DEF Lets
  <2>3. QED
    BY <2>2 DEF RightOn
<1>4. QED
  BY <1>1, <1>2, <1>3 DEF Timed

\* So does another list of fewer events, without the deadlines of S.
LEMMA ListLets ==
    ASSUME NEW k \in History, NEW S, NEW list \in Seq(Event), Distinct(list),
           Range(list) \subseteq Range(k.list) \ S, Len(list) <= Len(k.list)
    PROVE  LET g == [Untrack(k, S) EXCEPT !.list = list]
           IN  /\ Lets(k, g) /\ g.list = list /\ g.changes = k.changes
               /\ \A e \in Event : g.deadline[e] = IF e \in S THEN None ELSE k.deadline[e]
<1> DEFINE d == [e \in Event |-> IF e \in S THEN None ELSE k.deadline[e]]
<1>1. PICK g : g = [Untrack(k, S) EXCEPT !.list = list]
  OBVIOUS
<1>2. g = [k EXCEPT !.deadline = d, !.list = list]
  BY <1>1 DEF Untrack
<1>3. d \in [Event -> Moments]
  BY DEF History, Moments
<1>4. /\ g.deadline = d /\ g.list = list /\ g.retained = k.retained /\ g.changes = k.changes
      /\ g.results = k.results /\ g.ttl = k.ttl /\ g.resultTtl = k.resultTtl
      /\ g.signature = k.signature /\ g.queue = k.queue
  <2> HIDE DEF d
  <2>1. QED
    BY <1>2 DEF History
<1>5. g \in History
  <2> HIDE DEF d
  <2>1. QED
    BY <1>2, <1>3 DEF History
<1>6. \A e \in Event : g.deadline[e] = IF e \in S THEN None ELSE k.deadline[e]
  BY <1>4
<1>7. \A e \in Range(g.list) : e \in Event /\ e \notin S
  BY <1>4, RangeIndex
<1> HIDE DEF d
<1>8. Slimmer(k, g)
  BY <1>4, <1>5 DEF Slimmer
<1>9. Lets(k, g)
  BY <1>4, <1>6, <1>7, <1>8 DEF Lets
<1>10. QED
  BY <1>1, <1>4, <1>6, <1>9

\* Without a set of events.
LEMMA WithoutLets ==
    ASSUME NEW k \in History, NEW S, Distinct(k.list)
    PROVE  LET g == Without(k, S)
           IN  /\ Lets(k, g) /\ Range(g.list) = Range(k.list) \ S /\ g.changes = k.changes
               /\ \A e \in Event : g.deadline[e] = IF e \in S THEN None ELSE k.deadline[e]
<1> DEFINE list == Only(k.list, Event \ S)
<1>1. k.list \in Seq(Event)
  BY DEF History
<1>2. /\ list \in Seq(Event) /\ Range(list) = Range(k.list) \cap (Event \ S)
      /\ Len(list) <= Len(k.list) /\ Distinct(list)
  BY <1>1, OnlyOfSeq
<1>3. \A e \in Range(k.list) : e \in Event
  BY <1>1, RangeIndex
<1>4. Without(k, S) = [Untrack(k, S) EXCEPT !.list = list]
  BY DEF Without, Untrack
<1> HIDE DEF list
<1>5. Range(list) = Range(k.list) \ S
  BY <1>2, <1>3
<1>6. QED
  BY <1>2, <1>4, <1>5, ListLets

\* The clean-up by time leaves the deadlines as they should be, and no event whose
\* time is over.
LEMMA TrimTtlTimes ==
    ASSUME NEW k \in History, NEW dn \in [Event -> Moments], NEW when \in Nat,
           Distinct(k.list), Timed(k, dn), \A e \in Event : dn[e] # None => dn[e] <= when
    PROVE  LET g == TrimTtl(k, dn, when)
           IN  /\ Slimmer(k, g) /\ g.changes = k.changes /\ Timed(g, dn)
               /\ \A e \in Range(k.list) : Has(g, e) <=> ~Expired(k, dn, e, when)
<1> DEFINE r == Retrack(k, dn)
           due == {p \in r.queue : p[1] <= when}
           seen == {p[2] : p \in {q \in due : Confirms(r, q)}}
           kept == {e \in seen : Has(r, e) /\ dn[e] # None}
           gone == {e \in kept : Due(r.ttl, dn, e, when)}
           empty == {e \in kept : e \in r.results /\ Due(r.resultTtl, dn, e, when)}
           w == Without(r, gone)
           left == [Untrack(w, seen \ kept) EXCEPT !.queue = @ \ due, !.results = @ \ empty]
           S == kept \ gone
<1>1. TrimTtl(k, dn, when) = Track(left, dn, S)
  BY DEF TrimTtl
<1>2. SameButTimes(k, r) /\ Queued(r) /\ Edited(r) /\ RightOn(r, dn, Event)
  BY RetrackTimes
<1> HIDE DEF r
<1>3. r \in History /\ r.queue \subseteq Nat \X Event /\ r.results \subseteq Event
  BY <1>2 DEF SameButTimes, History
<1>4. /\ seen \subseteq Event
      /\ \A e \in Event : e \in seen <=> <<r.deadline[e], e>> \in r.queue /\ r.deadline[e] <= when
  <2>1. \A p \in r.queue : p[1] \in Nat /\ p[2] \in Event /\ p = <<p[1], p[2]>>
    BY <1>3
  <2>2. \A e \in seen : \E p \in r.queue : p[1] <= when /\ r.deadline[p[2]] = p[1] /\ e = p[2]
    BY DEF Confirms
  <2>3. ASSUME NEW e \in Event, <<r.deadline[e], e>> \in r.queue, r.deadline[e] <= when
        PROVE  e \in seen
    <3>1. <<r.deadline[e], e>> \in {q \in due : Confirms(r, q)}
      BY <2>3 DEF Confirms
    <3>2. <<r.deadline[e], e>>[2] = e
      OBVIOUS
    <3>3. QED
      BY <3>1, <3>2
  <2> HIDE DEF seen
  <2>4. QED
    BY <2>1, <2>2, <2>3
<1> HIDE DEF seen
<1>5. Distinct(r.list) /\ r.list = k.list
  BY <1>2 DEF SameButTimes
<1> HIDE DEF gone
<1>6. /\ Lets(r, w) /\ Range(w.list) = Range(r.list) \ gone /\ w.changes = r.changes
      /\ \A e \in Event : w.deadline[e] = IF e \in gone THEN None ELSE r.deadline[e]
  BY <1>3, <1>5, WithoutLets
<1> HIDE DEF w, kept, due, empty
<1>7. w \in History /\ w.results = r.results /\ w.queue = r.queue /\ w.signature = r.signature
  BY <1>6 DEF Lets, Slimmer
<1> DEFINE d == [e \in Event |-> IF e \in seen \ kept THEN None ELSE w.deadline[e]]
<1>8. left = [w EXCEPT !.deadline = d, !.queue = w.queue \ due, !.results = w.results \ empty]
  BY <1>7 DEF Untrack, History
<1>9. d \in [Event -> Moments] /\ w.queue \ due \subseteq Nat \X Event
      /\ w.results \ empty \subseteq Event
  BY <1>7 DEF History, Moments
<1> HIDE DEF left
<1>10. /\ left \in History /\ left.deadline = d /\ left.queue = r.queue \ due
       /\ left.results = r.results \ empty /\ left.signature = r.signature
       /\ left.list = w.list /\ left.retained = w.retained /\ left.changes = w.changes
       /\ left.ttl = w.ttl /\ left.resultTtl = w.resultTtl
  <2> HIDE DEF d
  <2>1. QED
    BY <1>7, <1>8, <1>9 DEF History
<1>11. /\ left.ttl = r.ttl /\ left.resultTtl = r.resultTtl /\ left.retained = r.retained
       /\ left.changes = r.changes /\ Range(left.list) = Range(r.list) \ gone
       /\ Distinct(left.list) /\ Len(left.list) <= Len(r.list)
  BY <1>6, <1>10 DEF Lets, Slimmer
<1>12. gone \subseteq kept /\ kept \subseteq seen /\ empty \subseteq kept /\ seen \subseteq Event
  BY <1>4 DEF gone, kept, empty
<1>13. \A e \in Event :
          left.deadline[e] = IF e \in gone \/ e \in seen \ kept THEN None ELSE r.deadline[e]
  BY <1>6, <1>10
<1> HIDE DEF d
<1>14. QueuedOn(left, {e \in Event : e \notin S \/ Deadline(left, dn, e) = left.deadline[e]})
  <2>1. ASSUME NEW e \in Event, left.deadline[e] # None,
               e \notin S \/ Deadline(left, dn, e) = left.deadline[e]
        PROVE  <<left.deadline[e], e>> \in left.queue
    <3>1. left.deadline[e] = r.deadline[e] /\ e \notin gone /\ e \notin seen \ kept
      BY <1>13, <2>1
    <3>2. <<r.deadline[e], e>> \in r.queue
      BY <1>2, <2>1, <3>1 DEF Queued, QueuedOn
    <3>3. CASE e \notin seen
      <4>1. ~(r.deadline[e] <= when)
        BY <1>4, <3>2, <3>3
      <4>2. <<r.deadline[e], e>> \notin due
        BY <4>1 DEF due
      <4>3. QED
        BY <1>10, <3>1, <3>2, <4>2
    <3>4. CASE e \in seen
      <4>1. e \in kept /\ e \in S /\ r.deadline[e] <= when /\ dn[e] # None /\ e \notin gone
        BY <1>4, <3>1, <3>4 DEF kept
      <4>2. Deadline(left, dn, e) = r.deadline[e]
        BY <2>1, <3>1, <4>1
      <4>3. dn[e] \in Nat /\ dn[e] <= when
        BY <4>1 DEF Moments
      <4>4. \A t \in Ttls(left, e) : ~(when - dn[e] >= t)
        <5>1. ~Due(r.ttl, dn, e, when)
          BY <4>1 DEF gone
        <5>2. e \in left.results => ~Due(r.resultTtl, dn, e, when)
          BY <1>10, <4>1 DEF empty
        <5>3. QED
          BY <1>11, <5>1, <5>2 DEF Ttls, Due
      <4>5. Deadline(left, dn, e) = None
            \/ (Deadline(left, dn, e) \in Nat /\ Deadline(left, dn, e) > when)
        BY <1>10, <4>3, <4>4, DeadlineToCome
      <4>6. QED
        BY <2>1, <3>1, <4>1, <4>2, <4>5
    <3>5. QED
      BY <3>3, <3>4
  <2>2. QED
    BY <2>1 DEF QueuedOn
<1>15. RightOn(left, dn, Event \ S)
  <2>1. ASSUME NEW e \in Range(left.list) \cap (Event \ S), dn[e] # None
        PROVE  left.deadline[e] = Deadline(left, dn, e)
    <3>1. e \in Range(r.list) /\ e \notin gone /\ e \in Event /\ e \notin S
      BY <1>11
    <3>2. e \notin kept
      BY <3>1
    <3>3. e \notin seen /\ e \notin empty
      BY <1>12, <2>1, <3>1, <3>2 DEF kept, Has
    <3>4. left.deadline[e] = r.deadline[e]
      BY <1>13, <3>1, <3>3
    <3>5. r.deadline[e] = Deadline(r, dn, e)
      BY <1>2, <2>1, <3>1 DEF RightOn
    <3>6. Deadline(left, dn, e) = Deadline(r, dn, e)
      BY <1>10, <1>11, <3>3, DeadlineSame
    <3>7. QED
      BY <3>4, <3>5, <3>6
  <2>2. QED
    BY <2>1 DEF RightOn
<1>16. S \in SUBSET Event
  BY <1>12
<1>17. PICK g : g = Track(left, dn, S)
  OBVIOUS
<1> HIDE DEF S
<1>18. SameButTimes(left, g) /\ g.signature = left.signature /\ Queued(g) /\ RightOn(g, dn, Event)
  BY <1>10, <1>14, <1>15, <1>16, <1>17, TrackTimes
<1>19. Slimmer(k, g) /\ g.changes = k.changes /\ Range(g.list) = Range(k.list) \ gone
  BY <1>2, <1>5, <1>11, <1>18 DEF SameButTimes, Slimmer
<1>20. Timed(g, dn)
  <2>1. Edited(g)
    BY <1>2, <1>10, <1>11, <1>18 DEF Edited, SameButTimes
  <2>2. QED
    BY <1>18, <2>1 DEF Timed
<1>21. ASSUME NEW e \in Range(k.list) PROVE e \in gone <=> Expired(k, dn, e, when)
  <2>1. e \in Event /\ e \in Range(r.list)
    <3>1. k.list \in Seq(Event)
      BY DEF History
    <3>2. QED
      BY <1>5, <3>1, RangeIndex
  <2>2. r.ttl = k.ttl /\ r.ttl \in Moments /\ dn[e] \in Moments
    BY <1>2, <1>3, <2>1 DEF SameButTimes, History
  <2>3. ASSUME e \in gone PROVE Expired(k, dn, e, when)
    <3>1. dn[e] # None /\ r.ttl # None /\ when - dn[e] >= r.ttl
      BY <2>3 DEF gone, kept, Due
    <3>2. dn[e] \in Nat /\ r.ttl \in Nat
      BY <2>2, <3>1 DEF Moments
    <3>3. dn[e] + r.ttl <= when
      BY <3>1, <3>2
    <3>4. QED
      BY <2>2, <3>1, <3>3 DEF Expired
  <2>4. ASSUME Expired(k, dn, e, when) PROVE e \in gone
    <3>1. Expired(r, dn, e, when)
      BY <2>2, <2>4 DEF Expired
    <3>2. Deadline(r, dn, e) \in Nat /\ Deadline(r, dn, e) <= when
      BY <1>3, <2>1, <3>1, DeadlineComes
    <3>3. dn[e] # None /\ r.ttl # None /\ (r.ttl = 0 \/ dn[e] + r.ttl <= when)
      BY <3>1 DEF Expired
    <3>4. r.deadline[e] = Deadline(r, dn, e)
      BY <1>2, <2>1, <3>3 DEF RightOn
    <3>5. r.deadline[e] # None
      BY <3>2, <3>4, BusAssumption
    <3>6. e \in seen
      BY <1>2, <1>4, <2>1, <3>2, <3>4, <3>5 DEF Queued, QueuedOn
    <3>7. e \in kept
      BY <2>1, <3>3, <3>6 DEF kept, Has
    <3>8. when - dn[e] >= r.ttl
      <4>1. dn[e] \in Nat /\ r.ttl \in Nat /\ dn[e] <= when
        BY <2>1, <2>2, <3>3 DEF Moments
      <4>2. QED
        BY <3>3, <4>1
    <3>9. QED
      BY <3>3, <3>7, <3>8 DEF gone, Due
  <2>5. QED
    BY <2>3, <2>4
<1>22. QED
  BY <1>1, <1>17, <1>19, <1>20, <1>21 DEF Has

\* What the clean-up by size leaves: of too long a history, no more than its size or
\* nothing that may go.
LEMMA TrimSizeLets ==
    ASSUME NEW policy \in Policy, policy.size # None, NEW k \in History,
           NEW dn \in [Event -> Moments], Distinct(k.list)
    PROVE  LET g == TrimSize(policy, k, dn)
           IN  /\ Lets(k, g) /\ g.changes = k.changes
               /\ policy.size = 0 => \A e \in Range(g.list) : dn[e] = None
               /\ policy.size # 0 => /\ GoneWell(k, dn, g.list)
                                     /\ \/ Len(g.list) <= policy.size
                                        \/ \A e \in Range(g.list) : ~Spent(k, dn, g.list, e)
<1>1. PICK g : g = TrimSize(policy, k, dn)
  OBVIOUS
<1>2. policy.size \in Nat /\ k.list \in Seq(Event)
  BY DEF Policy, History
<1>3. CASE policy.size = 0
  <2>1. g = Without(k, {e \in Range(k.list) : dn[e] # None})
    BY <1>1, <1>3 DEF TrimSize
  <2>2. /\ Lets(k, g) /\ Range(g.list) = Range(k.list) \ {e \in Range(k.list) : dn[e] # None}
        /\ g.changes = k.changes
    BY <2>1, WithoutLets
  <2>3. QED
    BY <1>1, <1>3, <2>2
<1>4. CASE policy.size # 0
  <2>1. PICK s : TrimmedTo(policy, k, dn, s)
    BY <1>2, <1>4, TrimSizeRounds
  <2>2. /\ RoundOK(k, dn, s) /\ Enough(policy, s)
        /\ g = [Untrack(k, Range(k.list) \ Range(s.list)) EXCEPT !.list = s.list]
    BY <1>1, <2>1 DEF TrimmedTo
  <2>3. /\ s.list \in Seq(Event) /\ Distinct(s.list) /\ Range(s.list) \subseteq Range(k.list)
        /\ Len(s.list) <= Len(k.list)
        /\ Range(s.leaves) = {x \in Range(s.list) : Spent(k, dn, s.list, x)}
    BY <2>2 DEF RoundOK, Trimming
  <2>4. Lets(k, g) /\ g.list = s.list /\ g.changes = k.changes
    <3> DEFINE S == Range(k.list) \ Range(s.list)
               list == s.list
    <3>1. list \in Seq(Event) /\ Distinct(list) /\ Range(list) \subseteq Range(k.list) \ S
          /\ Len(list) <= Len(k.list)
      BY <2>3
    <3>2. g = [Untrack(k, S) EXCEPT !.list = list]
      BY <2>2
    <3> HIDE DEF S, list
    <3>3. Lets(k, g) /\ g.list = list /\ g.changes = k.changes
      BY <3>1, <3>2, ListLets
    <3>4. QED
      BY <3>3 DEF list
  <2>5. Len(g.list) <= policy.size \/ \A e \in Range(g.list) : ~Spent(k, dn, g.list, e)
    <3>1. CASE s.leaves = <<>>
      <4>1. Range(s.leaves) = {}
        BY <3>1, NothingInIt
      <4>2. QED
        BY <2>3, <2>4, <4>1
    <3>2. QED
      BY <2>2, <2>4, <3>1 DEF Enough
  <2>6. GoneWell(k, dn, g.list)
    BY <2>2, <2>4 DEF RoundOK
  <2>7. QED
    BY <1>1, <1>4, <2>4, <2>5, <2>6
<1>5. QED
  BY <1>3, <1>4

\* Nothing goes from a history that stays as it is.
LEMMA SameLets ==
    ASSUME NEW k \in History, NEW dn, Distinct(k.list)
    PROVE  Lets(k, k) /\ GoneWell(k, dn, k.list)
<1>1. k.list \in Seq(Event)
  BY DEF History
<1>2. Len(k.list) <= Len(k.list)
  BY <1>1
<1>3. QED
  BY <1>2 DEF Lets, Slimmer, GoneWell

\* The clean-up in batches.
LEMMA TrimCountLets ==
    ASSUME NEW policy \in Policy, NEW k \in History, NEW dn \in [Event -> Moments],
           Distinct(k.list), NEW drained
    PROVE  LET g == TrimCount(policy, k, dn, drained)
           IN  /\ Lets(k, g)
               /\ policy.size = 0 => \A e \in Range(g.list) : dn[e] = None
               /\ policy.size # 0 => GoneWell(k, dn, g.list)
               /\ policy.size \notin {None, 0} /\ policy.drop /\ k.changes > 0 /\ drained =>
                     \/ Len(g.list) <= policy.size
                     \/ \A e \in Range(g.list) : ~Spent(k, dn, g.list, e)
               /\ policy.size # 0 /\ (policy.size = None \/ ~policy.drop) => g = k
<1>1. PICK g : g = TrimCount(policy, k, dn, drained)
  OBVIOUS
<1>2. policy.size \in Nat \cup {None} /\ k.list \in Seq(Event) /\ k.changes \in Nat
  BY DEF Policy, History
<1>3. CASE TrimDue(policy, k, drained)
  <2> DEFINE t == TrimSize(policy, k, dn)
  <2>1. policy.size # None /\ (policy.size # 0 => policy.drop)
    BY <1>3 DEF TrimDue
  <2>2. /\ Lets(k, t) /\ t.changes = k.changes
        /\ policy.size = 0 => \A e \in Range(t.list) : dn[e] = None
        /\ policy.size # 0 => /\ GoneWell(k, dn, t.list)
                              /\ \/ Len(t.list) <= policy.size
                                 \/ \A e \in Range(t.list) : ~Spent(k, dn, t.list, e)
    BY <2>1, TrimSizeLets
  <2>3. g = [t EXCEPT !.changes = 0]
    BY <1>1, <1>3 DEF TrimCount
  <2> HIDE DEF t
  <2>4. t \in History
    BY <2>2 DEF Lets, Slimmer
  <2>5. /\ g \in History /\ g.list = t.list /\ g.retained = t.retained /\ g.results = t.results
        /\ g.ttl = t.ttl /\ g.resultTtl = t.resultTtl /\ g.signature = t.signature
        /\ g.queue = t.queue /\ g.deadline = t.deadline
    BY <2>3, <2>4 DEF History
  <2>6. Lets(k, g)
    BY <2>2, <2>5 DEF Lets, Slimmer
  <2>7. QED
    BY <1>1, <2>1, <2>2, <2>5, <2>6
<1>4. CASE ~TrimDue(policy, k, drained)
  <2>1. g = k
    BY <1>1, <1>4 DEF TrimCount
  <2>2. Lets(k, g) /\ GoneWell(k, dn, g.list) /\ policy.size # 0
    <3>1. policy.size # 0
      <4>1. 0 # None
        BY BusAssumption
      <4>2. QED
        BY <1>4, <4>1 DEF TrimDue
    <3>2. QED
      BY <2>1, <3>1, SameLets
  <2>3. policy.size \notin {None, 0} /\ policy.drop /\ k.changes > 0 /\ drained =>
          Len(g.list) <= policy.size
    <3>1. ASSUME policy.size \notin {None, 0}, policy.drop, k.changes > 0, drained
          PROVE  ~(Len(k.list) > policy.size)
      BY <1>4, <3>1 DEF TrimDue
    <3>2. Len(k.list) \in Nat
      BY <1>2
    <3>3. ASSUME policy.size \notin {None, 0}, ~(Len(k.list) > policy.size)
          PROVE  Len(k.list) <= policy.size
      BY <1>2, <3>2, <3>3
    <3>4. QED
      BY <2>1, <3>1, <3>3
  <2>4. QED
    BY <1>1, <2>1, <2>2, <2>3
<1>5. QED
  BY <1>3, <1>4

\* The clean-up by size and by time.
LEMMA TrimDoes ==
    ASSUME NEW policy \in Policy, NEW k \in History, NEW dn \in [Event -> Moments],
           NEW when \in Nat, Distinct(k.list), Timed(k, dn), NEW drained,
           \A e \in Event : dn[e] # None => dn[e] <= when
    PROVE  LET g == Trim(policy, k, dn, drained, when)
           IN  /\ Slimmer(k, g) /\ Timed(g, dn)
               /\ policy.size = 0 => \A e \in Range(g.list) : dn[e] = None
               /\ policy.size # 0 /\ k.ttl = None => GoneWell(k, dn, g.list)
               /\ policy.size = None =>
                     \A e \in Range(k.list) : Has(g, e) <=> ~Expired(k, dn, e, when)
<1> DEFINE t == TrimCount(policy, k, dn, drained)
<1>1. PICK g : g = Trim(policy, k, dn, drained, when)
  OBVIOUS
<1>2. g = TrimTtl(t, dn, when)
  BY <1>1 DEF Trim
<1>3. /\ Lets(k, t)
      /\ policy.size = 0 => \A e \in Range(t.list) : dn[e] = None
      /\ policy.size # 0 => GoneWell(k, dn, t.list)
      /\ policy.size # 0 /\ (policy.size = None \/ ~policy.drop) => t = k
  BY TrimCountLets
<1> HIDE DEF t
<1>4. Slimmer(k, t) /\ t \in History /\ Distinct(t.list) /\ Timed(t, dn) /\ t.ttl = k.ttl
  <2>1. Slimmer(k, t)
    BY <1>3 DEF Lets
  <2>2. QED
    BY <1>3, <2>1, LetsTimed DEF Slimmer
<1>5. /\ Slimmer(t, g) /\ Timed(g, dn)
      /\ \A e \in Range(t.list) : Has(g, e) <=> ~Expired(t, dn, e, when)
  BY <1>2, <1>4, TrimTtlTimes
<1>6. Slimmer(k, g)
  BY <1>4, <1>5, SlimmerTwice
<1>7. policy.size = 0 => \A e \in Range(g.list) : dn[e] = None
  BY <1>3, <1>5 DEF Slimmer
<1>8. ASSUME policy.size # 0, k.ttl = None PROVE GoneWell(k, dn, g.list)
  <2>1. Range(g.list) = Range(t.list)
    <3>1. \A e : ~Expired(t, dn, e, when)
      BY <1>4, <1>8 DEF Expired
    <3>2. QED
      BY <1>5, <3>1 DEF Has, Slimmer
  <2>2. QED
    BY <1>3, <1>8, <2>1 DEF GoneWell, Children
<1>9. ASSUME policy.size = None
      PROVE  \A e \in Range(k.list) : Has(g, e) <=> ~Expired(k, dn, e, when)
  <2>1. t = k
    BY <1>3, <1>9, BusAssumption
  <2>2. QED
    BY <1>5, <2>1
<1>10. QED
  BY <1>1, <1>5, <1>6, <1>7, <1>8, <1>9

\* An event is added at the end, unless it is there.
LEMMA AddDoes ==
    ASSUME NEW k \in History, NEW e \in Event, Distinct(k.list)
    PROVE  LET g == Add(k, e)
           IN  /\ g \in History /\ Distinct(g.list) /\ Range(g.list) = Range(k.list) \cup {e}
               /\ Len(g.list) <= Len(k.list) + 1
               /\ g.retained = k.retained /\ g.ttl = k.ttl /\ g.resultTtl = k.resultTtl
               /\ g.results = k.results /\ g.signature = k.signature
               /\ g.queue = k.queue /\ g.deadline = k.deadline
<1>1. k.list \in Seq(Event) /\ k.changes \in Nat
  BY DEF History
<1>2. CASE Has(k, e)
  <2>1. Add(k, e) = k
    BY <1>2 DEF Add
  <2>2. Len(k.list) <= Len(k.list) + 1
    BY <1>1
  <2>3. QED
    BY <1>2, <2>1, <2>2 DEF Has
<1>3. CASE ~Has(k, e)
  <2> DEFINE list == Append(k.list, e)
  <2>1. Add(k, e) = [k EXCEPT !.list = list, !.changes = k.changes + 1]
    BY <1>3 DEF Add
  <2>2. list \in Seq(Event) /\ k.changes + 1 \in Nat /\ Len(list) <= Len(k.list) + 1
    BY <1>1
  <2>3. Range(list) = Range(k.list) \cup {e} /\ Distinct(list)
    BY <1>1, <1>3, AppendRange, AppendDistinct DEF Has
  <2> HIDE DEF list
  <2>4. Add(k, e) \in History
    BY <2>1, <2>2 DEF History
  <2>5. QED
    BY <2>1, <2>2, <2>3, <2>4 DEF History
<1>4. QED
  BY <1>2, <1>3

----------------------------------------------------------------------------
(* What the steps make of the history.                                     *)

\* The history is one, with each event once; nothing was completed in the future;
\* and until the bus is destroyed, the deadlines are as they should be.
Keeps ==
    /\ cfg \in Configs /\ h \in History /\ Distinct(h.list)
    /\ \A e \in Event : done[e] # None => done[e] <= now
    /\ ~destroyed => Timed(h, done)

\* What every bus has.
LEMMA PolicyOf ==
    ASSUME cfg \in Configs
    PROVE  cfg.policy \in Policy /\ cfg.ttl \in Moments /\ cfg.resultTtl \in Moments
           /\ cfg.policy.size \in Nat \cup {None} /\ cfg.policy.drop \in BOOLEAN
BY ConfigAssumption DEF Policy

\* Room is made by events that may go.
LEMMA MadeRoomDoes ==
    ASSUME Types, Keeps, ~destroyed
    PROVE  LET g == MadeRoom
           IN  /\ Slimmer(h, g) /\ Timed(g, done)
               /\ cfg.policy.size = 0 => \A e \in Range(g.list) : ~Complete(e)
               /\ cfg.policy.size # 0 /\ h.ttl = None => GoneWell(h, done, g.list)
               /\ cfg.policy.size = None => g = h
<1> DEFINE t == TrimCount(cfg.policy, h, done, Drained)
<1>1. PICK g : g = MadeRoom
  OBVIOUS
<1>2. cfg.policy \in Policy /\ cfg.policy.size \in Nat \cup {None}
  BY PolicyOf DEF Keeps
<1>3. /\ done \in [Event -> Moments] /\ now \in Nat /\ h \in History /\ Distinct(h.list)
      /\ Timed(h, done) /\ \A e \in Event : done[e] # None => done[e] <= now
  BY DEF Types, Keeps
<1>4. /\ Lets(h, t)
      /\ cfg.policy.size = 0 => \A e \in Range(t.list) : done[e] = None
      /\ cfg.policy.size # 0 => GoneWell(h, done, t.list)
      /\ cfg.policy.size # 0 /\ (cfg.policy.size = None \/ ~cfg.policy.drop) => t = h
  BY <1>2, <1>3, TrimCountLets
<1>5. g = IF Full(cfg.policy, t) THEN Trim(cfg.policy, t, done, Drained, now) ELSE t
  BY <1>1 DEF MadeRoom
<1> HIDE DEF t
<1>6. CASE ~Full(cfg.policy, t)
  <2>1. g = t /\ Slimmer(h, g)
    BY <1>4, <1>5, <1>6 DEF Lets
  <2>2. Timed(g, done)
    BY <1>3, <1>4, <2>1, LetsTimed
  <2>3. QED
    BY <1>1, <1>2, <1>4, <2>1, <2>2, BusAssumption DEF Complete
<1>7. CASE Full(cfg.policy, t)
  <2>1. cfg.policy.size # None /\ cfg.policy.size > 0 /\ ~cfg.policy.drop
    BY <1>7 DEF Full
  <2>2. cfg.policy.size # 0
    BY <1>2, <2>1
  <2>3. t = h
    BY <1>4, <2>1, <2>2
  <2>4. g = Trim(cfg.policy, h, done, Drained, now)
    BY <1>5, <1>7, <2>3
  <2>5. /\ Slimmer(h, g) /\ Timed(g, done)
        /\ cfg.policy.size # 0 /\ h.ttl = None => GoneWell(h, done, g.list)
    BY <1>2, <1>3, <2>4, TrimDoes
  <2>6. QED
    BY <1>1, <2>1, <2>2, <2>5
<1>8. QED
  BY <1>6, <1>7

\* What an emit does: e comes in, what may go goes.
EmitMakes(e) ==
    /\ Keeps' /\ Range(h'.list) \subseteq Range(h.list) \cup {e}
    /\ Len(h'.list) <= Len(MadeRoom.list) + 1
    /\ h'.retained = h.retained /\ h'.ttl = h.ttl
    /\ cfg.policy.size = 0 => \A x \in Range(h'.list) : ~Complete(x)

\* What goes had been completed, and its children are gone before it, but for the
\* event e that comes.
GoneFor(e) ==
    \A x \in Range(h.list) \ Range(h'.list) :
        done[x] # None /\ h.retained[x] = 0 /\ Children(h'.list, x) \subseteq {e}

\* It is so when room is made for the event, and then the rest trimmed with it.
LEMMA GoneTwice ==
    ASSUME NEW e, NEW m, NEW n, NEW k, NEW list, GoneWell(h, done, m.list), GoneWell(k, done, list),
           k.list = n.list, k.retained = h.retained, Range(list) \subseteq Range(n.list),
           Range(n.list) = Range(m.list) \cup {e},
           NEW x \in Range(h.list) \ Range(list)
    PROVE  done[x] # None /\ h.retained[x] = 0 /\ Children(list, x) \subseteq {e}
<1>1. CASE x \in Range(m.list)
  <2>1. x \in Range(k.list) \ Range(list)
    BY <1>1
  <2>2. QED
    BY <2>1 DEF GoneWell
<1>2. CASE x \notin Range(m.list)
  <2>1. done[x] # None /\ h.retained[x] = 0 /\ Children(m.list, x) = {}
    BY <1>2 DEF GoneWell
  <2>2. \A c \in Children(list, x) : c = e \/ c \in Children(m.list, x)
    BY DEF Children
  <2>3. QED
    BY <2>1, <2>2
<1>3. QED
  BY <1>1, <1>2

\* When an event is put into the queue.
LEMMA EmitDoes ==
    ASSUME Types, Keeps, NEW e \in Event, Emit(e)
    PROVE  /\ EmitMakes(e) /\ Range(h'.list) \subseteq Range(Add(MadeRoom, e).list)
           /\ cfg.policy.size # 0 /\ h.ttl = None => GoneFor(e)
           /\ cfg.policy.size = None =>
                 \A x \in Range(h.list) : Has(h', x) <=> ~Expired(h', done, x, now)
<1> DEFINE m == MadeRoom
           n == Add(m, e)
<1>1. /\ ~destroyed /\ ~Complete(e) /\ h' = Trim(cfg.policy, n, done, FALSE, now)
      /\ UNCHANGED <<cfg, done, now, destroyed>>
  BY DEF Emit
<1>2. /\ done \in [Event -> Moments] /\ now \in Nat /\ h \in History
      /\ cfg.policy \in Policy /\ \A x \in Event : done[x] # None => done[x] <= now
  BY PolicyOf DEF Types, Keeps
<1>3. /\ Slimmer(h, m) /\ Timed(m, done)
      /\ cfg.policy.size = 0 => \A x \in Range(m.list) : ~Complete(x)
      /\ cfg.policy.size # 0 /\ h.ttl = None => GoneWell(h, done, m.list)
      /\ cfg.policy.size = None => m = h
  BY <1>1, MadeRoomDoes
<1> HIDE DEF m
<1>4. m \in History /\ Distinct(m.list)
  BY <1>3 DEF Slimmer
<1>5. /\ n \in History /\ Distinct(n.list) /\ Range(n.list) = Range(m.list) \cup {e}
      /\ Len(n.list) <= Len(m.list) + 1
      /\ n.retained = m.retained /\ n.ttl = m.ttl /\ n.resultTtl = m.resultTtl
      /\ n.results = m.results /\ n.signature = m.signature
      /\ n.queue = m.queue /\ n.deadline = m.deadline
  BY <1>4, AddDoes
<1> HIDE DEF n
<1>6. Timed(n, done)
  <2>1. Queued(n) /\ Edited(n)
    BY <1>3, <1>5 DEF Timed, Queued, QueuedOn, Edited
  <2>2. ASSUME Current(n) PROVE RightOn(n, done, Event)
    <3>1. RightOn(m, done, Event)
      BY <1>3, <1>5, <2>2 DEF Timed, Current
    <3>2. \A x : Deadline(n, done, x) = Deadline(m, done, x)
      BY <1>5, DeadlineSame
    <3>3. done[e] = None
      BY <1>1 DEF Complete
    <3>4. QED
      BY <1>5, <3>1, <3>2, <3>3 DEF RightOn
  <2>3. QED
    BY <2>1, <2>2 DEF Timed
<1>7. PICK g : g = h'
  OBVIOUS
<1>8. /\ Slimmer(n, g) /\ Timed(g, done)
      /\ cfg.policy.size = 0 => \A x \in Range(g.list) : done[x] = None
      /\ cfg.policy.size # 0 /\ n.ttl = None => GoneWell(n, done, g.list)
      /\ cfg.policy.size = None =>
            \A x \in Range(n.list) : Has(g, x) <=> ~Expired(n, done, x, now)
  BY <1>1, <1>2, <1>5, <1>6, <1>7, TrimDoes
<1>9. g \in History /\ Distinct(g.list) /\ g.ttl = h.ttl /\ g.retained = h.retained
      /\ Range(g.list) \subseteq Range(h.list) \cup {e}
  BY <1>3, <1>5, <1>8 DEF Slimmer
<1>10. Len(g.list) <= Len(m.list) + 1
  <2>1. g.list \in Seq(Event) /\ m.list \in Seq(Event) /\ n.list \in Seq(Event)
    BY <1>4, <1>5, <1>9 DEF History
  <2>2. Len(g.list) \in Nat /\ Len(m.list) \in Nat /\ Len(n.list) \in Nat
    BY <2>1
  <2>3. Len(g.list) <= Len(n.list)
    BY <1>8 DEF Slimmer
  <2>4. QED
    BY <1>5, <2>2, <2>3
<1>11. Keeps'
  BY <1>1, <1>7, <1>8, <1>9 DEF Keeps
<1>12. EmitMakes(e)
  BY <1>7, <1>8, <1>9, <1>10, <1>11 DEF EmitMakes, Complete, m
<1>13. ASSUME cfg.policy.size # 0, h.ttl = None, NEW x \in Range(h.list) \ Range(g.list)
       PROVE  done[x] # None /\ h.retained[x] = 0 /\ Children(g.list, x) \subseteq {e}
  <2>1. n.ttl = None /\ n.retained = h.retained /\ Range(g.list) \subseteq Range(n.list)
    BY <1>3, <1>5, <1>8, <1>13 DEF Slimmer
  <2>2. GoneWell(h, done, m.list) /\ GoneWell(n, done, g.list)
    BY <1>3, <1>8, <1>13, <2>1
  <2>3. QED
    BY <1>5, <1>13, <2>1, <2>2, GoneTwice
<1>14. ASSUME cfg.policy.size = None, NEW x \in Range(h.list)
       PROVE  Has(g, x) <=> ~Expired(g, done, x, now)
  <2>1. m = h /\ x \in Range(n.list)
    BY <1>3, <1>5, <1>14
  <2>2. Has(g, x) <=> ~Expired(n, done, x, now)
    BY <1>8, <1>14, <2>1
  <2>3. g.ttl = n.ttl
    BY <1>8 DEF Slimmer
  <2>4. QED
    BY <2>2, <2>3 DEF Expired
<1>15. Range(h'.list) \subseteq Range(Add(MadeRoom, e).list)
  BY <1>7, <1>8 DEF Slimmer, n, m
<1>16. QED
  BY <1>7, <1>12, <1>13, <1>14, <1>15 DEF GoneFor

\* A rejected emit makes room and no more.
LEMMA EmitRejectedDoes ==
    ASSUME Types, Keeps, NEW e \in Event, EmitRejected(e)
    PROVE  /\ Keeps' /\ Slimmer(h, h')
           /\ cfg.policy.size = 0 => \A x \in Range(h'.list) : ~Complete(x)
           /\ cfg.policy.size # 0 /\ h.ttl = None => GoneWell(h, done, h'.list)
           /\ Full(cfg.policy, h') /\ ~destroyed
<1>1. ~destroyed /\ h' = MadeRoom /\ Full(cfg.policy, MadeRoom)
      /\ UNCHANGED <<cfg, done, now, destroyed>>
  BY DEF EmitRejected
<1>2. PICK m : m = MadeRoom
  OBVIOUS
<1>3. /\ Slimmer(h, m) /\ Timed(m, done)
      /\ cfg.policy.size = 0 => \A x \in Range(m.list) : ~Complete(x)
      /\ cfg.policy.size # 0 /\ h.ttl = None => GoneWell(h, done, m.list)
  BY <1>1, <1>2, MadeRoomDoes
<1>4. Keeps'
  <2>1. m \in History /\ Distinct(m.list)
    BY <1>3 DEF Slimmer
  <2>2. QED
    BY <1>1, <1>2, <1>3, <2>1 DEF Keeps
<1>5. QED
  BY <1>1, <1>2, <1>3, <1>4

\* An event that is complete comes in, unless its time is over.
LEMMA EmitCompletedDoes ==
    ASSUME Types, Keeps, NEW e \in Event, EmitCompleted(e)
    PROVE  EmitMakes(e) /\ (cfg.policy.size # 0 /\ h.ttl = None => GoneFor(e))
<1> DEFINE m == MadeRoom
           n == Add(m, e)
           k == Track(n, done, {e})
<1>1. ~destroyed /\ Complete(e) /\ UNCHANGED <<cfg, done, now, destroyed>>
  BY DEF EmitCompleted
<1>2. /\ done \in [Event -> Moments] /\ now \in Nat /\ h \in History
      /\ cfg.policy \in Policy /\ \A x \in Event : done[x] # None => done[x] <= now
  BY PolicyOf DEF Types, Keeps
<1>3. /\ Slimmer(h, m) /\ Timed(m, done)
      /\ cfg.policy.size = 0 => \A x \in Range(m.list) : ~Complete(x)
      /\ cfg.policy.size # 0 /\ h.ttl = None => GoneWell(h, done, m.list)
  BY <1>1, MadeRoomDoes
<1>4. \/ h' = Without(m, {e}) /\ m.ttl # None
      \/ h' = Trim(cfg.policy, k, done, Drained, now)
  BY DEF EmitCompleted, Expired
<1> HIDE DEF m
<1>5. /\ m \in History /\ Distinct(m.list) /\ m.ttl = h.ttl /\ m.retained = h.retained
      /\ Range(m.list) \subseteq Range(h.list)
  BY <1>3 DEF Slimmer
<1>6. m.list \in Seq(Event) /\ Len(m.list) \in Nat
  <2>1. m.list \in Seq(Event)
    BY <1>5 DEF History
  <2>2. QED
    BY <2>1
<1>7. CASE h' = Without(m, {e}) /\ m.ttl # None
  <2>1. PICK g : g = Without(m, {e})
    OBVIOUS
  <2>2. Lets(m, g)
    BY <1>5, <2>1, WithoutLets
  <2>3. Slimmer(m, g) /\ Timed(g, done)
    BY <1>3, <2>2, LetsTimed DEF Lets
  <2>4. /\ g \in History /\ Distinct(g.list) /\ Range(g.list) \subseteq Range(m.list)
        /\ g.ttl = h.ttl /\ g.retained = h.retained /\ Len(g.list) <= Len(m.list)
    BY <1>5, <2>3 DEF Slimmer
  <2>5. Len(g.list) <= Len(m.list) + 1
    <3>1. g.list \in Seq(Event)
      BY <2>4 DEF History
    <3>2. Len(g.list) \in Nat
      BY <3>1
    <3>3. QED
      BY <1>6, <2>4, <3>2
  <2>6. Keeps'
    BY <1>1, <1>2, <1>7, <2>1, <2>3, <2>4 DEF Keeps
  <2>7. QED
    BY <1>1, <1>3, <1>5, <1>7, <2>1, <2>4, <2>5, <2>6 DEF EmitMakes, Complete, m
<1>8. CASE h' = Trim(cfg.policy, k, done, Drained, now)
  <2>1. /\ n \in History /\ Distinct(n.list) /\ Range(n.list) = Range(m.list) \cup {e}
        /\ Len(n.list) <= Len(m.list) + 1
        /\ n.retained = m.retained /\ n.ttl = m.ttl /\ n.resultTtl = m.resultTtl
        /\ n.results = m.results /\ n.signature = m.signature
        /\ n.queue = m.queue /\ n.deadline = m.deadline
    BY <1>5, AddDoes
  <2> HIDE DEF n
  <2>2. Queued(n) /\ Edited(n) /\ (Current(n) => RightOn(n, done, Event \ {e}))
    <3>1. Queued(n) /\ Edited(n)
      BY <1>3, <2>1 DEF Timed, Queued, QueuedOn, Edited
    <3>2. ASSUME Current(n) PROVE RightOn(n, done, Event \ {e})
      <4>1. RightOn(m, done, Event)
        BY <1>3, <2>1, <3>2 DEF Timed, Current
      <4>2. \A x : Deadline(n, done, x) = Deadline(m, done, x)
        BY <2>1, DeadlineSame
      <4>3. QED
        BY <2>1, <4>1, <4>2 DEF RightOn
    <3>3. QED
      BY <3>1, <3>2
  <2>3. /\ SameButTimes(n, k) /\ k.signature = n.signature /\ Queued(k)
        /\ RightOn(n, done, Event \ {e}) => RightOn(k, done, Event)
    <3>1. QueuedOn(n, {x \in Event : x \notin {e} \/ Deadline(n, done, x) = n.deadline[x]})
      BY <2>2 DEF Queued, QueuedOn
    <3>2. {e} \in SUBSET Event
      OBVIOUS
    <3>3. QED
      BY <1>2, <2>1, <3>1, <3>2, TrackTimes
  <2> HIDE DEF k
  <2>4. Timed(k, done)
    BY <2>2, <2>3 DEF Timed, Edited, Current, SameButTimes
  <2>5. k \in History /\ k.list = n.list /\ k.ttl = n.ttl /\ k.retained = n.retained
    BY <2>3 DEF SameButTimes
  <2>6. PICK g : g = h'
    OBVIOUS
  <2>7. /\ Slimmer(k, g) /\ Timed(g, done)
        /\ cfg.policy.size = 0 => \A x \in Range(g.list) : done[x] = None
        /\ cfg.policy.size # 0 /\ k.ttl = None => GoneWell(k, done, g.list)
    BY <1>2, <1>8, <2>1, <2>4, <2>5, <2>6, TrimDoes
  <2>8. /\ g \in History /\ Distinct(g.list) /\ Range(g.list) \subseteq Range(h.list) \cup {e}
        /\ g.ttl = h.ttl /\ g.retained = h.retained /\ Len(g.list) <= Len(n.list)
    BY <1>5, <2>1, <2>5, <2>7 DEF Slimmer
  <2>9. Len(g.list) <= Len(m.list) + 1
    <3>1. g.list \in Seq(Event) /\ n.list \in Seq(Event)
      BY <2>1, <2>8 DEF History
    <3>2. Len(g.list) \in Nat /\ Len(n.list) \in Nat
      BY <3>1
    <3>3. QED
      BY <1>6, <2>1, <2>8, <3>2
  <2>10. Keeps'
    BY <1>1, <1>2, <2>6, <2>7, <2>8 DEF Keeps
  <2>11. EmitMakes(e)
    BY <1>1, <2>6, <2>7, <2>8, <2>9, <2>10 DEF EmitMakes, Complete, m
  <2>12. ASSUME cfg.policy.size # 0, h.ttl = None, NEW x \in Range(h.list) \ Range(g.list)
         PROVE  done[x] # None /\ h.retained[x] = 0 /\ Children(g.list, x) \subseteq {e}
    <3>1. k.ttl = None /\ k.retained = h.retained /\ Range(g.list) \subseteq Range(n.list)
      BY <1>5, <2>1, <2>5, <2>7, <2>12 DEF Slimmer
    <3>2. GoneWell(h, done, m.list) /\ GoneWell(k, done, g.list)
      BY <1>3, <2>7, <2>12, <3>1
    <3>3. QED
      BY <2>1, <2>5, <2>12, <3>1, <3>2, GoneTwice
  <2>13. QED
    BY <2>6, <2>11, <2>12 DEF GoneFor
<1>9. QED
  BY <1>4, <1>7, <1>8

\* The deadline of an event depends on its own completion.
LEMMA DeadlineOthers ==
    ASSUME NEW k, NEW dn, NEW dn2, NEW x, dn2[x] = dn[x]
    PROVE  Deadline(k, dn2, x) = Deadline(k, dn, x)
BY DEF Deadline

\* A completion is tracked, or takes the event out of a history that keeps none.
LEMMA CompletedDoes ==
    ASSUME NEW policy \in Policy, NEW k \in History, NEW dn \in [Event -> Moments], NEW e \in Event,
           NEW when \in Nat, Distinct(k.list), Timed(k, dn)
    PROVE  LET c == [dn EXCEPT ![e] = when]
               g == Completed(policy, k, c, e)
           IN  /\ Slimmer(k, g) /\ Timed(g, c) /\ g.changes = k.changes
               /\ policy.size # 0 => g.list = k.list
<1>1. PICK c : c = [dn EXCEPT ![e] = when]
  OBVIOUS
<1>2. c \in [Event -> Moments] /\ \A x \in Event \ {e} : c[x] = dn[x]
  BY <1>1 DEF Moments
<1>3. PICK g : g = Completed(policy, k, c, e)
  OBVIOUS
<1>4. k.list \in Seq(Event) /\ Len(k.list) <= Len(k.list)
  <2>1. k.list \in Seq(Event)
    BY DEF History
  <2>2. QED
    BY <2>1
<1>5. Queued(k) /\ Edited(k) /\ (Current(k) => RightOn(k, c, Event \ {e}))
  <2>1. ASSUME Current(k) PROVE RightOn(k, c, Event \ {e})
    <3>1. \A x \in Event \ {e} : Deadline(k, c, x) = Deadline(k, dn, x)
      BY <1>2, DeadlineOthers
    <3>2. RightOn(k, dn, Event)
      BY <2>1 DEF Timed
    <3>3. QED
      BY <1>2, <3>1, <3>2 DEF RightOn
  <2>2. QED
    BY <2>1 DEF Timed
<1>6. CASE policy.size = 0
  <2>1. g = Without(k, {e})
    BY <1>3, <1>6 DEF Completed
  <2>2. Lets(k, g) /\ Range(g.list) = Range(k.list) \ {e} /\ g.changes = k.changes
    BY <2>1, WithoutLets
  <2>3. Timed(g, c)
    <3>1. Queued(g) /\ Edited(g)
      BY <1>5, <2>2 DEF Lets, Slimmer, Queued, QueuedOn, Edited
    <3>2. ASSUME Current(g) PROVE RightOn(g, c, Event)
      <4>1. RightOn(k, c, Event \ {e})
        BY <1>5, <2>2, <3>2 DEF Lets, Slimmer, Current
      <4>2. \A x : Deadline(g, c, x) = Deadline(k, c, x)
        BY <2>2, DeadlineSame DEF Lets, Slimmer
      <4>3. QED
        BY <2>2, <4>1, <4>2 DEF RightOn, Lets
    <3>3. QED
      BY <3>1, <3>2 DEF Timed
  <2>4. QED
    BY <1>1, <1>3, <1>6, <2>2, <2>3 DEF Lets
<1>7. CASE policy.size # 0 /\ Has(k, e)
  <2>1. g = Track(k, c, {e})
    BY <1>3, <1>7 DEF Completed
  <2>2. QueuedOn(k, {x \in Event : x \notin {e} \/ Deadline(k, c, x) = k.deadline[x]})
    BY <1>5 DEF Queued, QueuedOn
  <2>3. {e} \in SUBSET Event
    OBVIOUS
  <2>4. /\ SameButTimes(k, g) /\ g.signature = k.signature /\ Queued(g)
        /\ RightOn(k, c, Event \ {e}) => RightOn(g, c, Event)
    BY <1>2, <2>1, <2>2, <2>3, TrackTimes
  <2>5. Timed(g, c)
    BY <1>5, <2>4 DEF Timed, Edited, Current, SameButTimes
  <2>6. Slimmer(k, g) /\ g.changes = k.changes /\ g.list = k.list
    BY <1>4, <2>4 DEF Slimmer, SameButTimes
  <2>7. QED
    BY <1>1, <1>3, <2>5, <2>6
<1>8. CASE policy.size # 0 /\ ~Has(k, e)
  <2>1. g = k
    BY <1>3, <1>8 DEF Completed
  <2>2. Timed(k, c)
    BY <1>5, <1>8 DEF Timed, RightOn, Has
  <2>3. Slimmer(k, k)
    BY <1>4 DEF Slimmer
  <2>4. QED
    BY <1>1, <1>3, <2>1, <2>2, <2>3
<1>9. QED
  BY <1>6, <1>7, <1>8

\* A task is done with e.
Finishes(t, e) ==
    /\ EvOf(t) = e /\ at[t] \in {"lock", "body"} /\ Finish(t)
    /\ UNCHANGED <<cfg, emits, path, now, queue, destroyed, restarts, finder, orphans, pins, lostWake>>

\* The history and the completions change only with the completion of e.
LEMMA FinishDoes ==
    ASSUME Types, Keeps, NEW t, NEW e \in Event, Finishes(t, e)
    PROVE  /\ Keeps' /\ Slimmer(h, h') /\ inflight' = inflight \ {e}
           /\ \A x \in Event \ {e} : done'[x] = done[x]
           /\ done'[e] # None /\ done' \in [Event -> Moments]
           /\ cfg.policy.size # 0 => GoneWell(h, done', h'.list)
           /\ Complete(e) => h' = h /\ done' = done
           /\ ~Complete(e) =>
                 /\ cfg.policy.size = 0 => \A x \in Range(h'.list) : done'[x] = None
                 /\ cfg.policy.size \notin {None, 0} /\ cfg.policy.drop
                    /\ queue' = <<>> /\ inflight' = {} =>
                        \/ Len(h'.list) <= cfg.policy.size
                        \/ \A x \in Range(h'.list) : ~Spent(h', done', h'.list, x)
<1> DEFINE c == [done EXCEPT ![e] = now]
           s == IF destroyed THEN h ELSE Completed(cfg.policy, h, c, e)
           k == [s EXCEPT !.changes = @ + 1]
           fl == inflight \ {e}
<1>1. /\ done \in [Event -> Moments] /\ now \in Nat /\ h \in History /\ Distinct(h.list)
      /\ cfg.policy \in Policy /\ cfg \in Configs
      /\ (\A x \in Event : done[x] # None => done[x] <= now)
      /\ (~destroyed => Timed(h, done))
  BY PolicyOf DEF Types, Keeps
<1>2. inflight' = fl /\ UNCHANGED <<cfg, now, queue, destroyed>>
  BY DEF Finishes, Finish
<1>3. h.list \in Seq(Event) /\ Len(h.list) \in Nat
  <2>1. h.list \in Seq(Event)
    BY <1>1 DEF History
  <2>2. QED
    BY <2>1
<1>4. now # None
  BY <1>1, BusAssumption
<1>5. CASE Complete(e)
  <2>1. done' = done /\ h' = h
    BY <1>5 DEF Finishes, Finish
  <2>2. Slimmer(h, h) /\ GoneWell(h, done, h.list)
    BY <1>1, SameLets DEF Lets
  <2>3. Keeps'
    BY <1>2, <2>1 DEF Keeps
  <2>4. done'[e] # None
    BY <1>5, <2>1 DEF Complete
  <2>5. QED
    BY <1>1, <1>2, <1>5, <2>1, <2>2, <2>3, <2>4
<1>6. CASE ~Complete(e)
  <2>1. done' = c /\ h' = TrimCount(cfg.policy, k, c, queue = <<>> /\ fl = {})
    BY <1>6 DEF Finishes, Finish
  <2>2. /\ c \in [Event -> Moments] /\ c[e] = now
        /\ \A x \in Event \ {e} : c[x] = done[x]
    BY <1>1 DEF Moments
  <2>3. /\ Slimmer(h, s) /\ (~destroyed => Timed(s, c))
        /\ cfg.policy.size # 0 => s.list = h.list
    <3>1. CASE destroyed
      BY <1>1, <3>1, SameLets DEF Lets
    <3>2. CASE ~destroyed
      <4>1. s = Completed(cfg.policy, h, c, e)
        BY <3>2
      <4>2. PICK d : d = c
        OBVIOUS
      <4>3. PICK g : g = s
        OBVIOUS
      <4>4. /\ Slimmer(h, g) /\ Timed(g, d)
            /\ cfg.policy.size # 0 => g.list = h.list
        BY <1>1, <3>2, <4>1, <4>2, <4>3, CompletedDoes
      <4>5. QED
        BY <4>2, <4>3, <4>4
    <3>3. QED
      BY <3>1, <3>2
  <2> HIDE DEF c, s
  <2>4. s \in History /\ Distinct(s.list)
    BY <2>3 DEF Slimmer
  <2>5. /\ k \in History /\ k.list = s.list /\ k.retained = s.retained /\ k.changes > 0
        /\ k.ttl = s.ttl /\ k.resultTtl = s.resultTtl /\ k.signature = s.signature
        /\ k.queue = s.queue /\ k.deadline = s.deadline /\ k.results = s.results
    <3>1. PICK n : n = s.changes + 1
      OBVIOUS
    <3>2. n \in Nat /\ n > 0
      BY <2>4, <3>1 DEF History
    <3>3. k = [s EXCEPT !.changes = n]
      BY <3>1
    <3>4. QED
      BY <2>4, <3>2, <3>3 DEF History
  <2> HIDE DEF k
  <2>6. ~destroyed => Timed(k, c)
    <3>1. \A x : Deadline(k, c, x) = Deadline(s, c, x)
      BY <2>5, DeadlineSame
    <3>2. QED
      BY <2>3, <2>5, <3>1 DEF Timed, Queued, QueuedOn, Edited, Current, RightOn
  <2>7. PICK z : z = (queue = <<>> /\ fl = {})
    OBVIOUS
  <2>8. PICK g : g = h'
    OBVIOUS
  <2>9. g = TrimCount(cfg.policy, k, c, z)
    BY <2>1, <2>7, <2>8
  <2>10. /\ Lets(k, g)
         /\ cfg.policy.size = 0 => \A x \in Range(g.list) : c[x] = None
         /\ cfg.policy.size # 0 => GoneWell(k, c, g.list)
         /\ cfg.policy.size \notin {None, 0} /\ cfg.policy.drop /\ k.changes > 0 /\ z =>
               \/ Len(g.list) <= cfg.policy.size
               \/ \A x \in Range(g.list) : ~Spent(k, c, g.list, x)
    BY <1>1, <2>2, <2>4, <2>5, <2>9, TrimCountLets
  <2>11. Slimmer(k, g) /\ (~destroyed => Timed(g, c))
    BY <2>6, <2>10, LetsTimed DEF Lets
  <2>12. Slimmer(h, g)
    <3>1. Slimmer(s, g)
      BY <2>5, <2>11 DEF Slimmer
    <3>2. QED
      BY <1>1, <2>3, <3>1, SlimmerTwice
  <2>13. Keeps'
    <3>1. \A x \in Event : c[x] # None => c[x] <= now
      BY <1>1, <2>2
    <3>2. QED
      BY <1>1, <1>2, <2>1, <2>8, <2>11, <2>12, <3>1 DEF Keeps, Slimmer
  <2>14. cfg.policy.size # 0 => GoneWell(h, c, g.list)
    <3>1. h.retained = k.retained
      BY <2>3, <2>5 DEF Slimmer
    <3>2. QED
      BY <2>3, <2>5, <2>10, <3>1 DEF GoneWell
  <2>15. \A x, list : Spent(g, c, list, x) => Spent(k, c, list, x)
    BY <2>11 DEF Spent, Slimmer
  <2>16. ASSUME cfg.policy.size \notin {None, 0}, cfg.policy.drop, queue' = <<>>, inflight' = {}
         PROVE  \/ Len(g.list) <= cfg.policy.size
                \/ \A x \in Range(g.list) : ~Spent(g, c, g.list, x)
    <3>1. z
      BY <1>2, <2>7, <2>16
    <3>2. QED
      BY <2>5, <2>10, <2>15, <2>16, <3>1
  <2>17. QED
    BY <1>2, <1>4, <1>6, <2>1, <2>2, <2>8, <2>10, <2>12, <2>13, <2>14, <2>16
<1>7. QED
  BY <1>5, <1>6

\* The history that is restored has every event of the one that was saved, and the
\* queued ones.
LEMMA RestartDoes ==
    ASSUME Types, Keeps, Restart
    PROVE  Keeps' /\ Range(h'.list) = Range(h.list) \cup Range(queue)
<1> DEFINE v == EmptyHistory(h.ttl, h.resultTtl)
           list == Dumped
           k == [v EXCEPT !.list = list, !.results = h.results]
           S == Range(list)
<1>1. /\ done \in [Event -> Moments] /\ now \in Nat /\ h \in History /\ Distinct(h.list)
      /\ h.list \in Seq(Event) /\ queue \in Seq(Event) /\ h.results \in SUBSET Event
      /\ h.ttl \in Moments /\ h.resultTtl \in Moments
  BY DEF Types, Keeps, History
<1>2. list \in Seq(Event) /\ Range(list) = Range(h.list) \cup Range(queue) /\ Distinct(list)
  BY <1>1, EnteredOfSeq DEF Dumped
<1>3. h' = Track(k, done, S) /\ UNCHANGED <<cfg, done, now, destroyed>>
  BY DEF Restart
<1> HIDE DEF list
<1>4. /\ k \in History /\ k.list = list /\ k.signature = <<>>
      /\ \A e \in Event : k.deadline[e] = None
  BY <1>1, <1>2 DEF History, EmptyHistory, Moments
<1>5. S \in SUBSET Event
  BY <1>2, RangeIndex
<1> HIDE DEF k, S
<1>6. PICK g : g = h'
  OBVIOUS
<1>7. QueuedOn(k, {e \in Event : e \notin S \/ Deadline(k, done, e) = k.deadline[e]})
  BY <1>4 DEF QueuedOn
<1>8. SameButTimes(k, g) /\ g.signature = <<>> /\ Queued(g)
  <2>1. g = Track(k, done, S)
    BY <1>3, <1>6
  <2>2. /\ SameButTimes(k, g) /\ g.signature = k.signature
        /\ QueuedOn(k, {e \in Event : e \notin S \/ Deadline(k, done, e) = k.deadline[e]})
             => Queued(g)
    BY <1>1, <1>4, <1>5, <2>1, TrackTimes
  <2>3. QED
    BY <1>4, <1>7, <2>2
<1>9. \A a, b : <<>> # <<a, b>>
  <2>1. \A a, b : Len(<<a, b>>) = 2 /\ Len(<<>>) = 0
    OBVIOUS
  <2>2. QED
    BY <2>1
<1>10. Timed(g, done)
  BY <1>8, <1>9 DEF Timed, Edited, Current
<1>11. g \in History /\ g.list = list
  BY <1>4, <1>8 DEF SameButTimes
<1>12. Keeps'
  BY <1>2, <1>3, <1>6, <1>10, <1>11 DEF Keeps
<1>13. QED
  BY <1>2, <1>6, <1>11, <1>12

\* A destroyed bus keeps its history, or has none.
LEMMA DestroyDoes ==
    ASSUME Types, Keeps, Destroy
    PROVE  Keeps'
<1>1. /\ destroyed' /\ UNCHANGED <<cfg, done, now>>
      /\ h' = h \/ h' = [h EXCEPT !.list = <<>>]
  BY DEF Destroy
<1>2. h' \in History /\ Distinct(h'.list)
  <2>1. CASE h' = h
    BY <2>1 DEF Keeps
  <2>2. CASE h' = [h EXCEPT !.list = <<>>]
    <3>1. <<>> \in Seq(Event) /\ Len(<<>>) = 0
      OBVIOUS
    <3>2. h' \in History /\ h'.list = <<>>
      BY <2>2, <3>1 DEF Keeps, History
    <3>3. QED
      BY <3>1, <3>2 DEF Distinct
  <2>3. QED
    BY <1>1, <2>1, <2>2
<1>3. QED
  BY <1>1, <1>2 DEF Keeps

\* The time to live is edited, or an event is retained or let go.
LEMMA EditDoes ==
    ASSUME Types, Keeps, EditTtl \/ \E e \in Event : RetainIt(e) \/ LetGo(e)
    PROVE  Keeps' /\ h'.list = h.list /\ UNCHANGED <<done, emits, inflight, queue>>
<1>1. h \in History /\ (~destroyed => Timed(h, done))
  BY DEF Keeps
<1>2. PICK g : g = h'
  OBVIOUS
<1>3. CASE EditTtl
  <2>1. h.ttl # 1 /\ g = [h EXCEPT !.ttl = 1]
        /\ UNCHANGED <<cfg, done, emits, inflight, queue, now, destroyed>>
    BY <1>2, <1>3 DEF EditTtl
  <2>2. /\ g \in History /\ g.list = h.list /\ g.ttl = 1 /\ g.resultTtl = h.resultTtl
        /\ g.signature = h.signature /\ g.queue = h.queue /\ g.deadline = h.deadline
    BY <1>1, <2>1 DEF History, Moments
  <2>3. ASSUME ~destroyed PROVE Timed(g, done)
    <3>1. Queued(g) /\ Edited(g)
      BY <1>1, <2>2, <2>3 DEF Timed, Queued, QueuedOn, Edited
    <3>2. ~Current(g)
      BY <1>1, <2>1, <2>2, <2>3 DEF Timed, Edited, Current
    <3>3. QED
      BY <3>1, <3>2 DEF Timed
  <2>4. QED
    BY <1>2, <2>1, <2>2, <2>3 DEF Keeps
<1>4. ASSUME NEW e \in Event, RetainIt(e) \/ LetGo(e)
      PROVE  Keeps' /\ h'.list = h.list /\ UNCHANGED <<done, emits, inflight, queue>>
  <2>1. /\ g = Retain(h, e) \/ (h.retained[e] > 0 /\ g = Unretain(h, e))
        /\ UNCHANGED <<cfg, done, emits, inflight, queue, now, destroyed>>
    BY <1>2, <1>4 DEF RetainIt, LetGo
  <2>2. /\ g \in History /\ g.list = h.list /\ g.ttl = h.ttl /\ g.resultTtl = h.resultTtl
        /\ g.signature = h.signature /\ g.queue = h.queue /\ g.deadline = h.deadline
        /\ g.results = h.results
    <3>1. h.retained \in [Event -> Nat]
      BY <1>1 DEF History
    <3>2. PICK r : r \in [Event -> Nat] /\ g = [h EXCEPT !.retained = r]
      <4>1. CASE g = Retain(h, e)
        <5>1. [h.retained EXCEPT ![e] = @ + 1] \in [Event -> Nat]
          BY <3>1
        <5>2. g = [h EXCEPT !.retained = [h.retained EXCEPT ![e] = @ + 1]]
          BY <1>1, <4>1 DEF Retain, History
        <5>3. QED
          BY <5>1, <5>2
      <4>2. CASE h.retained[e] > 0 /\ g = Unretain(h, e)
        <5>1. [h.retained EXCEPT ![e] = @ - 1] \in [Event -> Nat]
          <6>1. h.retained[e] - 1 \in Nat
            BY <3>1, <4>2
          <6>2. QED
            BY <3>1, <6>1
        <5>2. g = [h EXCEPT !.retained = [h.retained EXCEPT ![e] = @ - 1]]
          BY <1>1, <4>2 DEF Unretain, History
        <5>3. QED
          BY <5>1, <5>2
      <4>3. QED
        BY <2>1, <4>1, <4>2
    <3>3. QED
      BY <1>1, <3>2 DEF History
  <2>3. \A x : Deadline(g, done, x) = Deadline(h, done, x)
    BY <2>2, DeadlineSame
  <2>4. ~destroyed => Timed(g, done)
    BY <1>1, <2>2, <2>3 DEF Timed, Queued, QueuedOn, Edited, Current, RightOn
  <2>5. QED
    BY <1>2, <2>1, <2>2, <2>4 DEF Keeps
<1>5. QED
  BY <1>3, <1>4

----------------------------------------------------------------------------
(* The invariant of the history.                                           *)

\* The types of the other variables.
More ==
    /\ path \subseteq Event /\ inflight \subseteq Event /\ processing \subseteq Event
    /\ {flag, lostWake} \subseteq BOOLEAN
    /\ lock \in Runner \cup {None}
    /\ hooks \in {"none", "running", "ended"} /\ restarts \in 0 .. MaxRestarts
    /\ finder \in [Finder -> Event \cup {"new", "waiting", "none"}]
    /\ orphans \subseteq Event /\ pins \subseteq Event

\* The past is a sequence of the events that match.
LEMMA PastOf ==
    ASSUME NEW k \in History, NEW p
    PROVE  /\ Past(k, p) \in Seq(Event)
           /\ Past(k, p) = <<>> <=> \A e \in Range(k.list) : ~Matches(k, p, e)
<1> DEFINE S == {e \in Range(k.list) : Matches(k, p, e)}
           o == Only(k.list, S)
<1>1. k.list \in Seq(Event)
  BY DEF History
<1>2. o \in Seq(Event) /\ Range(o) = Range(k.list) \cap S
  BY <1>1, OnlyOfSeq
<1>3. Past(k, p) = Reverse(o)
  BY DEF Past
<1> HIDE DEF o
<1>4. /\ Reverse(o) \in Seq(Event) /\ Len(Reverse(o)) = Len(o) /\ Len(o) \in Nat
  BY <1>2 DEF Reverse
<1>5. Reverse(o) = <<>> <=> Range(o) = {}
  <2>1. Range(o) = {} <=> Len(o) = 0
    <3>1. \A x : x \in Range(o) <=> \E i \in 1..Len(o) : o[i] = x
      BY <1>2, RangeIndex
    <3>2. Len(o) # 0 => 1 \in 1..Len(o)
      BY <1>4
    <3>3. Len(o) # 0 => o[1] \in Range(o)
      BY <3>1, <3>2
    <3>4. Len(o) = 0 => \A i : i \notin 1..Len(o)
      BY <1>4
    <3>5. QED
      BY <3>1, <3>3, <3>4
  <2>2. QED
    BY <1>4, <2>1
<1>6. Range(o) = S
  BY <1>2
<1>7. QED
  BY <1>3, <1>4, <1>5, <1>6

\* A step that does not touch the history.
Rests ==
    /\ UNCHANGED <<cfg, h, done, emits, inflight, destroyed, restarts, pins>>
    /\ now' \in {now, now + 1} /\ Len(queue') <= Len(queue)
    /\ \A f \in Finder : finder'[f] = "waiting" => finder[f] = "waiting" \/ Find(f)

\* Taking an event from the queue makes it shorter.
LEMMA Shorter ==
    ASSUME Types
    PROVE  /\ Len(queue) <= Len(queue) /\ Len(queue) \in Nat
           /\ queue # <<>> => Len(Tail(queue)) <= Len(queue)
           /\ \A e \in Range(queue) : Len(Removed(e)) <= Len(queue)
<1>1. queue \in Seq(Event) /\ Len(queue) \in Nat
  <2>1. queue \in Seq(Event)
    BY DEF Types
  <2>2. QED
    BY <2>1
<1>2. queue # <<>> => Len(Tail(queue)) = Len(queue) - 1
  BY <1>1, TailOfSeq
<1>3. ASSUME NEW e \in Range(queue) PROVE Len(Removed(e)) = Len(queue) - 1
  <2>1. \E i \in 1..Len(queue) : queue[i] = e
    BY <1>1, RangeIndex
  <2>2. PICK i \in 1..Len(queue) : Removed(e) = RemoveAt(queue, i)
    BY <1>1, <2>1, RemoveFirstOfSeq DEF Removed
  <2>3. QED
    BY <1>1, <2>2, RemoveAtOfSeq
<1>4. QED
  BY <1>1, <1>2, <1>3

\* Every step is one of an emit, the end of a task, an edit, the end of the bus or
\* of the process, or does not touch the history.
LEMMA Kinds ==
    ASSUME Frame, finder \in [Finder -> Event \cup {"new", "waiting", "none"}], [Next]_vars
    PROVE  \/ \E e \in Event : Emit(e) \/ EmitRejected(e) \/ EmitCompleted(e)
           \/ \E t \in Task, e \in Event : Finishes(t, e)
           \/ EditTtl \/ \E e \in Event : RetainIt(e) \/ LetGo(e)
           \/ Destroy \/ Restart \/ Rests
<1>1. /\ now \in Nat /\ Len(queue) <= Len(queue)
      /\ queue # <<>> => Len(Tail(queue)) <= Len(queue)
      /\ \A e \in Range(queue) : Len(Removed(e)) <= Len(queue)
  BY Shorter DEF Frame, Types
<1>2. CASE Consume
  <2>1. CASE LoopTake
    BY <1>1, <2>1 DEF LoopTake, Enter, Rests
  <2>2. CASE LoopSleep
    BY <1>1, <2>2 DEF LoopSleep, Rests
  <2>3. CASE StepWoken
    BY <1>1, <2>3 DEF StepWoken, Rests
  <2>4. CASE StepTook
    BY <1>1, <2>4 DEF StepTook, Enter, Rests
  <2>5. QED
    BY <1>2, <2>1, <2>2, <2>3, <2>4 DEF Consume
<1>3. CASE OwnStep
  <2>1. ASSUME NEW e \in Event, NEW o \in {"emit", "loop"}, OwnTask(e, o) PROVE Rests
    BY <1>1, <2>1 DEF OwnTask, Enter, Rests
  <2>2. ASSUME NEW e \in Event, NEW o \in {"emit", "loop"}, OwnTaskGone(e, o) PROVE Rests
    BY <1>1, <2>2 DEF OwnTaskGone, Rests
  <2>3. QED
    BY <1>3, <2>1, <2>2 DEF OwnStep
<1>4. ASSUME NEW t \in Task, Work(t)
      PROVE  Rests \/ \E e \in Event : Finishes(t, e)
  <2>1. CASE Begin(t)
    BY <1>1, <2>1 DEF Begin, Rests
  <2>2. CASE End(t) \/ Interrupted(t)
    <3>1. at[t] \in {"lock", "body"}
      BY <2>2 DEF End, Interrupted
    <3>2. EvOf(t) \in Event
      BY <3>1, EventOfTask
    <3>3. Finishes(t, EvOf(t))
      BY <2>2, <3>1 DEF End, Interrupted, Finishes
    <3>4. QED
      BY <3>2, <3>3
  <2>3. CASE NotBegun(t)
    BY <1>1, <2>3 DEF NotBegun, Rests
  <2>4. QED
    BY <1>4, <2>1, <2>2, <2>3 DEF Work
<1>5. CASE StepCall
  BY <1>1, <1>5 DEF StepCall, Rests
<1>6. CASE StepTimeout
  BY <1>1, <1>6 DEF StepTimeout, Rests
<1>7. ASSUME NEW w \in Idler, Idling(w) PROVE Rests
  BY <1>1, <1>7 DEF Idling, IdleCheck, IdleSleep, Rests
<1>8. ASSUME NEW f \in Finder, Find(f) \/ FindTimeout(f) PROVE Rests
  <2>1. CASE Find(f)
    <3>1. \A g \in Finder \ {f} : finder'[g] = finder[g]
      BY <2>1 DEF Find
    <3>2. QED
      BY <1>1, <2>1, <3>1 DEF Find, Rests
  <2>2. CASE FindTimeout(f)
    <3>1. \A g \in Finder : finder'[g] = "waiting" => finder[g] = "waiting"
      BY <2>2 DEF FindTimeout
    <3>2. QED
      BY <1>1, <2>2, <3>1 DEF FindTimeout, Rests
  <2>3. QED
    BY <1>8, <2>1, <2>2
<1>9. CASE HooksBegin \/ HooksEnd
  BY <1>1, <1>9 DEF HooksBegin, HooksEnd, Rests
<1>10. CASE Tick
  BY <1>1, <1>10 DEF Tick, Rests
<1>11. CASE UNCHANGED vars
  BY <1>1, <1>11 DEF vars, Rests
<1>12. QED
  BY <1>2, <1>3, <1>4, <1>5, <1>6, <1>7, <1>8, <1>9, <1>10, <1>11 DEF Next

\* The types of the other variables are kept.
LEMMA MoreKept ==
    ASSUME Frame, Keeps, More, [Next]_vars
    PROVE  More'
<1> USE DEF More
<1>1. ASSUME NEW q, NEW b, SetFlag \/ Reconcile(q, b) PROVE {flag'} \subseteq BOOLEAN
  BY <1>1 DEF SetFlag, Reconcile
<1>2. ASSUME NEW e \in Event, Emit(e) \/ EmitCompleted(e) PROVE More'
  <2>1. \A k : Found(k, e) \in [Finder -> Event \cup {"new", "waiting", "none"}]
    BY DEF Found
  <2>2. CASE Emit(e)
    BY <2>1, <2>2 DEF Emit
  <2>3. CASE EmitCompleted(e)
    BY <2>1, <2>3 DEF EmitCompleted
  <2>4. QED
    BY <1>2, <2>2, <2>3
<1>3. ASSUME NEW e \in Event, EmitRejected(e) \/ RetainIt(e) \/ LetGo(e) PROVE More'
  BY <1>3 DEF EmitRejected, RetainIt, LetGo
<1>4. CASE LoopTake
  <2>1. Head(queue) \in Event
    BY <1>4, TailOfSeq DEF LoopTake, Frame, Types
  <2>2. QED
    BY <1>4, <2>1 DEF LoopTake, Enter
<1>5. CASE LoopSleep \/ StepWoken \/ StepCall
  BY <1>5 DEF LoopSleep, StepWoken, StepCall
<1>6. CASE StepTook
  <2>1. ev[Step] \in Event
    BY <1>6, Tasks DEF StepTook, Frame, Places
  <2>2. QED
    BY <1>6, <2>1 DEF StepTook, Enter
<1>7. CASE StepTimeout
  BY <1>1, <1>7 DEF StepTimeout
<1>8. ASSUME NEW e \in Event, NEW o \in {"emit", "loop"}, OwnTask(e, o) \/ OwnTaskGone(e, o)
      PROVE  More'
  BY <1>1, <1>8 DEF OwnTask, OwnTaskGone, Enter
<1>9. ASSUME NEW t \in Task, Work(t) PROVE More'
  <2>1. CASE Begin(t)
    BY <2>1 DEF Begin
  <2>2. CASE End(t) \/ Interrupted(t)
    <3>1. Finish(t) /\ UNCHANGED <<path, hooks, restarts, finder, ghostVars>>
      BY <2>2 DEF End, Interrupted
    <3>2. QED
      BY <1>1, <3>1 DEF Finish
  <2>3. CASE NotBegun(t)
    BY <2>3 DEF NotBegun
  <2>4. QED
    BY <1>9, <2>1, <2>2, <2>3 DEF Work
<1>10. ASSUME NEW w \in Idler, Idling(w) PROVE More'
  BY <1>10 DEF Idling, IdleCheck, IdleSleep
<1>11. ASSUME NEW f \in Finder, Find(f) \/ FindTimeout(f) PROVE More'
  <2>1. CASE Find(f)
    <3>1. PICK past : past = Past(h, Pattern[f])
      OBVIOUS
    <3>2. past \in Seq(Event)
      BY <3>1, PastOf DEF Keeps
    <3>3. past # <<>> => Head(past) \in Event
      BY <3>2
    <3>4. finder' = [finder EXCEPT ![f] = IF past = <<>> THEN "waiting" ELSE Head(past)]
      BY <2>1, <3>1 DEF Find
    <3>5. finder' \in [Finder -> Event \cup {"new", "waiting", "none"}]
      BY <3>3, <3>4
    <3>6. QED
      BY <2>1, <3>5 DEF Find
  <2>2. CASE FindTimeout(f)
    BY <2>2 DEF FindTimeout
  <2>3. QED
    BY <1>11, <2>1, <2>2
<1>12. CASE HooksBegin \/ HooksEnd \/ Tick \/ EditTtl
  BY <1>1, <1>12 DEF HooksBegin, HooksEnd, Tick, EditTtl
<1>13. CASE Destroy
  BY <1>13 DEF Destroy, SetFlag
<1>14. CASE Restart
  <2>1. restarts' \in 0 .. MaxRestarts
    BY <1>14, BusAssumption DEF Restart
  <2>2. (queue = <<>>) \in BOOLEAN
    OBVIOUS
  <2>3. QED
    BY <1>14, <2>1, <2>2 DEF Restart
<1>15. CASE UNCHANGED vars
  BY <1>15 DEF vars
<1>16. QED
  BY <1>2, <1>3, <1>4, <1>5, <1>6, <1>7, <1>8, <1>9, <1>10, <1>11, <1>12, <1>13, <1>14, <1>15
     DEF Next, Consume, OwnStep

\* The history has only events that were emitted.
Listed == \A e \in Range(h.list) : emits[e] > 0

\* The parent of an event that was emitted was emitted, if it is on the bus at all.
ParentsFirst ==
    \A e \in Event : emits[e] > 0 /\ Parent[e] \in cfg.events => emits[Parent[e]] > 0

\* Until a restart or the end of the bus, what is not complete is in flight.
Flying ==
    restarts = 0 /\ ~destroyed => \A e \in Event : emits[e] > 0 /\ ~Complete(e) => e \in inflight

\* The invariant of the history.
HistoryInv == BusInv /\ Keeps /\ More /\ Listed /\ ParentsFirst /\ Flying

\* A step that does not touch the history keeps it.
LEMMA RestsKeep ==
    ASSUME Keeps, Types, Rests
    PROVE  Keeps'
<1>1. /\ UNCHANGED <<cfg, h, done, destroyed>> /\ now' \in {now, now + 1} /\ now \in Nat
      /\ done \in [Event -> Moments]
  BY DEF Rests, Types
<1>2. \A e \in Event : done[e] # None => done[e] \in Nat
  BY <1>1 DEF Moments
<1>3. \A e \in Event : done[e] # None => done[e] <= now'
  <2>1. \A a \in Nat : a <= now => a <= now'
    BY <1>1
  <2>2. QED
    BY <1>2, <2>1 DEF Keeps
<1>4. QED
  BY <1>1, <1>3 DEF Keeps

\* Every step keeps the history as it should be.
LEMMA KeepsKept ==
    ASSUME Frame, Keeps, More, [Next]_vars
    PROVE  Keeps'
<1>1. Types
  BY DEF Frame
<1>2. ASSUME NEW e \in Event, Emit(e) PROVE Keeps'
  BY <1>1, <1>2, EmitDoes DEF EmitMakes
<1>3. ASSUME NEW e \in Event, EmitRejected(e) PROVE Keeps'
  BY <1>1, <1>3, EmitRejectedDoes
<1>4. ASSUME NEW e \in Event, EmitCompleted(e) PROVE Keeps'
  BY <1>1, <1>4, EmitCompletedDoes DEF EmitMakes
<1>5. ASSUME NEW t \in Task, NEW e \in Event, Finishes(t, e) PROVE Keeps'
  BY <1>1, <1>5, FinishDoes
<1>6. CASE EditTtl \/ \E e \in Event : RetainIt(e) \/ LetGo(e)
  BY <1>1, <1>6, EditDoes
<1>7. CASE Destroy
  BY <1>1, <1>7, DestroyDoes
<1>8. CASE Restart
  BY <1>1, <1>8, RestartDoes
<1>9. CASE Rests
  BY <1>1, <1>9, RestsKeep
<1>10. QED
  BY <1>2, <1>3, <1>4, <1>5, <1>6, <1>7, <1>8, <1>9, Kinds DEF More

\* An emit counts; its parent, if it is on the bus, was emitted.
LEMMA EmitCounts ==
    ASSUME Frame, Keeps, ParentsFirst, NEW e \in Event, Emit(e) \/ EmitCompleted(e)
    PROVE  /\ emits' = [emits EXCEPT ![e] = @ + 1] /\ emits'[e] > 0
           /\ \A x \in Event : emits[x] > 0 => emits'[x] > 0
           /\ ParentsFirst'
<1>1. /\ emits \in [Event -> Nat] /\ emits' = [emits EXCEPT ![e] = @ + 1] /\ MayEmit(e)
      /\ UNCHANGED cfg /\ cfg.events \subseteq Event
  BY ConfigAssumption DEF Emit, EmitCompleted, Frame, Types, Keeps
<1>2. emits'[e] > 0 /\ \A x \in Event : emits[x] > 0 => emits'[x] > 0
  BY <1>1
<1>3. ParentsFirst'
  <2>1. ASSUME NEW x \in Event, emits'[x] > 0, Parent[x] \in cfg.events
        PROVE  emits'[Parent[x]] > 0
    <3>1. Parent[x] \in Event
      BY <1>1, <2>1
    <3>2. emits[Parent[x]] > 0
      <4>1. CASE x = e
        BY <1>1, <2>1, <4>1 DEF MayEmit
      <4>2. CASE x # e
        BY <1>1, <2>1, <4>2 DEF ParentsFirst
      <4>3. QED
        BY <4>1, <4>2
    <3>3. QED
      BY <1>2, <3>1, <3>2
  <2>2. QED
    BY <1>1, <2>1 DEF ParentsFirst
<1>4. QED
  BY <1>1, <1>2, <1>3

\* Queued events were emitted.
LEMMA QueuedWasEmitted ==
    ASSUME Types, Single, NEW e \in Range(queue)
    PROVE  e \in Event /\ emits[e] > 0
<1>1. queue \in Seq(Event) /\ emits \in [Event -> Nat]
  BY DEF Types
<1>2. e \in Event
  BY <1>1, RangeIndex
<1>3. emits[e] = 0 => FALSE
  BY <1>1, <1>2 DEF Single, OneCopy
<1>4. QED
  BY <1>1, <1>2, <1>3

\* Every step keeps who was emitted and what is in flight.
LEMMA EmittedKept ==
    ASSUME HistoryInv, [Next]_vars
    PROVE  Listed' /\ ParentsFirst' /\ Flying'
<1>1. /\ Frame /\ Types /\ Single /\ Keeps /\ More /\ Listed /\ ParentsFirst /\ Flying
      /\ finder \in [Finder -> Event \cup {"new", "waiting", "none"}]
      /\ emits \in [Event -> Nat] /\ restarts \in Nat
  BY DEF HistoryInv, BusInv, Frame, Kept, More, Types
<1>2. \A x \in Range(h.list) : x \in Event
  <2>1. h.list \in Seq(Event)
    BY <1>1 DEF Keeps, History
  <2>2. QED
    BY <2>1, RangeIndex
<1>3. ASSUME NEW e \in Event, Emit(e) \/ EmitCompleted(e)
      PROVE  Listed' /\ ParentsFirst' /\ Flying'
  <2>1. Range(h'.list) \subseteq Range(h.list) \cup {e}
    BY <1>1, <1>3, EmitDoes, EmitCompletedDoes DEF EmitMakes
  <2>2. /\ emits' = [emits EXCEPT ![e] = @ + 1] /\ emits'[e] > 0 /\ ParentsFirst'
        /\ \A x \in Event : emits[x] > 0 => emits'[x] > 0
    BY <1>1, <1>3, EmitCounts
  <2>3. Listed'
    BY <1>1, <1>2, <2>1, <2>2 DEF Listed
  <2>4. Flying'
    <3>1. /\ UNCHANGED <<destroyed, restarts, done>> /\ inflight \subseteq inflight'
          /\ e \in inflight' \/ Complete(e)
      BY <1>3 DEF Emit, EmitCompleted
    <3>2. \A x \in Event \ {e} : emits'[x] = emits[x]
      BY <1>1, <2>2
    <3>3. ASSUME restarts' = 0, ~destroyed', NEW x \in Event, emits'[x] > 0, done'[x] = None
          PROVE  x \in inflight'
      <4>1. CASE x = e
        BY <3>1, <3>3, <4>1 DEF Complete
      <4>2. CASE x # e
        BY <1>1, <3>1, <3>2, <3>3, <4>2 DEF Flying, Complete
      <4>3. QED
        BY <4>1, <4>2
    <3>4. QED
      BY <3>3 DEF Flying, Complete
  <2>5. QED
    BY <2>2, <2>3, <2>4
<1>4. ASSUME NEW e \in Event, EmitRejected(e)
      PROVE  Listed' /\ ParentsFirst' /\ Flying'
  <2>1. Range(h'.list) \subseteq Range(h.list)
    BY <1>1, <1>4, EmitRejectedDoes DEF Slimmer
  <2>2. UNCHANGED <<cfg, emits, done, inflight, destroyed, restarts>>
    BY <1>4 DEF EmitRejected
  <2>3. QED
    BY <1>1, <2>1, <2>2 DEF Listed, ParentsFirst, Flying, Complete
<1>5. ASSUME NEW t \in Task, NEW e \in Event, Finishes(t, e)
      PROVE  Listed' /\ ParentsFirst' /\ Flying'
  <2>1. /\ Range(h'.list) \subseteq Range(h.list) /\ inflight' = inflight \ {e}
        /\ done'[e] # None /\ \A x \in Event \ {e} : done'[x] = done[x]
    BY <1>1, <1>5, FinishDoes DEF Slimmer
  <2>2. UNCHANGED <<cfg, emits, destroyed, restarts>>
    BY <1>5 DEF Finishes
  <2>3. QED
    BY <1>1, <2>1, <2>2 DEF Listed, ParentsFirst, Flying, Complete
<1>6. CASE EditTtl \/ \E e \in Event : RetainIt(e) \/ LetGo(e)
  <2>1. h'.list = h.list /\ UNCHANGED <<done, emits, inflight>>
    BY <1>1, <1>6, EditDoes
  <2>2. UNCHANGED <<cfg, destroyed, restarts>>
    BY <1>6 DEF EditTtl, RetainIt, LetGo
  <2>3. QED
    BY <1>1, <2>1, <2>2 DEF Listed, ParentsFirst, Flying, Complete
<1>7. CASE Destroy
  <2>1. Range(h'.list) \subseteq Range(h.list)
    <3>1. Range(<<>>) = {}
      BY NothingInIt
    <3>2. h'.list = h.list \/ h'.list = <<>>
      BY <1>1, <1>7 DEF Destroy, Keeps, History
    <3>3. QED
      BY <3>1, <3>2
  <2>2. destroyed' /\ UNCHANGED <<cfg, emits>>
    BY <1>7 DEF Destroy
  <2>3. QED
    BY <1>1, <2>1, <2>2 DEF Listed, ParentsFirst, Flying
<1>8. CASE Restart
  <2>1. Range(h'.list) = Range(h.list) \cup Range(queue)
    BY <1>1, <1>8, RestartDoes
  <2>2. restarts' # 0 /\ UNCHANGED <<cfg, emits>>
    BY <1>1, <1>8 DEF Restart
  <2>3. Listed'
    BY <1>1, <2>1, <2>2, QueuedWasEmitted DEF Listed
  <2>4. QED
    BY <1>1, <2>2, <2>3 DEF ParentsFirst, Flying
<1>9. CASE Rests
  BY <1>1, <1>9 DEF Rests, Listed, ParentsFirst, Flying, Complete
<1>10. QED
  BY <1>1, <1>3, <1>4, <1>5, <1>6, <1>7, <1>8, <1>9, Kinds

\* The invariant of the history holds at first.
LEMMA HistoryInit == Init => HistoryInv
<1> SUFFICES ASSUME Init PROVE HistoryInv
  OBVIOUS
<1>1. /\ cfg \in Configs /\ h = EmptyHistory(cfg.ttl, cfg.resultTtl)
      /\ done = [e \in Event |-> None] /\ emits = [e \in Event |-> 0] /\ now = 0
  BY DEF Init
<1>2. cfg.ttl \in Moments /\ cfg.resultTtl \in Moments
  BY <1>1, PolicyOf
<1>3. <<>> \in Seq(Event) /\ Len(<<>>) = 0 /\ Range(<<>>) = {}
  BY NothingInIt
<1>4. /\ h \in History /\ h.list = <<>> /\ h.signature = <<>>
      /\ \A e \in Event : h.deadline[e] = None
  BY <1>1, <1>2, <1>3 DEF EmptyHistory, History, Moments
<1>5. Timed(h, done)
  <2>1. \A a, b : <<>> # <<a, b>>
    <3>1. \A a, b : Len(<<a, b>>) = 2
      OBVIOUS
    <3>2. QED
      BY <1>3, <3>1
  <2>2. QED
    BY <1>3, <1>4, <2>1 DEF Timed, Queued, QueuedOn, Edited, Current
<1>6. Keeps
  BY <1>1, <1>3, <1>4, <1>5 DEF Keeps, Distinct
<1>7. More
  <2>1. 0 \in 0 .. MaxRestarts
    BY BusAssumption
  <2>2. QED
    BY <2>1 DEF Init, More
<1>8. Listed /\ ParentsFirst /\ Flying
  BY <1>1, <1>3, <1>4 DEF Listed, ParentsFirst, Flying
<1>9. QED
  BY <1>6, <1>7, <1>8, BusInit DEF HistoryInv

\* Every step keeps the invariant of the history.
LEMMA HistoryStep == HistoryInv /\ [Next]_vars => HistoryInv'
<1> SUFFICES ASSUME HistoryInv, [Next]_vars PROVE HistoryInv'
  OBVIOUS
<1>1. BusInv /\ Frame /\ Keeps /\ More
  BY DEF HistoryInv, BusInv
<1>2. BusInv' /\ Keeps' /\ More'
  BY <1>1, BusStep, KeepsKept, MoreKept
<1>3. QED
  BY <1>2, EmittedKept DEF HistoryInv

\* The history has each event once, and its deadlines as the policy wants them; no
\* event came before its parent; what is not complete is in flight.
THEOREM HistoryInvariant == Spec => []HistoryInv
<1>1. QED
  BY HistoryInit, HistoryStep, PTL DEF Spec

\* Every variable keeps its type, whatever is trimmed, restored or found.
THEOREM BusTypes == Spec => []TypeOK
<1>1. HistoryInv => TypeOK
  BY DEF HistoryInv, BusInv, Frame, Types, Keeps, More, TypeOK, Where, IdlerAt
<1>2. QED
  BY <1>1, HistoryInvariant, PTL

\* An event put into the queue sweeps out of a history without a size all events
\* whose time is over and no other: TrimTtl retracks when the policy has changed,
\* so no deadline of the old one counts.
THEOREM TheExpiredGo == Spec => SweepsTheExpired
<1> DEFINE Sweeps ==
      cfg.policy.size = None /\ Len(queue') > Len(queue) =>
        \A e \in Range(h.list) : Has(h', e) <=> ~Expired(h', done, e, now)
<1>1. HistoryInv /\ [Next]_vars => Sweeps
  <2> SUFFICES ASSUME HistoryInv, [Next]_vars, cfg.policy.size = None, Len(queue') > Len(queue)
               PROVE  \A e \in Range(h.list) : Has(h', e) <=> ~Expired(h', done, e, now)
    OBVIOUS
  <2>1. Frame /\ Types /\ Keeps /\ More
    BY DEF HistoryInv, BusInv, Frame
  <2>2. Len(queue) \in Nat /\ ~(Len(queue) > Len(queue)) /\ ~(0 > Len(queue))
    <3>1. Len(queue) \in Nat
      BY <2>1, Shorter
    <3>2. QED
      BY <3>1
  <2>3. queue' # queue /\ queue' # <<>>
    BY <2>2
  <2>4. ~Rests
    <3>1. ASSUME Rests PROVE FALSE
      <4>1. Len(queue') <= Len(queue) /\ queue' \in Seq(Event)
        BY <2>1, <3>1, BusStep DEF Rests, HistoryInv, BusInv, Frame, Types
      <4>2. Len(queue') \in Nat
        BY <4>1
      <4>3. QED
        BY <2>2, <4>1, <4>2
    <3>2. QED
      BY <3>1
  <2>5. \A e \in Event : ~EmitRejected(e) /\ ~EmitCompleted(e) /\ ~RetainIt(e) /\ ~LetGo(e)
    BY <2>3 DEF EmitRejected, EmitCompleted, RetainIt, LetGo
  <2>6. ~EditTtl /\ ~Destroy /\ ~Restart /\ \A t, e : ~Finishes(t, e)
    BY <2>3 DEF EditTtl, Destroy, Restart, Finishes
  <2>7. PICK e \in Event : Emit(e)
    BY <2>1, <2>4, <2>5, <2>6, Kinds DEF More
  <2>8. QED
    BY <2>1, <2>7, EmitDoes
<1>2. QED
  BY <1>1, HistoryInvariant, PTL DEF Spec, SweepsTheExpired

----------------------------------------------------------------------------
(* Buses to which no event is emitted again.                               *)

\* A bus to which no event is emitted again.
Afresh == ~InUse("again")

\* It has emitted each once at most.
OnceEach == Afresh => \A e \in Event : emits[e] <= 1

\* The invariant for such a bus.
EmittedOnce == HistoryInv /\ OnceEach

\* It is so at first and after every step.
LEMMA OnceInit == Init => EmittedOnce
<1>1. Init => \A e \in Event : emits[e] <= 1
  BY DEF Init
<1>2. QED
  BY <1>1, HistoryInit DEF EmittedOnce, OnceEach

\* Every step keeps it.
LEMMA OnceStep == EmittedOnce /\ [Next]_vars => EmittedOnce'
<1> SUFFICES ASSUME EmittedOnce, [Next]_vars PROVE EmittedOnce'
  OBVIOUS
<1>1. Frame /\ Types /\ Keeps /\ More /\ emits \in [Event -> Nat]
  BY DEF EmittedOnce, HistoryInv, BusInv, Frame, Types
<1>2. ASSUME NEW e \in Event, Emit(e) \/ EmitCompleted(e) PROVE OnceEach'
  <2>1. UNCHANGED cfg /\ emits' = [emits EXCEPT ![e] = @ + 1] /\ MayEmit(e)
    BY <1>2 DEF Emit, EmitCompleted
  <2>2. Afresh => emits[e] < 1
    BY <2>1 DEF MayEmit, Afresh
  <2>3. Afresh => emits'[e] <= 1
    BY <1>1, <2>1, <2>2
  <2>4. QED
    BY <1>1, <2>1, <2>3 DEF EmittedOnce, OnceEach, Afresh, InUse
<1>3. \/ \E e \in Event : Emit(e) \/ EmitCompleted(e)
      \/ UNCHANGED <<cfg, emits>>
  <2>1. ASSUME NEW e \in Event, EmitRejected(e) \/ RetainIt(e) \/ LetGo(e)
        PROVE  UNCHANGED <<cfg, emits>>
    BY <2>1 DEF EmitRejected, RetainIt, LetGo
  <2>2. ASSUME NEW t, NEW e, Finishes(t, e) PROVE UNCHANGED <<cfg, emits>>
    BY <2>2 DEF Finishes
  <2>3. EditTtl \/ Destroy \/ Restart \/ Rests => UNCHANGED <<cfg, emits>>
    BY DEF EditTtl, Destroy, Restart, Rests
  <2>4. QED
    BY <1>1, <2>1, <2>2, <2>3, Kinds DEF More
<1>4. OnceEach'
  <2>1. UNCHANGED <<cfg, emits>> => OnceEach'
    BY DEF EmittedOnce, OnceEach, Afresh, InUse
  <2>2. QED
    BY <1>2, <1>3, <2>1
<1>5. QED
  BY <1>4, HistoryStep DEF EmittedOnce

\* The bus is the one that it was made as.
LEMMA SameConfig ==
    ASSUME EmittedOnce, [Next]_vars
    PROVE  cfg' = cfg
<1>1. Frame /\ More
  BY DEF EmittedOnce, HistoryInv, BusInv
<1>2. ASSUME NEW e \in Event,
             Emit(e) \/ EmitRejected(e) \/ EmitCompleted(e) \/ RetainIt(e) \/ LetGo(e)
      PROVE  cfg' = cfg
  BY <1>2 DEF Emit, EmitRejected, EmitCompleted, RetainIt, LetGo
<1>3. \A t, e : Finishes(t, e) => cfg' = cfg
  BY DEF Finishes
<1>4. EditTtl \/ Destroy \/ Restart \/ Rests => cfg' = cfg
  BY DEF EditTtl, Destroy, Restart, Rests
<1>5. QED
  BY <1>1, <1>2, <1>3, <1>4, Kinds DEF More

\* Then an event that is emitted is new.
LEMMA EmitsAfresh ==
    ASSUME EmittedOnce, Afresh, NEW e \in Event, MayEmit(e)
    PROVE  emits[e] = 0 /\ ~Complete(e) /\ ~Has(h, e)
<1>1. /\ Frame /\ Single /\ Listed /\ emits \in [Event -> Nat]
      /\ \A x \in Event : emits[x] <= 1
  BY DEF EmittedOnce, OnceEach, HistoryInv, BusInv, Frame, Kept, Types
<1>2. emits[e] = 0
  BY <1>1 DEF MayEmit, Afresh
<1>3. ~Complete(e)
  BY <1>1, <1>2 DEF Single, OneCopy
<1>4. ~Has(h, e)
  <2>1. \A n \in Nat : n > 0 => n # 0
    OBVIOUS
  <2>2. QED
    BY <1>1, <1>2, <2>1 DEF Listed, Has
<1>5. QED
  BY <1>2, <1>3, <1>4

\* And a task that ends completes its event.
LEMMA EndsAfresh ==
    ASSUME EmittedOnce, Afresh, NEW t \in Task, NEW e \in Event, Finishes(t, e)
    PROVE  ~Complete(e)
<1>1. Claims(t, e)
  BY DEF Finishes, Claims
<1>2. OneCopy(e)
  BY DEF EmittedOnce, OnceEach, HistoryInv, BusInv, Kept, Single
<1>3. QED
  BY <1>1, <1>2 DEF OneCopy

\* Too long a history lets go only of events that are complete, retained by nobody
\* and without a child in what is left, so that of what is kept no ancestor is lost:
\* whoever emits, and whatever is emitted again.  Only the event that comes in may
\* find that its parent is gone, which may be complete already.
THEOREM OnlyTheSpentGo == Spec => EvictsOnlySpent
<1> DEFINE Spends ==
      h.ttl = None /\ cfg.policy.size # 0 /\ ~destroyed' =>
        \A e \in Evicted :
            /\ done'[e] # None /\ h.retained[e] = 0
            /\ \A c \in Children(h'.list, e) : emits'[c] # emits[c]
<1>1. HistoryInv /\ [Next]_vars => Spends
  <2> SUFFICES ASSUME HistoryInv, [Next]_vars,
                      h.ttl = None, cfg.policy.size # 0, ~destroyed',
                      NEW x \in Evicted
               PROVE  /\ done'[x] # None /\ h.retained[x] = 0
                      /\ \A c \in Children(h'.list, x) : emits'[c] # emits[c]
    OBVIOUS
  <2> DEFINE Spent1 == /\ done'[x] # None /\ h.retained[x] = 0
                       /\ \A c \in Children(h'.list, x) : emits'[c] # emits[c]
  <2>1. Frame /\ Types /\ Keeps /\ More /\ emits \in [Event -> Nat]
    BY DEF HistoryInv, BusInv, Frame, Types
  <2>2. x \in Range(h.list) \ Range(h'.list)
    BY DEF Evicted
  <2>3. ASSUME NEW e \in Event, Emit(e) \/ EmitCompleted(e) PROVE Spent1
    <3>1. done[x] # None /\ h.retained[x] = 0 /\ Children(h'.list, x) \subseteq {e}
      BY <2>1, <2>2, <2>3, EmitDoes, EmitCompletedDoes DEF GoneFor
    <3>2. done' = done /\ emits' = [emits EXCEPT ![e] = @ + 1]
      BY <2>3 DEF Emit, EmitCompleted
    <3>3. emits'[e] # emits[e]
      BY <2>1, <3>2
    <3>4. QED
      BY <3>1, <3>2, <3>3
  <2>4. ASSUME NEW e \in Event, EmitRejected(e) PROVE Spent1
    <3>1. GoneWell(h, done, h'.list)
      BY <2>1, <2>4, EmitRejectedDoes
    <3>2. done' = done
      BY <2>4 DEF EmitRejected
    <3>3. QED
      BY <2>2, <3>1, <3>2 DEF GoneWell
  <2>5. ASSUME NEW t \in Task, NEW e \in Event, Finishes(t, e) PROVE Spent1
    <3>1. GoneWell(h, done', h'.list)
      BY <2>1, <2>5, FinishDoes
    <3>2. QED
      BY <2>2, <3>1 DEF GoneWell
  <2>6. CASE EditTtl \/ \E e \in Event : RetainIt(e) \/ LetGo(e)
    BY <2>1, <2>2, <2>6, EditDoes
  <2>7. CASE Destroy
    BY <2>7 DEF Destroy
  <2>8. CASE Restart
    BY <2>1, <2>2, <2>8, RestartDoes
  <2>9. CASE Rests
    BY <2>2, <2>9 DEF Rests
  <2>10. QED
    BY <2>1, <2>3, <2>4, <2>5, <2>6, <2>7, <2>8, <2>9, Kinds DEF More
<1>2. QED
  BY <1>1, HistoryInvariant, PTL DEF Spec, EvictsOnlySpent

\* The more events a history has, the more of them are in a line of descent.
LEMMA FewerMatch ==
    ASSUME NEW k, NEW g, Range(g.list) \subseteq Range(k.list), NEW p, NEW e, Matches(g, p, e)
    PROVE  Matches(k, p, e)
BY DEF Matches, ChildOf

\* An event that comes in and was not emitted before puts no other one into a line
\* of descent: who was emitted had a parent that was, or none on this bus.
LEMMA NoNewChild ==
    ASSUME ParentsFirst, Listed, Range(h.list) \subseteq Event,
           NEW k, NEW e \in Event \cap cfg.events, ~(emits[e] > 0), Range(k.list) \subseteq Range(h.list) \cup {e},
           NEW p, NEW x \in Range(h.list), Matches(k, p, x)
    PROVE  Matches(h, p, x)
<1> DEFINE a == p.child_of
<1>1. SUFFICES ASSUME ~ChildOf(h, x, a), ChildOf(k, x, a) PROVE FALSE
  BY DEF Matches
<1>2. PICK up \in SUBSET (Event \cup {None}) :
        /\ Parent[x] \in up /\ a \notin up
        /\ \A q \in up \cap Range(h.list) : Parent[q] \in up
  BY <1>1 DEF ChildOf
<1> DEFINE old == {q \in up : q \notin cfg.events \/ emits[q] > 0}
<1>3. \A q \in Event : emits[q] > 0 => Parent[q] \notin cfg.events \/ emits[Parent[q]] > 0
  BY DEF ParentsFirst
<1>4. Parent[x] \in old
  BY <1>2, <1>3 DEF Listed
<1>5. ASSUME NEW q \in old \cap Range(k.list) PROVE Parent[q] \in old
  <2>1. q \in Event
    BY <1>5
  <2>2. q # e
    BY <1>5
  <2>3. q \in Range(h.list) /\ emits[q] > 0
    BY <1>5, <2>1, <2>2 DEF Listed
  <2>4. QED
    BY <1>2, <1>3, <1>5, <2>1, <2>3
<1>6. old \in SUBSET (Event \cup {None}) /\ a \notin old
  BY <1>2
<1>7. QED
  BY <1>1, <1>4, <1>5, <1>6 DEF ChildOf

\* Who waits in find() has missed nothing, of what is found by its type or by a line
\* of descent: what comes in is matched against those who wait, and makes no other
\* event a match.  An event emitted again may close a gap in a line.
THEOREM WaitersMissNothing == Spec /\ Afresh => []FindMissesNothing
<1> DEFINE Inv == EmittedOnce /\ Afresh /\ FindMissesNothing
<1>1. ASSUME EmittedOnce, Afresh, FindMissesNothing, [Next]_vars PROVE FindMissesNothing'
  <2> SUFFICES ASSUME NEW f \in Finder, finder'[f] = "waiting"
               PROVE  ~destroyed' /\ Past(h', Pattern[f]) = <<>>
    BY DEF FindMissesNothing
  <2>1. Frame /\ Types /\ Keeps /\ More /\ Listed /\ ParentsFirst
    BY <1>1 DEF EmittedOnce, HistoryInv, BusInv, Frame
  <2>2. Keeps'
    BY <2>1, <1>1, KeepsKept
  <2>3. /\ h \in History /\ h.list \in Seq(Event) /\ h' \in History
        /\ \A x \in Range(h.list) : x \in Event
    <3>1. h \in History /\ h.list \in Seq(Event) /\ h' \in History
      BY <2>1, <2>2 DEF Keeps, History
    <3>2. QED
      BY <3>1, RangeIndex
  <2>4. finder[f] = "waiting" =>
           ~destroyed /\ \A x \in Range(h.list) : ~Matches(h, Pattern[f], x)
    BY <1>1, <2>3, PastOf DEF FindMissesNothing
  <2>5. (\A x \in Range(h'.list) : ~Matches(h', Pattern[f], x)) => Past(h', Pattern[f]) = <<>>
    BY <2>3, PastOf
  <2>6. ASSUME NEW e \in Event, Emit(e)
        PROVE  ~destroyed' /\ Past(h', Pattern[f]) = <<>>
    <3> DEFINE new == Add(MadeRoom, e)
    <3>1. /\ ~destroyed' /\ ~destroyed /\ MayEmit(e) /\ finder' = Found(new, e)
          /\ h' = Trim(cfg.policy, new, done, FALSE, now)
      BY <2>6 DEF Emit
    <3>2. finder[f] = "waiting" /\ ~Matches(new, Pattern[f], e)
      <4>1. e # "waiting"
        BY BusAssumption
      <4>2. QED
        BY <2>1, <3>1, <4>1 DEF Found, More
    <3>3. Slimmer(h, MadeRoom)
      BY <2>1, <3>1, MadeRoomDoes
    <3>4. Range(new.list) = Range(MadeRoom.list) \cup {e}
      <4>1. PICK m : m = MadeRoom
        OBVIOUS
      <4>2. m \in History /\ Distinct(m.list)
        BY <3>3, <4>1 DEF Slimmer
      <4>3. Range(Add(m, e).list) = Range(m.list) \cup {e}
        BY <4>2, AddDoes
      <4>4. QED
        BY <4>1, <4>3
    <3>5. Range(new.list) \subseteq Range(h.list) \cup {e}
      BY <3>3, <3>4 DEF Slimmer
    <3>6. ~(emits[e] > 0) /\ e \in Event \cap cfg.events
      BY <1>1, <3>1, EmitsAfresh DEF MayEmit
    <3> HIDE DEF new
    <3>7. Range(h'.list) \subseteq Range(new.list)
      BY <2>1, <2>6, EmitDoes DEF new
    <3>8. ASSUME NEW x \in Range(h'.list), Matches(h', Pattern[f], x) PROVE FALSE
      <4>1. Matches(new, Pattern[f], x)
        BY <3>7, <3>8, FewerMatch
      <4>2. CASE x = e
        BY <3>2, <4>1, <4>2
      <4>3. CASE x # e
        <5>1. x \in Range(h.list) /\ Range(h.list) \subseteq Event
          BY <2>3, <3>5, <3>7, <4>3
        <5>2. Matches(h, Pattern[f], x)
          BY <2>1, <3>5, <3>6, <4>1, <5>1, NoNewChild
        <5>3. QED
          BY <2>4, <3>2, <5>1, <5>2
      <4>4. QED
        BY <4>2, <4>3
    <3>9. QED
      BY <2>5, <3>1, <3>8
  <2>7. ASSUME Range(h'.list) \subseteq Range(h.list), finder[f] = "waiting", destroyed' = destroyed
        PROVE  ~destroyed' /\ Past(h', Pattern[f]) = <<>>
    BY <2>4, <2>5, <2>7, FewerMatch
  <2>8. ASSUME NEW e \in Event, EmitRejected(e)
        PROVE  ~destroyed' /\ Past(h', Pattern[f]) = <<>>
    <3>1. Range(h'.list) \subseteq Range(h.list)
      BY <2>1, <2>8, EmitRejectedDoes DEF Slimmer
    <3>2. finder' = finder /\ destroyed' = destroyed
      BY <2>8 DEF EmitRejected
    <3>3. QED
      BY <2>7, <3>1, <3>2
  <2>9. ASSUME NEW e \in Event, EmitCompleted(e) PROVE FALSE
    BY <1>1, <2>9, EmitsAfresh DEF EmitCompleted
  <2>10. ASSUME NEW t \in Task, NEW e \in Event, Finishes(t, e)
         PROVE  ~destroyed' /\ Past(h', Pattern[f]) = <<>>
    <3>1. Range(h'.list) \subseteq Range(h.list)
      BY <2>1, <2>10, FinishDoes DEF Slimmer
    <3>2. finder' = finder /\ destroyed' = destroyed
      BY <2>10 DEF Finishes
    <3>3. QED
      BY <2>7, <3>1, <3>2
  <2>11. ASSUME EditTtl \/ \E e \in Event : RetainIt(e) \/ LetGo(e)
         PROVE  ~destroyed' /\ Past(h', Pattern[f]) = <<>>
    <3>1. h'.list = h.list
      BY <2>1, <2>11, EditDoes
    <3>2. finder' = finder /\ destroyed' = destroyed
      BY <2>11 DEF EditTtl, RetainIt, LetGo
    <3>3. QED
      BY <2>7, <3>1, <3>2
  <2>12. ~Destroy /\ ~Restart
    BY DEF Destroy, Restart
  <2>13. ASSUME Rests PROVE ~destroyed' /\ Past(h', Pattern[f]) = <<>>
    <3>1. h' = h /\ destroyed' = destroyed
      BY <2>13 DEF Rests
    <3>2. CASE finder[f] = "waiting"
      BY <2>7, <3>1, <3>2
    <3>3. CASE Find(f)
      <4>1. PICK past : past = Past(h, Pattern[f])
        OBVIOUS
      <4>2. past # <<>> => Head(past) \in Event
        <5>1. past \in Seq(Event)
          BY <2>3, <4>1, PastOf
        <5>2. QED
          BY <5>1
      <4>3. ~destroyed /\ finder' = [finder EXCEPT ![f] = IF past = <<>> THEN "waiting" ELSE Head(past)]
        BY <3>3, <4>1 DEF Find
      <4>4. past = <<>>
        <5>1. "waiting" \notin Event
          BY BusAssumption
        <5>2. finder'[f] = IF past = <<>> THEN "waiting" ELSE Head(past)
          BY <2>1, <4>3 DEF More
        <5>3. QED
          BY <4>2, <5>1, <5>2
      <4>5. QED
        BY <3>1, <4>1, <4>3, <4>4
    <3>4. QED
      BY <2>13, <3>2, <3>3 DEF Rests
  <2>14. QED
    BY <1>1, <2>1, <2>6, <2>8, <2>9, <2>10, <2>11, <2>12, <2>13, Kinds DEF More
<1>2. Inv /\ [Next]_vars => Inv'
  BY <1>1, SameConfig, OnceStep DEF Afresh, InUse, EmittedOnce
<1>3. Init /\ Afresh => Inv
  <2>1. Init => \A f \in Finder : finder[f] # "waiting"
    BY DEF Init
  <2>2. QED
    BY <2>1, OnceInit DEF FindMissesNothing
<1>4. QED
  BY <1>2, <1>3, PTL DEF Spec

----------------------------------------------------------------------------
(* The size of the history.                                                *)

\* Where events may be dropped, no event is emitted again.
DropsAfresh == cfg.policy.drop /\ cfg.policy.size # 0 => Afresh

\* A history that may not drop has no more than its size.
Never ==
    cfg.policy.size # None /\ ~destroyed /\ restarts = 0 /\ cfg.policy.size > 0
    /\ ~cfg.policy.drop => Len(h.list) <= cfg.policy.size

\* One that may has, when the bus has drained, more only of what cannot be evicted.
AtLast ==
    cfg.policy.size # None /\ ~destroyed /\ restarts = 0 /\ cfg.policy.size > 0
    /\ cfg.policy.drop /\ Drained /\ pins = {} =>
        \/ Len(h.list) <= cfg.policy.size
        \/ \A e \in Range(h.list) : ~Spent(h, done, h.list, e)

\* One of size zero has no complete event.
Zero ==
    cfg.policy.size = 0 /\ ~destroyed /\ restarts = 0 =>
        \A e \in Range(h.list) : ~Complete(e)

\* They are the property.
LEMMA ThreeBounds ==
    ASSUME Keeps
    PROVE  HistoryBounded <=> Never /\ AtLast /\ Zero
BY BusAssumption DEF HistoryBounded, Never, AtLast, Zero

\* The lengths of the history, and the size.
LEMMA Lengths ==
    ASSUME Keeps
    PROVE  /\ Len(h.list) \in Nat /\ cfg.policy.size \in Nat \cup {None} /\ None \notin Nat
           /\ 0 # None
<1>1. h.list \in Seq(Event)
  BY DEF Keeps, History
<1>2. QED
  BY <1>1, PolicyOf, BusAssumption DEF Keeps

\* An emit keeps the bounds: where nothing may be dropped there was room, and the
\* bus has something to do.
LEMMA EmitBounded ==
    ASSUME EmittedOnce, DropsAfresh, Never, AtLast, Zero, NEW e \in Event,
           Emit(e) \/ EmitCompleted(e)
    PROVE  Never' /\ AtLast' /\ Zero'
<1>1. Types /\ Keeps
  BY DEF EmittedOnce, HistoryInv, BusInv, Frame
<1>2. EmitMakes(e) /\ ~destroyed /\ ~Full(cfg.policy, MadeRoom) /\ MayEmit(e)
      /\ UNCHANGED <<cfg, done, destroyed, restarts>>
  <2>1. CASE Emit(e)
    BY <1>1, <2>1, EmitDoes DEF Emit
  <2>2. CASE EmitCompleted(e)
    BY <1>1, <2>2, EmitCompletedDoes DEF EmitCompleted
  <2>3. QED
    BY <2>1, <2>2
<1>3. Never'
  <2> SUFFICES ASSUME cfg.policy.size # None, cfg.policy.size > 0, ~cfg.policy.drop
               PROVE  Len(h'.list) <= cfg.policy.size
    BY <1>2 DEF Never
  <2>1. PICK n : n = Len(MadeRoom.list)
    OBVIOUS
  <2>2. n \in Nat
    <3>1. MadeRoom.list \in Seq(Event)
      BY <1>1, <1>2, MadeRoomDoes DEF Slimmer, History
    <3>2. QED
      BY <2>1, <3>1
  <2>3. Len(h'.list) \in Nat
    <3>1. h'.list \in Seq(Event)
      BY <1>2 DEF EmitMakes, Keeps, History
    <3>2. QED
      BY <3>1
  <2>4. cfg.policy.size \in Nat
    BY <1>1, Lengths
  <2>5. ~(n >= cfg.policy.size) /\ Len(h'.list) <= n + 1
    BY <1>2, <2>1 DEF Full, EmitMakes
  <2>6. QED
    BY <2>2, <2>3, <2>4, <2>5
<1>4. AtLast'
  <2>1. ASSUME cfg.policy.drop, cfg.policy.size # None, cfg.policy.size > 0, Drained' PROVE FALSE
    <3>1. Afresh
      BY <1>1, <2>1, Lengths DEF DropsAfresh
    <3>2. Emit(e)
      BY <1>2, <3>1, EmitsAfresh DEF EmitCompleted
    <3>3. queue' = Append(queue, e) /\ queue \in Seq(Event)
      BY <1>1, <3>2 DEF Emit, Types
    <3>4. queue' # <<>>
      BY <3>3
    <3>5. QED
      BY <2>1, <3>4 DEF Drained
  <2>2. QED
    BY <1>2, <2>1 DEF AtLast
<1>5. Zero'
  BY <1>2 DEF Zero, EmitMakes, Complete
<1>6. QED
  BY <1>3, <1>4, <1>5

\* So does a rejected one, in a history that may not drop.
LEMMA RejectBounded ==
    ASSUME Types, Keeps, Never, AtLast, Zero, NEW e \in Event, EmitRejected(e)
    PROVE  Never' /\ AtLast' /\ Zero'
<1>1. /\ Keeps' /\ Slimmer(h, h') /\ Full(cfg.policy, h') /\ ~destroyed
      /\ UNCHANGED <<cfg, done, destroyed, restarts>>
  BY EmitRejectedDoes DEF EmitRejected
<1>2. cfg.policy.size \in Nat /\ cfg.policy.size > 0 /\ ~cfg.policy.drop /\ cfg.policy.size # 0
  BY <1>1, Lengths DEF Full
<1>3. Len(h.list) \in Nat /\ Len(h'.list) \in Nat /\ Len(h'.list) <= Len(h.list)
  <2>1. h'.list \in Seq(Event)
    BY <1>1 DEF Keeps, History
  <2>2. QED
    BY <1>1, <2>1, Lengths DEF Slimmer
<1>4. Len(h.list) <= cfg.policy.size /\ restarts = 0 => Len(h'.list) <= cfg.policy.size
  BY <1>2, <1>3
<1>5. QED
  BY <1>1, <1>2, <1>4, BusAssumption DEF Never, AtLast, Zero

\* So does the end of a task: the last one trims what is left.
LEMMA EndBounded ==
    ASSUME EmittedOnce, DropsAfresh, Never, AtLast, Zero,
           NEW t \in Task, NEW e \in Event, Finishes(t, e)
    PROVE  Never' /\ AtLast' /\ Zero'
<1>1. Types /\ Keeps
  BY DEF EmittedOnce, HistoryInv, BusInv, Frame
<1>2. /\ Keeps' /\ Slimmer(h, h')
      /\ Complete(e) => h' = h /\ done' = done
      /\ ~Complete(e) =>
            /\ cfg.policy.size = 0 => \A x \in Range(h'.list) : done'[x] = None
            /\ cfg.policy.size \notin {None, 0} /\ cfg.policy.drop
               /\ queue' = <<>> /\ inflight' = {} =>
                   \/ Len(h'.list) <= cfg.policy.size
                   \/ \A x \in Range(h'.list) : ~Spent(h', done', h'.list, x)
  BY <1>1, FinishDoes
<1>3. UNCHANGED <<cfg, queue, destroyed, restarts, pins>>
  BY DEF Finishes
<1>4. Never'
  <2>1. Len(h.list) \in Nat /\ Len(h'.list) \in Nat /\ Len(h'.list) <= Len(h.list)
    <3>1. h'.list \in Seq(Event)
      BY <1>2 DEF Keeps, History
    <3>2. QED
      BY <1>1, <1>2, <3>1, Lengths DEF Slimmer
  <2>2. cfg.policy.size # None => cfg.policy.size \in Nat
    BY <1>1, Lengths
  <2>3. cfg.policy.size # None /\ Len(h.list) <= cfg.policy.size => Len(h'.list) <= cfg.policy.size
    BY <2>1, <2>2
  <2>4. QED
    BY <1>3, <2>3 DEF Never
<1>5. AtLast'
  <2>1. ASSUME cfg.policy.drop, cfg.policy.size # None, cfg.policy.size > 0
        PROVE  ~Complete(e) /\ cfg.policy.size \notin {None, 0}
    <3>1. cfg.policy.size \notin {None, 0}
      BY <1>1, <2>1, Lengths
    <3>2. QED
      BY <2>1, <3>1, EndsAfresh DEF DropsAfresh
  <2>2. QED
    BY <1>2, <1>3, <2>1 DEF AtLast, Drained
<1>6. Zero'
  BY <1>2, <1>3 DEF Zero, Complete
<1>7. QED
  BY <1>4, <1>5, <1>6

\* A bus that has drained without the history being touched had drained before.
LEMMA WasDrained ==
    ASSUME EmittedOnce, Afresh, restarts = 0, ~destroyed, inflight = {}
    PROVE  queue = <<>>
<1>1. SUFFICES ASSUME queue # <<>> PROVE FALSE
  OBVIOUS
<1>2. /\ Types /\ Single /\ Flying /\ queue \in Seq(Event) /\ emits \in [Event -> Nat]
      /\ \A x \in Event : emits[x] <= 1
  BY DEF EmittedOnce, OnceEach, HistoryInv, BusInv, Frame, Kept, Types
<1>3. Head(queue) \in Range(queue)
  <2>1. Len(queue) \in Nat /\ 1 \in 1 .. Len(queue) /\ Head(queue) = queue[1]
    BY <1>1, <1>2
  <2>2. QED
    BY <1>2, <2>1, RangeIndex
<1>4. Head(queue) \in Event /\ emits[Head(queue)] > 0
  BY <1>2, <1>3, QueuedWasEmitted
<1>5. ~Complete(Head(queue))
  BY <1>2, <1>3, <1>4 DEF Single, OneCopy
<1>6. QED
  BY <1>2, <1>4, <1>5 DEF Flying

\* A history that may not drop never has more than its size; one that may has more,
\* once the bus has drained, only of what cannot be evicted; and one of size zero
\* has nothing that is complete.  So every completion and addition is counted in the
\* changes, and the last one trims, if no event is emitted again: the second end of
\* such an event may be the last step of the bus and trims nothing.
THEOREM HistoryIsBounded == Spec /\ DropsAfresh => []HistoryBounded
<1> DEFINE Bounds == Never /\ AtLast /\ Zero
           Inv == EmittedOnce /\ DropsAfresh /\ Bounds
<1>1. ASSUME EmittedOnce, DropsAfresh, Never, AtLast, Zero, [Next]_vars PROVE Bounds'
  <2>1. Frame /\ Types /\ Keeps /\ More
    BY <1>1 DEF EmittedOnce, HistoryInv, BusInv, Frame
  <2>2. ASSUME NEW e \in Event, Emit(e) \/ EmitRejected(e) \/ EmitCompleted(e) PROVE Bounds'
    BY <1>1, <2>1, <2>2, EmitBounded, RejectBounded
  <2>3. ASSUME NEW t \in Task, NEW e \in Event, Finishes(t, e) PROVE Bounds'
    BY <1>1, <2>3, EndBounded
  <2>4. ASSUME EditTtl \/ \E e \in Event : RetainIt(e) \/ LetGo(e) PROVE Bounds'
    <3>1. /\ h'.list = h.list /\ UNCHANGED <<done, inflight, queue>>
      BY <2>1, <2>4, EditDoes
    <3>2. UNCHANGED <<cfg, destroyed, restarts>>
      BY <2>4 DEF EditTtl, RetainIt, LetGo
    <3>3. Never' /\ Zero'
      BY <1>1, <3>1, <3>2 DEF Never, Zero, Complete
    <3>4. AtLast'
      <4>1. CASE \E e \in Event : LetGo(e)
        BY <4>1 DEF LetGo, AtLast
      <4>2. CASE EditTtl
        <5>1. pins' = pins /\ h'.retained = h.retained
          BY <2>1, <4>2 DEF EditTtl, Keeps, History
        <5>2. QED
          BY <1>1, <3>1, <3>2, <5>1 DEF AtLast, Spent, Drained
      <4>3. ASSUME NEW e \in Event, RetainIt(e) PROVE AtLast'
        <5>1. pins' = pins /\ h' = Retain(h, e) /\ h.retained \in [Event -> Nat]
          BY <2>1, <4>3 DEF RetainIt, Keeps, History
        <5>2. h'.retained = [h.retained EXCEPT ![e] = @ + 1]
          BY <2>1, <5>1 DEF Retain, Keeps, History
        <5>3. \A x \in Event : h'.retained[x] = 0 => h.retained[x] = 0
          BY <5>1, <5>2
        <5>4. \A x \in Range(h.list) : x \in Event
          <6>1. h.list \in Seq(Event)
            BY <2>1 DEF Keeps, History
          <6>2. QED
            BY <6>1, RangeIndex
        <5>5. QED
          BY <1>1, <3>1, <3>2, <5>1, <5>3, <5>4 DEF AtLast, Spent, Drained
      <4>4. QED
        BY <2>4, <4>1, <4>2, <4>3
    <3>5. QED
      BY <3>3, <3>4
  <2>5. CASE Destroy
    BY <2>5 DEF Destroy, Never, AtLast, Zero
  <2>6. CASE Restart
    <3>1. restarts' # 0
      BY <2>1, <2>6 DEF Restart, Types
    <3>2. QED
      BY <3>1 DEF Never, AtLast, Zero
  <2>7. CASE Rests
    <3>1. UNCHANGED <<cfg, h, done, inflight, destroyed, restarts, pins>>
      BY <2>7 DEF Rests
    <3>2. ASSUME cfg.policy.drop, cfg.policy.size # None, cfg.policy.size > 0,
                 restarts = 0, ~destroyed, Drained'
          PROVE  Drained
      <4>1. Afresh
        BY <1>1, <2>1, <3>2, Lengths DEF DropsAfresh
      <4>2. inflight = {}
        BY <3>1, <3>2 DEF Drained
      <4>3. QED
        BY <1>1, <3>2, <4>1, <4>2, WasDrained DEF Drained
    <3>3. AtLast'
      BY <1>1, <3>1, <3>2 DEF AtLast
    <3>4. QED
      BY <1>1, <3>1, <3>3 DEF Never, Zero, Complete
  <2>8. QED
    BY <1>1, <2>1, <2>2, <2>3, <2>4, <2>5, <2>6, <2>7, Kinds DEF More
<1>2. Inv /\ [Next]_vars => Inv'
  BY <1>1, SameConfig, OnceStep DEF DropsAfresh, Afresh, InUse
<1>3. Init /\ DropsAfresh => Inv
  <2> SUFFICES ASSUME Init, DropsAfresh PROVE Bounds
    BY OnceInit
  <2>1. h.list = <<>> /\ Keeps
    BY OnceInit DEF Init, EmptyHistory, EmittedOnce, HistoryInv
  <2>2. Len(h.list) = 0 /\ Range(h.list) = {}
    BY <2>1, NothingInIt
  <2>3. QED
    BY <2>1, <2>2, Lengths DEF Never, AtLast, Zero
<1>4. Inv => HistoryBounded
  BY ThreeBounds DEF EmittedOnce, HistoryInv
<1>5. QED
  BY <1>2, <1>3, <1>4, PTL DEF Spec
=============================================================================
