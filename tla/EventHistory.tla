---------------------------- MODULE EventHistory ----------------------------
(***************************************************************************)
(* The history of a bus: which events it keeps, in the order in which they *)
(* came, what it evicts when there are too many or when their time to live *)
(* is over, and how events are found in it.  The operations are functions  *)
(* of the history h, of the time at which each event was completed (done)  *)
(* and of the time now.                                                    *)
(***************************************************************************)
EXTENDS Integers, Sequences, FiniteSets, SequencesExt

CONSTANTS
    Event,
    Parent,      \* event -> event_parent_id
    None,
    Batch        \* trimming is put off until a Batch-th of the history changed

Max1(n) == IF n > 1 THEN n ELSE 1
Moments == Nat \cup {None}

\* What a bus is made with.
Policy == [size : Nat \cup {None}, drop : BOOLEAN]

\* The deadlines are kept twice, in a table by event and in a sorted queue of
\* pairs; a pair that the table no longer confirms is skipped when it is due.
History == [list : Seq(Event), retained : [Event -> Nat], changes : Nat,
            results : SUBSET Event, ttl : Moments, resultTtl : Moments,
            signature : (Moments \X Moments) \cup {<<>>},
            deadline : [Event -> Moments], queue : SUBSET (Nat \X Event)]

EmptyHistory(ttl, resultTtl) ==
    [list |-> <<>>, retained |-> [e \in Event |-> 0], changes |-> 0, results |-> Event,
     ttl |-> ttl, resultTtl |-> resultTtl, signature |-> <<>>,
     deadline |-> [e \in Event |-> None], queue |-> {}]

\* What a sequence has of a set, in its order.  The loops over sequences are
\* recursive functions of the number of rounds.
Only(s, S) ==
    LET some[i \in 0 .. Len(s)] ==
            IF i = 0 THEN <<>>
            ELSE IF s[i] \in S THEN Append(some[i - 1], s[i]) ELSE some[i - 1]
    IN  some[Len(s)]

\* A table keeps its keys in the order in which they came first.
Entered(list, s) ==
    LET keys[i \in 0 .. Len(s)] ==
            IF i = 0 THEN list
            ELSE IF s[i] \in Range(list) \cup {s[j] : j \in 1 .. i - 1} THEN keys[i - 1]
            ELSE Append(keys[i - 1], s[i])
    IN  keys[Len(s)]

Has(h, e) == e \in Range(h.list)
Add(h, e) == IF Has(h, e) THEN h ELSE [h EXCEPT !.list = Append(@, e), !.changes = @ + 1]
Untrack(h, S) == [h EXCEPT !.deadline = [e \in Event |-> IF e \in S THEN None ELSE @[e]]]
Without(h, S) == [Untrack(h, S) EXCEPT !.list = Only(@, Event \ S)]
Children(list, e) == {c \in Range(list) : Parent[c] = e}

Retain(h, e) == [h EXCEPT !.retained[e] = @ + 1]
Unretain(h, e) == [h EXCEPT !.retained[e] = @ - 1]

----------------------------------------------------------------------------
(* Time to live.                                                           *)

\* _earliest_ttl_deadline: zero is due at once, whenever it was completed.
Deadline(h, done, e) ==
    LET ttls == {t \in {h.ttl} \cup (IF e \in h.results THEN {h.resultTtl} ELSE {}) : t # None}
    IN  IF done[e] = None \/ ttls = {} THEN None
        ELSE LET least == CHOOSE t \in ttls : \A u \in ttls : t <= u
             IN  IF least = 0 THEN 0 ELSE done[e] + least

\* _track_event_ttl_deadline, for each event of S
Track(h, done, S) ==
    LET new(e) == Deadline(h, done, e)
        moved == {e \in S : new(e) # None /\ new(e) # h.deadline[e]}
    IN  [h EXCEPT !.deadline = [e \in Event |-> IF e \in S THEN new(e) ELSE @[e]],
                  !.queue = @ \cup {<<new(e), e>> : e \in moved}]

\* Mutant: deadlines are those of the policy under which they were made.
RetrackNever(h, done) == h

\* A change of the bus's policy is noticed at the next clean-up.
Retrack(h, done) ==
    IF h.signature = <<h.ttl, h.resultTtl>> THEN h
    ELSE Track([h EXCEPT !.signature = <<h.ttl, h.resultTtl>>], done,
               {e \in Range(h.list) : done[e] # None})

Due(ttl, done, e, now) == ttl # None /\ now - done[e] >= ttl

Confirms(r, p) == r.deadline[p[2]] = p[1]

TrimTtl(h, done, now) ==
    LET r == Retrack(h, done)
        due == {p \in r.queue : p[1] <= now}
        seen == {p[2] : p \in {q \in due : Confirms(r, q)}}
        kept == {e \in seen : Has(r, e) /\ done[e] # None}
        gone == {e \in kept : Due(r.ttl, done, e, now)}
        empty == {e \in kept : e \in r.results /\ Due(r.resultTtl, done, e, now)}
        left == [Untrack(Without(r, gone), seen \ kept) EXCEPT
                    !.queue = @ \ due, !.results = @ \ empty]
    IN  Track(left, done, kept \ gone)

Expired(h, done, e, now) ==
    /\ h.ttl # None /\ done[e] # None
    /\ h.ttl = 0 \/ done[e] + h.ttl <= now

----------------------------------------------------------------------------
(* Size.                                                                   *)

\* Mutant: the ancestors of what is kept are not kept.
SpentAlone(h, done, list, e) == done[e] # None /\ h.retained[e] = 0

\* A leaf that may be evicted: completed, not retained, no child in the list.
Spent(h, done, list, e) ==
    done[e] # None /\ Children(list, e) = {} /\ h.retained[e] = 0

\* A round of trimming: unless nothing is too much or may go, the first leaf goes;
\* its parent, if that was its last child, is put behind the other leaves.
EvictFirst(policy, h, done) ==
    [s \in [list : Seq(Event), leaves : Seq(Event)] |->
        IF s.leaves = <<>> \/ Len(s.list) <= policy.size THEN s
        ELSE LET e == Head(s.leaves)
                 rest == RemoveFirst(s.list, e)
                 freed == Parent[e] \in Range(rest) /\ Spent(h, done, rest, Parent[e])
             IN  [list |-> rest,
                  leaves |-> IF freed THEN Append(Tail(s.leaves), Parent[e]) ELSE Tail(s.leaves)]]

\* The leaves go in the order of the history, until the rest is not too long.
TrimSize(policy, h, done) ==
    IF policy.size = 0
    THEN Without(h, {e \in Range(h.list) : done[e] # None})
    ELSE LET leaves == Only(h.list, {e \in Event : Spent(h, done, h.list, e)})
             evict == EvictFirst(policy, h, done)
             round[i \in 0 .. Len(h.list)] ==
                 IF i = 0 THEN [list |-> h.list, leaves |-> leaves] ELSE evict[round[i - 1]]
             list == round[Len(h.list)].list
         IN  [Untrack(h, Range(h.list) \ Range(list)) EXCEPT !.list = list]

\* Mutant: the last batch is left.
TrimDueInBatches(policy, h, drained) ==
    /\ policy.size # None
    /\ \/ policy.size = 0
       \/ /\ policy.drop /\ Len(h.list) > policy.size
          /\ h.changes >= Max1(Len(h.list) \div Batch)

\* Additions and completions are put together to batches; the last batch is
\* trimmed when the bus has nothing more to do.
TrimDue(policy, h, drained) ==
    /\ policy.size # None
    /\ \/ policy.size = 0
       \/ /\ policy.drop /\ Len(h.list) > policy.size
          /\ \/ h.changes >= Max1(Len(h.list) \div Batch)
             \/ h.changes > 0 /\ drained

TrimCount(policy, h, done, drained) ==
    IF TrimDue(policy, h, drained)
    THEN [TrimSize(policy, h, done) EXCEPT !.changes = 0] ELSE h

Trim(policy, h, done, drained, now) ==
    TrimTtl(TrimCount(policy, h, done, drained), done, now)

\* A history that may not drop anything takes no more.
Full(policy, h) ==
    policy.size # None /\ policy.size > 0 /\ ~policy.drop /\ Len(h.list) >= policy.size

\* _mark_event_complete_on_all_buses
Completed(policy, h, done, e) ==
    IF policy.size = 0 THEN Without(h, {e})
    ELSE IF Has(h, e) THEN Track(h, done, {e}) ELSE h

----------------------------------------------------------------------------
(* Finding.                                                                *)

\* event_is_child_of: up through the events that the history has; a is in
\* whatever has the parent of e and with each such event its parent.
ChildOf(h, e, a) ==
    \A up \in SUBSET (Event \cup {None}) :
        Parent[e] \in up /\ (\A p \in up \cap Range(h.list) : Parent[p] \in up) => a \in up

Matches(h, pattern, e) ==
    /\ e \in pattern.types
    /\ pattern.child_of = None \/ ChildOf(h, e, pattern.child_of)

\* The matches in the past, the last first.
Past(h, pattern) == Reverse(Only(h.list, {e \in Range(h.list) : Matches(h, pattern, e)}))
=============================================================================
