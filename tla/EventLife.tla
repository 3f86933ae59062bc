----------------------------- MODULE EventLife ------------------------------
(***************************************************************************)
(* What the buses together promise of an event, whatever queues, locks and *)
(* tasks there are: each handler has one result that only goes forward, an *)
(* event is finished once, and only when nothing of it is open: no result, *)
(* and no child that one of its handlers awaited.                          *)
(***************************************************************************)
CONSTANTS Event, Handler

VARIABLES
    result,    \* of each handler: "none", "pending", "started" or settled
    finished,  \* whoever waits for the event has been told
    awaited    \* <<event, child>>: a handler of the event awaits the child

vars == <<result, finished, awaited>>

Settled == {"completed", "error"}

Init ==
    /\ result = [e \in Event |-> [h \in Handler |-> "none"]]
    /\ finished = [e \in Event |-> FALSE]
    /\ awaited = {}

\* Handlers are chosen for the event; of those chosen before none has begun.
Choose(e, hs) ==
    /\ ~finished[e]
    /\ \A h \in hs : result[e][h] \in {"none", "pending"}
    /\ result' = [result EXCEPT ![e] = [h \in Handler |-> IF h \in hs THEN "pending" ELSE @[h]]]
    /\ UNCHANGED <<finished, awaited>>

Begin(e, h) ==
    /\ ~finished[e] /\ result[e][h] = "pending"
    /\ result' = [result EXCEPT ![e][h] = "started"]
    /\ UNCHANGED <<finished, awaited>>

Await(e, c) ==
    /\ ~finished[e] /\ \E h \in Handler : result[e][h] = "started"
    /\ awaited' = awaited \cup {<<e, c>>}
    /\ UNCHANGED <<result, finished>>

Settle(e, h) ==
    /\ ~finished[e] /\ result[e][h] = "started"
    /\ \E r \in Settled : result' = [result EXCEPT ![e][h] = r]
    /\ UNCHANGED <<finished, awaited>>

\* An event and those below it may be finished in one go.
Finish(S) ==
    /\ \A e \in S :
         /\ \A h \in Handler : result[e][h] \in {"none"} \cup Settled
         /\ \A c \in Event : <<e, c>> \in awaited => finished[c] \/ c \in S
    /\ finished' = [e \in Event |-> e \in S \/ finished[e]]
    /\ UNCHANGED <<result, awaited>>

Next ==
    \/ \E e \in Event, hs \in SUBSET Handler : Choose(e, hs)
    \/ \E e \in Event, h \in Handler : Begin(e, h) \/ Settle(e, h)
    \/ \E e, c \in Event : Await(e, c)
    \/ \E S \in SUBSET Event : Finish(S)

Spec == Init /\ [][Next]_vars
=============================================================================
