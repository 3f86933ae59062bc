----------------------------- MODULE MCBusLife -----------------------------
(* Three events, the first the parent of the second.                        *)
EXTENDS BusLife, TLC

CONSTANTS e1, e2, e3, f1, f2, w1

ThreeEvents == {e1, e2, e3}
Parents == (e1 :> None @@ e2 :> e1 @@ e3 :> None)
Patterns ==
    (f1 :> [types |-> {e2, e3}, child_of |-> e1] @@ f2 :> [types |-> {e2, e3}, child_of |-> None])

Bus(size, drop, ttl, resultTtl, events, parallel, uses) ==
    [policy |-> [size |-> size, drop |-> drop], ttl |-> ttl, resultTtl |-> resultTtl,
     events |-> events, parallel |-> parallel, uses |-> uses]

\* Who gets an event; who waits for the bus, which is destroyed or restored;
\* what a history keeps; what time does to it.
EveryLife == {
    Bus(None, FALSE, None, None, {e1, e2, e3}, {e3}, {"step"}),
    Bus(None, FALSE, None, None, {e1, e3}, {e3}, {"idle", "step", "hooks"}),
    Bus(None, FALSE, None, None, {e1, e3}, {e3}, {"idle", "destroy", "clear"}),
    Bus(None, FALSE, None, None, {e2, e3}, {}, {"idle", "destroy", "step"}),
    Bus(None, FALSE, None, None, {e1, e3}, {e3}, {"idle", "restart"}),
    Bus(None, FALSE, None, None, {e3}, {}, {"idle", "restart", "step", "again"}),
    Bus(1, TRUE, None, None, {e1, e2, e3}, {}, {"retain"}),
    Bus(1, TRUE, None, None, {e1, e2, e3}, {}, {"find"}),
    Bus(2, FALSE, None, None, {e1, e2, e3}, {}, {"find", "destroy"}),
    Bus(0, TRUE, None, None, {e1, e2}, {}, {"find", "again"}),
    Bus(None, FALSE, None, 1, {e1, e3}, {}, {"ttl", "again"}),
    Bus(None, FALSE, 0, None, {e1, e3}, {}, {"ttl", "again"}) }
=============================================================================
