----------------------------- MODULE MCBridge ------------------------------
(* Two processes; the second event is older than the first, between them is *)
(* one of other software that is no event.                                  *)
EXTENDS Bridge, TLC

CONSTANTS p1, p2, m1, m2, m3

Senders == (m1 :> p1 @@ m2 :> p2 @@ m3 :> p1)
Keys == (m1 :> 3 @@ m2 :> 1 @@ m3 :> 2)
Fields == (m1 :> {"event_a"} @@ m2 :> {"event_a"} @@ m3 :> {})

With(media, emits, closers, starters, mortals) ==
    [medium : media, emits : {emits}, closers : {closers}, starters : {starters},
     mortals : {mortals}]

TheConfigs ==
    \* one closes its bridge in the midst of everything, and may use it again
    With({"jsonl", "sqlite", "redis", "nats"}, Msg, {p1}, {}, {})
    \* the process that writes a line in two parts dies
    \cup With({"jsonl"}, Msg, {}, {}, {p1})
    \* the bridge of Postgres is closed while it starts and while it writes
    \cup With({"postgres"}, {m1, m3}, {p1}, {}, {})
    \* close() meets a start() that somebody else runs
    \cup With({"redis", "jsonl"}, {m1}, {p1}, {p1}, {})
=============================================================================
