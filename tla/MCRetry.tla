------------------------------ MODULE MCRetry ------------------------------
(* Three calls, two of them of one receiver, and a limit of one.            *)
EXTENDS Retry, TLC

CONSTANTS c1, c2, c3, o1, o2, Thing

ThreeCalls == {c1, c2, c3}
TwoSelves == {o1, o2}
Receivers == (c1 :> o1 @@ c2 :> o1 @@ c3 :> o2)
OneClass == (o1 :> Thing @@ o2 :> Thing)

Arguments(scope, semaphore_timeout, timeout, lax, max_attempts, kinds, places) ==
    [scope |-> scope, semaphore_timeout |-> semaphore_timeout, timeout |-> timeout,
     lax |-> lax, max_attempts |-> max_attempts, kinds |-> kinds, places |-> places]

AcrossProcesses ==
    Arguments("multiprocess", None, 0, FALSE, 1, {"async"}, {})

\* Every kind of call without timeouts, made in contexts of every kind;
\* retries and strict timeouts; lax timeouts derived from timeout; slot files.
EveryUse == {
    Arguments("global", None, None, TRUE, 1, Kinds, {"copy", "inline"}),
    Arguments("instance", 1, None, FALSE, 2, {"async", "thread"}, {"inline"}),
    Arguments("class", None, 1, TRUE, 1, {"block", "thread"}, {}),
    Arguments("multiprocess", 1, 1, TRUE, 1, {"async"}, {}),
    AcrossProcesses }

StrictFiles == {AcrossProcesses}
=============================================================================
