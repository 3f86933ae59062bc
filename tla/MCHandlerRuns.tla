--------------------------- MODULE MCHandlerRuns ---------------------------
(* An event on two buses, two handlers on the first and one on the second.  *)
EXTENDS HandlerRuns, TLC

CONSTANTS A, B, h1, h2, g1

TwoBus == {A, B}
ThreeHandler == {h1, h2, g1}
For == (A :> {h1, h2} @@ B :> {g1})
Order == (h1 :> 1 @@ h2 :> 2 @@ g1 :> 3)
Timeouts == {h2, g1}
\* The first bus has every mode; the second is serial, with a deadline or not.
\* Where the runs of the first are parallel, one of the two has a deadline, or
\* neither.
SomeMode ==
    {m \in [TwoBus -> SUBSET {"parallel", "first", "deadline"}] :
        /\ m[B] \subseteq {"deadline"}
        /\ m[B] = {"deadline"} => ~({"parallel", "deadline"} \subseteq m[A])}

\* The first bus runs its handlers one after the other under a deadline.
DeadlineOnly == {(A :> {"deadline"} @@ B :> {})}
=============================================================================
