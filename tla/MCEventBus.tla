---------------------------- MODULE MCEventBus ----------------------------
(* Instances of EventBus.                                                  *)
EXTENDS EventBus, TLC

CONSTANTS A, B, C, p, c, q, d, hp, hc, hq, hf, hb, hB, j1, j2, L1, L2

\* One bus: p's handler emits and awaits the child c, q is unrelated.
OneBus == {A}
FamilyEvent == {p, c, q}
FamilyHandler == {hp, hc, hq}
FamilyFor == [b \in OneBus |-> (p :> {hp} @@ c :> {hc} @@ q :> {hq})]
FamilyRank == (hp :> 1 @@ hc :> 1 @@ hq :> 1)
FamilyTarget == [h \in FamilyHandler |-> NoBus]
FamilyLock == {L1}
FamilyLockOf == [b \in OneBus |-> L1]
FamilyRoot == (A :> {p, q})
FamilyEmits == (hp :> {c} @@ hc :> {} @@ hq :> {})

\* One bus: p's handler emits c and q, or c's handler emits q; d is unrelated.
TreeEvent == {p, c, q, d}
TreeHandler == {hp, hc, hq, hB}
TreeFor == (A :> (p :> {hp} @@ c :> {hc} @@ q :> {hq} @@ d :> {hB}))
TreeRank == [h \in TreeHandler |-> 1]
TreeTarget == [h \in TreeHandler |-> NoBus]
TreeLock == {L1}
TreeLockOf == [b \in OneBus |-> L1]
TreeRoot == (A :> {p, d})
TreeEmits == (hp :> {c, q} @@ hc :> {q} @@ hq :> {} @@ hB :> {})

\* Two buses: A forwards p to B, B forwards it back; both handle it.
TwoBus == {A, B}
ForwardEvent == {p, q}
ForwardHandler == {hp, hf, hB, hb}
ForwardFor == (A :> (p :> {hp, hf} @@ q :> {}) @@ B :> (p :> {hB, hb} @@ q :> {hB}))
ForwardRank == (hf :> 1 @@ hp :> 2 @@ hb :> 1 @@ hB :> 2)
ForwardTarget == (hf :> B @@ hp :> NoBus @@ hb :> A @@ hB :> NoBus)
ForwardLock == {L1, L2}
OwnLock == (A :> L1 @@ B :> L2)
SharedLock == (A :> L1 @@ B :> L1)
ForwardRoot == [b \in TwoBus |-> {p, q}]
ForwardEmits == [h \in ForwardHandler |-> {}]
\* Two buses: B handles p and forwards it to A, whose own events may keep it
\* waiting; p's handler on B emits the child c.
RelayEvent == {p, c, q}
RelayHandler == {hp, hf, hc, hq, hB}
RelayFor == (A :> (p :> {hB} @@ c :> {} @@ q :> {hq}) @@ B :> (p :> {hp, hf} @@ c :> {hc} @@ q :> {}))
RelayRank == [h \in RelayHandler |-> IF h = hf THEN 2 ELSE 1]
RelayTarget == [h \in RelayHandler |-> IF h = hf THEN A ELSE NoBus]
RelayRoot == (A :> {q} @@ B :> {p})
RelayEmits == [h \in RelayHandler |-> IF h = hp THEN {c} ELSE {}]
RelayLock == {L1, L2}

\* Two buses: p is handled on A and q on B; the children their handlers emit are
\* forwarded to the other bus, c from A to B and d from B to A, and handled there.
CrossEvent == {p, c, q, d}
CrossHandler == {hp, hf, hc, hq, hb, hB}
CrossFor == (A :> (p :> {hp} @@ q :> {} @@ c :> {hf, hc} @@ d :> {hc})
          @@ B :> (p :> {} @@ q :> {hq} @@ c :> {hB} @@ d :> {hb}))
CrossRank == [h \in CrossHandler |-> IF h = hc THEN 2 ELSE 1]
CrossTarget == [h \in CrossHandler |-> IF h = hf THEN B ELSE IF h = hb THEN A ELSE NoBus]
CrossRoot == (A :> {p} @@ B :> {q})
CrossEmits == [h \in CrossHandler |-> IF h = hp THEN {c} ELSE IF h = hq THEN {d} ELSE {}]
CrossLock == {L1, L2}

\* Three buses with one lock: p's handler on A emits c and d, which A forwards to
\* B and to C; both handle them.  B has q to handle too.
FanBus == {A, B, C}
FanFor == (A :> (p :> {hp} @@ c :> {hf} @@ d :> {hb} @@ q :> {})
         @@ B :> (p :> {} @@ c :> {hB} @@ d :> {} @@ q :> {hq})
         @@ C :> (p :> {} @@ c :> {} @@ d :> {hc} @@ q :> {}))
FanTarget == [h \in CrossHandler |-> IF h = hf THEN B ELSE IF h = hb THEN C ELSE NoBus]
FanLockOf == [b \in FanBus |-> L1]
FanRoot == (A :> {p} @@ B :> {q} @@ C :> {})
FanEmits == [h \in CrossHandler |-> IF h = hp THEN {c, d} ELSE {}]

OneJumper == {j1}
TwoJumper == {j1, j2}
=============================================================================
