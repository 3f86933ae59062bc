---------------------------- MODULE Retry_proof ----------------------------
(***************************************************************************)
(* The semaphores of @retry: permits are conserved, given back and passed  *)
(* on to who sleeps, and a slot file is its owner's, for any calls,        *)
(* receivers, limits and arguments of the decorator.                       *)
(***************************************************************************)
EXTENDS Retry, FiniteSetTheorems, TLAPS

USE DEF wrapVars, heldVars, slotVars, slotUnchanged

\* A call that was made has a context, and so has the mark of its permit.
HasContext ==
    /\ \A c \in Calls : Made(c) => ctx[c] \in Contexts
    /\ \A c \in holders : token[c][1] \in Contexts

\* Who has a permit runs, is giving it back, or ended in another context.
HoldersPlaced ==
    \A c \in holders : pc[c] \in InBody \cup {"release", "remove", "done"}

WaitPlaces == {"poll", "enter", "wait", "woken", "late"}
FilePlaces == {"try", "write", "look", "unlink", "pause", "release", "remove"}

\* A call waits for a counter or for a slot file, as the scope says.
InPlace == \A c \in Calls : pc[c] \notin (IF Files THEN WaitPlaces ELSE FilePlaces)

\* While no process dies, no file is taken for stale, who made one and writes
\* its owner finds it as it was, and who removes one has its permit.
OwnSlot == Files /\ dead = {} =>
    \A c \in Calls :
        /\ pc[c] \in {"release", "remove"} => c \in holders
        /\ pc[c] # "unlink"
        /\ pc[c] = "write" => file[slot[c]] = [by |-> c, written |-> FALSE]

Shape == TypeOK /\ HasContext /\ HoldersPlaced /\ InPlace
IInv ==
    /\ Shape /\ OwnSlot
    /\ PermitsConserved /\ PermitReturned /\ NoSleeperForgotten /\ SlotsExclusive

----------------------------------------------------------------------------
(* Actions by what they change.                                            *)

\* A call begins in a context, with the marks that it finds there.
Begins(c) ==
    /\ pc[c] = "idle"
    /\ \E k \in Kinds, x \in Contexts, p \in Calls \cup {None}, held \in SUBSET Keys :
         Start(c, k, x, p, held)

\* Only the place of the call changes, and the number of its attempt.
Moves(c) ==
    \/ Sleep(c) \/ WaitRunsOut(c) \/ CancelWait(c) \/ NextRound(c)
    \/ FailAttempt(c) \/ NextAttempt(c) \/ Drop(c)

\* The three ways through the finally clause.
Ends(c) ==
    /\ pc[c] \in {"body", "backoff"}
    /\ active' = active - 1
    /\ UNCHANGED <<cfg, wrapVars, attempt, slotVars, token>>
EndsInVain(c) ==
    /\ Ends(c) /\ (c \in holders => token[c][1] # ctx[c])
    /\ pc' = [pc EXCEPT ![c] = "done"]
    /\ UNCHANGED <<heldIn, value, holders>>
EndsOnFile(c) ==
    /\ Ends(c) /\ Files /\ c \in holders
    /\ heldIn' = [heldIn EXCEPT ![ctx[c]] = token[c][2]]
    /\ pc' = [pc EXCEPT ![c] = "release"]
    /\ UNCHANGED <<value, holders>>
EndsOnCounter(c) ==
    /\ Ends(c) /\ ~Files /\ c \in holders /\ token[c][1] = ctx[c]
    /\ heldIn' = [heldIn EXCEPT ![ctx[c]] = token[c][2]]
    /\ holders' = holders \ {c}
    /\ Release(c, "done")

\* The function has returned something to await.
Returns(c) ==
    /\ pc[c] = "body" /\ pc' = [pc EXCEPT ![c] = "coro"]
    /\ UNCHANGED <<cfg, wrapVars, attempt, heldVars, value, holders, slotVars, active>>

SlotStep(c) ==
    TryCreate(c) \/ WriteOwner(c) \/ Look(c) \/ Unlink(c) \/ ReadToken(c) \/ RemoveFile(c)

\* A call made anywhere starts in a context, with keys of that context or none.
LEMMA CallBegins ==
    ASSUME TypeOK, HasContext, NEW c \in Calls, Call(c)
    PROVE  Begins(c)
<1>1. cfg.kinds \subseteq Kinds /\ {} \in SUBSET Keys
  BY ConfigAssumption DEF TypeOK
<1>2. \A y \in Used : y \in Contexts /\ heldIn[y] \in SUBSET Keys
  BY DEF TypeOK, HasContext, Used, Made
<1>3. CASE CallFresh(c)
  BY <1>1, <1>3, None \in Calls \cup {None} DEF CallFresh, Begins
<1>4. CASE CallCopied(c)
  BY <1>1, <1>2, <1>4, None \in Calls \cup {None} DEF CallCopied, Begins
<1>5. CASE CallInline(c)
  BY <1>1, <1>2, <1>5 DEF CallInline, Begins
<1>6. QED
  BY <1>3, <1>4, <1>5 DEF Call

\* The finally clause takes one of its three ways.
LEMMA FinishEnds ==
    ASSUME TypeOK, NEW c \in Calls, pc[c] \in {"body", "backoff"}, Finish(c),
           UNCHANGED <<cfg, wrapVars, attempt, slotVars>>
    PROVE  EndsInVain(c) \/ EndsOnFile(c) \/ EndsOnCounter(c)
<1>1. Ends(c)
  BY DEF Finish, Ends
<1>2. CASE c \in holders /\ token[c][1] = ctx[c] /\ Files
  BY <1>1, <1>2 DEF Finish, EndsOnFile
<1>3. CASE c \in holders /\ token[c][1] = ctx[c] /\ ~Files
  BY <1>1, <1>3 DEF Finish, EndsOnCounter
<1>4. CASE ~(c \in holders /\ token[c][1] = ctx[c])
  BY <1>1, <1>4 DEF Finish, EndsInVain
<1>5. QED
  BY <1>2, <1>3, <1>4

\* What a step is.
LEMMA StepKinds ==
    ASSUME TypeOK, HasContext, Next
    PROVE  \E c \in Calls :
        \/ Begins(c) \/ Acquire(c) \/ Moves(c) \/ GiveUp(c) \/ AwaitIt(c) \/ Returns(c)
        \/ EndsInVain(c) \/ EndsOnFile(c) \/ EndsOnCounter(c)
        \/ SlotStep(c) \/ Crash(c)
<1>1. PICK c \in Calls :
          \/ Call(c) \/ Wait(c) \/ Contend(c) \/ Attempt(c) \/ FailAttempt(c)
          \/ AwaitIt(c) \/ Drop(c) \/ GiveBack(c) \/ Interrupt(c)
  BY DEF Next
<1>2. CASE Call(c)
  BY <1>2, CallBegins
<1>3. CASE Wait(c) \/ Contend(c) \/ FailAttempt(c) \/ AwaitIt(c) \/ Drop(c) \/ GiveBack(c)
           \/ GiveUp(c) \/ CancelWait(c) \/ NextAttempt(c) \/ Crash(c)
  BY <1>3 DEF Wait, Contend, GiveBack, SlotStep, Moves
<1>4. CASE EndAttempt(c) \/ CancelBackoff(c)
  BY <1>4, FinishEnds DEF EndAttempt, CancelBackoff
<1>5. CASE EndPlainPart(c)
  BY <1>5, FinishEnds DEF EndPlainPart, Returns
<1>6. QED
  BY <1>1, <1>2, <1>3, <1>4, <1>5 DEF Attempt, Interrupt

----------------------------------------------------------------------------
(* Types and places.                                                       *)

\* The receiver or the class of a call is a key.
LEMMA KeyType == ASSUME TypeOK, NEW c \in Calls PROVE Key(c) \in Keys
BY CallAssumption, ConfigAssumption DEF TypeOK, Key, Keys, Classes

\* The arguments of the decorator fix the keys.
LEMMA KeyStays == ASSUME cfg' = cfg PROVE (\A c \in Calls : Key(c)' = Key(c)) /\ Files' = Files
BY DEF Key, Files

\* The search goes on at a slot, and only for this call.
LEMMA NextSlotType ==
    ASSUME TypeOK, NEW c \in Calls, NextSlot(c)
    PROVE  /\ slot' \in [Calls -> Slots]
           /\ \E q \in {"try", "pause"} : pc' = [pc EXCEPT ![c] = q]
           /\ \A d \in Calls \ {c} : slot'[d] = slot[d]
<1>1. slot[c] \in Slots /\ (slot[c] + 1 < Limit => slot[c] + 1 \in Slots) /\ 0 \in Slots
  BY LimitAssumption DEF TypeOK, Slots
<1>2. QED
  BY <1>1 DEF NextSlot, TypeOK

\* Giving a permit back wakes one waiter of the key, if there is any.
LEMMA ReleasePlaces ==
    ASSUME TypeOK, NEW c \in Calls, EndsOnCounter(c)
    PROVE  /\ pc[c] \in {"body", "backoff"} /\ pc'[c] = "done"
           /\ \/ /\ Waiters(Key(c)) = {}
                 /\ pc' = [pc EXCEPT ![c] = "done"]
              \/ \E w \in Calls : /\ pc[w] \in {"wait", "late"} /\ Key(w) = Key(c) /\ w # c
                                  /\ pc' = [pc EXCEPT ![c] = "done", ![w] = "woken"]
BY DEF EndsOnCounter, Ends, Release, Waiters, TypeOK

Places == {"idle", "poll", "enter", "wait", "woken", "late", "try", "write", "look",
           "unlink", "pause", "body", "backoff", "coro", "release", "remove", "done",
           "dropped"}

OthersWoken(c) ==
    \A d \in Calls \ {c} : pc'[d] = pc[d] \/ (pc[d] \in {"wait", "late"} /\ pc'[d] = "woken")

\* What a step of one call has to see to for the others' places to be kept; it
\* may wake others.
LEMMA PlacesKept ==
    ASSUME Shape, NEW c \in Calls, cfg' = cfg,
           OthersWoken(c),
           \A d \in Calls \ {c} :
                /\ ctx'[d] = ctx[d] /\ token'[d] = token[d]
                /\ d \in holders' => d \in holders,
           holders' \subseteq Calls,
           pc'[c] # "idle" => ctx'[c] \in Contexts,
           pc'[c] \notin (IF Files THEN WaitPlaces ELSE FilePlaces),
           c \in holders' => /\ token'[c][1] \in Contexts
                             /\ pc'[c] \in InBody \cup {"release", "remove", "done"}
    PROVE  HasContext' /\ HoldersPlaced' /\ InPlace'
<1>1. HasContext'
  <2>1. ASSUME NEW d \in Calls, pc'[d] # "idle" PROVE ctx'[d] \in Contexts
    BY <2>1 DEF Shape, HasContext, Made, OthersWoken
  <2>2. ASSUME NEW d \in holders' PROVE token'[d][1] \in Contexts
    BY <2>2 DEF Shape, HasContext
  <2>3. Contexts' = Contexts
    BY DEF Contexts
  <2>4. QED
    BY <2>1, <2>2 DEF HasContext, Made
<1>2. HoldersPlaced'
  BY DEF Shape, HoldersPlaced, InBody, OthersWoken
<1>3. InPlace'
  BY DEF Shape, InPlace, WaitPlaces, FilePlaces, Files, OthersWoken
<1>4. QED
  BY <1>1, <1>2, <1>3

\* Types, contexts and places are kept by every step.
LEMMA ShapeStep == ASSUME Shape, [Next]_vars PROVE Shape'
<1>1. CASE UNCHANGED vars
  BY <1>1 DEF vars, Shape, TypeOK, HasContext, HoldersPlaced, InPlace, Made, Files
<1> SUFFICES ASSUME Next PROVE Shape'
  BY <1>1
<1>2. PICK c \in Calls :
        \/ Begins(c) \/ Acquire(c) \/ Moves(c) \/ GiveUp(c) \/ AwaitIt(c) \/ Returns(c)
        \/ EndsInVain(c) \/ EndsOnFile(c) \/ EndsOnCounter(c)
        \/ SlotStep(c) \/ Crash(c)
  BY StepKinds DEF Shape
<1> USE DEF Shape
<1>a. Key(c) \in Keys
  BY KeyType
<1>b. pc[c] # "idle" => ctx[c] \in Contexts /\ heldIn[ctx[c]] \in SUBSET Keys
  BY DEF HasContext, Made, TypeOK
<1>3. CASE Begins(c)
  <2>1. PICK k \in Kinds, x \in Contexts, p \in Calls \cup {None}, held \in SUBSET Keys :
          pc[c] = "idle" /\ Start(c, k, x, p, held)
    BY <1>3 DEF Begins
  <2>2. PICK q \in {"body", "try", "poll", "enter"} :
          /\ pc' = [pc EXCEPT ![c] = q]
          /\ q = "try" => Files
          /\ q \in {"poll", "enter"} => ~Files
    BY <2>1 DEF Start
  <2>3. TypeOK'
    BY <2>1, <2>2 DEF Start, TypeOK
  <2>4. c \notin holders
    BY <2>1 DEF HoldersPlaced, InBody
  <2>5. HasContext' /\ HoldersPlaced' /\ InPlace'
    BY <2>1, <2>2, <2>4, PlacesKept DEF OthersWoken, Start, TypeOK, WaitPlaces, FilePlaces
  <2>6. QED
    BY <2>3, <2>5
<1>4. CASE Acquire(c)
  <2>1. pc' = [pc EXCEPT ![c] = "body"] /\ pc[c] \in {"poll", "enter", "woken", "late"}
    BY <1>4 DEF Acquire, Admitted
  <2>2. TypeOK'
    BY <1>4, <1>a, <1>b, <2>1 DEF Acquire, Admitted, TypeOK
  <2>3. HasContext' /\ HoldersPlaced' /\ InPlace'
    BY <1>4, <1>b, <2>1, PlacesKept DEF OthersWoken, Acquire, Admitted, TypeOK, InBody, WaitPlaces, FilePlaces
  <2>4. QED
    BY <2>2, <2>3
<1>5. CASE Moves(c)
  <2>1. /\ UNCHANGED <<cfg, wrapVars, heldVars, value, holders, slotVars, active>>
        /\ attempt' \in [Calls -> Nat]
    BY <1>5 DEF Moves, Sleep, WaitRunsOut, CancelWait, NextRound, FailAttempt, NextAttempt, Drop,
                TypeOK
  <2>2. PICK q \in Places : /\ pc' = [pc EXCEPT ![c] = q]
                            /\ q \in InBody <=> pc[c] \in InBody
                            /\ q \in FilePlaces => pc[c] \in FilePlaces
                            /\ q \in WaitPlaces => pc[c] \in WaitPlaces
                            /\ pc[c] \notin {"idle", "release", "remove", "done"}
    <3>1. CASE Sleep(c)
      BY <3>1 DEF Sleep, Places, InBody, FilePlaces, WaitPlaces
    <3>2. CASE WaitRunsOut(c)
      BY <3>2 DEF WaitRunsOut, Places, InBody, FilePlaces, WaitPlaces
    <3>3. CASE CancelWait(c)
      BY <3>3 DEF CancelWait, Places, InBody, FilePlaces, WaitPlaces
    <3>4. CASE NextRound(c)
      BY <3>4 DEF NextRound, Places, InBody, FilePlaces, WaitPlaces
    <3>5. CASE FailAttempt(c)
      BY <3>5 DEF FailAttempt, Places, InBody, FilePlaces, WaitPlaces
    <3>6. CASE NextAttempt(c)
      BY <3>6 DEF NextAttempt, Places, InBody, FilePlaces, WaitPlaces
    <3>7. CASE Drop(c)
      BY <3>7 DEF Drop, Places, InBody, FilePlaces, WaitPlaces
    <3>8. QED
      BY <1>5, <3>1, <3>2, <3>3, <3>4, <3>5, <3>6, <3>7 DEF Moves
  <2>3. TypeOK'
    BY <2>1, <2>2 DEF TypeOK, Places
  <2>4. HasContext' /\ HoldersPlaced' /\ InPlace'
    <3>1. c \in holders => q \in InBody /\ token[c][1] \in Contexts
      BY <2>2 DEF HoldersPlaced, HasContext
    <3>2. q \notin (IF Files THEN WaitPlaces ELSE FilePlaces)
      BY <2>2 DEF InPlace
    <3>3. QED
      BY <1>b, <2>1, <2>2, <3>1, <3>2, PlacesKept DEF OthersWoken, TypeOK
  <2>5. QED
    BY <2>3, <2>4
<1>6. CASE GiveUp(c)
  <2>1. PICK q \in {"body", "done"} : pc' = [pc EXCEPT ![c] = q]
    BY <1>6 DEF GiveUp, Refused
  <2>2. pc[c] \in {"poll", "woken", "late", "pause"}
    BY <1>6 DEF GiveUp
  <2>3. TypeOK'
    BY <1>6, <2>1 DEF GiveUp, Refused, TypeOK
  <2>4. HasContext' /\ HoldersPlaced' /\ InPlace'
    <3>1. c \notin holders
      BY <2>2 DEF HoldersPlaced, InBody
    <3>2. QED
      BY <1>6, <1>b, <2>1, <2>2, <3>1, PlacesKept DEF OthersWoken, GiveUp, TypeOK, WaitPlaces, FilePlaces
  <2>5. QED
    BY <2>3, <2>4
<1>7. CASE AwaitIt(c)
  <2>1. TypeOK'
    <3>1. ctx' \in [Calls -> Contexts \cup {0}] /\ heldIn' \in [Contexts -> SUBSET Keys]
      <4>1. CASE UNCHANGED <<ctx, heldIn>>
        BY <4>1 DEF TypeOK
      <4>2. CASE \E x \in Contexts : /\ ctx' = [ctx EXCEPT ![c] = x]
                                    /\ heldIn' = [heldIn EXCEPT ![x] = heldIn[ctx[c]]]
        <5>1. heldIn[ctx[c]] \in SUBSET Keys
          BY <1>7, <1>b DEF AwaitIt
        <5>2. QED
          BY <4>2, <5>1 DEF TypeOK
      <4>3. QED
        BY <1>7, <4>1, <4>2 DEF AwaitIt
    <3>2. outer' \in [Calls -> Calls \cup {None}]
      BY <1>7 DEF AwaitIt, TypeOK
    <3>3. QED
      BY <1>7, <3>1, <3>2 DEF AwaitIt, TypeOK, Kinds
  <2>2. HasContext' /\ HoldersPlaced' /\ InPlace'
    <3>1. /\ cfg' = cfg /\ token' = token /\ holders' = holders
          /\ pc[c] = "coro" /\ pc' = [pc EXCEPT ![c] = "body"]
      BY <1>7 DEF AwaitIt
    <3>2. \E x \in Contexts : ctx' = [ctx EXCEPT ![c] = x]
      BY <1>7, <1>b, <3>1 DEF AwaitIt, TypeOK
    <3>3. /\ ctx'[c] \in Contexts /\ pc'[c] = "body"
          /\ \A d \in Calls \ {c} : ctx'[d] = ctx[d] /\ pc'[d] = pc[d]
      BY <3>1, <3>2 DEF TypeOK
    <3>4. QED
      BY <3>1, <3>3, PlacesKept DEF OthersWoken, TypeOK, HasContext, InBody, WaitPlaces, FilePlaces
  <2>3. QED
    BY <2>1, <2>2
<1>8. CASE Returns(c)
  <2>1. TypeOK'
    BY <1>8 DEF Returns, TypeOK
  <2>2. HasContext' /\ HoldersPlaced' /\ InPlace'
    BY <1>8, <1>b, PlacesKept DEF OthersWoken, Returns, TypeOK, HasContext, InBody, WaitPlaces, FilePlaces
  <2>3. QED
    BY <2>1, <2>2
<1>9. CASE EndsInVain(c)
  <2>1. TypeOK'
    BY <1>9 DEF EndsInVain, Ends, TypeOK
  <2>2. HasContext' /\ HoldersPlaced' /\ InPlace'
    BY <1>9, <1>b, PlacesKept DEF OthersWoken, EndsInVain, Ends, TypeOK, HasContext, InBody, WaitPlaces, FilePlaces
  <2>3. QED
    BY <2>1, <2>2
<1>10. CASE EndsOnFile(c)
  <2>1. TypeOK'
    <3>1. heldIn' \in [Contexts -> SUBSET Keys]
      BY <1>10 DEF EndsOnFile, TypeOK
    <3>2. QED
      BY <1>10, <3>1 DEF EndsOnFile, Ends, TypeOK
  <2>2. HasContext' /\ HoldersPlaced' /\ InPlace'
    BY <1>10, <1>b, PlacesKept DEF OthersWoken, EndsOnFile, Ends, TypeOK, HasContext, InBody, WaitPlaces, FilePlaces
  <2>3. QED
    BY <2>1, <2>2
<1>11. CASE EndsOnCounter(c)
  <2>1. TypeOK'
    <3>1. pc' \in [Calls -> Places]
      <4>1. CASE pc' = [pc EXCEPT ![c] = "done"]
        BY <4>1 DEF TypeOK, Places
      <4>2. ASSUME NEW w \in Calls, pc' = [pc EXCEPT ![c] = "done", ![w] = "woken"]
            PROVE  pc' \in [Calls -> Places]
        BY <4>2 DEF TypeOK, Places
      <4>3. QED
        BY <1>11, <4>1, <4>2, ReleasePlaces
    <3>2. value' \in [Keys -> Int]
      BY <1>11, <1>a DEF EndsOnCounter, Release, TypeOK
    <3>3. heldIn' \in [Contexts -> SUBSET Keys]
      BY <1>11 DEF EndsOnCounter, TypeOK
    <3>4. QED
      BY <1>11, <3>1, <3>2, <3>3 DEF EndsOnCounter, Ends, TypeOK, Places
  <2>2. HasContext' /\ HoldersPlaced' /\ InPlace'
    <3>1. /\ pc'[c] = "done" /\ pc[c] # "idle"
          /\ OthersWoken(c)
      <4>1. CASE pc' = [pc EXCEPT ![c] = "done"]
        BY <4>1, <1>11 DEF TypeOK, EndsOnCounter, Ends, OthersWoken
      <4>2. ASSUME NEW w \in Calls, pc' = [pc EXCEPT ![c] = "done", ![w] = "woken"],
                   w # c, pc[w] \in {"wait", "late"}
            PROVE  pc'[c] = "done" /\ pc[c] # "idle" /\ OthersWoken(c)
        BY <4>2, <1>11 DEF TypeOK, EndsOnCounter, Ends, OthersWoken
      <4>3. QED
        BY <1>11, <4>1, <4>2, ReleasePlaces
    <3>2. /\ holders' = holders \ {c} /\ ctx' = ctx /\ token' = token /\ cfg' = cfg
      BY <1>11 DEF EndsOnCounter, Ends
    <3>3. QED
      BY <1>b, <3>1, <3>2, PlacesKept DEF TypeOK, WaitPlaces, FilePlaces, OthersWoken
  <2>3. QED
    BY <2>1, <2>2
<1>12. CASE SlotStep(c)
  <2>1. CASE TryCreate(c)
    <3>1. Files /\ c \notin holders
      BY <2>1 DEF TryCreate, InPlace, FilePlaces, HoldersPlaced, InBody
    <3>2. PICK q \in {"write", "look"} : pc' = [pc EXCEPT ![c] = q] /\ pc[c] = "try"
      BY <2>1 DEF TryCreate
    <3>3. file' \in [Slots -> [by : Calls, written : BOOLEAN] \cup {None}]
      <4>1. slot[c] \in Slots /\ [by |-> c, written |-> FALSE] \in [by : Calls, written : BOOLEAN]
        BY DEF TypeOK
      <4>2. file' = file \/ file' = [file EXCEPT ![slot[c]] = [by |-> c, written |-> FALSE]]
        BY <2>1 DEF TryCreate
      <4>3. QED
        BY <4>1, <4>2 DEF TypeOK
    <3>4. TypeOK'
      BY <2>1, <3>2, <3>3 DEF TryCreate, TypeOK
    <3>5. HasContext' /\ HoldersPlaced' /\ InPlace'
      BY <2>1, <1>b, <3>1, <3>2, PlacesKept DEF OthersWoken, TryCreate, TypeOK, WaitPlaces
    <3>6. QED
      BY <3>4, <3>5
  <2>2. CASE WriteOwner(c)
    <3>1. file' \in [Slots -> [by : Calls, written : BOOLEAN] \cup {None}]
      BY <2>2 DEF WriteOwner, TypeOK
    <3>2. TypeOK'
      BY <2>2, <3>1, <1>a, <1>b DEF WriteOwner, Admitted, TypeOK
    <3>3. HasContext' /\ HoldersPlaced' /\ InPlace'
      BY <2>2, <1>b, PlacesKept DEF OthersWoken, WriteOwner, Admitted, TypeOK, InBody, WaitPlaces, FilePlaces
    <3>4. QED
      BY <3>2, <3>3
  <2>3. CASE Look(c) \/ Unlink(c)
    <3>1. PICK q \in {"unlink", "try", "pause"} : pc' = [pc EXCEPT ![c] = q]
      BY <2>3, NextSlotType DEF Look, Unlink
    <3>2. slot' \in [Calls -> Slots]
      BY <2>3, NextSlotType DEF Look, Unlink, TypeOK
    <3>3. /\ pc[c] \in {"look", "unlink"}
          /\ file' \in [Slots -> [by : Calls, written : BOOLEAN] \cup {None}]
          /\ UNCHANGED <<cfg, wrapVars, attempt, heldVars, value, holders, dead, active>>
      BY <2>3 DEF Look, Unlink, TypeOK
    <3>4. TypeOK'
      BY <3>1, <3>2, <3>3 DEF TypeOK
    <3>5. HasContext' /\ HoldersPlaced' /\ InPlace'
      <4>1. Files /\ c \notin holders
        BY <3>3 DEF InPlace, FilePlaces, HoldersPlaced, InBody
      <4>2. QED
        BY <1>b, <3>1, <3>3, <4>1, PlacesKept DEF OthersWoken, TypeOK, WaitPlaces
    <3>6. QED
      BY <3>4, <3>5
  <2>4. CASE ReadToken(c)
    <3>1. TypeOK'
      BY <2>4 DEF ReadToken, TypeOK
    <3>2. Files
      BY <2>4 DEF ReadToken, InPlace, FilePlaces
    <3>3. HasContext' /\ HoldersPlaced' /\ InPlace'
      BY <2>4, <1>b, <3>2, PlacesKept DEF OthersWoken, ReadToken, TypeOK, HasContext, WaitPlaces
    <3>4. QED
      BY <3>1, <3>3
  <2>5. CASE RemoveFile(c)
    <3>1. TypeOK'
      BY <2>5 DEF RemoveFile, TypeOK
    <3>2. Files
      BY <2>5 DEF RemoveFile, InPlace, FilePlaces
    <3>3. HasContext' /\ HoldersPlaced' /\ InPlace'
      BY <2>5, <1>b, <3>2, PlacesKept DEF OthersWoken, RemoveFile, TypeOK, HasContext, WaitPlaces
    <3>4. QED
      BY <3>1, <3>3
  <2>6. QED
    BY <1>12, <2>1, <2>2, <2>3, <2>4, <2>5 DEF SlotStep
<1>13. CASE Crash(c)
  BY <1>13 DEF Crash, TypeOK, HasContext, Made, HoldersPlaced, InPlace, Files
<1>14. QED
  BY <1>2, <1>3, <1>4, <1>5, <1>6, <1>7, <1>8, <1>9, <1>10, <1>11, <1>12, <1>13

----------------------------------------------------------------------------
(* The body count and the permits of a counter.                            *)

Bodies == {c \in Calls : pc[c] \in InBody}

\* One call may enter or leave a body in a step, and is counted.
BodyStep(c) ==
    /\ OthersWoken(c) /\ cfg' = cfg
    /\ \/ /\ pc'[c] \in InBody <=> pc[c] \in InBody
          /\ active' = active
       \/ pc[c] \notin InBody /\ pc'[c] \in InBody /\ active' = active + 1
       \/ pc[c] \in InBody /\ pc'[c] \notin InBody /\ active' = active - 1

\* The counter of active operations follows the bodies.
LEMMA BodyCounted ==
    ASSUME TypeOK, NEW c \in Calls, BodyStep(c), active = Cardinality(Bodies)
    PROVE  active' = Cardinality(Bodies')
<1>1. IsFiniteSet(Bodies)
  BY CallAssumption, FS_Subset DEF Bodies
<1>2. \A d \in Calls \ {c} : pc'[d] \in InBody <=> pc[d] \in InBody
  BY DEF BodyStep, OthersWoken, InBody
<1>3. CASE pc'[c] \in InBody <=> pc[c] \in InBody
  <2>1. Bodies' = Bodies
    BY <1>2, <1>3 DEF Bodies, InBody
  <2>2. QED
    BY <1>3, <2>1 DEF BodyStep
<1>4. CASE pc[c] \notin InBody /\ pc'[c] \in InBody
  <2>1. Bodies' = Bodies \cup {c} /\ c \notin Bodies
    BY <1>2, <1>4 DEF Bodies, InBody
  <2>2. Cardinality(Bodies') = Cardinality(Bodies) + 1
    BY <1>1, <2>1, FS_AddElement
  <2>3. QED
    BY <1>4, <2>2 DEF BodyStep
<1>5. CASE pc[c] \in InBody /\ pc'[c] \notin InBody
  <2>1. Bodies' = Bodies \ {c} /\ c \in Bodies
    BY <1>2, <1>5 DEF Bodies, InBody
  <2>2. Cardinality(Bodies') = Cardinality(Bodies) - 1
    BY <1>1, <2>1, FS_RemoveElement
  <2>3. QED
    BY <1>5, <2>2 DEF BodyStep
<1>6. QED
  BY <1>3, <1>4, <1>5

\* What a step may do with a semaphore that is a counter.
Keeps(c) == UNCHANGED <<holders, value>>
Takes(c) ==
    /\ c \notin holders /\ value[Key(c)] > 0
    /\ holders' = holders \cup {c}
    /\ value' = [value EXCEPT ![Key(c)] = @ - 1]
Gives(c) ==
    /\ c \in holders
    /\ holders' = holders \ {c}
    /\ value' = [value EXCEPT ![Key(c)] = @ + 1]

Counted == \A k \in Keys : value[k] >= 0 /\ value[k] + Cardinality(HoldersOf(k)) = Limit

\* Free permits and holders add up to the limit after such a step.
LEMMA PermitsCounted ==
    ASSUME TypeOK, NEW c \in Calls, cfg' = cfg, Keeps(c) \/ Takes(c) \/ Gives(c), Counted
    PROVE  Counted'
<1>1. \A k \in Keys : IsFiniteSet(HoldersOf(k)) /\ Cardinality(HoldersOf(k)) \in Nat
  <2> TAKE k \in Keys
  <2>1. HoldersOf(k) \subseteq Calls
    BY DEF HoldersOf, TypeOK
  <2>2. QED
    BY <2>1, CallAssumption, FS_Subset, FS_CardinalityType
<1>2. \A d \in Calls : Key(d)' = Key(d)
  BY KeyStays
<1>3. Key(c) \in Keys /\ Limit \in Int
  BY KeyType, LimitAssumption
<1> SUFFICES ASSUME NEW k \in Keys
             PROVE  value'[k] >= 0 /\ value'[k] + Cardinality(HoldersOf(k)') = Limit
  BY DEF Counted, HoldersOf, Keys, Classes
<1>4. value[k] \in Int /\ value[k] >= 0 /\ value[k] + Cardinality(HoldersOf(k)) = Limit
  BY DEF Counted, TypeOK
<1>5. CASE Keeps(c)
  <2>1. HoldersOf(k)' = HoldersOf(k)
    BY <1>2, <1>5 DEF HoldersOf, Keeps, TypeOK
  <2>2. QED
    BY <1>4, <1>5, <2>1 DEF Keeps
<1>6. CASE Takes(c) /\ k = Key(c)
  <2>1. HoldersOf(k)' = HoldersOf(k) \cup {c} /\ c \notin HoldersOf(k)
    BY <1>2, <1>6 DEF HoldersOf, Takes, TypeOK
  <2>2. Cardinality(HoldersOf(k)') = Cardinality(HoldersOf(k)) + 1
    BY <1>1, <2>1, FS_AddElement
  <2>3. value'[k] = value[k] - 1 /\ value[k] > 0
    BY <1>3, <1>6 DEF Takes, TypeOK
  <2>4. QED
    BY <1>1, <1>3, <1>4, <2>2, <2>3
<1>7. CASE Gives(c) /\ k = Key(c)
  <2>1. HoldersOf(k)' = HoldersOf(k) \ {c} /\ c \in HoldersOf(k)
    BY <1>2, <1>7 DEF HoldersOf, Gives, TypeOK
  <2>2. Cardinality(HoldersOf(k)') = Cardinality(HoldersOf(k)) - 1
    BY <1>1, <2>1, FS_RemoveElement
  <2>3. value'[k] = value[k] + 1
    BY <1>3, <1>7 DEF Gives, TypeOK
  <2>4. QED
    BY <1>1, <1>3, <1>4, <2>2, <2>3
<1>8. CASE (Takes(c) \/ Gives(c)) /\ k # Key(c)
  <2>1. HoldersOf(k)' = HoldersOf(k)
    BY <1>2, <1>8 DEF HoldersOf, Takes, Gives, TypeOK
  <2>2. value'[k] = value[k]
    BY <1>8 DEF Takes, Gives, TypeOK
  <2>3. QED
    BY <1>4, <2>1, <2>2
<1>9. QED
  BY <1>5, <1>6, <1>7, <1>8

----------------------------------------------------------------------------
(* Every step counts bodies and permits as these lemmas want it.           *)

\* The calls of others keep their contexts, marks and permits; who ends with
\* its permit ends in a context that is not the one of its mark.
LostStep(c) ==
    /\ \A d \in Calls \ {c} :
         /\ ctx'[d] = ctx[d] /\ token'[d] = token[d]
         /\ d \in holders' => d \in holders
    /\ dead \subseteq dead'
    /\ c \in holders' /\ pc'[c] = "done" =>
         \/ token'[c][1] # ctx'[c]
         \/ c \in holders /\ pc[c] = "done" /\ ctx'[c] = ctx[c] /\ token'[c] = token[c]

\* Every step is one call's and changes bodies and permits as said above.
LEMMA StepCounts ==
    ASSUME Shape, Next
    PROVE  \E c \in Calls :
        BodyStep(c) /\ LostStep(c) /\ (~Files => Keeps(c) \/ Takes(c) \/ Gives(c))
<1> USE DEF Shape
<1>1. PICK c \in Calls :
        \/ Begins(c) \/ Acquire(c) \/ Moves(c) \/ GiveUp(c) \/ AwaitIt(c) \/ Returns(c)
        \/ EndsInVain(c) \/ EndsOnFile(c) \/ EndsOnCounter(c)
        \/ SlotStep(c) \/ Crash(c)
  BY StepKinds
<1> SUFFICES BodyStep(c) /\ LostStep(c) /\ (~Files => Keeps(c) \/ Takes(c) \/ Gives(c))
  OBVIOUS
<1>2. pc[c] \in {"idle", "poll", "enter", "wait", "woken", "late", "try", "write", "look",
                 "unlink", "pause", "dropped"} => (c \in holders => pc[c] = "dropped")
  BY DEF HoldersPlaced, InBody
<1>3. CASE Begins(c)
  <2>1. BodyStep(c)
    BY <1>3 DEF Begins, Start, BodyStep, OthersWoken, InBody, TypeOK
  <2>2. LostStep(c) /\ Keeps(c)
    BY <1>2, <1>3 DEF Begins, Start, LostStep, Keeps, TypeOK
  <2>3. QED
    BY <2>1, <2>2
<1>4. CASE Acquire(c)
  <2>1. BodyStep(c)
    BY <1>4 DEF Acquire, Admitted, BodyStep, OthersWoken, InBody, TypeOK
  <2>2. LostStep(c)
    BY <1>4 DEF Acquire, Admitted, LostStep, TypeOK
  <2>3. Takes(c)
    BY <1>2, <1>4 DEF Acquire, Admitted, Takes, TypeOK
  <2>4. QED
    BY <2>1, <2>2, <2>3
<1>5. CASE Moves(c)
  <2>1. UNCHANGED <<cfg, wrapVars, heldVars, value, holders, slotVars, active>>
    BY <1>5 DEF Moves, Sleep, WaitRunsOut, CancelWait, NextRound, FailAttempt, NextAttempt, Drop
  <2>2. BodyStep(c)
    <3>1. CASE Sleep(c) \/ WaitRunsOut(c) \/ CancelWait(c) \/ NextRound(c)
      BY <3>1, <2>1 DEF Sleep, WaitRunsOut, CancelWait, NextRound, BodyStep, OthersWoken, InBody,
                        TypeOK
    <3>2. CASE FailAttempt(c) \/ NextAttempt(c) \/ Drop(c)
      BY <3>2, <2>1 DEF FailAttempt, NextAttempt, Drop, BodyStep, OthersWoken, InBody, TypeOK
    <3>3. QED
      BY <1>5, <3>1, <3>2 DEF Moves
  <2>3. c \in holders => pc'[c] # "done"
    BY <1>2, <1>5 DEF Moves, Sleep, WaitRunsOut, CancelWait, NextRound, FailAttempt, NextAttempt,
                      Drop, TypeOK
  <2>4. QED
    BY <2>1, <2>2, <2>3 DEF LostStep, Keeps
<1>6. CASE GiveUp(c)
  <2>1. BodyStep(c)
    BY <1>6 DEF GiveUp, Refused, BodyStep, OthersWoken, InBody, TypeOK
  <2>2. c \notin holders
    BY <1>2, <1>6 DEF GiveUp
  <2>3. QED
    BY <1>6, <2>1, <2>2 DEF GiveUp, LostStep, Keeps
<1>7. CASE AwaitIt(c)
  <2>1. BodyStep(c)
    BY <1>7 DEF AwaitIt, BodyStep, OthersWoken, InBody, TypeOK
  <2>2. pc'[c] = "body" /\ \A d \in Calls \ {c} : ctx'[d] = ctx[d]
    BY <1>7 DEF AwaitIt, TypeOK
  <2>3. QED
    BY <1>7, <2>1, <2>2 DEF AwaitIt, LostStep, Keeps
<1>8. CASE Returns(c)
  <2>1. BodyStep(c)
    BY <1>8 DEF Returns, BodyStep, OthersWoken, InBody, TypeOK
  <2>2. pc'[c] = "coro"
    BY <1>8 DEF Returns, TypeOK
  <2>3. QED
    BY <1>8, <2>1, <2>2 DEF Returns, LostStep, Keeps
<1>9. CASE EndsInVain(c)
  <2>1. BodyStep(c)
    BY <1>9 DEF EndsInVain, Ends, BodyStep, OthersWoken, InBody, TypeOK
  <2>2. QED
    BY <1>9, <2>1 DEF EndsInVain, Ends, LostStep, Keeps
<1>10. CASE EndsOnFile(c)
  <2>1. BodyStep(c)
    BY <1>10 DEF EndsOnFile, Ends, BodyStep, OthersWoken, InBody, TypeOK
  <2>2. pc'[c] = "release"
    BY <1>10 DEF EndsOnFile, TypeOK
  <2>3. QED
    BY <1>10, <2>1, <2>2 DEF EndsOnFile, Ends, LostStep, Keeps
<1>11. CASE EndsOnCounter(c)
  <2>1. OthersWoken(c) /\ pc'[c] = "done"
    <3>1. CASE pc' = [pc EXCEPT ![c] = "done"]
      BY <3>1 DEF OthersWoken, TypeOK
    <3>2. ASSUME NEW w \in Calls, pc' = [pc EXCEPT ![c] = "done", ![w] = "woken"],
                 w # c, pc[w] \in {"wait", "late"}
          PROVE  OthersWoken(c) /\ pc'[c] = "done"
      BY <3>2 DEF OthersWoken, TypeOK
    <3>3. QED
      BY <1>11, <3>1, <3>2, ReleasePlaces
  <2>2. BodyStep(c)
    BY <1>11, <2>1 DEF EndsOnCounter, Ends, BodyStep, InBody
  <2>3. LostStep(c)
    BY <1>11 DEF EndsOnCounter, Ends, LostStep
  <2>4. Gives(c)
    BY <1>11 DEF EndsOnCounter, Release, Gives
  <2>5. QED
    BY <2>2, <2>3, <2>4
<1>12. CASE SlotStep(c)
  <2>1. Files
    BY <1>12 DEF SlotStep, TryCreate, WriteOwner, Look, Unlink, ReadToken, RemoveFile, InPlace,
                 FilePlaces
  <2>2. CASE TryCreate(c)
    BY <1>2, <2>1, <2>2 DEF TryCreate, BodyStep, LostStep, OthersWoken, InBody, TypeOK
  <2>3. CASE WriteOwner(c)
    <3>1. BodyStep(c)
      BY <2>3 DEF WriteOwner, Admitted, BodyStep, OthersWoken, InBody, TypeOK
    <3>2. LostStep(c)
      BY <2>3 DEF WriteOwner, Admitted, LostStep, TypeOK
    <3>3. QED
      BY <2>1, <3>1, <3>2
  <2>4. CASE Look(c) \/ Unlink(c)
    <3>1. /\ \E q \in {"unlink", "try", "pause"} : pc' = [pc EXCEPT ![c] = q]
          /\ pc[c] \in {"look", "unlink"} /\ c \notin holders
          /\ UNCHANGED <<cfg, ctx, token, holders, dead, active>>
      BY <1>2, <2>4, NextSlotType DEF Look, Unlink
    <3>2. QED
      BY <2>1, <3>1 DEF BodyStep, LostStep, OthersWoken, InBody, TypeOK
  <2>5. CASE ReadToken(c)
    BY <2>1, <2>5 DEF ReadToken, BodyStep, LostStep, OthersWoken, InBody, TypeOK
  <2>6. CASE RemoveFile(c)
    BY <2>1, <2>6 DEF RemoveFile, BodyStep, LostStep, OthersWoken, InBody, TypeOK
  <2>7. QED
    BY <1>12, <2>2, <2>3, <2>4, <2>5, <2>6 DEF SlotStep
<1>13. CASE Crash(c)
  BY <1>13 DEF Crash, BodyStep, OthersWoken, LostStep, Keeps
<1>14. QED
  BY <1>1, <1>3, <1>4, <1>5, <1>6, <1>7, <1>8, <1>9, <1>10, <1>11, <1>12, <1>13

\* Conservation is kept by every step.
LEMMA PermitsStep ==
    ASSUME Shape, PermitsConserved, [Next]_vars
    PROVE  PermitsConserved'
<1>1. CASE UNCHANGED vars
  BY <1>1 DEF vars, PermitsConserved, HoldersOf, Key, Files
<1>2. CASE Next
  <2>1. PICK c \in Calls :
          BodyStep(c) /\ LostStep(c) /\ (~Files => Keeps(c) \/ Takes(c) \/ Gives(c))
    BY <1>2, StepCounts
  <2>2. active' = Cardinality(Bodies')
    BY <2>1, BodyCounted DEF Shape, PermitsConserved, Bodies
  <2>3. Files' = Files
    BY <2>1 DEF BodyStep, Files
  <2>4. ~Files => Counted'
    BY <2>1, PermitsCounted DEF Shape, BodyStep, PermitsConserved, Counted
  <2>5. QED
    BY <2>2, <2>3, <2>4 DEF PermitsConserved, Bodies, Counted
<1>3. QED
  BY <1>1, <1>2

\* Every step leaves a permit behind only as the property allows.
LEMMA ReturnedStep ==
    ASSUME Shape, PermitReturned, [Next]_vars
    PROVE  PermitReturned'
<1>1. CASE UNCHANGED vars
  BY <1>1 DEF vars, PermitReturned, Lost
<1>2. CASE Next
  <2>1. PICK c \in Calls : BodyStep(c) /\ LostStep(c)
    BY <1>2, StepCounts
  <2>2. SUFFICES ASSUME NEW d \in holders', pc'[d] = "done", d \notin dead'
                 PROVE  token'[d][1] # ctx'[d]
    BY DEF PermitReturned, Lost
  <2>3. d \in Calls
    BY <1>2, ShapeStep DEF Shape, TypeOK
  <2>4. CASE d = c
    BY <2>1, <2>2, <2>4 DEF LostStep, PermitReturned, Lost
  <2>5. CASE d # c
    BY <2>1, <2>2, <2>3, <2>5 DEF BodyStep, OthersWoken, LostStep, PermitReturned, Lost
  <2>6. QED
    BY <2>4, <2>5
<1>3. QED
  BY <1>1, <1>2

----------------------------------------------------------------------------
(* Sleepers.  A key is sure of its sleepers if none sleeps or every free   *)
(* permit has a thread that was woken for it.                              *)

Woken(k) == {c \in Calls : pc[c] = "woken" /\ Key(c) = k}
Sure(k) == Waiters(k) # {} => value[k] <= Cardinality(Woken(k))

\* The woken of a key can be counted.
LEMMA WokenFinite ==
    ASSUME NEW k PROVE IsFiniteSet(Woken(k)) /\ Cardinality(Woken(k)) \in Nat
BY CallAssumption, FS_Subset, FS_CardinalityType DEF Woken

\* Neither the sleepers nor the woken of the key change, or one of either
\* leaves when there is no permit or with one.
LEMMA SureKept ==
    ASSUME TypeOK, NEW c \in Calls, cfg' = cfg, NEW k \in Keys, Sure(k),
           \A d \in Calls \ {c} : pc'[d] = pc[d],
           pc'[c] # "woken",
           pc'[c] \in {"wait", "late"} /\ pc[c] \notin {"wait", "late"} => value[Key(c)] = 0,
           \/ value' = value /\ (value[Key(c)] > 0 => pc[c] # "woken")
           \/ value' = [value EXCEPT ![Key(c)] = @ - 1]
    PROVE  Sure(k)'
<1>1. \A d \in Calls : Key(d)' = Key(d)
  BY KeyStays
<1>2. value[k] \in Int /\ Key(c) \in Keys
  BY KeyType DEF TypeOK
<1>3. Woken(k)' = IF Key(c) = k THEN Woken(k) \ {c} ELSE Woken(k)
  BY <1>1 DEF Woken
<1>4. /\ Cardinality(Woken(k)) \in Nat /\ Cardinality(Woken(k)') \in Nat
      /\ Cardinality(Woken(k)') >= IF c \in Woken(k) THEN Cardinality(Woken(k)) - 1
                                   ELSE Cardinality(Woken(k))
  <2>1. IsFiniteSet(Woken(k)) /\ Cardinality(Woken(k)) \in Nat
    BY WokenFinite
  <2>2. /\ IsFiniteSet(Woken(k) \ {c})
        /\ Cardinality(Woken(k) \ {c}) = IF c \in Woken(k) THEN Cardinality(Woken(k)) - 1
                                         ELSE Cardinality(Woken(k))
    BY <2>1, FS_RemoveElement
  <2>3. Cardinality(Woken(k) \ {c}) \in Nat
    BY <2>2, FS_CardinalityType
  <2>4. CASE Key(c) = k
    BY <1>3, <2>1, <2>2, <2>3, <2>4
  <2>5. CASE Key(c) # k
    BY <1>3, <2>1, <2>5 DEF Woken
  <2>6. QED
    BY <2>4, <2>5
<1>5. SUFFICES ASSUME Waiters(k)' # {} PROVE value'[k] <= Cardinality(Woken(k)')
  BY DEF Sure, Waiters, Woken
<1>6. CASE Key(c) # k
  <2>1. Waiters(k)' = Waiters(k) /\ value'[k] = value[k]
    BY <1>1, <1>2, <1>6 DEF Waiters, TypeOK
  <2>2. QED
    BY <1>3, <1>5, <1>6, <2>1 DEF Sure
<1>7. CASE Key(c) = k /\ value[k] <= 0
  <2>1. value'[k] <= value[k] /\ value'[k] \in Int
    BY <1>2, <1>7 DEF TypeOK
  <2>2. QED
    BY <1>2, <1>4, <1>7, <2>1
<1>8. CASE Key(c) = k /\ value[k] > 0
  <2>1. pc'[c] \in {"wait", "late"} => pc[c] \in {"wait", "late"}
    BY <1>2, <1>8
  <2>2. Waiters(k)' \subseteq Waiters(k)
    BY <1>1, <2>1 DEF Waiters
  <2>3. value[k] <= Cardinality(Woken(k))
    BY <1>5, <2>2 DEF Sure
  <2>4. CASE value' = value /\ (value[Key(c)] > 0 => pc[c] # "woken")
    <3>1. c \notin Woken(k)
      BY <1>2, <1>8, <2>4 DEF Woken
    <3>2. QED
      BY <1>2, <1>4, <2>3, <2>4, <3>1
  <2>5. CASE value' = [value EXCEPT ![k] = @ - 1]
    <3>1. value'[k] = value[k] - 1
      BY <2>5 DEF TypeOK
    <3>2. QED
      BY <1>2, <1>4, <2>3, <3>1
  <2>6. QED
    BY <1>8, <2>4, <2>5
<1>9. QED
  BY <1>2, <1>6, <1>7, <1>8

\* Every step keeps the sleepers sure.
LEMMA SleepersStep ==
    ASSUME Shape, PermitsConserved, NoSleeperForgotten, [Next]_vars
    PROVE  NoSleeperForgotten'
<1> USE DEF Shape
<1>1. CASE UNCHANGED vars
  BY <1>1 DEF vars, NoSleeperForgotten, Waiters, Key
<1> SUFFICES ASSUME Next PROVE NoSleeperForgotten'
  BY <1>1
<1>2. PICK c \in Calls :
        \/ Begins(c) \/ Acquire(c) \/ Moves(c) \/ GiveUp(c) \/ AwaitIt(c) \/ Returns(c)
        \/ EndsInVain(c) \/ EndsOnFile(c) \/ EndsOnCounter(c)
        \/ SlotStep(c) \/ Crash(c)
  BY StepKinds
<1> SUFFICES ASSUME NEW k \in Keys PROVE Sure(k)'
  BY DEF NoSleeperForgotten, Sure, Woken, Keys, Classes
<1>3. Sure(k)
  BY DEF NoSleeperForgotten, Sure, Woken
<1>4. CASE Begins(c)
  <2>1. /\ \A d \in Calls \ {c} : pc'[d] = pc[d]
        /\ pc'[c] \notin {"woken", "wait", "late"} /\ pc[c] = "idle"
        /\ cfg' = cfg /\ value' = value
    BY <1>4 DEF Begins, Start, TypeOK
  <2>2. QED
    BY <1>3, <2>1, SureKept
<1>5. CASE Acquire(c)
  <2>1. /\ \A d \in Calls \ {c} : pc'[d] = pc[d]
        /\ pc'[c] = "body" /\ cfg' = cfg
        /\ value' = [value EXCEPT ![Key(c)] = @ - 1]
    BY <1>5 DEF Acquire, Admitted, TypeOK
  <2>2. QED
    BY <1>3, <2>1, SureKept
<1>6. CASE Moves(c)
  <2>1. cfg' = cfg /\ value' = value
    BY <1>6 DEF Moves, Sleep, WaitRunsOut, CancelWait, NextRound, FailAttempt, NextAttempt, Drop
  <2>2. CASE Sleep(c)
    <3>1. /\ \A d \in Calls \ {c} : pc'[d] = pc[d]
          /\ pc'[c] = "wait" /\ value[Key(c)] = 0
      BY <2>2 DEF Sleep, TypeOK
    <3>2. QED
      BY <1>3, <2>1, <3>1, SureKept
  <2>3. CASE WaitRunsOut(c)
    <3>1. /\ \A d \in Calls \ {c} : pc'[d] = pc[d]
          /\ pc'[c] = "late" /\ pc[c] = "wait"
      BY <2>3 DEF WaitRunsOut, TypeOK
    <3>2. QED
      BY <1>3, <2>1, <3>1, SureKept
  <2>4. CASE CancelWait(c) \/ NextRound(c) \/ FailAttempt(c) \/ NextAttempt(c) \/ Drop(c)
    <3>1. /\ \A d \in Calls \ {c} : pc'[d] = pc[d]
          /\ pc'[c] \notin {"woken", "wait", "late"} /\ pc[c] # "woken"
      BY <2>4 DEF CancelWait, NextRound, FailAttempt, NextAttempt, Drop, TypeOK
    <3>2. QED
      BY <1>3, <2>1, <3>1, SureKept
  <2>5. QED
    BY <1>6, <2>2, <2>3, <2>4 DEF Moves
<1>7. CASE GiveUp(c)
  <2>1. /\ \A d \in Calls \ {c} : pc'[d] = pc[d]
        /\ pc'[c] \in {"body", "done"} /\ cfg' = cfg /\ value' = value
    BY <1>7 DEF GiveUp, Refused, TypeOK
  <2>2. value[Key(c)] > 0 => pc[c] # "woken"
    BY <1>7 DEF GiveUp
  <2>3. QED
    BY <1>3, <2>1, <2>2, SureKept
<1>8. CASE AwaitIt(c) \/ Returns(c) \/ EndsInVain(c) \/ EndsOnFile(c)
  <2>1. /\ \A d \in Calls \ {c} : pc'[d] = pc[d]
        /\ pc'[c] \in {"body", "coro", "done", "release"}
        /\ pc[c] \in {"body", "backoff", "coro"} /\ cfg' = cfg /\ value' = value
    BY <1>8 DEF AwaitIt, Returns, EndsInVain, EndsOnFile, Ends, TypeOK
  <2>2. QED
    BY <1>3, <2>1, SureKept
<1>9. CASE EndsOnCounter(c)
  <2>1. /\ cfg' = cfg /\ \A d \in Calls : Key(d)' = Key(d)
        /\ Key(c) \in Keys
        /\ pc[c] \in {"body", "backoff"}
        /\ value' = [value EXCEPT ![Key(c)] = @ + 1]
    BY <1>9, KeyStays, KeyType DEF EndsOnCounter, Ends, Release
  <2>2. CASE Waiters(Key(c)) = {} /\ pc' = [pc EXCEPT ![c] = "done"]
    <3>1. Waiters(k)' = Waiters(k) /\ Woken(k)' = Woken(k)
      BY <2>1, <2>2 DEF Waiters, Woken, TypeOK
    <3>2. Waiters(k)' # {} => value'[k] = value[k]
      BY <2>1, <2>2, <3>1 DEF TypeOK
    <3>3. QED
      BY <1>3, <3>1, <3>2 DEF Sure
  <2>3. ASSUME NEW w \in Calls, pc[w] \in {"wait", "late"}, Key(w) = Key(c), w # c,
               pc' = [pc EXCEPT ![c] = "done", ![w] = "woken"]
        PROVE  Sure(k)'
    <3>1. CASE k # Key(c)
      <4>1. Waiters(k)' = Waiters(k) /\ Woken(k)' = Woken(k) /\ value'[k] = value[k]
        BY <2>1, <2>3, <3>1 DEF Waiters, Woken, TypeOK
      <4>2. QED
        BY <1>3, <4>1 DEF Sure
    <3>2. CASE k = Key(c)
      <4>1. Woken(k)' = Woken(k) \cup {w} /\ w \notin Woken(k) /\ w \in Waiters(k)
        BY <2>1, <2>3, <3>2 DEF Woken, Waiters, TypeOK
      <4>2. Cardinality(Woken(k)') = Cardinality(Woken(k)) + 1
        BY <4>1, WokenFinite, FS_AddElement
      <4>3. value[k] <= Cardinality(Woken(k))
        BY <1>3, <4>1 DEF Sure
      <4>4. value'[k] = value[k] + 1 /\ value[k] \in Int /\ Cardinality(Woken(k)) \in Int
        BY <2>1, <3>2, WokenFinite DEF TypeOK
      <4>5. QED
        BY <4>2, <4>3, <4>4 DEF Sure
    <3>3. QED
      BY <3>1, <3>2
  <2>4. QED
    BY <1>9, <2>2, <2>3, ReleasePlaces
<1>10. CASE SlotStep(c)
  <2>1. cfg' = cfg /\ value' = value
    BY <1>10 DEF SlotStep, TryCreate, WriteOwner, Admitted, Look, Unlink, ReadToken, RemoveFile
  <2>2. CASE Look(c) \/ Unlink(c)
    <3>1. /\ \E q \in {"unlink", "try", "pause"} : pc' = [pc EXCEPT ![c] = q]
          /\ pc[c] \in {"look", "unlink"}
      BY <2>2, NextSlotType DEF Look, Unlink
    <3>2. /\ \A d \in Calls \ {c} : pc'[d] = pc[d]
          /\ pc'[c] \in {"unlink", "try", "pause"}
      BY <3>1 DEF TypeOK
    <3>3. QED
      BY <1>3, <2>1, <3>1, <3>2, SureKept
  <2>3. CASE TryCreate(c) \/ WriteOwner(c) \/ ReadToken(c) \/ RemoveFile(c)
    <3>1. /\ \A d \in Calls \ {c} : pc'[d] = pc[d]
          /\ pc'[c] \notin {"woken", "wait", "late"} /\ pc[c] # "woken"
      BY <2>3 DEF TryCreate, WriteOwner, Admitted, ReadToken, RemoveFile, TypeOK
    <3>2. QED
      BY <1>3, <2>1, <3>1, SureKept
  <2>4. QED
    BY <1>10, <2>2, <2>3 DEF SlotStep
<1>11. CASE Crash(c)
  <2>1. cfg' = cfg /\ value' = value /\ pc' = pc
    BY <1>11 DEF Crash
  <2>2. Waiters(k)' = Waiters(k) /\ Woken(k)' = Woken(k)
    BY <2>1, KeyStays DEF Waiters, Woken
  <2>3. QED
    BY <1>3, <2>1, <2>2 DEF Sure
<1>12. QED
  BY <1>2, <1>4, <1>5, <1>6, <1>7, <1>8, <1>9, <1>10, <1>11

----------------------------------------------------------------------------
(* Slot files.                                                             *)

\* The slot that c tries has the file that c made, with or without its token.
Owns(c) == file[slot[c]] = [by |-> c, written |-> TRUE]
Opened(c) == file[slot[c]] = [by |-> c, written |-> FALSE]

\* While no process is dead, a call other than c keeps its slot and its file.
OthersKeep(c) ==
    \A d \in Calls \ {c} :
        /\ pc'[d] = pc[d]
        /\ d \in holders' <=> d \in holders
        /\ slot'[d] = slot[d]
        /\ Owns(d) \/ Opened(d) => file'[slot[d]] = file[slot[d]]

\* Two calls that have a file each have different slots.
LEMMA SlotsDiffer ==
    ASSUME NEW c \in Calls, NEW d \in Calls, c # d,
           Owns(c) \/ Opened(c), Owns(d) \/ Opened(d)
    PROVE  slot[c] # slot[d]
<1>1. file[slot[c]].by = c /\ file[slot[d]].by = d
  BY DEF Owns, Opened
<1>2. QED
  BY <1>1

SlotsKept == OwnSlot /\ SlotsExclusive

\* Slots stay their owners' if the others keep theirs and the call's own is right.
LEMMA FilesKept ==
    ASSUME Shape, SlotsKept, NEW c \in Calls, cfg' = cfg, Files, dead' = {}, dead = {},
           holders' \subseteq Calls,
           OthersKeep(c),
           pc'[c] \in {"release", "remove"} => c \in holders',
           pc'[c] # "unlink",
           pc'[c] = "write" => Opened(c)',
           c \in holders' => Owns(c)'
    PROVE  SlotsKept'
<1>1. ASSUME NEW d \in Calls, d # c
      PROVE  /\ pc'[d] \in {"release", "remove"} => d \in holders'
             /\ pc'[d] # "unlink"
             /\ pc'[d] = "write" => Opened(d)'
             /\ d \in holders' => Owns(d)'
  BY <1>1 DEF SlotsKept, OwnSlot, SlotsExclusive, OthersKeep, Owns, Opened
<1>2. \A d \in Calls :
             /\ pc'[d] \in {"release", "remove"} => d \in holders'
             /\ pc'[d] # "unlink"
             /\ pc'[d] = "write" => Opened(d)'
             /\ d \in holders' => Owns(d)'
  BY <1>1
<1>3. QED
  BY <1>2 DEF SlotsKept, OwnSlot, SlotsExclusive, Owns, Opened

\* While no process dies, every step keeps the slots.
LEMMA FilesStep ==
    ASSUME Shape, SlotsKept, [Next]_vars
    PROVE  SlotsKept'
<1> USE DEF Shape
<1>1. CASE UNCHANGED vars
  BY <1>1 DEF vars, SlotsKept, OwnSlot, SlotsExclusive, Files
<1>2. SUFFICES ASSUME Next, Files', dead' = {} PROVE SlotsKept'
  BY <1>1 DEF SlotsKept, OwnSlot, SlotsExclusive
<1>3. cfg' = cfg /\ dead = {} /\ Files
  <2>1. PICK c \in Calls : BodyStep(c) /\ LostStep(c)
    BY <1>2, StepCounts
  <2>2. QED
    BY <1>2, <2>1 DEF BodyStep, LostStep, Files
<1>4. holders' \subseteq Calls
  BY <1>2, ShapeStep DEF TypeOK
<1>5. PICK c \in Calls :
        \/ Begins(c) \/ Acquire(c) \/ Moves(c) \/ GiveUp(c) \/ AwaitIt(c) \/ Returns(c)
        \/ EndsInVain(c) \/ EndsOnFile(c) \/ EndsOnCounter(c)
        \/ SlotStep(c) \/ Crash(c)
  BY <1>2, StepKinds
<1>6. \A d \in Calls : /\ d \in holders => Owns(d)
                       /\ pc[d] \in {"release", "remove"} => d \in holders
                       /\ pc[d] # "unlink"
                       /\ pc[d] = "write" => Opened(d)
  BY <1>3 DEF SlotsKept, OwnSlot, SlotsExclusive, Owns, Opened
\* Nothing happens to files, slots or permits.
<1>7. ASSUME UNCHANGED <<slot, file, holders>>,
             \A d \in Calls \ {c} : pc'[d] = pc[d],
             pc'[c] \in {"release", "remove"} => c \in holders,
             pc'[c] \notin {"unlink", "write"}
      PROVE  SlotsKept'
  BY <1>2, <1>3, <1>4, <1>6, <1>7, FilesKept DEF OthersKeep, Owns
<1>8. CASE Begins(c)
  BY <1>7, <1>8 DEF Begins, Start, TypeOK
<1>9. CASE Acquire(c) \/ EndsOnCounter(c)
  BY <1>3, <1>9 DEF Acquire, EndsOnCounter, InPlace, WaitPlaces
<1>10. CASE Moves(c)
  BY <1>7, <1>10 DEF Moves, Sleep, WaitRunsOut, CancelWait, NextRound, FailAttempt, NextAttempt,
                     Drop, TypeOK
<1>11. CASE GiveUp(c)
  BY <1>7, <1>11 DEF GiveUp, Refused, TypeOK
<1>12. CASE AwaitIt(c) \/ Returns(c) \/ EndsInVain(c)
  BY <1>7, <1>12 DEF AwaitIt, Returns, EndsInVain, Ends, TypeOK
<1>13. CASE EndsOnFile(c)
  BY <1>7, <1>13 DEF EndsOnFile, Ends, TypeOK
<1>14. CASE Crash(c)
  BY <1>2, <1>14 DEF Crash
<1>15. CASE TryCreate(c)
  <2>1. /\ UNCHANGED <<slot, holders>> /\ pc[c] = "try"
        /\ \A d \in Calls \ {c} : pc'[d] = pc[d]
    BY <1>15 DEF TryCreate, TypeOK
  <2>2. CASE file[slot[c]] = None
    <3>1. /\ pc'[c] = "write" /\ slot[c] \in Slots
          /\ file' = [file EXCEPT ![slot[c]] = [by |-> c, written |-> FALSE]]
      BY <1>15, <2>2 DEF TryCreate, TypeOK
    <3>2. ASSUME NEW d \in Calls, Owns(d) \/ Opened(d)
          PROVE  file[slot[d]] \in [by : Calls, written : BOOLEAN]
      <4>1. \A b \in BOOLEAN : [by |-> d, written |-> b] \in [by : Calls, written : BOOLEAN]
        OBVIOUS
      <4>2. QED
        BY <3>2, <4>1 DEF Owns, Opened
    <3>3. \A d \in Calls : Owns(d) \/ Opened(d) => slot[d] # slot[c]
      BY <2>2, <3>2, CallAssumption
    <3>4. c \notin holders
      BY <2>1 DEF HoldersPlaced, InBody
    <3>5. OthersKeep(c)
      BY <2>1, <3>1, <3>3 DEF OthersKeep, TypeOK
    <3>6. Opened(c)'
      BY <2>1, <3>1 DEF Opened, TypeOK
    <3>7. QED
      BY <1>2, <1>3, <1>4, <2>1, <3>1, <3>4, <3>5, <3>6, FilesKept
  <2>3. CASE file[slot[c]] # None
    <3>1. pc'[c] = "look" /\ UNCHANGED file
      BY <1>15, <2>3 DEF TryCreate, TypeOK
    <3>2. QED
      BY <1>7, <2>1, <3>1
  <2>4. QED
    BY <2>2, <2>3
<1>16. CASE WriteOwner(c)
  <2>1. /\ pc[c] = "write" /\ pc'[c] = "body" /\ Opened(c)
        /\ \A d \in Calls \ {c} : pc'[d] = pc[d]
        /\ UNCHANGED slot /\ holders' = holders \cup {c} /\ slot[c] \in Slots
    BY <1>6, <1>16 DEF WriteOwner, Admitted, TypeOK
  <2>2. file' = [file EXCEPT ![slot[c]] = [by |-> c, written |-> TRUE]]
    BY <1>16, <2>1 DEF WriteOwner, Opened
  <2>3. \A d \in Calls \ {c} : Owns(d) \/ Opened(d) => slot[d] # slot[c]
    BY <2>1, SlotsDiffer
  <2>4. OthersKeep(c)
    BY <2>1, <2>2, <2>3 DEF OthersKeep, TypeOK
  <2>5. Owns(c)'
    BY <2>1, <2>2 DEF Owns, TypeOK
  <2>6. QED
    BY <1>2, <1>3, <1>4, <2>1, <2>4, <2>5, FilesKept
<1>17. CASE Look(c)
  <2>1. ~Stale(file[slot[c]]) /\ NextSlot(c) /\ pc[c] = "look"
    BY <1>3, <1>17 DEF Look, Stale
  <2>2. UNCHANGED <<file, holders>>
    BY <1>17 DEF Look
  <2>3. c \notin holders
    BY <2>1 DEF HoldersPlaced, InBody
  <2>4. /\ \E q \in {"try", "pause"} : pc' = [pc EXCEPT ![c] = q]
        /\ \A d \in Calls \ {c} : slot'[d] = slot[d]
    BY <2>1, NextSlotType
  <2>5. /\ pc'[c] \in {"try", "pause"}
        /\ \A d \in Calls \ {c} : pc'[d] = pc[d]
    BY <2>4 DEF TypeOK
  <2>6. OthersKeep(c)
    BY <2>2, <2>4, <2>5 DEF OthersKeep
  <2>7. QED
    BY <1>2, <1>3, <1>4, <2>2, <2>3, <2>5, <2>6, FilesKept
<1>18. CASE Unlink(c)
  BY <1>6, <1>18 DEF Unlink
<1>19. CASE ReadToken(c)
  <2>1. /\ UNCHANGED <<slot, file>> /\ pc[c] = "release" /\ c \in holders
        /\ \A d \in Calls \ {c} : pc'[d] = pc[d]
    BY <1>6, <1>19 DEF ReadToken, TypeOK
  <2>2. UNCHANGED holders /\ pc'[c] = "remove"
    BY <1>6, <1>19, <2>1 DEF ReadToken, Owns, TypeOK
  <2>3. QED
    BY <1>7, <2>1, <2>2
<1>20. CASE RemoveFile(c)
  <2>1. /\ pc'[c] = "done" /\ Owns(c) /\ UNCHANGED slot /\ holders' = holders \ {c}
        /\ \A d \in Calls \ {c} : pc'[d] = pc[d]
        /\ file' = [file EXCEPT ![slot[c]] = None]
    BY <1>6, <1>20 DEF RemoveFile, TypeOK
  <2>2. \A d \in Calls \ {c} : Owns(d) \/ Opened(d) => slot[d] # slot[c]
    BY <2>1, SlotsDiffer
  <2>3. OthersKeep(c)
    BY <2>1, <2>2 DEF OthersKeep, TypeOK
  <2>4. QED
    BY <1>2, <1>3, <1>4, <2>1, <2>3, FilesKept
<1>21. QED
  BY <1>5, <1>8, <1>9, <1>10, <1>11, <1>12, <1>13, <1>14, <1>15, <1>16, <1>17, <1>18,
     <1>19, <1>20 DEF SlotStep

----------------------------------------------------------------------------
(* The theorems.                                                           *)

\* The invariant holds at the start.
LEMMA Begin == ASSUME Init PROVE IInv
<1>1. Shape
  BY LimitAssumption, CallAssumption
     DEF Init, Shape, TypeOK, Kinds, Slots, HasContext, Made, HoldersPlaced, InPlace,
         WaitPlaces, FilePlaces
<1>2. PermitsConserved
  <2>1. \A k \in Keys : value[k] = Limit /\ HoldersOf(k) = {}
    BY DEF Init, HoldersOf
  <2>2. {c \in Calls : pc[c] \in InBody} = {}
    BY DEF Init, InBody
  <2>3. Cardinality({}) = 0
    BY FS_EmptySet
  <2>4. \A k \in Keys : value[k] >= 0 /\ value[k] + Cardinality(HoldersOf(k)) = Limit
    BY <2>1, <2>3, LimitAssumption
  <2>5. QED
    BY <2>2, <2>3, <2>4 DEF Init, PermitsConserved
<1>3. PermitReturned /\ SlotsExclusive
  BY DEF Init, PermitReturned, Lost, SlotsExclusive
<1>4. NoSleeperForgotten /\ OwnSlot
  BY DEF Init, NoSleeperForgotten, Waiters, OwnSlot
<1>5. QED
  BY <1>1, <1>2, <1>3, <1>4 DEF IInv

\* The invariant is kept by every step.
LEMMA Step == ASSUME IInv, [Next]_vars PROVE IInv'
<1>1. Shape'
  BY ShapeStep DEF IInv
<1>2. PermitsConserved' /\ PermitReturned' /\ NoSleeperForgotten'
  BY PermitsStep, ReturnedStep, SleepersStep DEF IInv
<1>3. OwnSlot' /\ SlotsExclusive'
  BY FilesStep DEF IInv, SlotsKept
<1>4. QED
  BY <1>1, <1>2, <1>3 DEF IInv

\* The inductive invariant holds in every state of every decorated function.
THEOREM RetryInvariant == Spec => []IInv
<1>1. Init => IInv
  BY Begin
<1>2. IInv /\ [Next]_vars => IInv'
  BY Step
<1>3. QED
  BY <1>1, <1>2, PTL DEF Spec

\* Whatever is called, retried, refused, cancelled or killed, the variables
\* have values of their types.
THEOREM RetryTypes == Spec => []TypeOK
<1>1. IInv => TypeOK
  BY DEF IInv, Shape
<1>2. QED
  BY <1>1, RetryInvariant, PTL

\* An in-process semaphore never has more or fewer permits, free and given out,
\* than semaphore_limit, and _active_retry_operations counts the bodies.
THEOREM PermitsAreConserved == Spec => []PermitsConserved
<1>1. IInv => PermitsConserved
  BY DEF IInv
<1>2. QED
  BY <1>1, RetryInvariant, PTL

\* The finally clause keeps a permit only of a call whose coroutine ran in
\* another context or was dropped.
THEOREM PermitsAreReturned == Spec => []PermitReturned
<1>1. IInv => PermitReturned
  BY DEF IInv
<1>2. QED
  BY <1>1, RetryInvariant, PTL

\* notify() of one thread for each release is enough: a free permit beside a
\* sleeping thread always has a woken thread on its way to it.
THEOREM SleepersAreSure == Spec => []NoSleeperForgotten
<1>1. IInv => NoSleeperForgotten
  BY DEF IInv
<1>2. QED
  BY <1>1, RetryInvariant, PTL

\* While no process dies, a slot file is removed by its owner alone.
THEOREM SlotsAreExclusive == Spec => []SlotsExclusive
<1>1. IInv => SlotsExclusive
  BY DEF IInv
<1>2. QED
  BY <1>1, RetryInvariant, PTL
=============================================================================
