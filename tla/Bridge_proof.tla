---------------------------- MODULE Bridge_proof ----------------------------
(***************************************************************************)
(* Bridges: what a bridge knows of the table's columns, that a closed one  *)
(* is quiet, and that what arrives was sent, arrives once and in one       *)
(* order, for any processes, events, media and deaths.                     *)
(***************************************************************************)
EXTENDS Bridge, SequenceLemmas, FiniteSetTheorems, TLAPS

USE DEF emitVars, lifeVars, mediumVars, readVars, ghostVars

\* Emits that have not looked at the columns yet.
Unread == {"idle", "wait", "columns"}

\* The types of what the arguments below look at.
Types ==
    /\ conf \in Configs
    /\ life \in [Peer -> {"off", "boot", "ready", "on"}]
    /\ starter \in [Peer -> SUBSET {"task", "caller"}]
    /\ closed \in [Peer -> {"no", "begun", "over"}]
    /\ listener \in [Peer -> {"none", "run", "dead"}] /\ reopened \subseteq Peer
    /\ emitting \in [Msg -> {"idle", "wait", "columns", "alter", "upsert", "notify",
                             "write", "tail"} \cup Ended]
    /\ todo \in [Msg -> SUBSET AllColumns]
    /\ table \subseteq AllColumns /\ cache \in [Peer -> SUBSET AllColumns]

\* An emit looks for the columns of its own event, and only where there is a
\* table; no other medium gets columns.
ColumnsSought ==
    /\ \A m \in Msg : todo[m] \subseteq Columns[m]
    /\ \A m \in Msg : emitting[m] \in {"columns", "alter"} => Sql
    /\ ~Sql => table = {}

\* An event of another process brought the column.
Explained(p, c) ==
    \E m \in Msg : Sender[m] # p /\ c \in Columns[m] /\ emitting[m] \notin Unread

\* Already from when start() has read the columns, those that the bridge does
\* not know of are the work of others.
ColumnsExplained ==
    \A p \in Peer :
        /\ cache[p] \subseteq table
        /\ life[p] \in {"ready", "on"} => \A c \in table \ cache[p] : Explained(p, c)

\* A listener without a running bridge is one of Postgres or NATS that close()
\* has not come to yet.
Leftover(p) ==
    life[p] # "on" /\ listener[p] # "none" =>
        life[p] = "off" /\ closed[p] = "begun" /\ medium \in {"postgres", "nats"}

\* When close() has begun, only a start() of a caller's goes on, and every task is
\* younger: unless the bridge was to start again since.
Quiet ==
    \A p \in Peer : p \notin reopened =>
        /\ Leftover(p)
        /\ closed[p] # "no" => "task" \notin starter[p]
        /\ closed[p] # "no" /\ "caller" \notin starter[p] => life[p] = "off"

\* The invariant of the columns and of closing.
IInv == Types /\ ColumnsSought /\ ColumnsExplained /\ Quiet

----------------------------------------------------------------------------
(* Steps of an emit() and steps of a bridge.                               *)

\* One emit() moves on, and never back before the columns.
EmitStep(m) ==
    /\ \E w \in {"columns", "alter", "upsert", "notify", "write", "tail"} \cup Ended :
         /\ emitting' = [emitting EXCEPT ![m] = w]
         /\ emitting[m] \notin Unread => w \notin Unread
         /\ w \in {"columns", "alter"} => Sql
    /\ todo' \in [Msg -> SUBSET AllColumns] /\ \A n \in Msg : todo'[n] \subseteq Columns[n]
    /\ UNCHANGED <<conf, lifeVars, listener, reopened>>

\* All of emit() but its beginning and ALTER TABLE.
Passes(m) ==
    \/ Started(m) \/ FindMissing(m) \/ UpsertRow(m) \/ UpsertAndNotify(m)
    \/ Publish(m) \/ AppendLine(m) \/ Collide(m) \/ CutOff(m)

\* Such a step moves its emit() on and leaves the table's columns alone.
LEMMA PassesMove ==
    ASSUME Types, ColumnsSought, NEW m \in Msg, Passes(m)
    PROVE  EmitStep(m) /\ UNCHANGED <<table, cache>>
<1>1. /\ todo \in [Msg -> SUBSET AllColumns]
      /\ \A n \in Msg : todo[n] \subseteq Columns[n] /\ Columns[n] \subseteq AllColumns
  BY DEF Types, ColumnsSought, AllColumns
<1>2. CASE Started(m)
  <2>1. \E w \in {"columns", "write"} :
          emitting' = [emitting EXCEPT ![m] = w] /\ (w = "columns" => Sql)
    BY <1>2 DEF Started, To, AfterStart
  <2>2. QED
    BY <1>1, <1>2, <2>1 DEF Started, EmitStep, Unread
<1>3. CASE FindMissing(m)
  <2>1. todo' \in [Msg -> SUBSET AllColumns] /\ \A n \in Msg : todo'[n] \subseteq Columns[n]
    BY <1>1, <1>3 DEF FindMissing
  <2>2. Sql
    BY <1>3 DEF FindMissing, ColumnsSought
  <2>3. \E w \in {"upsert", "alter"} : emitting' = [emitting EXCEPT ![m] = w]
    BY <1>3 DEF FindMissing, To
  <2>4. QED
    BY <1>3, <2>1, <2>2, <2>3 DEF FindMissing, EmitStep, Unread, Ended
<1>4. CASE UpsertRow(m) \/ Publish(m) \/ Collide(m) \/ CutOff(m)
  BY <1>1, <1>4 DEF UpsertRow, Publish, Collide, CutOff, To, EmitStep, Unread, Ended
<1>5. CASE UpsertAndNotify(m)
  BY <1>1, <1>5 DEF UpsertAndNotify, To, EmitStep, Unread, Ended
<1>6. CASE AppendLine(m)
  <2>1. \E w \in {"tail", "sent"} : emitting' = [emitting EXCEPT ![m] = w]
    BY <1>6 DEF AppendLine, To
  <2>2. QED
    BY <1>1, <1>6, <2>1 DEF AppendLine, EmitStep, Unread, Ended
<1>7. QED
  BY <1>2, <1>3, <1>4, <1>5, <1>6 DEF Passes

\* An emit() that moves on keeps everything, if the columns stay.
LEMMA EmitKeeps ==
    ASSUME IInv, NEW m \in Msg, EmitStep(m), UNCHANGED <<table, cache>>
    PROVE  IInv'
<1> USE DEF IInv
<1>1. PICK w \in {"columns", "alter", "upsert", "notify", "write", "tail"} \cup Ended :
         /\ emitting' = [emitting EXCEPT ![m] = w]
         /\ emitting[m] \notin Unread => w \notin Unread
         /\ w \in {"columns", "alter"} => Sql
  BY DEF EmitStep
<1>2. \A n \in Msg : /\ emitting[n] \notin Unread => emitting'[n] \notin Unread
                     /\ emitting'[n] \in {"columns", "alter"} => Sql
  BY <1>1 DEF Types, ColumnsSought
<1>3. Types'
  BY <1>1 DEF EmitStep, Types, Ended
<1>4. ColumnsSought'
  BY <1>2 DEF EmitStep, ColumnsSought, Sql, medium
<1>5. ColumnsExplained'
  BY <1>2 DEF EmitStep, ColumnsExplained, Explained, Unread
<1>6. Quiet'
  BY DEF EmitStep, Quiet, Leftover, medium
<1>7. QED
  BY <1>3, <1>4, <1>5, <1>6

\* ALTER TABLE adds a column of the event to the table, and its bridge knows.
LEMMA AlterKeeps ==
    ASSUME IInv, NEW m \in Msg, AlterTable(m)
    PROVE  IInv'
<1> USE DEF IInv
<1>1. PICK c \in todo[m] :
         IF medium = "sqlite" /\ c \in table
         THEN /\ To(m, "failed")
              /\ UNCHANGED <<todo, table, cache>>
         ELSE /\ table' = table \cup {c}
              /\ cache' = [cache EXCEPT ![Sender[m]] = @ \cup {c}]
              /\ todo' = [todo EXCEPT ![m] = @ \ {c}]
              /\ To(m, IF todo[m] = {c} THEN "upsert" ELSE "alter")
  BY DEF AlterTable
<1>2. emitting[m] = "alter" /\ Sql /\ UNCHANGED <<conf, lifeVars, listener, reopened>>
  BY DEF AlterTable, ColumnsSought
<1>3. /\ c \in Columns[m] /\ Columns[m] \subseteq AllColumns
      /\ todo \in [Msg -> SUBSET AllColumns]
      /\ \A n \in Msg : todo[n] \subseteq Columns[n]
  BY DEF ColumnsSought, AllColumns, Types
<1>4. EmitStep(m)
  <2>1. todo' \in [Msg -> SUBSET AllColumns] /\ \A n \in Msg : todo'[n] \subseteq Columns[n]
    BY <1>1, <1>3
  <2>2. \E w \in {"failed", "upsert", "alter"} : emitting' = [emitting EXCEPT ![m] = w]
    BY <1>1 DEF To
  <2>3. QED
    BY <1>2, <2>1, <2>2 DEF EmitStep, Unread, Ended
<1>5. CASE UNCHANGED <<table, cache>>
  BY <1>4, <1>5, EmitKeeps
<1>6. CASE /\ table' = table \cup {c}
           /\ cache' = [cache EXCEPT ![Sender[m]] = @ \cup {c}]
  <2>1. \A n \in Msg : /\ emitting[n] \notin Unread => emitting'[n] \notin Unread
                       /\ emitting'[n] \in {"columns", "alter"} => Sql
    BY <1>2, <1>4 DEF EmitStep, Types, ColumnsSought
  <2>2. emitting'[m] \notin Unread
    BY <1>2, <2>1 DEF Unread
  <2>3. Types'
    <3>1. table' \subseteq AllColumns /\ cache' \in [Peer -> SUBSET AllColumns]
      <4>1. c \in AllColumns /\ cache \in [Peer -> SUBSET AllColumns] /\ table \subseteq AllColumns
        BY <1>3 DEF Types
      <4>2. \A p \in Peer : cache[p] \cup {c} \in SUBSET AllColumns
        BY <4>1
      <4>3. QED
        BY <1>6, <4>1, <4>2
    <3>2. emitting' \in [Msg -> {"idle", "wait", "columns", "alter", "upsert", "notify",
                                "write", "tail"} \cup Ended]
      BY <1>4 DEF EmitStep, Types, Ended
    <3>3. QED
      BY <1>2, <1>4, <3>1, <3>2 DEF EmitStep, Types
  <2>4. ColumnsSought'
    BY <1>2, <1>4, <2>1 DEF EmitStep, ColumnsSought, Sql, medium
  <2>5. ColumnsExplained'
    <3> SUFFICES ASSUME NEW p \in Peer
                 PROVE  /\ cache'[p] \subseteq table'
                        /\ life'[p] \in {"ready", "on"} =>
                             \A d \in table' \ cache'[p] : Explained(p, d)'
      BY DEF ColumnsExplained
    <3>1. cache[p] \subseteq cache'[p] /\ cache'[p] \subseteq table'
      BY <1>6 DEF ColumnsExplained, Types
    <3>2. ASSUME life'[p] \in {"ready", "on"}, NEW d \in table' \ cache'[p]
          PROVE  Explained(p, d)'
      <4>1. CASE d \in table
        <5>1. Explained(p, d)
          BY <1>2, <3>1, <3>2, <4>1 DEF ColumnsExplained
        <5>2. QED
          BY <2>1, <5>1 DEF Explained
      <4>2. CASE d \notin table
        <5>1. d = c /\ Sender[m] # p
          BY <1>6, <3>2, <4>2 DEF Types
        <5>2. QED
          BY <1>3, <2>2, <5>1 DEF Explained
      <4>3. QED
        BY <4>1, <4>2
    <3>3. QED
      BY <3>1, <3>2
  <2>6. Quiet'
    BY <1>2 DEF Quiet, Leftover, medium
  <2>7. QED
    BY <2>3, <2>4, <2>5, <2>6
<1>7. QED
  BY <1>1, <1>5, <1>6

\* on(), or emit(), makes a task for start(), and the bridge counts as reopened
\* if close() had begun.
LEMMA EnsureKeeps ==
    ASSUME IInv, NEW p \in Peer, EnsureStarted(p), UNCHANGED <<conf, closed, listener>>
    PROVE  /\ life' \in [Peer -> {"off", "boot", "ready", "on"}]
           /\ starter' \in [Peer -> SUBSET {"task", "caller"}]
           /\ reopened' \subseteq Peer
           /\ \A q \in Peer : life'[q] \in {"ready", "on"} => life[q] = life'[q]
           /\ Quiet'
<1> USE DEF IInv
<1>1. CASE life[p] = "on"
  BY <1>1 DEF EnsureStarted, Types, Quiet, Leftover, medium
<1>2. CASE life[p] # "on"
  <2>1. /\ life' = [life EXCEPT ![p] = IF @ = "off" THEN "boot" ELSE @]
        /\ starter' = [starter EXCEPT ![p] = @ \cup {"task"}]
        /\ reopened' = IF closed[p] = "no" THEN reopened ELSE reopened \cup {p}
    BY <1>2 DEF EnsureStarted, StartsAgain
  <2>2. /\ life' \in [Peer -> {"off", "boot", "ready", "on"}]
        /\ starter' \in [Peer -> SUBSET {"task", "caller"}]
        /\ reopened' \subseteq Peer
        /\ \A q \in Peer : life'[q] \in {"ready", "on"} => life[q] = life'[q]
    BY <2>1 DEF Types
  <2>3. ASSUME NEW q \in Peer, q \notin reopened'
        PROVE  /\ Leftover(q)'
               /\ closed'[q] # "no" => "task" \notin starter'[q]
               /\ closed'[q] # "no" /\ "caller" \notin starter'[q] => life'[q] = "off"
    <3>1. q \notin reopened /\ medium' = medium
      BY <2>1, <2>3 DEF medium
    <3>2. CASE q # p
      BY <2>1, <3>1, <3>2 DEF Quiet, Leftover, Types
    <3>3. CASE q = p
      <4>1. closed[p] = "no" /\ listener[p] = "none"
        BY <1>2, <2>1, <2>3, <3>1, <3>3 DEF Quiet, Leftover
      <4>2. QED
        BY <3>3, <4>1 DEF Leftover
    <3>4. QED
      BY <3>2, <3>3
  <2>4. QED
    BY <2>2, <2>3 DEF Quiet
<1>3. QED
  BY <1>1, <1>2

\* Steps that leave the table alone and do not make a bridge forget columns.
LEMMA LifeKeeps ==
    ASSUME IInv, UNCHANGED <<conf, table, todo>>, Types', Quiet',
           \A n \in Msg : /\ emitting[n] \notin Unread => emitting'[n] \notin Unread
                          /\ emitting'[n] \in {"columns", "alter"} => Sql,
           \A q \in Peer :
              /\ cache'[q] = cache[q] \/ cache'[q] = table
              /\ life'[q] \in {"ready", "on"} =>
                   \/ life[q] \in {"ready", "on"} /\ cache'[q] = cache[q]
                   \/ cache'[q] = table
    PROVE  IInv'
<1>1. ColumnsSought'
  BY DEF IInv, ColumnsSought, Sql, medium
<1>2. ColumnsExplained'
  <2> SUFFICES ASSUME NEW p \in Peer
               PROVE  /\ cache'[p] \subseteq table
                      /\ life'[p] \in {"ready", "on"} =>
                           \A d \in table \ cache'[p] : Explained(p, d)'
    BY DEF ColumnsExplained
  <2>1. cache'[p] \subseteq table
    BY DEF IInv, ColumnsExplained
  <2>2. ASSUME life'[p] \in {"ready", "on"}, NEW d \in table \ cache'[p]
        PROVE  Explained(p, d)'
    <3>1. Explained(p, d)
      BY <2>2 DEF IInv, ColumnsExplained
    <3>2. QED
      BY <3>1 DEF Explained
  <2>3. QED
    BY <2>1, <2>2
<1>3. QED
  BY <1>1, <1>2 DEF IInv

\* Reading, hearing and dying change no column and no start().
LEMMA ReadingKeeps ==
    ASSUME IInv, NEW p \in Peer,
           PollNewLines(p) \/ PollRows(p) \/ Hear(p) \/ Crash(p)
    PROVE  IInv'
<1> USE DEF IInv
<1>1. UNCHANGED <<conf, emitting, todo, table, cache, life, starter, closed, reopened>>
  BY DEF PollNewLines, PollRows, Hear, Crash
<1>2. listener' = listener \/ (listener[p] = "run" /\ listener' = [listener EXCEPT ![p] = "dead"])
  BY DEF PollNewLines, PollRows, Hear, Crash, Listening
<1>3. Types'
  BY <1>1, <1>2 DEF Types
<1>4. Quiet'
  BY <1>1, <1>2 DEF Quiet, Leftover, Types, medium
<1>5. QED
  BY <1>1, <1>3, <1>4, LifeKeeps DEF ColumnsSought

\* start() goes on: whoever is in it is a caller if the bridge is closed.
LEMMA StartKeeps ==
    ASSUME IInv, NEW p \in Peer,
           OpenTable(p) \/ Subscribe(p) \/ BootEnd(p) \/ StartDirectly(p)
    PROVE  IInv'
<1> USE DEF IInv
<1>1. UNCHANGED <<conf, emitting, todo, table, closed>>
  BY DEF OpenTable, Subscribe, BootEnd, StartDirectly
<1>2. CASE OpenTable(p)
  <2>1. Types'
    BY <1>2 DEF OpenTable, Types
  <2>2. Quiet'
    BY <1>2 DEF OpenTable, Quiet, Leftover, Types, medium
  <2>3. QED
    BY <1>1, <1>2, <2>1, <2>2, LifeKeeps DEF OpenTable, ColumnsSought, Types
<1>3. CASE Subscribe(p)
  <2>1. Types'
    BY <1>3 DEF Subscribe, Types
  <2>2. Quiet'
    BY <1>3 DEF Subscribe, Quiet, Leftover, Types, medium
  <2>3. table = {}
    BY <1>3 DEF Subscribe, ColumnsSought, Sql
  <2>4. \A q \in Peer : cache'[q] = cache[q] /\ cache[q] = table
    BY <1>3, <2>3 DEF Subscribe, ColumnsExplained
  <2>5. QED
    BY <1>1, <2>1, <2>2, <2>4, LifeKeeps DEF ColumnsSought
<1>4. CASE BootEnd(p)
  <2>1. Types'
    BY <1>4 DEF BootEnd, Types
  <2>2. Quiet'
    BY <1>4 DEF BootEnd, Quiet, Leftover, Types, medium
  <2>3. life[p] \in {"ready", "on"} \/ table = {}
    BY <1>4 DEF BootEnd, ColumnsSought, Sql
  <2>4. cache' = cache /\ \A q \in Peer \ {p} : life'[q] = life[q]
    BY <1>4 DEF BootEnd, Types
  <2>5. table = {} => \A q \in Peer : cache[q] = table
    BY DEF ColumnsExplained
  <2>6. QED
    BY <1>1, <2>1, <2>2, <2>3, <2>4, <2>5, LifeKeeps DEF ColumnsSought
<1>5. CASE StartDirectly(p)
  <2>1. Types'
    BY <1>5 DEF StartDirectly, StartsAgain, Types
  <2>2. Quiet'
    BY <1>5 DEF StartDirectly, StartsAgain, Quiet, Leftover, Types, medium
  <2>a. \A q \in Peer : life'[q] \in {"ready", "on"} => life[q] = life'[q]
    BY <1>5 DEF StartDirectly, Types
  <2>3. QED
    BY <1>1, <1>5, <2>1, <2>2, <2>a, LifeKeeps DEF StartDirectly, ColumnsSought
<1>6. QED
  BY <1>2, <1>3, <1>4, <1>5

\* on() and the beginning of emit().
LEMMA UseKeeps ==
    ASSUME IInv
    PROVE  /\ \A p \in Peer : On(p) => IInv'
           /\ \A m \in Msg : EmitCall(m) => IInv'
<1> USE DEF IInv
<1>1. ASSUME NEW p \in Peer, On(p) PROVE IInv'
  <2>1. /\ EnsureStarted(p)
        /\ UNCHANGED <<conf, emitting, todo, closed, table, cache, listener>>
    BY <1>1 DEF On
  <2>2. Types' /\ Quiet'
    BY <2>1, EnsureKeeps DEF Types
  <2>3. QED
    BY <2>1, <2>2, EnsureKeeps, LifeKeeps DEF ColumnsSought
<1>2. ASSUME NEW m \in Msg, EmitCall(m) PROVE IInv'
  <2>1. /\ Sender[m] \in Peer /\ emitting[m] = "idle"
        /\ EnsureStarted(Sender[m])
        /\ UNCHANGED <<conf, todo, closed, table, cache, listener>>
    BY <1>2, BridgeAssumption DEF EmitCall
  <2>2. \E w \in {"write", "columns", "wait", "failed"} :
          emitting' = [emitting EXCEPT ![m] = w] /\ (w = "columns" => Sql)
    <3>1. medium = "jsonl" \/ medium = "sqlite" \/ Network
      BY BridgeAssumption DEF IInv, Types, Network, medium, Media, Conf
    <3>a. Network => medium # "jsonl" /\ medium # "sqlite"
      BY DEF Network
    <3> DEFINE w == CASE medium = "jsonl" -> "write"
                      [] medium = "sqlite" -> IF life[Sender[m]] = "on" THEN "columns" ELSE "wait"
                      [] Network -> IF Sender[m] \in open THEN AfterStart
                                    ELSE IF life[Sender[m]] = "on" THEN "failed" ELSE "wait"
    <3>2. emitting' = [emitting EXCEPT ![m] = w]
      BY <1>2 DEF EmitCall, To
    <3>3. AfterStart \in {"columns", "write"} /\ (AfterStart = "columns" => Sql)
      BY DEF AfterStart
    <3>4. w \in {"write", "columns", "wait", "failed"} /\ (w = "columns" => Sql)
      BY <3>1, <3>a, <3>3 DEF Sql
    <3> HIDE DEF w
    <3>5. QED
      BY <3>2, <3>4
  <2>3. /\ emitting' \in [Msg -> {"idle", "wait", "columns", "alter", "upsert", "notify",
                                  "write", "tail"} \cup Ended]
        /\ \A n \in Msg : /\ emitting[n] \notin Unread => emitting'[n] \notin Unread
                          /\ emitting'[n] \in {"columns", "alter"} => Sql
    BY <2>1, <2>2 DEF Types, Unread, ColumnsSought, Ended
  <2>4. Types' /\ Quiet'
    BY <2>1, <2>3, EnsureKeeps DEF Types
  <2>5. \A q \in Peer : life'[q] \in {"ready", "on"} => life[q] = life'[q]
    BY <2>1, EnsureKeeps
  <2>6. QED
    BY <2>1, <2>3, <2>4, <2>5, LifeKeeps
<1>3. QED
  BY <1>1, <1>2

\* A start() that raises leaves the bridge off, or a task that tries again.
LEMMA FailsOff ==
    ASSUME Types, NEW p \in Peer, StartFails(p), life[p] = "ready"
    PROVE  /\ life' \in [Peer -> {"off", "boot", "ready", "on"}]
           /\ starter' \in [Peer -> SUBSET {"task", "caller"}]
           /\ emitting' \in [Msg -> {"idle", "wait", "columns", "alter", "upsert", "notify",
                                      "write", "tail"} \cup Ended]
           /\ \A n \in Msg : \/ emitting'[n] = emitting[n]
                             \/ emitting[n] = "wait" /\ emitting'[n] = "failed"
           /\ \A q \in Peer \ {p} : life'[q] = life[q] /\ starter'[q] = starter[q]
           /\ \/ life'[p] = "off" /\ starter'[p] = {}
              \/ life'[p] = "boot" /\ "task" \in starter[p]
<1>1. CASE starter[p] = {"caller", "task"}
  <2>1. /\ life' = [life EXCEPT ![p] = "boot"] /\ starter' = [starter EXCEPT ![p] = {"task"}]
        /\ emitting' = [m \in Msg |-> emitting[m]]
    BY <1>1 DEF StartFails
  <2>2. QED
    BY <1>1, <2>1 DEF Types
<1>2. CASE starter[p] # {"caller", "task"}
  <2>1. /\ life' = [life EXCEPT ![p] = "off"] /\ starter' = [starter EXCEPT ![p] = {}]
        /\ emitting' = [m \in Msg |-> IF Waits(p, m) THEN "failed" ELSE emitting[m]]
    BY <1>2 DEF StartFails
  <2>2. QED
    BY <2>1 DEF Types, Waits, Ended
<1>3. QED
  BY <1>1, <1>2

\* A start() of Postgres that collides with an emit() closes what it has opened.
LEMMA CollisionKeeps ==
    ASSUME IInv, NEW p \in Peer, StartCollides(p)
    PROVE  IInv'
<1> USE DEF IInv
<1>1. /\ life[p] = "ready" /\ StartFails(p)
      /\ UNCHANGED <<conf, todo, closed, table, cache, listener, reopened>>
  BY DEF StartCollides
<1>2. Types'
  BY <1>1, FailsOff DEF Types
<1>3. Quiet'
  <2>1. ASSUME NEW q \in Peer, q \notin reopened
        PROVE  /\ Leftover(q)'
               /\ closed[q] # "no" => "task" \notin starter'[q]
               /\ closed[q] # "no" /\ "caller" \notin starter'[q] => life'[q] = "off"
    <3>1. CASE q # p
      BY <1>1, <2>1, <3>1, FailsOff DEF Quiet, Leftover, medium
    <3>2. CASE q = p
      <4>1. listener[p] = "none"
        BY <1>1, <2>1, <3>2 DEF Quiet, Leftover
      <4>2. closed[p] # "no" => "task" \notin starter[p]
        BY <2>1, <3>2 DEF Quiet
      <4>3. \/ life'[p] = "off" /\ starter'[p] = {}
            \/ life'[p] = "boot" /\ "task" \in starter[p]
        BY <1>1, FailsOff
      <4>4. QED
        BY <1>1, <3>2, <4>1, <4>2, <4>3 DEF Leftover
    <3>3. QED
      BY <3>1, <3>2
  <2>2. QED
    BY <1>1, <2>1 DEF Quiet
<1>4. \A n \in Msg : /\ emitting[n] \notin Unread => emitting'[n] \notin Unread
                     /\ emitting'[n] \in {"columns", "alter"} => Sql
  BY <1>1, FailsOff DEF Unread, ColumnsSought
<1>5. \A q \in Peer : life'[q] \in {"ready", "on"} => life[q] = life'[q]
  BY <1>1, FailsOff
<1>6. QED
  BY <1>1, <1>2, <1>3, <1>4, <1>5, LifeKeeps

\* close() ends every start() but that of a caller, and the listener.
LEMMA CloseKeeps ==
    ASSUME IInv, NEW p \in Peer, CloseBegins(p) \/ CloseEnds(p)
    PROVE  IInv'
<1> USE DEF IInv
<1>1. CASE CloseBegins(p)
  <2>1. /\ closed[p] = "no" /\ closed' = [closed EXCEPT ![p] = "begun"]
        /\ UNCHANGED <<conf, todo, table, cache, reopened>>
        /\ \A n \in Msg :
              \/ emitting'[n] = emitting[n]
              \/ emitting[n] = "wait" /\ emitting'[n] \in {"cancelled", "write"}
              \/ emitting[n] = "wait" /\ emitting'[n] = "columns" /\ Sql
    BY <1>1 DEF CloseBegins, Waits, LeftWaiting, AfterStart
  <2>2. \/ /\ "caller" \in starter[p] /\ life[p] # "on" /\ life' = [life EXCEPT ![p] = @]
           /\ starter' = [starter EXCEPT ![p] = {"caller"}]
        \/ life' = [life EXCEPT ![p] = "off"] /\ starter' = [starter EXCEPT ![p] = {}]
    BY <1>1 DEF CloseBegins, StopStart
  <2>3. emitting' \in [Msg -> {"idle", "wait", "columns", "alter", "upsert", "notify",
                               "write", "tail"} \cup Ended]
    BY <1>1 DEF CloseBegins, LeftWaiting, AfterStart, Types, Ended
  <2>a. \/ listener' = listener /\ medium \in {"postgres", "nats"}
        \/ listener' = [listener EXCEPT ![p] = "none"]
    BY <1>1 DEF CloseBegins
  <2>4. Types'
    BY <2>1, <2>2, <2>3, <2>a DEF Types
  <2>5. Quiet'
    <3>1. ASSUME NEW q \in Peer, q \notin reopened
          PROVE  /\ Leftover(q)'
                 /\ closed'[q] # "no" => "task" \notin starter'[q]
                 /\ closed'[q] # "no" /\ "caller" \notin starter'[q] => life'[q] = "off"
      <4>1. CASE q # p
        BY <2>1, <2>2, <2>a, <3>1, <4>1 DEF Quiet, Leftover, Types, medium
      <4>2. CASE q = p
        <5>1. life[p] # "on" => listener[p] = "none"
          BY <2>1, <3>1, <4>2 DEF Quiet, Leftover
        <5>2. Leftover(p)'
          <6>1. closed'[p] = "begun" /\ medium' = medium
            BY <2>1 DEF Types, medium
          <6>2. life[p] # "on" => listener'[p] = "none"
            BY <2>a, <5>1 DEF Types
          <6>3. life'[p] = "off" \/ (life'[p] = life[p] /\ life[p] # "on")
            BY <2>2 DEF Types
          <6>4. listener'[p] # "none" => medium \in {"postgres", "nats"}
            BY <2>a DEF Types
          <6>5. QED
            BY <6>1, <6>2, <6>3, <6>4 DEF Leftover
        <5>3. QED
          BY <2>2, <4>2, <5>2 DEF Types
      <4>3. QED
        BY <4>1, <4>2
    <3>2. QED
      BY <2>1, <3>1 DEF Quiet
  <2>6. \A q \in Peer : life'[q] \in {"ready", "on"} => life[q] = life'[q]
    BY <2>2 DEF Types
  <2>7. QED
    BY <2>1, <2>4, <2>5, <2>6, LifeKeeps DEF ColumnsSought, Unread
<1>2. CASE CloseEnds(p)
  <2>1. /\ closed' = [closed EXCEPT ![p] = "over"] /\ closed[p] = "begun"
        /\ UNCHANGED <<conf, todo, table, cache, reopened>>
    BY <1>2 DEF CloseEnds
  <2>2. PICK lost \in Lost(p) :
          /\ listener' = [listener EXCEPT ![p] = IF "reads" \in lost THEN "none" ELSE @]
          /\ IF medium = "postgres" /\ life[p] = "ready" /\ lost # {} THEN StartFails(p)
             ELSE UNCHANGED <<life, starter, emitting>>
    BY <1>2 DEF CloseEnds
  <2>3. \/ life[p] = "ready" /\ StartFails(p)
        \/ UNCHANGED <<life, starter, emitting>>
    BY <2>2
  <2>4. Types'
    <3>1. listener' \in [Peer -> {"none", "run", "dead"}]
      BY <2>2 DEF Types
    <3>2. QED
      BY <2>1, <2>3, <3>1, FailsOff DEF Types
  <2>5. ASSUME NEW q \in Peer
        PROVE  \/ life'[q] = life[q] /\ starter'[q] = starter[q]
               \/ /\ q = p /\ life[p] = "ready"
                  /\ \/ life'[p] = "off" /\ starter'[p] = {}
                     \/ life'[p] = "boot" /\ "task" \in starter[p]
    BY <2>3, FailsOff
  <2>6. Quiet'
    <3>1. ASSUME NEW q \in Peer, q \notin reopened
          PROVE  /\ Leftover(q)'
                 /\ closed'[q] # "no" => "task" \notin starter'[q]
                 /\ closed'[q] # "no" /\ "caller" \notin starter'[q] => life'[q] = "off"
      <4>1. CASE q # p
        BY <2>1, <2>2, <2>5, <3>1, <4>1 DEF Quiet, Leftover, Types, medium
      <4>2. CASE q = p
        <5>1. life[p] # "on" => listener'[p] = "none"
          <6>1. CASE life[p] = "off" /\ medium \in {"postgres", "nats"}
            <7>1. Lost(p) = {{"reads", "writes"}}
              BY <6>1 DEF Lost, Network
            <7>2. QED
              BY <2>2, <7>1 DEF Types
          <6>2. QED
            BY <2>2, <3>1, <4>2, <6>1 DEF Quiet, Leftover, Types
        <5>2. life'[p] # "on" => life[p] # "on"
          BY <2>5
        <5>3. Leftover(q)'
          BY <4>2, <5>1, <5>2 DEF Leftover
        <5>4. "task" \notin starter[p] /\ ("caller" \notin starter[p] => life[p] = "off")
          BY <2>1, <3>1, <4>2 DEF Quiet
        <5>5. QED
          BY <2>5, <4>2, <5>3, <5>4
      <4>3. QED
        BY <4>1, <4>2
    <3>2. QED
      BY <2>1, <3>1 DEF Quiet
  <2>7. \A n \in Msg : /\ emitting[n] \notin Unread => emitting'[n] \notin Unread
                       /\ emitting'[n] \in {"columns", "alter"} => Sql
    BY <2>3, FailsOff DEF Unread, ColumnsSought
  <2>8. \A q \in Peer : life'[q] \in {"ready", "on"} => life[q] = life'[q]
    BY <2>5
  <2>9. QED
    BY <2>1, <2>4, <2>6, <2>7, <2>8, LifeKeeps
<1>3. QED
  BY <1>1, <1>2

----------------------------------------------------------------------------
(* The theorems.                                                           *)

\* The invariant is kept by every step of every process.
LEMMA Step == ASSUME IInv, [Next]_vars PROVE IInv'
<1>1. CASE UNCHANGED vars
  BY <1>1 DEF vars, IInv, Types, ColumnsSought, ColumnsExplained, Explained, Quiet, Leftover, Sql,
                   medium
<1>2. ASSUME NEW p \in Peer,
             On(p) \/ StartDirectly(p) \/ Starting(p) \/ Reading(p)
             \/ CloseBegins(p) \/ CloseEnds(p) \/ StartCollides(p) \/ Crash(p)
      PROVE  IInv'
  BY <1>2, UseKeeps, StartKeeps, ReadingKeeps, CloseKeeps, CollisionKeeps DEF Starting, Reading
<1>3. ASSUME NEW m \in Msg, EmitCall(m) \/ Writing(m) \/ Collide(m) \/ CutOff(m)
      PROVE  IInv'
  <2>1. CASE Passes(m)
    BY <2>1, PassesMove, EmitKeeps DEF IInv
  <2>2. QED
    BY <1>3, <2>1, UseKeeps, AlterKeeps DEF Writing, Passes
<1>4. QED
  BY <1>1, <1>2, <1>3 DEF Next

\* Processes, columns and closing agree in every state.
THEOREM BridgeInvariant == Spec => []IInv
<1>1. Init => IInv
  BY BridgeAssumption
     DEF Init, IInv, Types, ColumnsSought, ColumnsExplained, Quiet, Leftover, Ended
<1>2. IInv /\ [Next]_vars => IInv'
  BY Step
<1>3. QED
  BY <1>1, <1>2, PTL DEF Spec

\* _columns of a running bridge lacks a column only if an event of another
\* process brought it into the table.
THEOREM ColumnsAreKnown == Spec => []ColumnsKnown
<1>1. IInv => ColumnsKnown
  BY DEF IInv, ColumnsExplained, Explained, Unread, ColumnsKnown
<1>2. QED
  BY <1>1, BridgeInvariant, PTL

\* close() leaves nothing that listens or will of what was begun before it, but for
\* a start() that a caller runs: what listens afterwards was started by an on(),
\* emit() or start() that came when close() had begun.
THEOREM ClosedBridgesAreQuiet == Spec => []ClosedIsQuiet
<1>1. IInv => ClosedIsQuiet
  BY DEF IInv, Quiet, Leftover, ClosedIsQuiet
<1>2. QED
  BY <1>1, BridgeInvariant, PTL

----------------------------------------------------------------------------
(* Places: the n-th of a set of numbers, and its extremes.                 *)

\* The elements of a set of numbers up to one.
Upto(T, i) == {k \in T : k <= i}

\* The numbers up to one of a set are some, and more for a greater one.
LEMMA UptoRises ==
    ASSUME NEW T \in SUBSET Nat
    PROVE  /\ \A i \in T : i \in Upto(T, i) /\ Upto(T, i) \subseteq T
           /\ \A i, j \in T : i < j => j \notin Upto(T, i)
           /\ \A i, j \in T : i <= j => Upto(T, i) \subseteq Upto(T, j)
<1>1. \A i, j, k \in Nat : i <= i /\ (i < j => ~(j <= i)) /\ (k <= i /\ i <= j => k <= j)
  OBVIOUS
<1>2. \A i, k : k \in Upto(T, i) <=> k \in T /\ k <= i
  BY DEF Upto
<1>3. \A k \in T : k \in Nat
  OBVIOUS
<1>4. QED
  BY <1>1, <1>2, <1>3

\* The numbers of a finite set are counted from below, each by one number.
LEMMA NthCounts ==
    ASSUME NEW T \in SUBSET Nat, IsFiniteSet(T), NEW n \in 1 .. Cardinality(T)
    PROVE  Nth(T, n) \in T /\ Cardinality(Upto(T, Nth(T, n))) = n
<1> DEFINE f == [i \in T |-> Cardinality(Upto(T, i))]
<1>1. Cardinality(T) \in Nat
  BY FS_CardinalityType
<1>2. ASSUME NEW i \in T
      PROVE  IsFiniteSet(Upto(T, i)) /\ Cardinality(Upto(T, i)) \in 1 .. Cardinality(T)
  <2>1. IsFiniteSet(Upto(T, i)) /\ Cardinality(Upto(T, i)) <= Cardinality(T)
    BY UptoRises, FS_Subset
  <2>2. Cardinality(Upto(T, i)) \in Nat /\ Cardinality(Upto(T, i)) # 0
    BY <2>1, UptoRises, FS_CardinalityType, FS_EmptySet
  <2>3. QED
    BY <1>1, <2>1, <2>2
<1>3. ASSUME NEW i \in T, NEW j \in T, i < j PROVE f[i] # f[j]
  <2>1. i <= j
    BY <1>3
  <2>2. Upto(T, i) \subseteq Upto(T, j) /\ Upto(T, i) # Upto(T, j)
    BY <1>3, <2>1, UptoRises
  <2>3. QED
    BY <1>2, <2>2, FS_Subset
<1>4. \A i, j \in T : f[i] = f[j] => i = j
  <2>1. \A i, j \in T : i < j \/ j < i \/ i = j
    OBVIOUS
  <2> HIDE DEF f
  <2>2. QED
    BY <1>3, <2>1
<1>5. f \in [T -> 1 .. Cardinality(T)]
  BY <1>2
<1>6. IsFiniteSet(1 .. Cardinality(T)) /\ Cardinality(1 .. Cardinality(T)) = Cardinality(T)
  BY <1>1, FS_Interval
<1>7. f \in Injection(T, 1 .. Cardinality(T))
  BY <1>4, <1>5 DEF Injection, IsInjective
<1>8. f \in Surjection(T, 1 .. Cardinality(T))
  BY <1>6, <1>7, FS_Injection
<1>9. \E i \in T : Cardinality(Upto(T, i)) = n
  BY <1>8 DEF Surjection
<1>10. QED
  BY <1>9 DEF Nth, Upto

\* Counted in the order of the numbers.
LEMMA NthRises ==
    ASSUME NEW T \in SUBSET Nat, IsFiniteSet(T),
           NEW a \in 1 .. Cardinality(T), NEW b \in 1 .. Cardinality(T), a < b
    PROVE  Nth(T, a) < Nth(T, b)
<1>1. /\ Nth(T, a) \in T /\ Cardinality(Upto(T, Nth(T, a))) = a
      /\ Nth(T, b) \in T /\ Cardinality(Upto(T, Nth(T, b))) = b
  BY NthCounts
<1>2. IsFiniteSet(Upto(T, Nth(T, a)))
  BY <1>1, UptoRises, FS_Subset
<1>3. Nth(T, b) <= Nth(T, a) => b <= a
  <2> SUFFICES ASSUME Nth(T, b) <= Nth(T, a) PROVE b <= a
    OBVIOUS
  <2>1. Upto(T, Nth(T, b)) \in SUBSET Upto(T, Nth(T, a))
    BY <1>1, UptoRises
  <2>2. QED
    BY <1>1, <1>2, <2>1, FS_Subset
<1>4. \A x, y \in Nat : x < y \/ y <= x
  OBVIOUS
<1>5. ~(b <= a)
  BY FS_CardinalityType
<1>6. QED
  BY <1>1, <1>3, <1>4, <1>5

\* The last number counted is the greatest, the first the least.
LEMMA Extremes ==
    ASSUME NEW T \in SUBSET Nat, IsFiniteSet(T), T # {}
    PROVE  /\ Max(T) \in T /\ \A k \in T : k <= Max(T)
           /\ \E i \in T : \A k \in T : i <= k
<1>1. Cardinality(T) \in Nat /\ Cardinality(T) # 0
  BY FS_CardinalityType, FS_EmptySet
<1>2. Cardinality(T) \in 1 .. Cardinality(T) /\ 1 \in 1 .. Cardinality(T)
  BY <1>1
<1>3. PICK g \in T : Cardinality(Upto(T, g)) = Cardinality(T)
  BY <1>2, NthCounts
<1>4. Upto(T, g) = T
  <2>1. Upto(T, g) \in SUBSET T
    BY UptoRises
  <2>2. QED
    BY <1>3, <2>1, FS_Subset
<1>5. \A k \in T : g >= k
  BY <1>4 DEF Upto
<1>6. Max(T) \in T /\ \A k \in T : Max(T) >= k
  BY <1>3, <1>5 DEF Max
<1>7. PICK l \in T : Cardinality(Upto(T, l)) = 1
  BY <1>2, NthCounts
<1>8. \A k \in Upto(T, l) : k = l
  <2>1. IsFiniteSet(Upto(T, l))
    BY UptoRises, FS_Subset
  <2>2. PICK x : Upto(T, l) = {x}
    BY <1>7, <2>1, FS_Singleton
  <2>3. QED
    BY <2>2, UptoRises
<1>9. ASSUME NEW k \in T PROVE l <= k
  <2>1. k <= l \/ l <= k
    OBVIOUS
  <2>2. k <= l => k = l
    BY <1>8 DEF Upto
  <2>3. QED
    BY <2>1, <2>2
<1>10. QED
  BY <1>6, <1>9

----------------------------------------------------------------------------
(* What lines say, what is left of them, and rows in order.                *)

\* What is said in a text is said by parts that end lines, in their order.
LEMMA SaidOf ==
    ASSUME NEW text \in Seq(Part)
    PROVE  /\ Said(text) \in Seq(Msg)
           /\ \E f \in [1 .. Len(Said(text)) -> 1 .. Len(text)] :
                /\ \A i \in 1 .. Len(Said(text)) :
                     EndsLine(text[f[i]]) /\ text[f[i]].msg = Said(text)[i]
                /\ \A i, j \in 1 .. Len(Said(text)) : i < j => f[i] < f[j]
<1> DEFINE P == {i \in Ends(text) : Parses(Line(text, i))}
           N == Cardinality(P)
           f == [n \in 1 .. N |-> Nth(P, n)]
<1>1. Len(text) \in Nat /\ DOMAIN text = 1 .. Len(text) /\ \A i \in 1 .. Len(text) : text[i].msg \in Msg
  <2>1. \A c \in Part : c.msg \in Msg
    BY DEF Part
  <2>2. Len(text) \in Nat /\ DOMAIN text = 1 .. Len(text) /\ \A i \in 1 .. Len(text) : text[i] \in Part
    OBVIOUS
  <2>3. QED
    BY <2>1, <2>2
<1>2. P \subseteq 1 .. Len(text) /\ \A i \in P : EndsLine(text[i])
  <2>1. P \subseteq Ends(text)
    OBVIOUS
  <2>2. QED
    BY <1>1, <2>1 DEF Ends
<1>3. P \in SUBSET Nat /\ IsFiniteSet(P)
  <2>1. IsFiniteSet(1 .. Len(text))
    BY <1>1, FS_Interval
  <2>2. QED
    BY <1>1, <1>2, <2>1, FS_Subset
<1>4. N \in Nat
  BY <1>3, FS_CardinalityType
<1>5. Said(text) = [n \in 1 .. N |-> text[Nth(P, n)].msg]
  BY DEF Said
<1> HIDE DEF P, N
<1>6. ASSUME NEW n \in 1 .. N PROVE Nth(P, n) \in P
  BY <1>3, NthCounts DEF N
<1>7. /\ Said(text) \in Seq(Msg) /\ Len(Said(text)) = N
      /\ \A n \in 1 .. N : Said(text)[n] = text[Nth(P, n)].msg
  <2>1. \A n \in 1 .. N : text[Nth(P, n)].msg \in Msg
    BY <1>1, <1>2, <1>6
  <2>2. QED
    BY <1>4, <1>5, <2>1
<1>8. /\ f \in [1 .. N -> 1 .. Len(text)]
      /\ \A i \in 1 .. N : EndsLine(text[f[i]]) /\ text[f[i]].msg = Said(text)[i]
  BY <1>2, <1>6, <1>7
<1>9. ASSUME NEW i \in 1 .. N, NEW j \in 1 .. N, i < j PROVE f[i] < f[j]
  <2>1. Nth(P, i) < Nth(P, j)
    BY <1>3, <1>9, NthRises DEF N
  <2>2. QED
    BY <2>1
<1> HIDE DEF f
<1>10. QED
  BY <1>7, <1>8, <1>9

\* What is left of a text ends no line.
LEMMA RestOf ==
    ASSUME NEW text \in Seq(Part)
    PROVE  Rest(text) \in Seq(Part) /\ \A i \in 1 .. Len(Rest(text)) : ~EndsLine(Rest(text)[i])
<1> DEFINE T == {0} \cup Ends(text)
           k == Max(T)
<1>1. Len(text) \in Nat /\ DOMAIN text = 1 .. Len(text)
  OBVIOUS
<1>2. T \subseteq 0 .. Len(text) /\ 0 \in T /\ \A i \in 1 .. Len(text) : EndsLine(text[i]) => i \in T
  BY <1>1 DEF Ends
<1>3. T \in SUBSET Nat /\ IsFiniteSet(T)
  <2>1. IsFiniteSet(0 .. Len(text))
    BY <1>1, FS_Interval
  <2>2. QED
    BY <1>1, <1>2, <2>1, FS_Subset
<1>4. Rest(text) = SubSeq(text, 1 + k, Len(text))
  BY DEF Rest
<1> HIDE DEF T
<1>5. k \in T /\ \A i \in T : i <= k
  BY <1>2, <1>3, Extremes
<1> HIDE DEF k
<1>6. k \in 0 .. Len(text) /\ 1 + k \in Nat \ {0} /\ Len(text) \in Nat
      /\ 1 + k <= Len(text) + 1 /\ Len(text) <= Len(text)
  BY <1>1, <1>2, <1>5
<1>7. /\ Rest(text) \in Seq(Part) /\ Len(Rest(text)) = Len(text) - (1 + k) + 1
      /\ \A i \in 1 .. (Len(text) - (1 + k) + 1) : Rest(text)[i] = text[(1 + k) + i - 1]
  <2>1. /\ SubSeq(text, 1 + k, Len(text)) \in Seq(Part)
        /\ Len(SubSeq(text, 1 + k, Len(text))) = Len(text) - (1 + k) + 1
        /\ \A i \in 1 .. (Len(text) - (1 + k) + 1) :
              SubSeq(text, 1 + k, Len(text))[i] = text[(1 + k) + i - 1]
    BY <1>6, SubSeqOfSeq
  <2>2. QED
    BY <1>4, <2>1
<1>8. ASSUME NEW i \in 1 .. Len(Rest(text)) PROVE ~EndsLine(Rest(text)[i])
  <2>1. (1 + k) + i - 1 = k + i /\ k + i \in 1 .. Len(text) /\ ~(k + i <= k)
    BY <1>1, <1>6, <1>7
  <2>2. Rest(text)[i] = text[k + i]
    BY <1>7, <2>1
  <2>3. QED
    BY <1>2, <1>5, <2>1, <2>2
<1>9. QED
  BY <1>7, <1>8

\* Rows are put in the order of their keys.
LEMMA InOrderOf ==
    ASSUME NEW S \in SUBSET Msg
    PROVE  /\ InOrder(S) \in Seq(S)
           /\ \A i, j \in 1 .. Len(InOrder(S)) :
                 i < j => CreatedAt[InOrder(S)[i]] < CreatedAt[InOrder(S)[j]]
<1> DEFINE K == {CreatedAt[m] : m \in S}
           f == [m \in S |-> CreatedAt[m]]
           N == Cardinality(K)
<1>1. IsFiniteSet(S) /\ CreatedAt \in [Msg -> Nat \ {0}]
  BY BridgeAssumption, FS_Subset
<1>2. f \in Surjection(S, K)
  BY DEF Surjection
<1>3. K \in SUBSET Nat /\ IsFiniteSet(K)
  BY <1>1, <1>2, FS_Surjection
<1>4. N \in Nat
  BY <1>3, FS_CardinalityType
<1>5. InOrder(S) = [n \in 1 .. N |-> CHOOSE m \in S : CreatedAt[m] = Nth(K, n)]
  BY DEF InOrder
<1>6. \A k \in K : \E m \in S : CreatedAt[m] = k
  OBVIOUS
<1> HIDE DEF K, N
<1>7. ASSUME NEW n \in 1 .. N
      PROVE  InOrder(S)[n] \in S /\ CreatedAt[InOrder(S)[n]] = Nth(K, n)
  <2>1. \E m \in S : CreatedAt[m] = Nth(K, n)
    BY <1>3, <1>6, NthCounts DEF N
  <2>2. InOrder(S)[n] = CHOOSE m \in S : CreatedAt[m] = Nth(K, n)
    BY <1>5
  <2>3. QED
    BY <2>1, <2>2
<1>8. InOrder(S) \in Seq(S) /\ Len(InOrder(S)) = N
  BY <1>4, <1>5, <1>7
<1>9. \A i, j \in 1 .. N : i < j => CreatedAt[InOrder(S)[i]] < CreatedAt[InOrder(S)[j]]
  BY <1>3, <1>7, NthRises DEF N
<1>10. QED
  BY <1>8, <1>9

\* Of the messages, those up to the first that is no event.
LEMMA UpToInvalidOf ==
    ASSUME NEW s \in Seq(Msg)
    PROVE  /\ UpToInvalid(s) \in Seq(Msg) /\ Len(UpToInvalid(s)) <= Len(s)
           /\ \A i \in 1 .. Len(UpToInvalid(s)) : UpToInvalid(s)[i] = s[i]
           /\ (\E i \in DOMAIN s : s[i] \in Invalid) => Len(UpToInvalid(s)) < Len(s)
<1>1. Len(s) \in Nat /\ DOMAIN s = 1 .. Len(s)
  OBVIOUS
<1>2. CASE ~\E i \in DOMAIN s : s[i] \in Invalid
  <2>1. UpToInvalid(s) = s
    BY <1>2 DEF UpToInvalid
  <2>2. QED
    BY <1>1, <1>2, <2>1
<1>3. CASE \E i \in DOMAIN s : s[i] \in Invalid
  <2> DEFINE T == {i \in 1 .. Len(s) : s[i] \in Invalid}
  <2>1. T \in SUBSET Nat /\ T # {} /\ IsFiniteSet(T)
    <3>1. IsFiniteSet(1 .. Len(s))
      BY <1>1, FS_Interval
    <3>2. T \subseteq 1 .. Len(s)
      OBVIOUS
    <3>3. QED
      BY <1>1, <1>3, <3>1, <3>2, FS_Subset
  <2>2. PICK k \in T : \A i \in T : k <= i
    BY <2>1, Extremes
  <2>3. k \in 1 .. Len(s) /\ s[k] \in Invalid
    OBVIOUS
  <2>4. \A j \in 1 .. k - 1 : s[j] \notin Invalid
    <3>1. \A j \in 1 .. k - 1 : j \in 1 .. Len(s) /\ ~(k <= j)
      BY <1>1, <2>3
    <3>2. QED
      BY <2>2, <3>1
  <2> DEFINE Q(i) == s[i] \in Invalid /\ \A j \in 1 .. i - 1 : s[j] \notin Invalid
  <2>5. \E i \in DOMAIN s : Q(i)
    BY <1>1, <2>3, <2>4
  <2> DEFINE i0 == CHOOSE i \in DOMAIN s : Q(i)
  <2>6. UpToInvalid(s) = SubSeq(s, 1, i0 - 1)
    BY <1>3 DEF UpToInvalid
  <2>7. i0 \in 1 .. Len(s)
    BY <1>1, <2>5
  <2> HIDE DEF i0, T
  <2>8. 1 \in Nat \ {0} /\ i0 - 1 \in Nat /\ 1 <= (i0 - 1) + 1 /\ i0 - 1 <= Len(s) /\ i0 - 1 < Len(s)
    BY <1>1, <2>7
  <2>9. /\ UpToInvalid(s) \in Seq(Msg) /\ Len(UpToInvalid(s)) = (i0 - 1) - 1 + 1
        /\ \A i \in 1 .. ((i0 - 1) - 1 + 1) : UpToInvalid(s)[i] = s[1 + i - 1]
    BY <2>6, <2>8, SubSeqOfSeq
  <2>10. (i0 - 1) - 1 + 1 = i0 - 1 /\ \A i \in 1 .. i0 - 1 : 1 + i - 1 = i
    BY <2>8
  <2>11. QED
    BY <2>8, <2>9, <2>10
<1>4. QED
  BY <1>2, <1>3

----------------------------------------------------------------------------
(* What is written, read and heard.                                        *)

\* The media that are read by position: the file and the table of SQLite.
Keyed == medium \in {"jsonl", "sqlite"}

\* The place in a file of the end of an event's line, of which there is one.
Place(f, m) == CHOOSE k \in 1 .. Len(f) : EndsLine(f[k]) /\ f[k].msg = m
\* No event's line ends twice.
EndsOnce(f) ==
    \A i, j \in 1 .. Len(f) : EndsLine(f[i]) /\ EndsLine(f[j]) /\ f[i].msg = f[j].msg => i = j

\* What is in the medium, and by what it is read in order.
Key(m) == IF medium = "jsonl" THEN Place(file, m) ELSE CreatedAt[m]
Written == IF medium = "jsonl" THEN {file[k].msg : k \in {i \in 1 .. Len(file) : EndsLine(file[i])}}
           ELSE rows

\* The types of what is read.
ReadTypes ==
    /\ file \in Seq(Part) /\ rows \subseteq Msg /\ cursor \in [Peer -> Nat]
    /\ pending \in [Peer -> Seq(Part)] /\ inbox \in [Peer -> Seq(Msg)] /\ got \in [Peer -> Seq(Msg)]

\* An event is written once, and then sent.
WrittenOnce == EndsOnce(file) /\ (Keyed => \A m \in Written : emitting[m] = "sent")

\* A bridge has read what it has handed on, in the order of the keys, and no
\* further than its cursor; what is left over has no end of a line.
ReadsInOrder(p) ==
    /\ inbox[p] = <<>>
    /\ medium = "jsonl" =>
         cursor[p] <= Len(file) /\ \A i \in 1 .. Len(pending[p]) : ~EndsLine(pending[p][i])
    /\ \A i \in 1 .. Len(got[p]) : got[p][i] \in Written /\ Key(got[p][i]) <= cursor[p]
    /\ \A i, j \in 1 .. Len(got[p]) : i < j => Key(got[p][i]) < Key(got[p][j])
ReadsOn == Keyed => \A p \in Peer : ReadsInOrder(p)

\* What a subscriber has heard or will hear was sent, once, and in one order.
Heard(p) == got[p] \o inbox[p]
HearsOnce(p) ==
    /\ \A i \in 1 .. Len(Heard(p)) : emitting[Heard(p)[i]] = "sent"
    /\ \A i, j \in 1 .. Len(Heard(p)) : Heard(p)[i] = Heard(p)[j] => i = j
HearAlike(p, q) ==
    \A i, j \in 1 .. Len(Heard(p)), k, l \in 1 .. Len(Heard(q)) :
        i < j /\ k < l => ~(Heard(p)[i] = Heard(q)[l] /\ Heard(p)[j] = Heard(q)[k])
HearsOn == ~Keyed => \A p, q \in Peer : HearsOnce(p) /\ HearAlike(p, q)

\* The invariant of writing and reading.
RInv == ReadTypes /\ WrittenOnce /\ ReadsOn /\ HearsOn

\* An emit() that is over stays so.
SentStays == \A m \in Msg : emitting[m] = "sent" => emitting'[m] = "sent"

\* The place of an event's line is where the line ends.
LEMMA PlaceIs ==
    ASSUME NEW f, EndsOnce(f), NEW k \in 1 .. Len(f), EndsLine(f[k])
    PROVE  Place(f, f[k].msg) = k
<1>1. \E i \in 1 .. Len(f) : EndsLine(f[i]) /\ f[i].msg = f[k].msg
  OBVIOUS
<1>2. \A i \in 1 .. Len(f) : EndsLine(f[i]) /\ f[i].msg = f[k].msg => i = k
  BY DEF EndsOnce
<1>3. QED
  BY <1>1, <1>2 DEF Place

\* An emit() that is over is over.
LEMMA SentForGood == ASSUME IInv, [Next]_vars PROVE SentStays
<1> USE DEF SentStays
<1>1. emitting \in [Msg -> {"idle", "wait", "columns", "alter", "upsert", "notify",
                             "write", "tail"} \cup Ended]
  BY DEF IInv, Types
<1>2. CASE UNCHANGED vars
  BY <1>2 DEF vars
<1>3. ASSUME NEW p \in Peer,
             On(p) \/ StartDirectly(p) \/ Starting(p) \/ Reading(p) \/ Crash(p)
      PROVE  UNCHANGED emitting
  BY <1>3 DEF On, StartDirectly, Starting, OpenTable, Subscribe, BootEnd, Reading, PollNewLines,
              PollRows, Hear, Crash
<1>4. ASSUME NEW p \in Peer, CloseBegins(p) \/ CloseEnds(p) \/ StartCollides(p) PROVE SentStays
  <2>1. CASE CloseBegins(p)
    BY <2>1 DEF CloseBegins, Waits
  <2>2. CASE CloseEnds(p) \/ StartCollides(p)
    <3>1. UNCHANGED emitting \/ StartFails(p)
      BY <2>2 DEF CloseEnds, StartCollides
    <3>2. QED
      BY <3>1 DEF StartFails, Waits
  <2>3. QED
    BY <1>4, <2>1, <2>2
<1>5. ASSUME NEW m \in Msg, EmitCall(m) \/ Writing(m) \/ Collide(m) \/ CutOff(m)
      PROVE  emitting[m] # "sent" /\ \A n \in Msg \ {m} : emitting'[n] = emitting[n]
  <2>1. CASE EmitCall(m)
    BY <1>1, <2>1 DEF EmitCall, To
  <2>2. CASE Started(m)
    BY <1>1, <2>2 DEF Started, To
  <2>3. CASE FindMissing(m)
    BY <1>1, <2>3 DEF FindMissing, To
  <2>4. CASE AlterTable(m)
    BY <1>1, <2>4 DEF AlterTable, To
  <2>5. CASE UpsertRow(m) \/ UpsertAndNotify(m)
    BY <1>1, <2>5 DEF UpsertRow, UpsertAndNotify, To
  <2>6. CASE Publish(m) \/ AppendLine(m)
    BY <1>1, <2>6 DEF Publish, AppendLine, To
  <2>a. CASE Collide(m) \/ CutOff(m)
    BY <1>1, <2>a DEF Collide, CutOff, Statements, To
  <2>7. QED
    BY <1>5, <2>1, <2>2, <2>3, <2>4, <2>5, <2>6, <2>a DEF Writing
<1>6. QED
  BY <1>2, <1>3, <1>4, <1>5 DEF Next

\* Steps that read nothing and write nothing.
Apart ==
    \/ \E p \in Peer : On(p) \/ StartDirectly(p) \/ OpenTable(p) \/ Subscribe(p) \/ CloseBegins(p)
                       \/ StartCollides(p) \/ Crash(p)
    \/ \E m \in Msg : EmitCall(m) \/ Started(m) \/ FindMissing(m) \/ AlterTable(m)
                     \/ Collide(m) \/ CutOff(m)
    \/ UNCHANGED vars

\* Such steps keep what is read and written as it is.
LEMMA ApartKeeps == ASSUME RInv, SentStays, Apart PROVE RInv'
<1>1. UNCHANGED <<conf, file, rows, cursor, pending, inbox, got>>
  BY DEF Apart, On, StartDirectly, OpenTable, Subscribe, CloseBegins, StartCollides, Crash, EmitCall,
         Started, FindMissing, AlterTable, Collide, CutOff, vars
<1>2. ReadTypes' /\ EndsOnce(file)' /\ Written' = Written /\ Keyed' = Keyed /\ ReadsOn'
  <2>1. medium' = medium /\ Keyed' = Keyed
    BY <1>1 DEF Keyed, medium
  <2>2. Written' = Written /\ \A m : Key(m)' = Key(m)
    BY <1>1, <2>1 DEF Written, Key
  <2>3. ReadTypes' /\ EndsOnce(file)'
    BY <1>1 DEF RInv, ReadTypes, WrittenOnce
  <2>4. \A p \in Peer : ReadsInOrder(p) => ReadsInOrder(p)'
    BY <1>1, <2>1, <2>2 DEF ReadsInOrder
  <2>5. QED
    BY <2>1, <2>2, <2>3, <2>4 DEF RInv, ReadsOn
<1>3. Keyed => Written \subseteq Msg
  <2>1. \A c \in Part : c.msg \in Msg
    BY DEF Part
  <2>2. \A k \in 1 .. Len(file) : file[k] \in Part
    BY DEF RInv, ReadTypes
  <2>3. rows \subseteq Msg
    BY DEF RInv, ReadTypes
  <2>4. QED
    BY <2>1, <2>2, <2>3 DEF Written
<1>4. WrittenOnce'
  BY <1>2, <1>3 DEF RInv, WrittenOnce, SentStays
<1>5. \A p \in Peer : Heard(p) \in Seq(Msg)
  BY DEF RInv, ReadTypes, Heard
<1>6. HearsOn'
  <2>1. \A p \in Peer : Heard(p)' = Heard(p)
    BY <1>1 DEF Heard
  <2>2. \A p \in Peer : \A i \in 1 .. Len(Heard(p)) : Heard(p)[i] \in Msg
    BY <1>5
  <2>3. QED
    BY <1>2, <2>1, <2>2 DEF RInv, HearsOn, HearsOnce, HearAlike, SentStays
<1>7. QED
  BY <1>2, <1>4, <1>6 DEF RInv

\* What is written are events.
LEMMA WrittenIs == ASSUME ReadTypes PROVE Written \subseteq Msg
<1>1. \A c \in Part : c.msg \in Msg
  BY DEF Part
<1>2. \A k \in 1 .. Len(file) : file[k] \in Part
  BY DEF ReadTypes
<1>3. rows \subseteq Msg
  BY DEF ReadTypes
<1>4. QED
  BY <1>1, <1>2, <1>3 DEF Written

\* An event's line has its key at the place where it ends.
LEMMA KeyOfLine ==
    ASSUME medium = "jsonl", WrittenOnce, NEW k \in 1 .. Len(file), EndsLine(file[k])
    PROVE  Key(file[k].msg) = k /\ file[k].msg \in Written
BY PlaceIs DEF Key, Written, WrittenOnce

\* The key of what is written is a number.
LEMMA KeyIsNumber == ASSUME RInv, Keyed, NEW m \in Written PROVE Key(m) \in Nat
<1>1. CASE medium = "jsonl"
  <2>1. \A k \in 1 .. Len(file) : EndsLine(file[k]) => Key(file[k].msg) = k
    BY <1>1, KeyOfLine DEF RInv
  <2>2. \E k \in 1 .. Len(file) : EndsLine(file[k]) /\ file[k].msg = m
    BY <1>1 DEF Written
  <2>3. QED
    BY <2>1, <2>2
<1>2. CASE medium # "jsonl"
  BY <1>2, BridgeAssumption DEF RInv, ReadTypes, Written, Key
<1>3. QED
  BY <1>1, <1>2

\* Handing on what is read in order, up to where the cursor is then.
LEMMA DeliverKeeps ==
    ASSUME RInv, Keyed, NEW p \in Peer, NEW s \in Seq(Msg), NEW c \in Nat,
           UNCHANGED <<conf, file, rows, emitting, inbox>>,
           got' = [got EXCEPT ![p] = @ \o s], cursor' = [cursor EXCEPT ![p] = c],
           cursor[p] <= c,
           \A i \in 1 .. Len(s) : s[i] \in Written /\ Key(s[i]) \in Nat
                                  /\ cursor[p] < Key(s[i]) /\ Key(s[i]) <= c,
           \A i, j \in 1 .. Len(s) : i < j => Key(s[i]) < Key(s[j]),
           pending' \in [Peer -> Seq(Part)],
           \A q \in Peer \ {p} : pending'[q] = pending[q],
           medium = "jsonl" =>
             c <= Len(file) /\ \A i \in 1 .. Len(pending'[p]) : ~EndsLine(pending'[p][i])
    PROVE  RInv'
<1>1. medium' = medium /\ Keyed' = Keyed
  BY DEF Keyed, medium
<1>2. Written' = Written /\ \A m : Key(m)' = Key(m)
  BY <1>1 DEF Written, Key
<1>3. /\ got \in [Peer -> Seq(Msg)] /\ cursor \in [Peer -> Nat] /\ cursor[p] \in Nat
      /\ got[p] \in Seq(Msg)
  BY DEF RInv, ReadTypes
<1>4. got'[p] = got[p] \o s /\ cursor'[p] = c
  BY <1>3
<1> DEFINE g == got[p]
           n == Len(got[p])
           h == got[p] \o s
<1>5. /\ h \in Seq(Msg) /\ Len(h) = n + Len(s) /\ n \in Nat /\ Len(s) \in Nat
      /\ \A i \in 1 .. n : h[i] = g[i]
      /\ \A i \in 1 .. Len(s) : h[n + i] = s[i]
  BY <1>3
<1>6. \A i \in 1 .. Len(h) : i \in 1 .. n \/ \E j \in 1 .. Len(s) : i = n + j
  <2>1. \A i \in 1 .. Len(h) : i \in 1 .. n \/ (i - n \in 1 .. Len(s) /\ i = n + (i - n))
    BY <1>5
  <2>2. QED
    BY <2>1
<1>7. \A i \in 1 .. n : g[i] \in Written /\ Key(g[i]) <= cursor[p]
  BY DEF RInv, ReadsOn, ReadsInOrder
<1>8. \A i, j \in 1 .. n : i < j => Key(g[i]) < Key(g[j])
  BY DEF RInv, ReadsOn, ReadsInOrder
<1> HIDE DEF g, h, n
<1>9. \A i \in 1 .. n : Key(g[i]) \in Nat
  BY <1>7, KeyIsNumber
<1>10. \A x, y, z \in Nat : (x <= y /\ y < z => x < z) /\ (x <= y /\ y <= z => x <= z)
  OBVIOUS
<1>11. ASSUME NEW i \in 1 .. Len(h) PROVE h[i] \in Written /\ Key(h[i]) <= c
  <2>1. CASE i \in 1 .. n
    BY <1>3, <1>5, <1>7, <1>9, <1>10, <2>1
  <2>2. CASE \E j \in 1 .. Len(s) : i = n + j
    BY <1>5, <2>2
  <2>3. QED
    BY <1>6, <2>1, <2>2
<1>12. ASSUME NEW i \in 1 .. Len(h), NEW j \in 1 .. Len(h), i < j PROVE Key(h[i]) < Key(h[j])
  <2>1. CASE i \in 1 .. n /\ j \in 1 .. n
    BY <1>5, <1>8, <1>12, <2>1
  <2>2. CASE i \in 1 .. n /\ \E k \in 1 .. Len(s) : j = n + k
    BY <1>3, <1>5, <1>7, <1>9, <1>10, <2>2
  <2>3. CASE (\E k \in 1 .. Len(s) : i = n + k) /\ j \in 1 .. n
    BY <1>5, <1>12, <2>3
  <2>4. ASSUME NEW k \in 1 .. Len(s), i = n + k, NEW l \in 1 .. Len(s), j = n + l
        PROVE  Key(h[i]) < Key(h[j])
    <3>1. k < l
      BY <1>5, <1>12, <2>4
    <3>2. QED
      BY <1>5, <2>4, <3>1
  <2>5. QED
    BY <1>6, <2>1, <2>2, <2>3, <2>4
<1>13. ReadsInOrder(p)'
  <2>1. inbox[p] = <<>>
    BY DEF RInv, ReadsOn, ReadsInOrder
  <2>2. inbox'[p] = <<>> /\ got'[p] = h
    BY <1>4, <2>1 DEF h
  <2>3. /\ \A i \in 1 .. Len(got'[p]) : got'[p][i] \in Written' /\ Key(got[p][i])' <= cursor'[p]
        /\ \A i, j \in 1 .. Len(got'[p]) : i < j => Key(got[p][i])' < Key(got[p][j])'
    BY <1>2, <1>4, <1>11, <1>12, <2>2
  <2>4. medium' = "jsonl" =>
          /\ cursor'[p] <= Len(file')
          /\ \A i \in 1 .. Len(pending'[p]) : ~EndsLine(pending'[p][i])
    BY <1>1, <1>4
  <2>5. QED
    BY <2>2, <2>3, <2>4 DEF ReadsInOrder
<1>14. ASSUME NEW q \in Peer \ {p} PROVE ReadsInOrder(q)'
  <2>1. ReadsInOrder(q)
    BY DEF RInv, ReadsOn
  <2>2. got'[q] = got[q] /\ cursor'[q] = cursor[q] /\ pending'[q] = pending[q]
    BY <1>3
  <2>3. QED
    BY <1>1, <1>2, <2>1, <2>2 DEF ReadsInOrder
<1>15. ReadTypes'
  BY <1>3, <1>5 DEF RInv, ReadTypes, h
<1>16. QED
  BY <1>1, <1>2, <1>13, <1>14, <1>15 DEF RInv, WrittenOnce, ReadsOn, HearsOn

\* Nothing new, but the cursor may move on.
LEMMA CursorKeeps ==
    ASSUME RInv, Keyed, NEW p \in Peer, NEW c \in Nat,
           UNCHANGED <<conf, file, rows, emitting, inbox, got>>, cursor' = [cursor EXCEPT ![p] = c],
           \A i \in 1 .. Len(got[p]) : Key(got[p][i]) <= c,
           pending' \in [Peer -> Seq(Part)],
           \A q \in Peer \ {p} : pending'[q] = pending[q],
           medium = "jsonl" =>
             c <= Len(file) /\ \A i \in 1 .. Len(pending'[p]) : ~EndsLine(pending'[p][i])
    PROVE  RInv'
<1>1. medium' = medium /\ Keyed' = Keyed
  BY DEF Keyed, medium
<1>2. Written' = Written /\ \A m : Key(m)' = Key(m)
  BY <1>1 DEF Written, Key
<1>3. cursor \in [Peer -> Nat]
  BY DEF RInv, ReadTypes
<1>4. \A q \in Peer : ReadsInOrder(q)
  BY DEF RInv, ReadsOn
<1>5. \A q \in Peer : ReadsInOrder(q)'
  BY <1>1, <1>2, <1>3, <1>4 DEF ReadsInOrder
<1>6. ReadTypes'
  BY <1>3 DEF RInv, ReadTypes
<1>7. QED
  BY <1>1, <1>2, <1>5, <1>6 DEF RInv, WrittenOnce, ReadsOn, HearsOn

----------------------------------------------------------------------------
(* Steps that read.                                                        *)

\* _poll_new_lines hands on what lines behind the cursor say.
LEMMA PollLinesKeeps == ASSUME RInv, NEW p \in Peer, PollNewLines(p) PROVE RInv'
<1> DEFINE new == SubSeq(file, cursor[p] + 1, Len(file))
           text == pending[p] \o new
           said == Said(text)
           a == Len(pending[p])
<1>1. /\ medium = "jsonl" /\ cursor[p] < Len(file) /\ UNCHANGED <<conf, file, rows, emitting, inbox>>
      /\ got' = [got EXCEPT ![p] = IF closed[p] = "over" THEN @ ELSE @ \o UpToInvalid(said)]
      /\ pending' = [pending EXCEPT ![p] = Rest(text)]
      /\ cursor' = [cursor EXCEPT ![p] = Len(file)]
  BY DEF PollNewLines, Deliver
<1>2. /\ file \in Seq(Part) /\ cursor[p] \in Nat /\ pending[p] \in Seq(Part) /\ Len(file) \in Nat
      /\ pending \in [Peer -> Seq(Part)] /\ got \in [Peer -> Seq(Msg)] /\ a \in Nat
  BY DEF RInv, ReadTypes
<1>3. Keyed /\ cursor[p] <= Len(file) /\ \A i \in 1 .. a : ~EndsLine(pending[p][i])
  BY <1>1 DEF Keyed, RInv, ReadsOn, ReadsInOrder
<1>4. /\ new \in Seq(Part) /\ Len(new) = Len(file) - cursor[p]
      /\ \A i \in 1 .. Len(file) - cursor[p] : new[i] = file[cursor[p] + i]
  BY <1>2, <1>3, SuffixOfSeq
<1> HIDE DEF new
<1>5. /\ text \in Seq(Part) /\ Len(text) = a + (Len(file) - cursor[p])
      /\ \A i \in 1 .. a : text[i] = pending[p][i]
      /\ \A i \in 1 .. Len(file) - cursor[p] : text[a + i] = file[cursor[p] + i]
  <2>1. /\ text \in Seq(Part) /\ Len(text) = a + Len(new)
        /\ \A i \in 1 .. a : text[i] = pending[p][i]
        /\ \A i \in 1 .. Len(new) : text[a + i] = new[i]
    <3>1. pending[p] \in Seq(Part) /\ new \in Seq(Part)
      BY <1>2, <1>4
    <3>2. QED
      BY <3>1, Joined
  <2> HIDE DEF text, a
  <2>2. QED
    BY <1>2, <1>4, <2>1
<1> HIDE DEF text, a
<1>6. said \in Seq(Msg)
  BY <1>5, SaidOf
<1>7. PICK f \in [1 .. Len(said) -> 1 .. Len(text)] :
        /\ \A i \in 1 .. Len(said) : EndsLine(text[f[i]]) /\ text[f[i]].msg = said[i]
        /\ \A i, j \in 1 .. Len(said) : i < j => f[i] < f[j]
  BY <1>5, SaidOf
<1> HIDE DEF said
<1>8. ASSUME NEW i \in 1 .. Len(said)
      PROVE  /\ f[i] - a \in 1 .. Len(file) - cursor[p] /\ f[i] \in Nat
             /\ cursor[p] + (f[i] - a) \in 1 .. Len(file)
             /\ EndsLine(file[cursor[p] + (f[i] - a)])
             /\ file[cursor[p] + (f[i] - a)].msg = said[i]
  <2>1. f[i] \in 1 .. Len(text) /\ EndsLine(text[f[i]]) /\ text[f[i]].msg = said[i]
    BY <1>7
  <2>2. f[i] \notin 1 .. a
    BY <1>3, <1>5, <2>1 DEF a
  <2>3. f[i] - a \in 1 .. Len(file) - cursor[p] /\ f[i] = a + (f[i] - a) /\ f[i] \in Nat
        /\ cursor[p] + (f[i] - a) \in 1 .. Len(file)
    <3>1. f[i] \in Nat /\ f[i] \in 1 .. a + (Len(file) - cursor[p])
      BY <1>5, <2>1
    <3>2. QED
      <4>1. cursor[p] \in Nat /\ Len(file) \in Nat /\ cursor[p] <= Len(file) /\ a \in Nat
        BY <1>2, <1>3
      <4>2. QED
        BY <2>2, <3>1, <4>1
  <2>4. text[f[i]] = file[cursor[p] + (f[i] - a)]
    BY <1>5, <2>3
  <2>5. QED
    BY <2>1, <2>3, <2>4
<1>9. ASSUME NEW i \in 1 .. Len(said)
      PROVE  said[i] \in Written /\ Key(said[i]) = cursor[p] + (f[i] - a)
  BY <1>1, <1>8, KeyOfLine DEF RInv
<1>10. Rest(text) \in Seq(Part) /\ \A i \in 1 .. Len(Rest(text)) : ~EndsLine(Rest(text)[i])
  BY <1>5, RestOf
<1>11. /\ pending' \in [Peer -> Seq(Part)] /\ pending'[p] = Rest(text)
       /\ \A q \in Peer \ {p} : pending'[q] = pending[q]
  BY <1>1, <1>2, <1>10
<1>12. Len(file) <= Len(file) /\ \A i \in 1 .. Len(pending'[p]) : ~EndsLine(pending'[p][i])
  BY <1>2, <1>10, <1>11
<1>13. CASE closed[p] = "over"
  <2>1. got' = got
    BY <1>1, <1>2, <1>13
  <2>2. ASSUME NEW i \in 1 .. Len(got[p]) PROVE Key(got[p][i]) <= Len(file)
    <3>1. got[p][i] \in Written /\ Key(got[p][i]) <= cursor[p]
      BY <1>3 DEF RInv, ReadsOn, ReadsInOrder
    <3>2. Key(got[p][i]) \in Nat
      BY <1>3, <3>1, KeyIsNumber
    <3>3. QED
      BY <1>2, <1>3, <3>1, <3>2
  <2>3. QED
    BY <1>1, <1>2, <1>3, <1>11, <1>12, <2>1, <2>2, CursorKeeps
<1>14. CASE closed[p] # "over"
  <2> DEFINE s == UpToInvalid(said)
  <2>1. s \in Seq(Msg) /\ Len(s) <= Len(said) /\ \A i \in 1 .. Len(s) : s[i] = said[i]
    BY <1>6, UpToInvalidOf
  <2>2. got' = [got EXCEPT ![p] = @ \o s]
    BY <1>1, <1>14
  <2> HIDE DEF s
  <2>3. Len(s) \in Nat /\ Len(said) \in Nat /\ \A i \in 1 .. Len(s) : i \in 1 .. Len(said)
    BY <1>6, <2>1
  <2>4. \A i \in 1 .. Len(s) :
           s[i] \in Written /\ Key(s[i]) \in Nat /\ cursor[p] < Key(s[i]) /\ Key(s[i]) <= Len(file)
    <3>1. \A c, n, k \in Nat : k \in 1 .. n - c => c + k \in Nat /\ c < c + k
      OBVIOUS
    <3>2. ASSUME NEW i \in 1 .. Len(said)
          PROVE  Key(said[i]) \in Nat /\ cursor[p] < Key(said[i]) /\ Key(said[i]) <= Len(file)
      <4>1. f[i] - a \in Nat
        BY <1>8
      <4>2. QED
        BY <1>2, <1>8, <1>9, <3>1, <4>1
    <3>3. QED
      BY <1>9, <2>1, <2>3, <3>2
  <2>5. \A i, j \in 1 .. Len(s) : i < j => Key(s[i]) < Key(s[j])
    <3>1. \A i, j \in 1 .. Len(said) : i < j => Key(said[i]) < Key(said[j])
      <4>1. \A c, b, x, y \in Nat : x < y => c + (x - b) < c + (y - b)
        OBVIOUS
      <4>2. \A i, j \in 1 .. Len(said) : i < j => f[i] < f[j] /\ f[i] \in Nat /\ f[j] \in Nat
        BY <1>7, <1>8
      <4>3. \A i, j \in 1 .. Len(said) : i < j =>
               cursor[p] + (f[i] - a) < cursor[p] + (f[j] - a)
        BY <1>2, <4>1, <4>2
      <4>4. QED
        BY <1>9, <4>3, Zenon
    <3>2. QED
      BY <2>1, <2>3, <3>1
  <2>6. QED
    BY <1>1, <1>2, <1>3, <1>11, <1>12, <2>1, <2>2, <2>4, <2>5, DeliverKeeps
<1>15. QED
  BY <1>13, <1>14

\* The SQLite listener hands on the rows behind the cursor by their keys.
LEMMA PollRowsKeeps == ASSUME RInv, NEW p \in Peer, PollRows(p) PROVE RInv'
<1> DEFINE S == {m \in rows : CreatedAt[m] > cursor[p]}
           new == InOrder(S)
           s == UpToInvalid(new)
           n == IF closed[p] = "over" THEN 1
                ELSE IF \E i \in DOMAIN new : new[i] \in Invalid THEN Len(s) + 1 ELSE Len(new)
           c == CreatedAt[new[n]]
<1>1. /\ medium = "sqlite" /\ new # <<>>
      /\ UNCHANGED <<conf, file, rows, emitting, inbox, pending>>
      /\ got' = [got EXCEPT ![p] = IF closed[p] = "over" THEN @ ELSE @ \o s]
      /\ cursor' = [cursor EXCEPT ![p] = c]
  BY DEF PollRows, NewRows, Deliver
<1>2. /\ rows \subseteq Msg /\ cursor[p] \in Nat /\ got \in [Peer -> Seq(Msg)]
      /\ pending \in [Peer -> Seq(Part)]
  BY DEF RInv, ReadTypes
<1>3. S \subseteq rows /\ \A m \in S : CreatedAt[m] > cursor[p]
  OBVIOUS
<1> HIDE DEF S
<1>4. S \in SUBSET Msg
  BY <1>2, <1>3
<1>5. /\ new \in Seq(S)
      /\ \A i, j \in 1 .. Len(new) : i < j => CreatedAt[new[i]] < CreatedAt[new[j]]
  BY <1>4, InOrderOf
<1> HIDE DEF new
<1>6. /\ new \in Seq(Msg) /\ Len(new) \in Nat /\ DOMAIN new = 1 .. Len(new) /\ Len(new) # 0
      /\ \A i \in 1 .. Len(new) : new[i] \in S
  BY <1>1, <1>4, <1>5
<1>7. /\ s \in Seq(Msg) /\ Len(s) <= Len(new) /\ \A i \in 1 .. Len(s) : s[i] = new[i]
      /\ (\E i \in DOMAIN new : new[i] \in Invalid) => Len(s) < Len(new)
  BY <1>6, UpToInvalidOf
<1> HIDE DEF s
<1>8. Len(s) \in Nat
  BY <1>7
<1>9. n \in 1 .. Len(new) /\ (closed[p] # "over" => Len(s) <= n)
  BY <1>6, <1>7, <1>8
<1> HIDE DEF n
<1>10. \A m \in Written : Key(m) = CreatedAt[m]
  BY <1>1 DEF Key
<1>11. Written = rows /\ Keyed
  BY <1>1 DEF Written, Keyed
<1>12. c \in Nat /\ cursor[p] < c /\ cursor[p] <= c
  <2>1. new[n] \in S /\ new[n] \in Msg
    BY <1>4, <1>6, <1>9
  <2>2. CreatedAt[new[n]] \in Nat
    BY <2>1, BridgeAssumption
  <2>3. QED
    BY <1>2, <1>3, <2>1, <2>2
<1>13. CASE closed[p] = "over"
  <2>1. got' = got
    BY <1>1, <1>2, <1>13
  <2>2. ASSUME NEW i \in 1 .. Len(got[p]) PROVE Key(got[p][i]) <= c
    <3>1. got[p][i] \in Written /\ Key(got[p][i]) <= cursor[p]
      BY <1>11 DEF RInv, ReadsOn, ReadsInOrder
    <3>2. Key(got[p][i]) \in Nat
      BY <1>11, <3>1, KeyIsNumber
    <3> HIDE DEF c
    <3>3. QED
      BY <1>2, <1>12, <3>1, <3>2
  <2> HIDE DEF c
  <2>3. QED
    BY <1>1, <1>2, <1>11, <1>12, <2>1, <2>2, CursorKeeps
<1>14. CASE closed[p] # "over"
  <2>1. got' = [got EXCEPT ![p] = @ \o s]
    BY <1>1, <1>14
  <2>2. ASSUME NEW i \in 1 .. Len(s)
        PROVE  s[i] \in Written /\ Key(s[i]) \in Nat /\ cursor[p] < Key(s[i]) /\ Key(s[i]) <= c
    <3>1. i \in 1 .. Len(new) /\ i <= n /\ s[i] = new[i]
      BY <1>6, <1>7, <1>8, <1>9, <1>14
    <3>2. s[i] \in S /\ s[i] \in rows /\ s[i] \in Msg
      BY <1>3, <1>4, <1>6, <3>1
    <3>3. Key(s[i]) = CreatedAt[s[i]] /\ CreatedAt[s[i]] \in Nat /\ CreatedAt[s[i]] > cursor[p]
      BY <1>3, <1>10, <1>11, <3>2, BridgeAssumption
    <3>4. CreatedAt[s[i]] <= c
      <4>1. CASE i = n
        BY <1>12, <3>1, <4>1
      <4>2. CASE i # n
        <5>1. i < n
          BY <1>9, <3>1, <4>2
        <5>2. CreatedAt[new[i]] < CreatedAt[new[n]]
          BY <1>5, <1>9, <3>1, <5>1
        <5>3. QED
          BY <1>12, <3>1, <3>3, <5>2
      <4>3. QED
        BY <4>1, <4>2
    <3> HIDE DEF c
    <3>5. QED
      BY <1>2, <1>11, <3>2, <3>3, <3>4
  <2>3. \A i, j \in 1 .. Len(s) : i < j => Key(s[i]) < Key(s[j])
    <3>1. \A i \in 1 .. Len(s) : i \in 1 .. Len(new) /\ s[i] = new[i] /\ Key(s[i]) = CreatedAt[new[i]]
      BY <1>6, <1>7, <1>8, <1>10, <2>2
    <3>2. QED
      BY <1>5, <3>1
  <2> HIDE DEF c
  <2>4. QED
    BY <1>1, <1>2, <1>7, <1>11, <1>12, <2>1, <2>2, <2>3, DeliverKeeps
<1>15. QED
  BY <1>13, <1>14

\* The latest row has the greatest key.
LEMMA LatestIs ==
    ASSUME rows \subseteq Msg
    PROVE  Latest \in Nat /\ \A m \in rows : CreatedAt[m] <= Latest
<1>1. CASE rows = {}
  BY <1>1 DEF Latest
<1>2. CASE rows # {}
  <2> DEFINE K == {CreatedAt[m] : m \in rows}
             f == [m \in rows |-> CreatedAt[m]]
  <2>1. IsFiniteSet(rows) /\ CreatedAt \in [Msg -> Nat \ {0}]
    BY BridgeAssumption, FS_Subset
  <2>2. f \in Surjection(rows, K)
    BY DEF Surjection
  <2>3. K \in SUBSET Nat /\ IsFiniteSet(K) /\ K # {}
    BY <1>2, <2>1, <2>2, FS_Surjection
  <2>4. \A m \in rows : CreatedAt[m] \in K
    OBVIOUS
  <2>5. Latest = CHOOSE k \in K : \A m \in rows : CreatedAt[m] <= k
    BY <1>2 DEF Latest
  <2> HIDE DEF K
  <2>6. \E k \in K : \A m \in rows : CreatedAt[m] <= k
    BY <2>3, <2>4, Extremes
  <2>7. QED
    BY <2>3, <2>5, <2>6
<1>3. QED
  BY <1>1, <1>2

\* start() puts the cursor behind what there is.
LEMMA BootKeeps == ASSUME RInv, NEW p \in Peer, BootEnd(p) PROVE RInv'
<1> DEFINE c == CASE medium = "jsonl" -> Len(file) [] medium = "sqlite" -> Latest [] OTHER -> 0
<1>1. /\ cursor' = [cursor EXCEPT ![p] = c] /\ pending' = [pending EXCEPT ![p] = <<>>]
      /\ UNCHANGED <<conf, file, rows, emitting, inbox, got>>
  BY DEF BootEnd
<1>2. /\ file \in Seq(Part) /\ Len(file) \in Nat /\ rows \subseteq Msg
      /\ pending \in [Peer -> Seq(Part)] /\ cursor \in [Peer -> Nat] /\ cursor[p] \in Nat
  BY DEF RInv, ReadTypes
<1>3. /\ pending' \in [Peer -> Seq(Part)] /\ pending'[p] = <<>>
      /\ \A q \in Peer \ {p} : pending'[q] = pending[q]
  BY <1>1, <1>2
<1>4. c \in Nat
  BY <1>2, LatestIs
<1>5. CASE Keyed
  <2>1. ASSUME NEW i \in 1 .. Len(got[p]) PROVE Key(got[p][i]) <= c
    <3>1. /\ got[p][i] \in Written /\ Key(got[p][i]) <= cursor[p]
          /\ medium = "jsonl" => cursor[p] <= Len(file)
      BY <1>5 DEF RInv, ReadsOn, ReadsInOrder
    <3>2. Key(got[p][i]) \in Nat
      BY <1>5, <3>1, KeyIsNumber
    <3>3. CASE medium = "jsonl"
      <4>1. c = Len(file)
        BY <3>3
      <4>2. QED
        BY <1>2, <3>1, <3>2, <3>3, <4>1
    <3>4. CASE medium = "sqlite"
      <4>1. c = Latest /\ Written = rows /\ Key(got[p][i]) = CreatedAt[got[p][i]]
        BY <3>4 DEF Written, Key
      <4>2. QED
        BY <1>2, <3>1, <4>1, LatestIs
    <3>5. QED
      BY <1>5, <3>3, <3>4 DEF Keyed
  <2>2. medium = "jsonl" => c <= Len(file) /\ \A i \in 1 .. Len(pending'[p]) : ~EndsLine(pending'[p][i])
    BY <1>2, <1>3
  <2> HIDE DEF c
  <2>3. QED
    BY <1>1, <1>3, <1>4, <1>5, <2>1, <2>2, CursorKeeps
<1>6. CASE ~Keyed
  <2> HIDE DEF c
  <2>1. medium' = medium /\ Keyed' = Keyed
    BY <1>1 DEF Keyed, medium
  <2>2. cursor' \in [Peer -> Nat]
    BY <1>1, <1>2, <1>4
  <2>3. ReadTypes'
    BY <1>1, <1>3, <2>2 DEF RInv, ReadTypes
  <2>4. \A q \in Peer : Heard(q)' = Heard(q)
    BY <1>1 DEF Heard
  <2>5. HearsOn'
    BY <1>1, <2>1, <2>4 DEF RInv, HearsOn, HearsOnce, HearAlike
  <2>6. WrittenOnce'
    BY <1>1, <1>6, <2>1 DEF RInv, WrittenOnce
  <2>7. QED
    BY <1>6, <2>1, <2>3, <2>5, <2>6 DEF RInv, ReadsOn
<1>7. QED
  BY <1>5, <1>6

----------------------------------------------------------------------------
(* Steps that write, and what subscribers hear.                            *)

\* A part of a line is appended: only a part that ends one writes an event.
LEMMA AppendKeeps ==
    ASSUME RInv, SentStays, medium = "jsonl", NEW x \in Part, file' = Append(file, x),
           EndsLine(x) => emitting[x.msg] # "sent" /\ emitting'[x.msg] = "sent",
           UNCHANGED <<conf, rows, readVars>>
    PROVE  RInv'
<1> DEFINE n == Len(file)
<1>1. /\ file \in Seq(Part) /\ n \in Nat /\ file' \in Seq(Part) /\ Len(file') = n + 1
      /\ file'[n + 1] = x /\ \A k \in 1 .. n : file'[k] = file[k]
  BY DEF RInv, ReadTypes
<1>2. \A k \in 1 .. Len(file') : k \in 1 .. n \/ k = n + 1
  BY <1>1
<1>3. 1 .. n \subseteq 1 .. Len(file') /\ n + 1 \in 1 .. Len(file')
  BY <1>1
<1>4. medium' = medium /\ Keyed /\ Keyed'
  BY DEF Keyed, medium
<1>5. Written = {file[k].msg : k \in {i \in 1 .. n : EndsLine(file[i])}}
  BY DEF Written
<1>6. Written' = {file'[k].msg : k \in {i \in 1 .. Len(file') : EndsLine(file'[i])}}
  BY <1>4 DEF Written
<1>7. \A m \in Written : emitting[m] = "sent" /\ m \in Msg
  BY <1>4, WrittenIs DEF RInv, WrittenOnce
<1>8. EndsLine(x) => \A k \in 1 .. n : EndsLine(file[k]) => file[k].msg # x.msg
  BY <1>5, <1>7
<1>9. EndsOnce(file')
  <2>1. EndsOnce(file)
    BY DEF RInv, WrittenOnce
  <2> HIDE DEF n
  <2>2. SUFFICES ASSUME NEW i \in 1 .. Len(file'), NEW j \in 1 .. Len(file'),
                        EndsLine(file'[i]), EndsLine(file'[j]), file'[i].msg = file'[j].msg
                 PROVE  i = j
    BY DEF EndsOnce
  <2>3. CASE i \in 1 .. n /\ j \in 1 .. n
    BY <1>1, <2>1, <2>2, <2>3 DEF EndsOnce, n
  <2>4. QED
    BY <1>1, <1>2, <1>8, <2>2, <2>3
<1>10. \A k \in 1 .. n : EndsLine(file[k]) =>
          file[k].msg \in Written' /\ Key(file[k].msg)' = Key(file[k].msg)
  <2>1. ASSUME NEW k \in 1 .. n, EndsLine(file[k])
        PROVE  file[k].msg \in Written' /\ Key(file[k].msg)' = Key(file[k].msg)
    <3>1. k \in 1 .. Len(file') /\ EndsLine(file'[k]) /\ file'[k] = file[k]
      BY <1>1, <1>3, <2>1
    <3>2. Place(file', file'[k].msg) = k
      BY <1>9, <3>1, PlaceIs
    <3>3. Key(file[k].msg)' = Place(file', file[k].msg)
      BY <1>4 DEF Key
    <3>4. Key(file[k].msg) = k
      BY <2>1, KeyOfLine DEF RInv
    <3>5. QED
      BY <1>6, <3>1, <3>2, <3>3, <3>4
  <2>2. QED
    BY <2>1
<1>11. \A m \in Written : m \in Written' /\ Key(m)' = Key(m)
  BY <1>5, <1>10
<1>12. WrittenOnce'
  <2>1. \A m \in Written' : m \in Written \/ (EndsLine(x) /\ m = x.msg)
    BY <1>1, <1>2, <1>5, <1>6
  <2>2. \A m \in Written' : emitting'[m] = "sent"
    BY <1>7, <2>1 DEF SentStays
  <2>3. QED
    BY <1>9, <2>2 DEF WrittenOnce
<1>13. ReadTypes'
  BY <1>1 DEF RInv, ReadTypes
<1>14. ASSUME NEW p \in Peer PROVE ReadsInOrder(p)'
  <2>1. ReadsInOrder(p) /\ cursor[p] \in Nat
    BY <1>4 DEF RInv, ReadsOn, ReadTypes
  <2>2. cursor[p] <= n => cursor[p] <= n + 1
    BY <1>1, <2>1
  <2>3. QED
    BY <1>1, <1>4, <1>11, <2>1, <2>2 DEF ReadsInOrder
<1>15. QED
  BY <1>4, <1>12, <1>13, <1>14 DEF RInv, ReadsOn, HearsOn

\* A row is committed, behind a cursor or before it.
LEMMA RowKeeps ==
    ASSUME RInv, SentStays, medium = "sqlite", NEW m \in Msg, rows' = rows \cup {m},
           emitting'[m] = "sent", UNCHANGED <<conf, file, readVars>>
    PROVE  RInv'
<1>1. medium' = medium /\ Keyed /\ Keyed'
  BY DEF Keyed, medium
<1>2. Written = rows /\ Written' = rows \cup {m} /\ \A k : Key(k)' = Key(k)
  BY <1>1 DEF Written, Key
<1>3. ReadTypes'
  BY DEF RInv, ReadTypes
<1>4. WrittenOnce'
  BY <1>1, <1>2 DEF RInv, ReadTypes, WrittenOnce, SentStays
<1>5. \A p \in Peer : ReadsInOrder(p) => ReadsInOrder(p)'
  BY <1>1, <1>2 DEF ReadsInOrder
<1>6. QED
  BY <1>1, <1>3, <1>4, <1>5 DEF RInv, ReadsOn, HearsOn

\* The server sends an event to some subscribers, as the last of what each hears.
LEMMA BroadcastKeeps ==
    ASSUME RInv, SentStays, ~Keyed, NEW m \in Msg, emitting[m] # "sent", emitting'[m] = "sent",
           NEW Q \in SUBSET Peer,
           inbox' = [p \in Peer |-> IF p \in Q THEN Append(inbox[p], m) ELSE inbox[p]],
           UNCHANGED <<conf, mediumVars, cursor, pending, got>>
    PROVE  RInv'
<1>1. Keyed' = Keyed
  BY DEF Keyed, medium
<1>2. ReadTypes'
  <2>1. inbox' \in [Peer -> Seq(Msg)]
    BY DEF RInv, ReadTypes
  <2>2. QED
    BY <2>1 DEF RInv, ReadTypes
<1>3. \A p \in Peer : Heard(p) \in Seq(Msg) /\ Len(Heard(p)) \in Nat
  BY DEF RInv, ReadTypes, Heard
<1>4. ASSUME NEW p \in Peer
      PROVE  /\ \A i \in 1 .. Len(Heard(p)') :
                  \/ i \in 1 .. Len(Heard(p)) /\ Heard(p)'[i] = Heard(p)[i]
                  \/ i = Len(Heard(p)) + 1 /\ Heard(p)'[i] = m
  <2>1. got[p] \in Seq(Msg) /\ inbox[p] \in Seq(Msg)
    BY DEF RInv, ReadTypes
  <2>2. CASE p \notin Q
    <3>1. inbox'[p] = inbox[p] /\ got'[p] = got[p]
      BY <2>2
    <3>2. Heard(p)' = Heard(p)
      BY <3>1 DEF Heard
    <3>3. QED
      BY <3>2
  <2>3. CASE p \in Q
    <3>1. Heard(p)' = got[p] \o Append(inbox[p], m)
      BY <2>3 DEF Heard
    <3>2. /\ Len(Heard(p)') = Len(Heard(p)) + 1 /\ Heard(p)'[Len(Heard(p)) + 1] = m
          /\ \A i \in 1 .. Len(Heard(p)) : Heard(p)'[i] = Heard(p)[i]
      <4>1. /\ Len(got[p] \o Append(inbox[p], m)) = Len(got[p] \o inbox[p]) + 1
            /\ (got[p] \o Append(inbox[p], m))[Len(got[p] \o inbox[p]) + 1] = m
            /\ \A i \in 1 .. Len(got[p] \o inbox[p]) :
                  (got[p] \o Append(inbox[p], m))[i] = (got[p] \o inbox[p])[i]
        <5> DEFINE g == got[p]
                   b == inbox[p]
        <5>1. g \in Seq(Msg) /\ b \in Seq(Msg)
          BY <2>1
        <5> HIDE DEF g, b
        <5>2. /\ Len(g \o Append(b, m)) = Len(g \o b) + 1
              /\ (g \o Append(b, m))[Len(g \o b) + 1] = m
              /\ \A i \in 1 .. Len(g \o b) : (g \o Append(b, m))[i] = (g \o b)[i]
          BY <5>1, JoinedAppend
        <5>3. QED
          BY <5>2 DEF g, b
      <4>2. Heard(p) = got[p] \o inbox[p]
        BY DEF Heard
      <4>3. QED
        BY <3>1, <4>1, <4>2
    <3>3. QED
      BY <1>3, <3>2
  <2>4. QED
    BY <2>2, <2>3
<1>5. ASSUME NEW p \in Peer, NEW i \in 1 .. Len(Heard(p)) PROVE Heard(p)[i] \in Msg \ {m}
  <2>1. emitting[Heard(p)[i]] = "sent"
    BY DEF RInv, HearsOn, HearsOnce
  <2>2. QED
    BY <1>3, <2>1
<1>6. ASSUME NEW p \in Peer PROVE HearsOnce(p)'
  <2>1. HearsOnce(p)
    BY DEF RInv, HearsOn
  <2>2. \A i \in 1 .. Len(Heard(p)') : emitting'[Heard(p)'[i]] = "sent"
    BY <1>4, <1>5, <2>1 DEF HearsOnce, SentStays
  <2>3. \A i, j \in 1 .. Len(Heard(p)') : Heard(p)'[i] = Heard(p)'[j] => i = j
    BY <1>4, <1>5, <2>1 DEF HearsOnce
  <2>4. QED
    BY <2>2, <2>3 DEF HearsOnce
<1>7. ASSUME NEW p \in Peer, NEW q \in Peer PROVE HearAlike(p, q)'
  <2>1. HearAlike(p, q)
    BY DEF RInv, HearsOn
  <2>2. SUFFICES ASSUME NEW i \in 1 .. Len(Heard(p)'), NEW j \in 1 .. Len(Heard(p)'),
                        NEW k \in 1 .. Len(Heard(q)'), NEW l \in 1 .. Len(Heard(q)'),
                        i < j, k < l, Heard(p)'[i] = Heard(q)'[l], Heard(p)'[j] = Heard(q)'[k]
                 PROVE  FALSE
    BY DEF HearAlike
  <2> DEFINE L(r) == Len(Heard(r))
  <2>a. \A x, y, z \in Nat : x < y /\ (y \in 1 .. z \/ y = z + 1) => x # z + 1
    OBVIOUS
  <2>b. \A r \in Peer : \A x \in 1 .. Len(Heard(r)') :
           x \in Nat /\ L(r) \in Nat /\ (x \in 1 .. L(r) \/ x = L(r) + 1)
    BY <1>3, <1>4
  <2>3. i \in 1 .. Len(Heard(p)) /\ Heard(p)'[i] = Heard(p)[i]
    <3>1. i # L(p) + 1
      BY <2>2, <2>a, <2>b
    <3>2. QED
      BY <1>4, <3>1
  <2>4. k \in 1 .. Len(Heard(q)) /\ Heard(q)'[k] = Heard(q)[k]
    <3>1. k # L(q) + 1
      BY <2>2, <2>a, <2>b
    <3>2. QED
      BY <1>4, <3>1
  <2>5. Heard(p)'[i] # m /\ Heard(q)'[k] # m
    BY <1>5, <2>3, <2>4
  <2>6. j \in 1 .. Len(Heard(p)) /\ Heard(p)'[j] = Heard(p)[j]
    BY <1>4, <2>2, <2>5
  <2>7. l \in 1 .. Len(Heard(q)) /\ Heard(q)'[l] = Heard(q)[l]
    BY <1>4, <2>2, <2>5
  <2>8. QED
    BY <2>1, <2>2, <2>3, <2>4, <2>6, <2>7 DEF HearAlike
<1>8. WrittenOnce'
  BY <1>1 DEF RInv, WrittenOnce
<1>9. QED
  BY <1>1, <1>2, <1>6, <1>7, <1>8 DEF RInv, ReadsOn, HearsOn

\* A subscriber loses some of what it has heard, and the rest stays in order.
LEMMA ThinKeeps ==
    ASSUME RInv, SentStays, ~Keyed, NEW p \in Peer,
           got' \in [Peer -> Seq(Msg)], inbox' \in [Peer -> Seq(Msg)],
           \A q \in Peer \ {p} : Heard(q)' = Heard(q),
           NEW f \in [1 .. Len(Heard(p)') -> 1 .. Len(Heard(p))],
           \A i \in 1 .. Len(Heard(p)') : Heard(p)'[i] = Heard(p)[f[i]],
           \A i, j \in 1 .. Len(Heard(p)') : i < j => f[i] < f[j],
           UNCHANGED <<conf, mediumVars, cursor, pending>>
    PROVE  RInv'
<1>1. Keyed' = Keyed
  BY DEF Keyed, medium
<1>2. ReadTypes' /\ WrittenOnce'
  BY <1>1 DEF RInv, ReadTypes, WrittenOnce
<1>3. \A q \in Peer : /\ Heard(q)' \in Seq(Msg) /\ Len(Heard(q)') \in Nat
                      /\ Heard(q) \in Seq(Msg) /\ Len(Heard(q)) \in Nat
  BY DEF Heard, RInv, ReadTypes
<1>4. /\ \A i \in 1 .. Len(Heard(p)') : f[i] \in 1 .. Len(Heard(p))
      /\ \A i, j \in 1 .. Len(Heard(p)') : f[i] = f[j] => i = j
  <2>1. \A i, j \in 1 .. Len(Heard(p)') : i < j \/ j < i \/ i = j
    BY <1>3
  <2>2. \A i \in 1 .. Len(Heard(p)') : f[i] \in 1 .. Len(Heard(p)) /\ f[i] \in Nat
    <3>1. \A i \in 1 .. Len(Heard(p)') : f[i] \in 1 .. Len(Heard(p))
      OBVIOUS
    <3>2. 1 .. Len(Heard(p)) \subseteq Nat
      BY <1>3
    <3>3. QED
      BY <3>1, <3>2
  <2>3. \A x, y \in Nat : x < y => x # y
    OBVIOUS
  <2>4. QED
    BY <2>1, <2>2, <2>3
<1>5. ASSUME NEW q \in Peer PROVE HearsOnce(q)'
  <2>1. HearsOnce(q)
    BY DEF RInv, HearsOn
  <2>a. \A i \in 1 .. Len(Heard(q)) : emitting[Heard(q)[i]] = "sent" /\ emitting'[Heard(q)[i]] = "sent"
    <3>1. \A i \in 1 .. Len(Heard(q)) : Heard(q)[i] \in Msg
      BY <1>3
    <3>2. QED
      BY <2>1, <3>1 DEF HearsOnce, SentStays
  <2>2. CASE q = p
    <3>1. ASSUME NEW i \in 1 .. Len(Heard(p)')
          PROVE  f[i] \in 1 .. Len(Heard(p)) /\ emitting'[Heard(p)'[i]] = "sent"
      BY <1>4, <2>a, <2>2
    <3>2. ASSUME NEW i \in 1 .. Len(Heard(p)'), NEW j \in 1 .. Len(Heard(p)'),
                 Heard(p)'[i] = Heard(p)'[j]
          PROVE  i = j
      <4>1. f[i] = f[j]
        BY <2>1, <2>2, <3>1, <3>2 DEF HearsOnce
      <4>2. QED
        BY <1>4, <4>1
    <3>3. QED
      BY <2>2, <3>1, <3>2 DEF HearsOnce
  <2>3. CASE q # p
    <3>1. Heard(q)' = Heard(q)
      BY <2>3
    <3>2. QED
      BY <2>1, <2>a, <3>1 DEF HearsOnce
  <2>4. QED
    BY <2>2, <2>3
<1>6. \A q, r \in Peer : HearAlike(q, r)
  BY DEF RInv, HearsOn
<1>7. ASSUME NEW q \in Peer
      PROVE  \E g \in [1 .. Len(Heard(q)') -> 1 .. Len(Heard(q))] :
                /\ \A i \in 1 .. Len(Heard(q)') : Heard(q)'[i] = Heard(q)[g[i]]
                /\ \A i, j \in 1 .. Len(Heard(q)') : i < j => g[i] < g[j]
  <2>1. CASE q = p
    BY <2>1
  <2>2. CASE q # p
    <3> DEFINE g == [i \in 1 .. Len(Heard(q)) |-> i]
    <3>1. Heard(q)' = Heard(q)
      BY <2>2
    <3>2. g \in [1 .. Len(Heard(q)') -> 1 .. Len(Heard(q))]
      BY <3>1
    <3>3. /\ \A i \in 1 .. Len(Heard(q)') : Heard(q)'[i] = Heard(q)[g[i]]
          /\ \A i, j \in 1 .. Len(Heard(q)') : i < j => g[i] < g[j]
      BY <3>1
    <3> HIDE DEF g
    <3>4. QED
      BY <3>2, <3>3
  <2>3. QED
    BY <2>1, <2>2
<1>8. ASSUME NEW q \in Peer, NEW r \in Peer PROVE HearAlike(q, r)'
  <2>1. PICK g \in [1 .. Len(Heard(q)') -> 1 .. Len(Heard(q))] :
          /\ \A i \in 1 .. Len(Heard(q)') : Heard(q)'[i] = Heard(q)[g[i]]
          /\ \A i, j \in 1 .. Len(Heard(q)') : i < j => g[i] < g[j]
    BY <1>7
  <2>2. PICK h \in [1 .. Len(Heard(r)') -> 1 .. Len(Heard(r))] :
          /\ \A i \in 1 .. Len(Heard(r)') : Heard(r)'[i] = Heard(r)[h[i]]
          /\ \A i, j \in 1 .. Len(Heard(r)') : i < j => h[i] < h[j]
    BY <1>7
  <2>3. SUFFICES ASSUME NEW i \in 1 .. Len(Heard(q)'), NEW j \in 1 .. Len(Heard(q)'),
                        NEW k \in 1 .. Len(Heard(r)'), NEW l \in 1 .. Len(Heard(r)'),
                        i < j, k < l, Heard(q)'[i] = Heard(r)'[l], Heard(q)'[j] = Heard(r)'[k]
                 PROVE  FALSE
    BY DEF HearAlike
  <2>4. /\ g[i] \in 1 .. Len(Heard(q)) /\ g[j] \in 1 .. Len(Heard(q)) /\ g[i] < g[j]
        /\ h[k] \in 1 .. Len(Heard(r)) /\ h[l] \in 1 .. Len(Heard(r)) /\ h[k] < h[l]
    BY <2>1, <2>2, <2>3
  <2>5. Heard(q)[g[i]] = Heard(r)[h[l]] /\ Heard(q)[g[j]] = Heard(r)[h[k]]
    BY <2>1, <2>2, <2>3
  <2>6. HearAlike(q, r)
    BY <1>6
  <2>7. QED
    BY <2>4, <2>5, <2>6 DEF HearAlike
<1>9. QED
  BY <1>1, <1>2, <1>5, <1>8 DEF RInv, ReadsOn, HearsOn

\* What an emit() does to a medium happens once, as it becomes sent.
LEMMA WritesKeep ==
    ASSUME IInv, RInv, SentStays, NEW m \in Msg,
           UpsertRow(m) \/ UpsertAndNotify(m) \/ Publish(m) \/ AppendLine(m)
    PROVE  RInv'
<1>1. emitting \in [Msg -> {"idle", "wait", "columns", "alter", "upsert", "notify",
                             "write", "tail"} \cup Ended]
  BY DEF IInv, Types
<1>2. CASE UpsertRow(m)
  <2>1. /\ medium = "sqlite" /\ rows' = rows \cup {m} /\ UNCHANGED <<conf, file, readVars>>
        /\ emitting'[m] = "sent"
    BY <1>1, <1>2 DEF UpsertRow, To
  <2>2. QED
    BY <2>1, RowKeeps
<1>3. CASE UpsertAndNotify(m)
  <2>1. medium = "postgres" /\ ~Keyed /\ UNCHANGED <<conf, file, cursor, pending, got>>
    BY <1>3 DEF UpsertAndNotify, Keyed
  <2>2. CASE emitting[m] = "upsert" /\ To(m, "notify") /\ rows' = rows \cup {m} /\ UNCHANGED inbox
    <3>1. Keyed' = Keyed /\ \A p \in Peer : Heard(p)' = Heard(p)
      BY <2>1, <2>2 DEF Keyed, medium, Heard
    <3>2. ReadTypes'
      BY <2>1, <2>2 DEF RInv, ReadTypes
    <3>3. WrittenOnce' /\ ReadsOn'
      BY <2>1, <3>1 DEF RInv, WrittenOnce, ReadsOn
    <3>4. \A p \in Peer : HearsOnce(p)'
      <4>1. \A p \in Peer : HearsOnce(p) /\ Heard(p) \in Seq(Msg)
        BY <2>1 DEF RInv, HearsOn, ReadTypes, Heard
      <4>2. \A p \in Peer : \A i \in 1 .. Len(Heard(p)) : Heard(p)[i] \in Msg
        BY <4>1
      <4>3. QED
        BY <3>1, <4>1, <4>2 DEF HearsOnce, SentStays
    <3>5. \A p, q \in Peer : HearAlike(p, q)'
      BY <2>1, <3>1 DEF RInv, HearsOn, HearAlike
    <3>6. QED
      BY <3>1, <3>2, <3>3, <3>4, <3>5 DEF RInv, HearsOn
  <2>3. CASE /\ emitting[m] = "notify" /\ To(m, "sent") /\ UNCHANGED rows
             /\ inbox' = [p \in Peer |-> IF Listening(p) THEN Append(inbox[p], m) ELSE inbox[p]]
    <3> DEFINE Q == {p \in Peer : Listening(p)}
    <3>1. emitting[m] # "sent" /\ emitting'[m] = "sent"
      BY <1>1, <2>3 DEF To
    <3>2. UNCHANGED <<conf, mediumVars, cursor, pending, got>>
      BY <1>3, <2>1, <2>3 DEF UpsertAndNotify
    <3>3. inbox' = [p \in Peer |-> IF p \in Q THEN Append(inbox[p], m) ELSE inbox[p]]
      BY <2>3
    <3>4. Q \in SUBSET Peer
      OBVIOUS
    <3> HIDE DEF Q
    <3>5. QED
      BY <2>1, <3>1, <3>2, <3>3, <3>4, BroadcastKeeps
  <2>4. QED
    BY <1>3, <2>2, <2>3 DEF UpsertAndNotify
<1>4. CASE Publish(m)
  <2> DEFINE Q == {p \in Peer : Alive(p) /\ (life[p] = "ready" \/ listener[p] = "run")}
  <2>1. emitting[m] # "sent" /\ emitting'[m] = "sent"
    BY <1>1, <1>4 DEF Publish, To
  <2>2. ~Keyed /\ UNCHANGED <<conf, mediumVars, cursor, pending, got>>
    BY <1>4 DEF Publish, Keyed
  <2>3. inbox' = [p \in Peer |-> IF p \in Q THEN Append(inbox[p], m) ELSE inbox[p]]
    BY <1>4 DEF Publish
  <2>4. Q \in SUBSET Peer
    OBVIOUS
  <2> HIDE DEF Q
  <2>5. QED
    BY <2>1, <2>2, <2>3, <2>4, BroadcastKeeps
<1>5. CASE AppendLine(m)
  <2> DEFINE part == IF emitting[m] = "tail" THEN "tail"
                     ELSE IF m \in Long THEN "head" ELSE "whole"
             x == [msg |-> m, part |-> part]
  <2>1. /\ medium = "jsonl" /\ file' = Append(file, x)
        /\ To(m, IF part = "head" THEN "tail" ELSE "sent") /\ emitting[m] # "sent"
        /\ UNCHANGED <<conf, rows, readVars>>
    BY <1>5 DEF AppendLine
  <2>2. part \in {"head", "tail", "whole"}
    OBVIOUS
  <2> HIDE DEF part
  <2>3. x \in Part /\ x.msg = m /\ (EndsLine(x) => part # "head")
    BY <2>2 DEF Part, EndsLine
  <2> HIDE DEF x
  <2>4. EndsLine(x) => emitting[x.msg] # "sent" /\ emitting'[x.msg] = "sent"
    BY <1>1, <2>1, <2>3 DEF To
  <2>5. QED
    BY <2>1, <2>3, <2>4, AppendKeeps
<1>6. QED
  BY <1>2, <1>3, <1>4, <1>5

\* close() drops what a subscriber has not been given yet.
LEMMA CloseEndsKeeps == ASSUME RInv, SentStays, NEW p \in Peer, CloseEnds(p) PROVE RInv'
<1>1. /\ \/ inbox' = [inbox EXCEPT ![p] = <<>>]
         \/ inbox' = [inbox EXCEPT ![p] = @]
      /\ UNCHANGED <<conf, mediumVars, cursor, pending, got>>
  BY DEF CloseEnds
<1>2. /\ inbox \in [Peer -> Seq(Msg)] /\ got \in [Peer -> Seq(Msg)]
      /\ got[p] \in Seq(Msg) /\ inbox[p] \in Seq(Msg)
  BY DEF RInv, ReadTypes
<1>3. /\ inbox' \in [Peer -> Seq(Msg)] /\ \A q \in Peer \ {p} : inbox'[q] = inbox[q]
      /\ inbox'[p] = <<>> \/ inbox' = inbox
  <2>1. CASE inbox' = [inbox EXCEPT ![p] = <<>>]
    <3>1. <<>> \in Seq(Msg)
      OBVIOUS
    <3>2. QED
      BY <1>2, <2>1, <3>1
  <2>2. CASE inbox' = [inbox EXCEPT ![p] = @]
    <3>1. inbox' = inbox
      BY <1>2, <2>2
    <3>2. QED
      BY <1>2, <3>1
  <2>3. QED
    BY <1>1, <2>1, <2>2
<1>a. Keyed => Written \subseteq Msg
  BY WrittenIs DEF RInv
<1>4. CASE Keyed
  <2>1. \A q \in Peer : inbox'[q] = inbox[q]
    BY <1>3, <1>4 DEF RInv, ReadsOn, ReadsInOrder
  <2>2. inbox' = inbox
    BY <1>2, <1>3, <2>1
  <2>3. medium' = medium /\ Keyed' = Keyed
    BY <1>1 DEF Keyed, medium
  <2>4. Written' = Written /\ \A m : Key(m)' = Key(m)
    BY <1>1, <2>3 DEF Written, Key
  <2>5. \A q \in Peer : ReadsInOrder(q) => ReadsInOrder(q)'
    BY <1>1, <2>2, <2>3, <2>4 DEF ReadsInOrder
  <2>6. ReadTypes' /\ WrittenOnce'
    BY <1>1, <1>a, <2>2, <2>3, <2>4 DEF RInv, ReadTypes, WrittenOnce, SentStays
  <2>7. QED
    BY <1>4, <2>3, <2>5, <2>6 DEF RInv, ReadsOn, HearsOn
<1>5. CASE ~Keyed /\ inbox' = inbox
  <2> DEFINE f == [i \in 1 .. Len(Heard(p)) |-> i]
  <2>1. \A q \in Peer : Heard(q)' = Heard(q)
    BY <1>1, <1>5 DEF Heard
  <2>2. /\ f \in [1 .. Len(Heard(p)) -> 1 .. Len(Heard(p))]
        /\ \A i \in 1 .. Len(Heard(p)) : Heard(p)[i] = Heard(p)[f[i]]
        /\ \A i, j \in 1 .. Len(Heard(p)) : i < j => f[i] < f[j]
    OBVIOUS
  <2> HIDE DEF f
  <2>3. Heard(p)' = Heard(p) /\ got' \in [Peer -> Seq(Msg)]
    BY <1>1, <1>2, <2>1
  <2>4. \E g \in [1 .. Len(Heard(p)') -> 1 .. Len(Heard(p))] :
          /\ \A i \in 1 .. Len(Heard(p)') : Heard(p)'[i] = Heard(p)[g[i]]
          /\ \A i, j \in 1 .. Len(Heard(p)') : i < j => g[i] < g[j]
    BY <2>2, <2>3
  <2>5. QED
    BY <1>1, <1>3, <1>5, <2>1, <2>3, <2>4, ThinKeeps
<1>6. CASE ~Keyed /\ inbox'[p] = <<>>
  <2> DEFINE f == [i \in 1 .. Len(Heard(p)') |-> i]
  <2>1. Heard(p)' = got[p] \o <<>> /\ Heard(p) = got[p] \o inbox[p]
    BY <1>1, <1>6 DEF Heard
  <2>2. Heard(p)' = got[p]
    BY <1>2, <2>1
  <2>3. /\ Len(got[p]) \in Nat /\ Len(inbox[p]) \in Nat /\ Len(Heard(p)) = Len(got[p]) + Len(inbox[p])
        /\ \A i \in 1 .. Len(got[p]) : Heard(p)[i] = got[p][i]
    BY <1>2, <2>1
  <2>4. 1 .. Len(got[p]) \subseteq 1 .. Len(Heard(p))
    <3>1. \A x, y \in Nat : 1 .. x \subseteq 1 .. x + y
      OBVIOUS
    <3>2. QED
      BY <2>3, <3>1
  <2>5. f \in [1 .. Len(Heard(p)') -> 1 .. Len(Heard(p))]
    BY <2>2, <2>4
  <2>6. /\ \A i \in 1 .. Len(Heard(p)') : Heard(p)'[i] = Heard(p)[f[i]]
        /\ \A i, j \in 1 .. Len(Heard(p)') : i < j => f[i] < f[j]
    <3>1. \A i \in 1 .. Len(Heard(p)') : f[i] = i
      OBVIOUS
    <3> HIDE DEF f
    <3>2. QED
      BY <2>2, <2>3, <3>1
  <2> HIDE DEF f
  <2>7. \A q \in Peer \ {p} : Heard(q)' = Heard(q)
    BY <1>1, <1>3 DEF Heard
  <2>8. got' \in [Peer -> Seq(Msg)]
    BY <1>1, <1>2
  <2>9. QED
    BY <1>1, <1>3, <1>6, <2>5, <2>6, <2>7, <2>8, ThinKeeps
<1>7. QED
  BY <1>3, <1>4, <1>5, <1>6

\* A subscriber hands on what it hears next, or drops it.
LEMMA HearKeeps == ASSUME RInv, NEW p \in Peer, Hear(p) PROVE RInv'
<1> DEFINE h == Head(inbox[p])
<1>1. /\ inbox[p] # <<>> /\ inbox' = [inbox EXCEPT ![p] = Tail(@)]
      /\ got' = [got EXCEPT ![p] = IF closed[p] = "over" THEN @ ELSE @ \o UpToInvalid(<<h>>)]
      /\ UNCHANGED <<conf, emitting, mediumVars, cursor, pending>>
  BY DEF Hear, Deliver
<1>2. ~Keyed
  BY <1>1 DEF RInv, ReadsOn, ReadsInOrder
<1>3. /\ inbox \in [Peer -> Seq(Msg)] /\ got \in [Peer -> Seq(Msg)]
      /\ got[p] \in Seq(Msg) /\ inbox[p] \in Seq(Msg)
  BY DEF RInv, ReadTypes
<1>4. /\ Tail(inbox[p]) \in Seq(Msg) /\ h \in Msg /\ Heard(p) = got[p] \o inbox[p]
      /\ (got[p] \o <<h>>) \o Tail(inbox[p]) = got[p] \o inbox[p]
      /\ \E f \in [1 .. Len(got[p] \o Tail(inbox[p])) -> 1 .. Len(got[p] \o inbox[p])] :
            /\ \A i \in 1 .. Len(got[p] \o Tail(inbox[p])) :
                  (got[p] \o Tail(inbox[p]))[i] = (got[p] \o inbox[p])[f[i]]
            /\ \A i, j \in 1 .. Len(got[p] \o Tail(inbox[p])) : i < j => f[i] < f[j]
  <2>1. Tail(inbox[p]) \in Seq(Msg) /\ h \in Msg
    BY <1>1, <1>3, TailOfSeq
  <2>2. Heard(p) = got[p] \o inbox[p]
    BY DEF Heard
  <2> DEFINE s == got[p]
             t == inbox[p]
  <2>3. s \in Seq(Msg) /\ t \in Seq(Msg) /\ t # <<>> /\ h = Head(t)
    BY <1>1, <1>3
  <2> HIDE DEF s, t, h
  <2>4. /\ (s \o <<Head(t)>>) \o Tail(t) = s \o t
        /\ \E f \in [1 .. Len(s \o Tail(t)) -> 1 .. Len(s \o t)] :
             /\ \A i \in 1 .. Len(s \o Tail(t)) : (s \o Tail(t))[i] = (s \o t)[f[i]]
             /\ \A i, j \in 1 .. Len(s \o Tail(t)) : i < j => f[i] < f[j]
    BY <2>3, HeadMoves, Zenon
  <2>5. QED
    BY <2>1, <2>2, <2>3, <2>4, Zenon DEF s, t
<1> HIDE DEF h
<1>5. UpToInvalid(<<h>>) = <<>> \/ UpToInvalid(<<h>>) = <<h>>
  <2> DEFINE s == <<h>>
             r == UpToInvalid(s)
  <2>1. s \in Seq(Msg) /\ Len(s) = 1 /\ s[1] = h
    BY <1>4
  <2> HIDE DEF s
  <2>2. r \in Seq(Msg) /\ Len(r) <= Len(s) /\ \A i \in 1 .. Len(r) : r[i] = s[i]
    BY <2>1, UpToInvalidOf
  <2> HIDE DEF r
  <2>3. Len(r) = 0 \/ (Len(r) = 1 /\ r[1] = h)
    BY <2>1, <2>2
  <2>4. r = <<>> \/ r = <<h>>
    BY <2>2, <2>3
  <2>5. QED
    BY <2>4 DEF r, s
<1>6. /\ inbox' \in [Peer -> Seq(Msg)] /\ inbox'[p] = Tail(inbox[p])
      /\ \A q \in Peer \ {p} : inbox'[q] = inbox[q] /\ got'[q] = got[q]
  BY <1>1, <1>3, <1>4
<1>7. got' \in [Peer -> Seq(Msg)] /\ (got'[p] = got[p] \/ got'[p] = got[p] \o <<h>>)
  <2>1. CASE closed[p] = "over" \/ UpToInvalid(<<h>>) = <<>>
    <3>1. got[p] \o <<>> = got[p]
      BY <1>3
    <3>2. got' = [got EXCEPT ![p] = got[p]]
      BY <1>1, <2>1, <3>1
    <3>3. QED
      BY <1>3, <3>2
  <2>2. CASE closed[p] # "over" /\ UpToInvalid(<<h>>) = <<h>>
    <3>1. got[p] \o <<h>> \in Seq(Msg)
      BY <1>3, <1>4
    <3>2. got' = [got EXCEPT ![p] = got[p] \o <<h>>]
      BY <1>1, <2>2
    <3>3. QED
      BY <1>3, <3>1, <3>2
  <2>3. QED
    BY <1>5, <2>1, <2>2
<1>8. \A q \in Peer \ {p} : Heard(q)' = Heard(q)
  BY <1>6 DEF Heard
<1>9. Heard(p)' = got'[p] \o Tail(inbox[p])
  BY <1>6 DEF Heard
<1>10. \E f \in [1 .. Len(Heard(p)') -> 1 .. Len(Heard(p))] :
          /\ \A i \in 1 .. Len(Heard(p)') : Heard(p)'[i] = Heard(p)[f[i]]
          /\ \A i, j \in 1 .. Len(Heard(p)') : i < j => f[i] < f[j]
  <2>1. CASE got'[p] = got[p]
    BY <1>4, <1>9, <2>1
  <2>2. CASE got'[p] = got[p] \o <<h>>
    <3> DEFINE f == [i \in 1 .. Len(Heard(p)) |-> i]
    <3>1. Heard(p)' = Heard(p)
      BY <1>4, <1>9, <2>2
    <3>2. f \in [1 .. Len(Heard(p)) -> 1 .. Len(Heard(p))]
      OBVIOUS
    <3>3. /\ \A i \in 1 .. Len(Heard(p)) : Heard(p)[i] = Heard(p)[f[i]]
          /\ \A i, j \in 1 .. Len(Heard(p)) : i < j => f[i] < f[j]
      OBVIOUS
    <3> HIDE DEF f
    <3>4. QED
      BY <3>1, <3>2, <3>3
  <2>3. QED
    BY <1>7, <2>1, <2>2
<1>11. QED
  BY <1>1, <1>2, <1>6, <1>7, <1>8, <1>10, ThinKeeps DEF SentStays

\* Reading and writing agree after every step of every process.
LEMMA RStep == ASSUME IInv, RInv, [Next]_vars PROVE RInv'
<1>1. SentStays
  BY SentForGood
<1>2. CASE Apart
  BY <1>1, <1>2, ApartKeeps
<1>3. ASSUME NEW p \in Peer, BootEnd(p) \/ Reading(p) \/ CloseEnds(p) PROVE RInv'
  BY <1>1, <1>3, BootKeeps, PollLinesKeeps, PollRowsKeeps, HearKeeps, CloseEndsKeeps DEF Reading
<1>4. ASSUME NEW m \in Msg,
             UpsertRow(m) \/ UpsertAndNotify(m) \/ Publish(m) \/ AppendLine(m)
      PROVE  RInv'
  BY <1>1, <1>4, WritesKeep
<1>5. QED
  BY <1>2, <1>3, <1>4 DEF Next, Apart, Starting, Writing

----------------------------------------------------------------------------
(* The theorems about what arrives.                                        *)

\* Each medium holds what was sent, once, and each bridge has handed on a part of
\* it in the order of the medium.
THEOREM BridgesReadInOrder == Spec => []RInv
<1>1. Init => RInv
  <2>1. SUFFICES ASSUME Init PROVE RInv
    OBVIOUS
  <2>2. /\ file = <<>> /\ rows = {} /\ Len(<<>>) = 0 /\ 1 .. 0 = {}
        /\ \A p \in Peer : /\ cursor[p] = 0 /\ pending[p] = <<>> /\ inbox[p] = <<>> /\ got[p] = <<>>
    BY <2>1 DEF Init
  <2>3. ReadTypes
    BY <2>1 DEF Init, ReadTypes
  <2>4. WrittenOnce
    BY <2>2 DEF WrittenOnce, EndsOnce, Written
  <2>5. ReadsOn
    <3>1. ASSUME NEW p \in Peer PROVE ReadsInOrder(p)
      <4>1. Len(file) = 0 /\ Len(got[p]) = 0 /\ Len(pending[p]) = 0 /\ cursor[p] <= Len(file)
        BY <2>2
      <4>2. \A i \in 1 .. Len(got[p]) : FALSE
        BY <4>1
      <4>3. \A i \in 1 .. Len(pending[p]) : FALSE
        BY <4>1
      <4>4. QED
        BY <2>2, <4>1, <4>2, <4>3 DEF ReadsInOrder
    <3>2. QED
      BY <3>1 DEF ReadsOn
  <2>6. HearsOn
    <3>1. \A p \in Peer : Len(Heard(p)) = 0
      <4>1. <<>> \o <<>> = <<>>
        OBVIOUS
      <4>2. \A p \in Peer : Heard(p) = <<>>
        BY <2>2, <4>1 DEF Heard
      <4>3. QED
        BY <2>2, <4>2
    <3>2. QED
      BY <2>2, <3>1 DEF HearsOn, HearsOnce, HearAlike
  <2>7. QED
    BY <2>3, <2>4, <2>5, <2>6 DEF RInv
<1>2. IInv /\ RInv /\ [Next]_vars => RInv'
  BY RStep
<1>3. QED
  BY <1>1, <1>2, BridgeInvariant, PTL DEF Spec

\* What has been handed on is the beginning of what was heard.
LEMMA GotIsHeard ==
    ASSUME RInv, NEW p \in Peer, NEW i \in 1 .. Len(got[p])
    PROVE  i \in 1 .. Len(Heard(p)) /\ Heard(p)[i] = got[p][i]
<1>1. got[p] \in Seq(Msg) /\ inbox[p] \in Seq(Msg)
  BY DEF RInv, ReadTypes
<1> DEFINE g == got[p]
           b == inbox[p]
<1>2. g \in Seq(Msg) /\ b \in Seq(Msg) /\ i \in 1 .. Len(g)
  BY <1>1
<1> HIDE DEF g, b
<1>3. Len(g \o b) = Len(g) + Len(b) /\ (g \o b)[i] = g[i] /\ Len(g) \in Nat /\ Len(b) \in Nat
  BY <1>2
<1>4. i \in 1 .. Len(g \o b)
  BY <1>2, <1>3
<1>5. QED
  BY <1>3, <1>4 DEF Heard, g, b

\* What has been handed on by keys has keys that are numbers.
LEMMA GotIsWritten ==
    ASSUME RInv, Keyed, NEW p \in Peer
    PROVE  /\ \A i \in 1 .. Len(got[p]) : got[p][i] \in Written /\ Key(got[p][i]) \in Nat
           /\ \A i, j \in 1 .. Len(got[p]) : i < j => Key(got[p][i]) < Key(got[p][j])
<1>1. ReadsInOrder(p)
  BY DEF RInv, ReadsOn
<1>2. QED
  BY <1>1, KeyIsNumber DEF ReadsInOrder

\* No listener hands an event to its inbound bus twice, or one that no emit()
\* has sent.
THEOREM EventsArriveOnce == Spec => []ArrivesOnce
<1>1. RInv => ArrivesOnce
  <2>1. SUFFICES ASSUME RInv, NEW p \in Peer
                 PROVE  /\ \A i, j \in 1 .. Len(got[p]) : got[p][i] = got[p][j] => i = j
                        /\ \A i \in 1 .. Len(got[p]) : emitting[got[p][i]] = "sent"
    <3>1. RInv => \A p \in Peer : DOMAIN got[p] = 1 .. Len(got[p])
      BY DEF RInv, ReadTypes
    <3>2. QED
      BY <3>1 DEF ArrivesOnce
  <2>2. CASE Keyed
    <3>1. \A x, y \in Nat : x < y => x # y
      OBVIOUS
    <3>2. \A i, j \in 1 .. Len(got[p]) : i < j \/ j < i \/ i = j
      BY <2>1 DEF RInv, ReadTypes
    <3>3. \A i, j \in 1 .. Len(got[p]) : got[p][i] = got[p][j] => i = j
      BY <2>1, <2>2, <3>1, <3>2, GotIsWritten
    <3>4. \A i \in 1 .. Len(got[p]) : emitting[got[p][i]] = "sent"
      BY <2>1, <2>2, GotIsWritten DEF RInv, WrittenOnce
    <3>5. QED
      BY <3>3, <3>4
  <2>3. CASE ~Keyed
    <3>1. HearsOnce(p)
      BY <2>1, <2>3 DEF RInv, HearsOn
    <3>2. QED
      BY <2>1, <3>1, GotIsHeard DEF HearsOnce
  <2>4. QED
    BY <2>2, <2>3
<1>2. QED
  BY <1>1, BridgesReadInOrder, PTL

\* The inbound buses of two bridges get the events that both get in one order,
\* with SQLite in that of event_created_at and event_id.
THEOREM EventsArriveInOrder == Spec => []SameOrder
<1>1. RInv => SameOrder
  <2>1. SUFFICES ASSUME RInv, NEW p \in Peer, NEW q \in Peer, NEW m \in Msg, NEW n \in Msg,
                        NEW i \in 1 .. Len(got[p]), NEW j \in 1 .. Len(got[p]),
                        i < j, got[p][i] = m, got[p][j] = n
                 PROVE  /\ \A k, l \in 1 .. Len(got[q]) :
                             k < l => ~(got[q][k] = n /\ got[q][l] = m)
                        /\ medium = "sqlite" => CreatedAt[m] < CreatedAt[n]
    <3>1. RInv => \A p \in Peer : DOMAIN got[p] = 1 .. Len(got[p])
      BY DEF RInv, ReadTypes
    <3>2. QED
      BY <3>1 DEF SameOrder, Before
  <2>2. CASE Keyed
    <3>1. Key(m) \in Nat /\ Key(n) \in Nat /\ Key(m) < Key(n)
      BY <2>1, <2>2, GotIsWritten
    <3>2. \A k, l \in 1 .. Len(got[q]) : k < l /\ got[q][k] = n /\ got[q][l] = m => Key(n) < Key(m)
      BY <2>1, <2>2, GotIsWritten
    <3>3. ~(Key(n) < Key(m))
      BY <3>1
    <3>4. medium = "sqlite" => CreatedAt[m] < CreatedAt[n]
      BY <3>1 DEF Key
    <3>5. QED
      BY <3>2, <3>3, <3>4
  <2>3. CASE ~Keyed
    <3>1. HearAlike(p, q)
      BY <2>1, <2>3 DEF RInv, HearsOn
    <3>2. /\ i \in 1 .. Len(Heard(p)) /\ j \in 1 .. Len(Heard(p))
          /\ Heard(p)[i] = m /\ Heard(p)[j] = n
      BY <2>1, GotIsHeard
    <3>3. \A k \in 1 .. Len(got[q]) : k \in 1 .. Len(Heard(q)) /\ Heard(q)[k] = got[q][k]
      BY <2>1, GotIsHeard
    <3>4. QED
      BY <2>1, <2>3, <3>1, <3>2, <3>3 DEF HearAlike, Keyed
  <2>4. QED
    BY <2>2, <2>3
<1>2. QED
  BY <1>1, BridgesReadInOrder, PTL
=============================================================================
