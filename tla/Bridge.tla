------------------------------- MODULE Bridge -------------------------------
(***************************************************************************)
(* Processes that forward events through one medium, each with a bridge of *)
(* its own: a file of lines, an SQLite or Postgres table, a Redis channel  *)
(* or a NATS subject.  A bridge is started by its first on() or emit(),    *)
(* writes what it is given, hands what it reads or hears to its inbound    *)
(* bus, and is closed.  Threads, other processes and their deaths come in  *)
(* between wherever the code awaits.                                       *)
(***************************************************************************)
EXTENDS Integers, Sequences, FiniteSets, SequencesExt

CONSTANTS
    Peer, Msg,
    Sender,      \* who emits an event
    CreatedAt,   \* event -> (event_created_at, event_id), as a number
    Columns,     \* event -> its event_* fields beyond the basic ones
    Long,        \* events whose line is written in two parts
    Invalid,     \* JSON that is no event: written by other software
    Configs      \* a medium, and the bounds: what is emitted, who closes its bridge, and
                 \* that once, who calls start() itself, who may die

Media == {"jsonl", "sqlite", "postgres", "redis", "nats"}
Conf == [medium : Media, emits : SUBSET Msg,
         closers : SUBSET Peer, starters : SUBSET Peer, mortals : SUBSET Peer]

ASSUME BridgeAssumption ==
    /\ Sender \in [Msg -> Peer] /\ CreatedAt \in [Msg -> Nat \ {0}]
    /\ \A m, n \in Msg : CreatedAt[m] = CreatedAt[n] => m = n
    /\ IsFiniteSet(Peer) /\ IsFiniteSet(Msg)
    /\ \A m \in Msg : IsFiniteSet(Columns[m])
    /\ Invalid \subseteq Msg /\ Long \subseteq Msg
    /\ Configs \subseteq Conf

VARIABLES
    conf,
    life,        \* "off", "boot" and "ready" while start() runs, "on": _running
    starter,     \* who is in start(): _start_task, a caller of it
    closed,      \* close(): not called, has begun, is over
    listener,    \* _listener_task, or the subscription
    open,        \* bridges whose connection for writing is there: _redis_pub, _nc, _write_conn
    emitting,    \* where emit() of an event is
    todo,        \* columns that emit() found to be missing
    file,        \* parts of lines, in the order in which they were appended
    rows,        \* events in the table
    table, cache,\* columns of the table; those that a bridge knows of
    cursor,      \* position in the file, or the last row seen
    pending,     \* the beginning of a line that has not ended yet
    inbox,       \* what the server has sent to a subscriber
    got,         \* what the inbound bus was given
    dead,        \* processes that died
    owed, excused, reopened \* history: what was written while a bridge listened;
                  \* what the bridge passed over, and why is known; those that
                  \* were to start again when close() had begun

emitVars == <<emitting, todo>>
lifeVars == <<life, starter, closed, open>>
mediumVars == <<file, rows, table>>
readVars == <<listener, cursor, pending, inbox, got>>
ghostVars == <<owed, excused, reopened>>
vars == <<conf, emitVars, lifeVars, mediumVars, cache, readVars, dead, ghostVars>>

medium == conf.medium
AllColumns == UNION {Columns[m] : m \in Msg}
Sql == medium \in {"sqlite", "postgres"}
Network == medium \in {"postgres", "redis", "nats"}
Alive(p) == p \notin dead
Listening(p) == listener[p] = "run" /\ Alive(p)

----------------------------------------------------------------------------
(* Lines: a head is followed by its tail, a whole line is both.            *)

Part == [msg : Msg, part : {"head", "tail", "whole"}]
EndsLine(c) == c.part # "head"

\* What a line says, if it can be parsed: only one that nothing came into.
Parses(line) ==
    \/ Len(line) = 1 /\ line[1].part = "whole"
    \/ Len(line) = 2 /\ line[1].part = "head" /\ line[1].msg = line[2].msg

\* The n-th of a set of numbers.
Nth(T, n) == CHOOSE i \in T : Cardinality({k \in T : k <= i}) = n

\* text.split('\n'): the places where lines end, the line that ends at i, and
\* what is left.
Ends(text) == {i \in DOMAIN text : EndsLine(text[i])}
Line(text, i) == SubSeq(text, 1 + Max({0} \cup {j \in Ends(text) : j < i}), i)
Rest(text) == SubSeq(text, 1 + Max({0} \cup Ends(text)), Len(text))

\* What the lines say that can be parsed.
Said(text) ==
    LET parsed == {i \in Ends(text) : Parses(Line(text, i))}
    IN  [n \in 1 .. Cardinality(parsed) |-> text[Nth(parsed, n)].msg]

\* model_validate raises: nothing behind it is looked at.
UpToInvalid(msgs) ==
    IF \E i \in DOMAIN msgs : msgs[i] \in Invalid
    THEN SubSeq(msgs, 1, (CHOOSE i \in DOMAIN msgs :
             msgs[i] \in Invalid /\ \A j \in 1 .. i - 1 : msgs[j] \notin Invalid) - 1)
    ELSE msgs

----------------------------------------------------------------------------
(* start and close                                                         *)

\* That close() was called before does not count.
StartsAgain(p) == reopened' = IF closed[p] = "no" THEN reopened ELSE reopened \cup {p}

\* _ensure_started: on() and emit() make a task that runs start(), or waits for
\* _start_lock while a caller does.
EnsureStarted(p) ==
    IF life[p] = "on" THEN UNCHANGED <<life, starter, reopened>>
    ELSE /\ life' = [life EXCEPT ![p] = IF @ = "off" THEN "boot" ELSE @]
         /\ starter' = [starter EXCEPT ![p] = @ \cup {"task"}]
         /\ StartsAgain(p)

On(p) ==
    /\ Alive(p) /\ life[p] # "on" /\ "task" \notin starter[p]
    /\ EnsureStarted(p)
    /\ UNCHANGED <<conf, emitVars, closed, open, mediumVars, cache, readVars, dead, owed, excused>>

\* A caller of start() runs it itself if no task does.
StartDirectly(p) ==
    /\ p \in conf.starters /\ Alive(p) /\ life[p] = "off"
    /\ life' = [life EXCEPT ![p] = "boot"]
    /\ starter' = [starter EXCEPT ![p] = {"caller"}]
    /\ StartsAgain(p)
    /\ UNCHANGED <<conf, emitVars, closed, open, mediumVars, cache, readVars, dead, owed, excused>>

\* The table is made and its columns are read.  Postgres has its connections.
OpenTable(p) ==
    /\ Alive(p) /\ life[p] = "boot" /\ Sql
    /\ life' = [life EXCEPT ![p] = "ready"]
    /\ cache' = [cache EXCEPT ![p] = table]
    /\ open' = IF medium = "postgres" THEN open \cup {p} ELSE open
    /\ UNCHANGED <<conf, emitVars, starter, closed, mediumVars, readVars, dead, ghostVars>>

\* The channel is subscribed.
Subscribe(p) ==
    /\ Alive(p) /\ life[p] = "boot" /\ medium \in {"redis", "nats"}
    /\ life' = [life EXCEPT ![p] = "ready"]
    /\ UNCHANGED <<conf, emitVars, starter, closed, open, mediumVars, cache, readVars, dead,
                   ghostVars>>

Latest == IF rows = {} THEN 0 ELSE CHOOSE k \in {CreatedAt[m] : m \in rows} :
                                       \A m \in rows : CreatedAt[m] <= k

\* The listener that close() is cancelling may not be done when a caller's start()
\* looks: then no other is made; or close() cancels the one that is.
NoListener(p) == closed[p] = "begun" /\ "caller" \in starter[p] /\ ~Network

\* The cursor is put at the end of what there is; the listener begins.
BootEnd(p) ==
    /\ Alive(p) /\ life[p] = (IF medium = "jsonl" THEN "boot" ELSE "ready")
    /\ life' = [life EXCEPT ![p] = "on"]
    /\ \/ listener' = [listener EXCEPT ![p] = "run"]
       \/ NoListener(p) /\ UNCHANGED listener
    /\ open' = IF Network THEN open \cup {p} ELSE open
    /\ cursor' = [cursor EXCEPT ![p] = CASE medium = "jsonl" -> Len(file)
                                         [] medium = "sqlite" -> Latest
                                         [] OTHER -> 0]
    /\ pending' = [pending EXCEPT ![p] = <<>>]
    /\ UNCHANGED <<conf, emitVars, starter, closed, mediumVars, cache, inbox, got, dead, ghostVars>>

\* Mutant: a start() that is under way goes on.
StopNothing(p) ==
    /\ life' = [life EXCEPT ![p] = IF @ = "on" THEN "off" ELSE @]
    /\ UNCHANGED starter

\* What close() leaves of a start(), and the emits that it ends.
StopStart(p) ==
    LET goesOn == "caller" \in starter[p] /\ life[p] # "on"
    IN  /\ life' = [life EXCEPT ![p] = IF goesOn THEN @ ELSE "off"]
        /\ starter' = [starter EXCEPT ![p] = IF goesOn THEN {"caller"} ELSE {}]
Waits(p, m) == Sender[m] = p /\ emitting[m] = "wait"
AfterStart == IF Sql THEN "columns" ELSE "write"

\* Mutant: an emit() waits until the bridge runs.
StillWaiting(p) == IF life[p] = "on" THEN "wait" ELSE "cancelled"

\* An emit() that waits for the start() that close() cancels is cancelled with it;
\* one whose start() is over goes on, and does not look at the bridge again.
LeftWaiting(p) == IF life[p] = "on" THEN AfterStart ELSE "cancelled"

\* _start_task is cancelled; what a caller of start() runs is not.  The listener is
\* cancelled; what Postgres and NATS have sent is still heard.
CloseBegins(p) ==
    /\ p \in conf.closers /\ Alive(p) /\ closed[p] = "no"
    /\ closed' = [closed EXCEPT ![p] = "begun"]
    /\ StopStart(p)
    /\ emitting' = [m \in Msg |-> IF Waits(p, m) THEN LeftWaiting(p) ELSE emitting[m]]
    /\ listener' = IF medium \in {"postgres", "nats"} THEN listener
                   ELSE [listener EXCEPT ![p] = "none"]
    /\ UNCHANGED <<conf, todo, open, mediumVars, cache, cursor, pending, inbox, got, dead, ghostVars>>

\* start() raises: whoever waits for the task that runs it does so, too; a task
\* that waited for a caller's tries again.
StartFails(p) ==
    LET again == starter[p] = {"caller", "task"}
    IN  /\ life' = [life EXCEPT ![p] = IF again THEN "boot" ELSE "off"]
        /\ starter' = [starter EXCEPT ![p] = IF again THEN {"task"} ELSE {}]
        /\ emitting' = [m \in Msg |-> IF Waits(p, m) /\ ~again THEN "failed" ELSE emitting[m]]

\* What close() closes: of what another start() has opened in the meantime,
\* nothing, some of it or all.
Lost(p) ==
    LET both == {"reads", "writes"} IN
    IF ~Network THEN {{}}
    ELSE CASE life[p] = "on" -> SUBSET both
           [] life[p] = "ready" /\ medium = "postgres" -> {{}, both}
           [] OTHER -> {both}

\* The connections are closed and the inbound bus is destroyed.
CloseEnds(p) ==
    /\ Alive(p) /\ closed[p] = "begun"
    /\ closed' = [closed EXCEPT ![p] = "over"]
    /\ \E lost \in Lost(p) :
         /\ listener' = [listener EXCEPT ![p] = IF "reads" \in lost THEN "none" ELSE @]
         /\ inbox' = [inbox EXCEPT ![p] = IF "reads" \in lost THEN <<>> ELSE @]
         /\ open' = IF "writes" \in lost THEN open \ {p} ELSE open
         /\ IF medium = "postgres" /\ life[p] = "ready" /\ lost # {} THEN StartFails(p)
            ELSE UNCHANGED <<life, starter, emitting>>
    /\ UNCHANGED <<conf, todo, mediumVars, cache, cursor, pending, got, dead, ghostVars>>

Crash(p) ==
    /\ p \in conf.mortals /\ Alive(p)
    /\ dead' = dead \cup {p}
    /\ UNCHANGED <<conf, emitVars, lifeVars, mediumVars, cache, readVars, ghostVars>>

----------------------------------------------------------------------------
(* emit                                                                    *)

To(m, where) == emitting' = [emitting EXCEPT ![m] = where]
Mine(m) == Alive(Sender[m])

\* Only the bridge of a file does not wait for start().  Those that have a
\* connection do if it is not there: that of Postgres is as soon as start() has
\* opened it, that of a bridge that was started while it was being closed may be gone.
EmitCall(m) ==
    LET p == Sender[m] IN
    /\ m \in conf.emits /\ Mine(m) /\ emitting[m] = "idle"
    /\ EnsureStarted(p)
    /\ To(m, CASE medium = "jsonl" -> "write"
               [] medium = "sqlite" -> IF life[p] = "on" THEN "columns" ELSE "wait"
               [] Network -> IF p \in open THEN AfterStart
                             ELSE IF life[p] = "on" THEN "failed" ELSE "wait")
    /\ UNCHANGED <<conf, todo, closed, open, mediumVars, cache, readVars, dead, owed, excused>>

\* start() is over.
Started(m) ==
    /\ Mine(m) /\ emitting[m] = "wait" /\ life[Sender[m]] = "on"
    /\ To(m, AfterStart)
    /\ UNCHANGED <<conf, todo, lifeVars, mediumVars, cache, readVars, dead, ghostVars>>

Statements == {"alter", "upsert", "notify"}

\* A connection of Postgres does one operation at a time: a second one raises,
\* be it that of an emit() or of the start() that has just opened it.
Collide(m) ==
    /\ Mine(m) /\ medium = "postgres" /\ emitting[m] \in Statements
    /\ \/ life[Sender[m]] = "ready"
       \/ \E n \in Msg \ {m} : Sender[n] = Sender[m] /\ emitting[n] \in Statements
    /\ To(m, "failed")
    /\ UNCHANGED <<conf, todo, lifeVars, mediumVars, cache, readVars, dead, ghostVars>>
StartCollides(p) ==
    /\ Alive(p) /\ medium = "postgres" /\ life[p] = "ready"
    /\ \E m \in Msg : Sender[m] = p /\ emitting[m] \in Statements
    /\ StartFails(p)
    /\ open' = open \ {p}
    /\ UNCHANGED <<conf, todo, closed, mediumVars, cache, readVars, dead, ghostVars>>

\* _ensure_columns: what is missing is looked up in what the bridge knows.
FindMissing(m) ==
    /\ Mine(m) /\ emitting[m] = "columns"
    /\ todo' = [todo EXCEPT ![m] = Columns[m] \ cache[Sender[m]]]
    /\ To(m, IF todo'[m] = {} THEN "upsert" ELSE "alter")
    /\ UNCHANGED <<conf, lifeVars, mediumVars, cache, readVars, dead, ghostVars>>

\* Mutant: the bridge does not keep in mind what it has added.
AlterTableUncached(m) ==
    /\ Mine(m) /\ emitting[m] = "alter"
    /\ \E c \in todo[m] :
         IF medium = "sqlite" /\ c \in table
         THEN /\ To(m, "failed")
              /\ UNCHANGED <<todo, table>>
         ELSE /\ table' = table \cup {c}
              /\ todo' = [todo EXCEPT ![m] = @ \ {c}]
              /\ To(m, IF todo[m] = {c} THEN "upsert" ELSE "alter")
    /\ UNCHANGED <<conf, lifeVars, file, rows, cache, readVars, dead, ghostVars>>

\* ALTER TABLE ADD COLUMN: SQLite refuses a column that the table has, be it
\* that another process or another thread was first.
AlterTable(m) ==
    /\ Mine(m) /\ emitting[m] = "alter"
    /\ \E c \in todo[m] :
         IF medium = "sqlite" /\ c \in table
         THEN /\ To(m, "failed")
              /\ UNCHANGED <<todo, table, cache>>
         ELSE /\ table' = table \cup {c}
              /\ cache' = [cache EXCEPT ![Sender[m]] = @ \cup {c}]
              /\ todo' = [todo EXCEPT ![m] = @ \ {c}]
              /\ To(m, IF todo[m] = {c} THEN "upsert" ELSE "alter")
    /\ UNCHANGED <<conf, lifeVars, file, rows, readVars, dead, ghostVars>>

Owe(m) == owed' = [p \in Peer |-> IF Listening(p) THEN owed[p] \cup {m} ELSE owed[p]]

\* A row with a smaller key than the last one seen is passed over for ever.
UpsertRow(m) ==
    /\ Mine(m) /\ emitting[m] = "upsert" /\ medium = "sqlite"
    /\ rows' = rows \cup {m}
    /\ To(m, "sent") /\ Owe(m)
    /\ excused' = [p \in Peer |-> IF CreatedAt[m] <= cursor[p]
                                  THEN excused[p] \cup {m} ELSE excused[p]]
    /\ UNCHANGED <<conf, todo, lifeVars, file, table, cache, readVars, dead, reopened>>

UpsertAndNotify(m) ==
    /\ Mine(m) /\ medium = "postgres"
    /\ \/ /\ emitting[m] = "upsert" /\ To(m, "notify")
          /\ rows' = rows \cup {m}
          /\ UNCHANGED <<inbox, owed>>
       \/ /\ emitting[m] = "notify" /\ To(m, "sent") /\ Owe(m)
          /\ inbox' = [p \in Peer |-> IF Listening(p) THEN Append(inbox[p], m) ELSE inbox[p]]
          /\ UNCHANGED rows
    /\ UNCHANGED <<conf, todo, lifeVars, file, table, cache, listener, cursor, pending, got,
                   dead, excused, reopened>>

\* Subscribers hear of it: those that have subscribed, listening yet or not.
Publish(m) ==
    /\ Mine(m) /\ emitting[m] = "write" /\ medium \in {"redis", "nats"}
    /\ To(m, "sent") /\ Owe(m)
    /\ inbox' = [p \in Peer |-> IF Alive(p) /\ (life[p] = "ready" \/ listener[p] = "run")
                                THEN Append(inbox[p], m) ELSE inbox[p]]
    /\ UNCHANGED <<conf, todo, lifeVars, mediumVars, cache, listener, cursor, pending, got,
                   dead, excused, reopened>>

\* A line longer than the buffer of the file is written by two calls.
AppendLine(m) ==
    /\ Mine(m) /\ emitting[m] \in {"write", "tail"} /\ medium = "jsonl"
    /\ LET part == IF emitting[m] = "tail" THEN "tail"
                   ELSE IF m \in Long THEN "head" ELSE "whole"
       IN  /\ file' = Append(file, [msg |-> m, part |-> part])
           /\ To(m, IF part = "head" THEN "tail" ELSE "sent")
           /\ IF part = "tail" THEN UNCHANGED owed ELSE Owe(m)
    /\ UNCHANGED <<conf, todo, lifeVars, rows, table, cache, readVars, dead, excused, reopened>>

\* The connection is closed under an emit(), which may still be faster.
CutOff(m) ==
    /\ Mine(m) /\ Network /\ Sender[m] \notin open
    /\ emitting[m] \in {"columns", "alter", "upsert", "notify", "write"}
    /\ To(m, "failed")
    /\ UNCHANGED <<conf, todo, lifeVars, mediumVars, cache, readVars, dead, ghostVars>>

----------------------------------------------------------------------------
(* Reading.  The inbound bus of a closed bridge takes nothing.             *)

Deliver(p, msgs) ==
    got' = [got EXCEPT ![p] = IF closed[p] = "over" THEN @ ELSE @ \o UpToInvalid(msgs)]

\* _poll_new_lines: lines that do not parse are left out; behind one that is no
\* event, the rest of what was read is lost.
PollNewLines(p) ==
    /\ Listening(p) /\ medium = "jsonl" /\ cursor[p] < Len(file)
    /\ LET text == pending[p] \o SubSeq(file, cursor[p] + 1, Len(file))
           said == Said(text)
       IN  /\ Deliver(p, said)
           /\ pending' = [pending EXCEPT ![p] = Rest(text)]
           /\ excused' = [excused EXCEPT ![p] = @ \cup (Range(said) \ Range(UpToInvalid(said)))]
    /\ cursor' = [cursor EXCEPT ![p] = Len(file)]
    /\ UNCHANGED <<conf, emitVars, lifeVars, mediumVars, cache, listener, inbox, dead, owed, reopened>>

\* ORDER BY event_created_at, event_id.
InOrder(S) ==
    LET keys == {CreatedAt[m] : m \in S}
    IN  [n \in 1 .. Cardinality(keys) |-> CHOOSE m \in S : CreatedAt[m] = Nth(keys, n)]

\* Mutant: the last row seen is among them.
NewRowsFrom(p) == InOrder({m \in rows : CreatedAt[m] >= cursor[p]})

\* The rows behind the cursor.
NewRows(p) == InOrder({m \in rows : CreatedAt[m] > cursor[p]})

\* Mutant: the cursor is moved when a row has been handed on, not before.
PollRowsBehind(p) ==
    /\ Listening(p) /\ medium = "sqlite" /\ NewRows(p) # <<>>
    /\ LET new == UpToInvalid(NewRows(p))
       IN  /\ Deliver(p, new)
           /\ cursor' = [cursor EXCEPT ![p] = IF new = <<>> THEN @ ELSE CreatedAt[Last(new)]]
    /\ UNCHANGED <<conf, emitVars, lifeVars, mediumVars, cache, listener, pending, inbox,
                   dead, ghostVars>>

\* The cursor is at a row before the row is handed on: one that is no event is
\* not met again, and those behind it are in the next poll.
PollRows(p) ==
    /\ Listening(p) /\ medium = "sqlite" /\ NewRows(p) # <<>>
    /\ LET new == NewRows(p)
           n == IF closed[p] = "over" THEN 1
                ELSE IF \E i \in DOMAIN new : new[i] \in Invalid
                     THEN Len(UpToInvalid(new)) + 1 ELSE Len(new)
       IN  /\ Deliver(p, new)
           /\ cursor' = [cursor EXCEPT ![p] = CreatedAt[new[n]]]
    /\ UNCHANGED <<conf, emitVars, lifeVars, mediumVars, cache, listener, pending, inbox,
                   dead, ghostVars>>

\* Mutant: the newest message first.
HearOutOfOrder(p) ==
    /\ Listening(p) /\ (medium = "redis" => life[p] = "on") /\ inbox[p] # <<>>
    /\ Deliver(p, <<Last(inbox[p])>>)
    /\ inbox' = [inbox EXCEPT ![p] = Front(@)]
    /\ UNCHANGED <<conf, emitVars, lifeVars, mediumVars, cache, cursor, pending, listener,
                   dead, ghostVars>>

\* A message of the server.  What is no event ends the listener of Redis, whose
\* loop is inside of the try, and no other; _running stays.  Only Redis looks at it.
Hear(p) ==
    /\ Listening(p) /\ (medium = "redis" => life[p] = "on") /\ inbox[p] # <<>>
    /\ Deliver(p, <<Head(inbox[p])>>)
    /\ inbox' = [inbox EXCEPT ![p] = Tail(@)]
    /\ listener' = IF medium = "redis" /\ (Head(inbox[p]) \in Invalid \/ closed[p] = "over")
                   THEN [listener EXCEPT ![p] = "dead"] ELSE listener
    /\ UNCHANGED <<conf, emitVars, lifeVars, mediumVars, cache, cursor, pending, dead, ghostVars>>

----------------------------------------------------------------------------
Init ==
    /\ conf \in Configs
    /\ life = [p \in Peer |-> "off"] /\ starter = [p \in Peer |-> {}]
    /\ closed = [p \in Peer |-> "no"] /\ listener = [p \in Peer |-> "none"]
    /\ emitting = [m \in Msg |-> "idle"] /\ todo = [m \in Msg |-> {}]
    /\ file = <<>> /\ rows = {} /\ table = {} /\ cache = [p \in Peer |-> {}]
    /\ cursor = [p \in Peer |-> 0] /\ pending = [p \in Peer |-> <<>>]
    /\ inbox = [p \in Peer |-> <<>>] /\ got = [p \in Peer |-> <<>>]
    /\ dead = {} /\ open = {}
    /\ owed = [p \in Peer |-> {}] /\ excused = [p \in Peer |-> {}] /\ reopened = {}

Starting(p) == OpenTable(p) \/ Subscribe(p) \/ BootEnd(p)
Reading(p) == PollNewLines(p) \/ PollRows(p) \/ Hear(p)
Writing(m) == Started(m) \/ FindMissing(m) \/ AlterTable(m) \/ UpsertRow(m)
              \/ UpsertAndNotify(m) \/ Publish(m) \/ AppendLine(m)

Next ==
    \/ \E p \in Peer : On(p) \/ StartDirectly(p) \/ Starting(p) \/ Reading(p)
                       \/ CloseBegins(p) \/ CloseEnds(p) \/ StartCollides(p) \/ Crash(p)
    \/ \E m \in Msg : EmitCall(m) \/ Writing(m) \/ Collide(m) \/ CutOff(m)

Spec == Init /\ [][Next]_vars

Goes(p) == Starting(p) \/ Reading(p) \/ CloseEnds(p)

\* Loops poll, servers deliver, threads and tasks end: while some bridge can go on,
\* one does, and so for the emits.  Every emit() leads further, and every poll; a
\* start() fails only while an emit() writes: so that this is enough.
FairSpec ==
    /\ Spec
    /\ WF_vars(\E p \in Peer : Goes(p))
    /\ WF_vars(\E m \in Msg : Writing(m))

----------------------------------------------------------------------------
(* Properties.                                                             *)

Ended == {"sent", "failed", "cancelled"}

\* Every variable has a value of its type.
TypeOK ==
    /\ conf \in Configs /\ dead \subseteq Peer /\ open \subseteq Peer
    /\ life \in [Peer -> {"off", "boot", "ready", "on"}]
    /\ starter \in [Peer -> SUBSET {"task", "caller"}]
    /\ closed \in [Peer -> {"no", "begun", "over"}]
    /\ listener \in [Peer -> {"none", "run", "dead"}]
    /\ emitting \in [Msg -> {"idle", "wait", "columns", "alter", "upsert", "notify",
                             "write", "tail"} \cup Ended]
    /\ todo \in [Msg -> SUBSET AllColumns]
    /\ file \in Seq(Part) /\ rows \subseteq Msg
    /\ table \subseteq AllColumns /\ cache \in [Peer -> SUBSET AllColumns]
    /\ cursor \in [Peer -> Nat]
    /\ pending \in [Peer -> Seq(Part)] /\ inbox \in [Peer -> Seq(Msg)] /\ got \in [Peer -> Seq(Msg)]
    /\ owed \in [Peer -> SUBSET Msg] /\ excused \in [Peer -> SUBSET Msg]
    /\ reopened \subseteq Peer

\* No bridge hands on an event twice, or one that was not emitted.
ArrivesOnce ==
    \A p \in Peer :
        /\ \A i, j \in DOMAIN got[p] : got[p][i] = got[p][j] => i = j
        /\ \A i \in DOMAIN got[p] : emitting[got[p][i]] \in {"notify", "sent"}

Before(s, m, n) == \E i, j \in DOMAIN s : i < j /\ s[i] = m /\ s[j] = n

\* Two bridges that both have two events have them in the same order, which is
\* that of their keys where the medium is a table of SQLite.
SameOrder ==
    \A p, q \in Peer, m, n \in Msg :
        /\ ~(Before(got[p], m, n) /\ Before(got[q], n, m))
        /\ medium = "sqlite" /\ Before(got[p], m, n) => CreatedAt[m] < CreatedAt[n]

\* A bridge knows of every column of the table but those that other processes
\* have added since it was started: an event of one process alone can be written.
\* Left out is a bridge that was started again: it may read the columns just before
\* an emit() from before close() adds one.
ColumnsKnown ==
    \A p \in Peer :
        /\ cache[p] \subseteq table
        /\ life[p] = "on" /\ p \notin reopened => \A c \in table \ cache[p] : \E m \in Msg :
               Sender[m] # p /\ c \in Columns[m] /\ emitting[m] \notin {"idle", "wait", "columns"}

\* When close() is over nothing listens and nothing is about to, of what was begun
\* before it, unless a caller of start() was running it: only an on(), emit() or
\* start() that came when close() had begun opens the bridge again.
ClosedIsQuiet ==
    \A p \in Peer : closed[p] = "over" /\ "caller" \notin starter[p] /\ p \notin reopened =>
        listener[p] = "none" /\ life[p] = "off"

\* A line that something came into: another line, or the end of the process.
Torn(m) ==
    /\ \E i \in DOMAIN file : file[i].msg = m
    /\ m \notin Range(Said(file))

\* In the end what is written while a bridge listens has arrived, but for what
\* is no event or was read in one poll behind it, a torn line, a row committed
\* behind the cursor, and what comes after a listener of Redis has died.
EverythingArrives ==
    <>[](\A p \in Peer : \A m \in owed[p] :
            \/ m \in Range(got[p]) \/ m \in Invalid \cup excused[p] \/ Torn(m)
            \/ closed[p] # "no" \/ p \in dead \/ listener[p] = "dead")

\* Every emit() ends, closed bridge or not.
EveryEmitEnds ==
    <>[](\A m \in Msg : emitting[m] \in {"idle"} \cup Ended \/ Sender[m] \in dead)
=============================================================================
