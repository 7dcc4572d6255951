------------------------------ MODULE Lakehouse ------------------------------
(***************************************************************************)
(* Bronze and silver in the object store: the streaming job appends to     *)
(* both, each query at its own pace (src/finpulse/streaming/spark_job.py), *)
(* and a backfill (src/finpulse/batch/backfill.py) overwrites partitions   *)
(* of silver from a window of bronze, while the stream goes on.            *)
(*                                                                         *)
(* Bronze is partitioned by the day on which a message arrived, silver by  *)
(* the day on which its event occurred; country and type are left out.  A  *)
(* micro-batch of the silver query is planned, appended and committed; it   *)
(* is appended again if something failed after the append began.  What the *)
(* warehouse gets meanwhile, and late messages, are the business of        *)
(* StreamPipeline; messages without an event id reach neither silver.      *)
(***************************************************************************)
EXTENDS Naturals, Sequences, FiniteSets

CONSTANTS
    Events,         \* event ids
    MaxDay,         \* days are 1 .. MaxDay
    MaxMessages, MaxBackfills, MaxAttempts  \* bounds on what is explored

ASSUME LakehouseAssumption ==
    /\ MaxDay \in Nat \ {0} /\ MaxMessages \in Nat
    /\ MaxBackfills \in Nat /\ MaxAttempts \in Nat

VARIABLES
    topic,      \* the messages, in order of arrival
    bronze,     \* messages the bronze query has retained
    curated,    \* messages the silver query has committed
    planned,    \* where its micro-batch ends, from the time it is first tried
    written,    \* the append of that batch is complete
    attempts,   \* appends begun so far
    seen,       \* its deduplication state, as committed
    silver,     \* copies of each event in each daily partition
    job,        \* the backfill under way
    backfills,  \* backfills begun so far
    marks       \* what was done that explains losses and copies later

stream == <<curated, planned, written, attempts, seen>>
vars == <<topic, bronze, stream, silver, job, backfills, marks>>

-----------------------------------------------------------------------------

Days == 1 .. MaxDay
\* A redelivery repeats a message; a restarted source uses its event id again
\* with another day (see Producer).
Messages == [event : Events, occurred : Days, arrived : Days, valid : BOOLEAN]

NoJob == [state |-> "none"]
NoMarks == [missed |-> {}, ahead |-> {}, repeated |-> {}]

\* dropDuplicates: one of the messages of each event, whichever Spark meets first.
Deduplicated(indices) ==
    {kept \in SUBSET indices :
        /\ \A i, j \in kept : topic[i].event = topic[j].event => i = j
        /\ \A i \in indices : \E j \in kept : topic[i].event = topic[j].event}

SlipLastDayLeftOut(from, to) == {i \in 1 .. bronze : topic[i].arrived \in from .. to - 1}
\* The retained messages that arrived in the window.
Window(from, to) == {i \in 1 .. bronze : topic[i].arrived \in from .. to}

\* Dynamic overwrite: the partitions that get rows, and no others.
Replaced(rows) == {topic[i].occurred : i \in rows}

Copies(rows, day) == [e \in Events |->
    Cardinality({i \in rows : topic[i].event = e /\ topic[i].occurred = day})]
Empty == [e \in Events |-> 0]
Held(e) == \E day \in Days : silver[day][e] > 0

-----------------------------------------------------------------------------

Init ==
    /\ topic \in UNION {[1 .. n -> Messages] : n \in 1 .. MaxMessages}
    /\ \A i, j \in DOMAIN topic :
           /\ i <= j => topic[i].arrived <= topic[j].arrived
           /\ topic[i].occurred <= topic[i].arrived
    /\ bronze = 0 /\ curated = 0 /\ planned = 0 /\ written = FALSE /\ attempts = 0 /\ seen = {}
    /\ silver = [day \in Days |-> Empty]
    /\ job = NoJob /\ backfills = 0 /\ marks = NoMarks

\* The bronze query appends the next message.
Retain ==
    /\ bronze < Len(topic)
    /\ bronze' = bronze + 1
    /\ UNCHANGED <<topic, stream, silver, job, backfills, marks>>

SlipNoState(m) == m.valid
Wanted(m) == m.valid /\ m.event \notin seen
\* The micro-batch that ends there, before dropDuplicates.
Batch(upto) == {i \in curated + 1 .. upto : Wanted(topic[i])}
EventsOf(rows) == {topic[i].event : i \in rows}

\* A micro-batch is tried, or tried again over the same messages, and the
\* partitions of these days get its rows.
Attempt(upto, days) ==
    /\ ~ written /\ attempts < MaxAttempts /\ upto > curated
    /\ planned \in {curated, upto}
    /\ planned' = upto /\ attempts' = attempts + 1
    /\ \E rows \in Deduplicated(Batch(upto)) :
           /\ silver' = [day \in Days |-> IF day \in days
                              THEN [e \in Events |-> silver[day][e] + Copies(rows, day)[e]]
                              ELSE silver[day]]
           /\ marks' = [marks EXCEPT !.repeated =
                             @ \cup (IF planned = upto THEN EventsOf(rows) ELSE {})]
    /\ UNCHANGED <<topic, bronze, curated, seen, job, backfills>>

AppendAll(upto) == Attempt(upto, Days) /\ written' = TRUE
\* The append fails half way, or what follows it does: the batch comes again.
BreakOff(upto, days) == Attempt(upto, days) /\ written' = FALSE

\* The offsets and the deduplication state are committed.
Commit ==
    /\ written
    /\ curated' = planned /\ written' = FALSE
    /\ seen' = seen \cup EventsOf(Batch(planned))
    /\ UNCHANGED <<topic, bronze, planned, attempts, silver, job, backfills, marks>>

\* A backfill is started: it lists and reads its window of bronze.
StartBackfill(from, to) ==
    /\ job = NoJob /\ backfills < MaxBackfills
    /\ backfills' = backfills + 1
    /\ \E rows \in Deduplicated(Window(from, to)) :
           job' = [state |-> "writing", from |-> from, to |-> to, read |-> bronze,
                   since |-> attempts, rows |-> rows,
                   remove |-> Replaced(rows), place |-> {}]
    /\ UNCHANGED <<topic, bronze, stream, silver, marks>>

\* The commit replaces partition by partition: the old one goes ...
RemovePartition(day) ==
    /\ job.state = "writing" /\ day \in job.remove
    /\ silver' = [silver EXCEPT ![day] = Empty]
    /\ marks' = [marks EXCEPT !.missed = @ \cup
                     {<<day, e>> : e \in {e \in Events :
                         /\ \E i \in job.rows : topic[i].occurred = day
                         /\ silver[day][e] > 0 /\ Copies(job.rows, day)[e] = 0}}]
    /\ job' = [job EXCEPT !.remove = @ \ {day}, !.place = @ \cup {day}]
    /\ UNCHANGED <<topic, bronze, stream, backfills>>

\* ... and the new one comes.  Rows that the stream put there in between stay
\* beside it, and so does the same event in partitions that are not replaced.
PlacePartition(day) ==
    LET here == {i \in job.rows : topic[i].occurred = day} IN
    /\ job.state = "writing" /\ day \in job.place
    /\ silver' = [silver EXCEPT ![day] = [e \in Events |-> @[e] + Copies(job.rows, day)[e]]]
    /\ marks' = [marks EXCEPT !.ahead =
                     @ \cup {e \in EventsOf(here) : e \notin seen \/ Held(e)}]
    /\ job' = [job EXCEPT !.place = @ \ {day}]
    /\ UNCHANGED <<topic, bronze, stream, backfills>>

Finish ==
    /\ job.state = "writing" /\ job.remove = {} /\ job.place = {}
    /\ job' = NoJob
    /\ UNCHANGED <<topic, bronze, stream, silver, backfills, marks>>

\* The backfill dies; partitions it removed and did not place stay empty.
Fail ==
    /\ job.state = "writing"
    /\ marks' = [marks EXCEPT !.missed = @ \cup
                     {<<day, e>> : day \in job.place, e \in Events}]
    /\ job' = NoJob
    /\ UNCHANGED <<topic, bronze, stream, silver, backfills>>

Next ==
    \/ Retain
    \/ \E upto \in 1 .. Len(topic) :
           AppendAll(upto) \/ \E days \in SUBSET Days : BreakOff(upto, days)
    \/ Commit
    \/ \E from, to \in Days : StartBackfill(from, to)
    \/ \E day \in Days : RemovePartition(day) \/ PlacePartition(day)
    \/ Finish \/ Fail

Spec == Init /\ [][Next]_vars

-----------------------------------------------------------------------------

\* Type correctness.
LakehouseTypeOK ==
    /\ \A i \in DOMAIN topic : topic[i] \in Messages
    /\ bronze \in 0 .. Len(topic)
    /\ planned \in 0 .. Len(topic) /\ curated \in 0 .. planned
    /\ written \in BOOLEAN /\ written => curated < planned
    /\ attempts \in 0 .. MaxAttempts
    /\ seen \subseteq Events
    /\ silver \in [Days -> [Events -> Nat]]
    /\ backfills \in 0 .. MaxBackfills
    /\ job # NoJob => /\ job.rows \subseteq 1 .. job.read /\ job.read <= bronze
                      /\ job.remove \cap job.place = {}

\* The stream has loaded the event: from here on it drops what repeats it.
Loaded(e) == e \in seen \/ (written /\ e \in EventsOf(Batch(planned)))

\* An event that the stream has loaded is in silver, unless a backfill
\* replaced its partition by rows that do not have it or died over it, or is
\* about to put it back.  Partitions the window does not reach are left alone.
LossesAreExplained ==
    \A e \in Events : Loaded(e) =>
        \/ Held(e)
        \/ \E day \in Days : <<day, e>> \in marks.missed
        \/ job # NoJob /\ \E i \in job.rows : topic[i].event = e /\ topic[i].occurred \in job.place

\* Two rows of silver show the same event.
Twice(e) ==
    \/ \E day \in Days : silver[day][e] > 1
    \/ \E one, other \in Days : one # other /\ silver[one][e] > 0 /\ silver[other][e] > 0

\* Silver shows an event twice, in one partition or in two, only if the stream
\* tried its micro-batch again, or a backfill wrote it before the stream had
\* committed it or where silver still had it: in a partition the stream wrote
\* while it was being replaced, or under another day (a restarted source uses
\* the id again).  Redeliveries alone never do that.
CopiesAreExplained == \A e \in Events : Twice(e) => e \in marks.ahead \cup marks.repeated

\* What the stream loads is lost by backfills only, and doubled by backfills and
\* repeated micro-batches only, whatever is redelivered.
DamageHasACause == LossesAreExplained /\ CopiesAreExplained

\* A backfill of every day that has read all the stream has committed, and from
\* whose start to whose end the stream appends nothing, repairs whatever earlier
\* ones and repeated micro-batches lost, doubled or left half done: each event
\* that is committed is there, once at most in each partition with rows.
RebuildRestores ==
    [][/\ job # NoJob /\ job' = NoJob /\ job.remove = {} /\ job.place = {}
       /\ job.from = 1 /\ job.to = MaxDay /\ curated <= job.read /\ attempts = job.since
       => /\ \A e \in seen : Held(e)
          /\ \A day \in Replaced(job.rows), e \in Events : silver[day][e] <= 1]_vars
=============================================================================
