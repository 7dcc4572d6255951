---------------------------- MODULE StreamPipeline ----------------------------
(***************************************************************************)
(* The streaming job (src/finpulse/streaming/spark_job.py): one process    *)
(* that runs three queries over one Kafka topic, each with a checkpoint of  *)
(* its own.  "bronze" retains every message, "good" appends valid events    *)
(* to silver and upserts them into the warehouse, "bad" writes the others   *)
(* to the dead-letter topic and to quarantine.  A batch whose offsets were  *)
(* planned but not committed runs again after a restart, from the same      *)
(* deduplication state; what it had written to its sinks stays.             *)
(*                                                                         *)
(* Spark's part of this (planning, the state of dropDuplicates, watermarks, *)
(* the file sink that publishes a batch once) is external.  The topic is    *)
(* one log: the order in which a query happens to read six partitions.      *)
(***************************************************************************)
EXTENDS Naturals, FiniteSetsExt

CONSTANTS
    Events,         \* event ids
    Typed,          \* those of a type that has a warehouse table of its own
    Flaws,          \* what may be wrong with the messages of a run
    MaxTime,        \* ingestion times are 0..MaxTime
    Delay,          \* the watermark delay (24 hours)
    MaxMessages, MaxCrashes     \* bounds on what is explored

ASSUME StreamAssumption ==
    /\ Typed \subseteq Events
    /\ Flaws \subseteq {"none", "wrong_version", "no_version", "no_payment"}
    /\ MaxTime \in Nat /\ Delay \in Nat \ {0}
    /\ MaxMessages \in Nat /\ MaxCrashes \in Nat

VARIABLES
    topic,          \* all messages that will ever be produced; one is invisible
                    \* until a query plans a batch that reaches it
    bronze,         \* how many of them bronze holds
    done,           \* offsets each query has committed
    plan,           \* where its planned batch ends; done if it has none
    seen,           \* state of dropDuplicates, as committed
    newest, late,   \* newest valid ingestion time committed, and what it was a batch
                    \* earlier: late messages are told by the previous watermark
    silver,         \* copies of each event in silver: none, one, or 2 for several
    facts,          \* event_fact
    rows,           \* the typed tables
    dlq, quarantine,    \* copies of each message there, counted like silver
    run,            \* the batch each query is at, lost with the process
    crashes

vars == <<topic, bronze, done, plan, seen, newest, late, silver, facts, rows, dlq,
          quarantine, run, crashes>>

checkpoints == <<done, plan, seen, newest, late>>
sinks       == <<silver, facts, rows, dlq, quarantine>>

Queries == {"good", "bad"}

\* Flawed messages are of time 0: nobody reads the time of one that goes to
\* quarantine, and one that the warehouse refuses is dropped behind the watermark
\* or ends its batch before its time counts.  Only typed tables look at payments.
Message == {m \in [event : Events, at : 0..MaxTime, flaw : Flaws] :
                /\ m.flaw # "none" => m.at = 0
                /\ m.flaw = "no_payment" => m.event \in Typed}

-----------------------------------------------------------------------------
(* What is wrong with a message, and who notices.                           *)

\* parse_stream gives a quality_reason.  A missing version gets none: null # "1.0"
\* is null, and so is every other comparison with what is missing.
Quarantined(o) == topic[o].flaw = "wrong_version"

\* event_fact has NOT NULL columns that parse_stream never looks at.
FactRefuses(o) == topic[o].flaw = "no_version"

\* A typed table has checks that parse_stream does not repeat: a repayment of zero.
RowRefuses(o) == topic[o].flaw = "no_payment"

Offsets == 1..MaxMessages

Batch(q) == (done[q] + 1)..plan[q]

EventsOf(offsets) == {topic[o].event : o \in offsets}

\* withWatermark: ingested Delay or more before the newest time that Spark (3.5)
\* compares with.
Behind(o) == topic[o].at + Delay <= late

\* What is left of the planned batch before duplicates are dropped.
Admitted == {o \in Batch("good") :
                ~Quarantined(o) /\ ~Behind(o) /\ topic[o].event \notin seen}

\* dropDuplicates keeps one message of each event, whichever it meets first.
Deduplicated ==
    {kept \in SUBSET Admitted :
        /\ EventsOf(kept) = EventsOf(Admitted)
        /\ \A o, p \in kept : topic[o].event = topic[p].event => o = p}

Again(copies) == IF copies < 2 THEN copies + 1 ELSE copies

Idle == [step |-> "idle", batch |-> {}, todo |-> {}]

At(q, step) == run[q].step = step

\* Go on with a message less, or to the next step with the messages it works on.
Took(q, o, step, todo) ==
    run' = IF run[q].todo # {o} THEN [run EXCEPT ![q].todo = @ \ {o}]
           ELSE [run EXCEPT ![q].step = IF todo = {} THEN "commit" ELSE step,
                            ![q].todo = todo]

Init ==
    /\ topic \in [Offsets -> Message] /\ bronze = 0
    /\ done = [q \in Queries |-> 0] /\ plan = done
    /\ seen = {} /\ newest = 0 /\ late = 0
    /\ silver = [e \in Events |-> 0] /\ facts = {} /\ rows = {}
    /\ dlq = [o \in Offsets |-> 0] /\ quarantine = dlq
    /\ run = [q \in Queries |-> Idle]
    /\ crashes = 0

-----------------------------------------------------------------------------

\* A batch of the bronze query.
Retain ==
    /\ \E end \in Offsets : bronze < end /\ bronze' = end
    /\ UNCHANGED <<topic, checkpoints, sinks, run, crashes>>

\* The end of a query's next batch goes to its checkpoint before the batch runs.
Plan(q) ==
    /\ At(q, "idle") /\ plan[q] = done[q]
    /\ \E end \in Offsets : done[q] < end /\ plan' = [plan EXCEPT ![q] = end]
    /\ UNCHANGED <<topic, bronze, done, seen, newest, late, sinks, run, crashes>>

SlipSkipsKnown(kept) ==
    IF \A o \in kept : topic[o].event \in facts THEN "commit" ELSE "silver"

\* process_good_batch: nothing to do for an empty batch.
FirstStep(kept) == IF kept = {} THEN "commit" ELSE "silver"

StartGood ==
    /\ At("good", "idle") /\ done["good"] < plan["good"]
    /\ \E kept \in Deduplicated :
          run' = [run EXCEPT !["good"] =
                    [step |-> FirstStep(kept), batch |-> kept, todo |-> kept]]
    /\ UNCHANGED <<topic, bronze, checkpoints, sinks, crashes>>

\* Silver is appended to; files written before a crash stay.
AppendSilver(o) ==
    /\ At("good", "silver") /\ o \in run["good"].todo
    /\ silver' = [silver EXCEPT ![topic[o].event] = Again(@)]
    /\ Took("good", o, "facts", run["good"].batch)
    /\ UNCHANGED <<topic, bronze, checkpoints, facts, rows, dlq, quarantine, crashes>>

\* upsert_partition of event_fact, partition by partition, ON CONFLICT DO NOTHING.
LoadFact(o) ==
    /\ At("good", "facts") /\ o \in run["good"].todo /\ ~FactRefuses(o)
    /\ facts' = facts \cup {topic[o].event}
    /\ Took("good", o, "rows", {p \in run["good"].batch : topic[p].event \in Typed})
    /\ UNCHANGED <<topic, bronze, checkpoints, silver, rows, dlq, quarantine, crashes>>

\* The same for the table of the event's type.  Its other unique keys, a customer
\* once and an application once (00_init.sql:31, 76), would silently leave out
\* the row of a second event; distinct events of a type are of distinct customers
\* and applications here, as the generator draws them.
LoadRow(o) ==
    /\ At("good", "rows") /\ o \in run["good"].todo /\ ~RowRefuses(o)
    /\ rows' = rows \cup {topic[o].event}
    /\ Took("good", o, "commit", {})
    /\ UNCHANGED <<topic, bronze, checkpoints, silver, facts, dlq, quarantine, crashes>>

\* The watermark sees every valid message of the batch, dropped or not.
MoveWatermark ==
    /\ newest' = Max({newest} \cup {topic[o].at : o \in
                                      {p \in Batch("good") : ~Quarantined(p)}})
    /\ late' = newest

SlipSeesBad ==
    /\ At("good", "commit")
    /\ done' = [done EXCEPT !["good"] = plan["good"]]
    /\ seen' = seen \cup EventsOf({o \in Batch("good") : ~Behind(o)})
    /\ MoveWatermark
    /\ run' = [run EXCEPT !["good"] = Idle]
    /\ UNCHANGED <<topic, bronze, plan, sinks, crashes>>

SlipForgets ==
    /\ At("good", "commit")
    /\ done' = [done EXCEPT !["good"] = plan["good"]]
    /\ seen' = EventsOf(run["good"].batch)
    /\ MoveWatermark
    /\ run' = [run EXCEPT !["good"] = Idle]
    /\ UNCHANGED <<topic, bronze, plan, sinks, crashes>>

\* The batch returned: offsets, deduplication state and watermark are committed.
CommitGood ==
    /\ At("good", "commit")
    /\ done' = [done EXCEPT !["good"] = plan["good"]]
    /\ seen' = seen \cup EventsOf(run["good"].batch)
    /\ MoveWatermark
    /\ run' = [run EXCEPT !["good"] = Idle]
    /\ UNCHANGED <<topic, bronze, plan, sinks, crashes>>

\* A sink refuses a message: the exception ends the query, awaitAnyTermination()
\* returns it, and the process ends with all its queries, to be restarted.
Halt ==
    /\ \/ At("good", "facts") /\ \E o \in run["good"].todo : FactRefuses(o)
       \/ At("good", "rows") /\ \E o \in run["good"].todo : RowRefuses(o)
    /\ run' = [q \in Queries |-> Idle]
    /\ UNCHANGED <<topic, bronze, checkpoints, sinks, crashes>>

\* process_bad_batch.
StartBad ==
    LET bad == {o \in Batch("bad") : Quarantined(o)}
    IN  /\ At("bad", "idle") /\ done["bad"] < plan["bad"]
        /\ run' = [run EXCEPT !["bad"] =
                    [step |-> IF bad = {} THEN "commit" ELSE "dlq",
                     batch |-> bad, todo |-> bad]]
        /\ UNCHANGED <<topic, bronze, checkpoints, sinks, crashes>>

SlipOnlyDlq(o) ==
    /\ At("bad", "dlq") /\ o \in run["bad"].todo
    /\ dlq' = [dlq EXCEPT ![o] = Again(@)]
    /\ Took("bad", o, "commit", {})
    /\ UNCHANGED <<topic, bronze, checkpoints, silver, facts, rows, quarantine, crashes>>

SendDlq(o) ==
    /\ At("bad", "dlq") /\ o \in run["bad"].todo
    /\ dlq' = [dlq EXCEPT ![o] = Again(@)]
    /\ Took("bad", o, "quarantine", run["bad"].batch)
    /\ UNCHANGED <<topic, bronze, checkpoints, silver, facts, rows, quarantine, crashes>>

AppendQuarantine(o) ==
    /\ At("bad", "quarantine") /\ o \in run["bad"].todo
    /\ quarantine' = [quarantine EXCEPT ![o] = Again(@)]
    /\ Took("bad", o, "commit", {})
    /\ UNCHANGED <<topic, bronze, checkpoints, silver, facts, rows, dlq, crashes>>

CommitBad ==
    /\ At("bad", "commit")
    /\ done' = [done EXCEPT !["bad"] = plan["bad"]]
    /\ run' = [run EXCEPT !["bad"] = Idle]
    /\ UNCHANGED <<topic, bronze, plan, seen, newest, late, sinks, crashes>>

\* The process dies, or a store it writes to cannot be reached; it is restarted.
Crash ==
    /\ crashes < MaxCrashes
    /\ crashes' = crashes + 1
    /\ run' = [q \in Queries |-> Idle]
    /\ UNCHANGED <<topic, bronze, checkpoints, sinks>>

GoodStep ==
    \/ Plan("good") \/ StartGood
    \/ \E o \in Offsets : AppendSilver(o) \/ LoadFact(o) \/ LoadRow(o)
    \/ CommitGood \/ Halt

BadStep ==
    \/ Plan("bad") \/ StartBad
    \/ \E o \in Offsets : SendDlq(o) \/ AppendQuarantine(o)
    \/ CommitBad

Next == \/ Retain
        \/ GoodStep
        \/ BadStep
        \/ Crash

Spec == Init /\ [][Next]_vars

\* Every query goes on while there is something to read: its trigger fires every
\* ten seconds, and the container is restarted unless it is stopped.
FairSpec == Spec /\ WF_vars(Retain) /\ WF_vars(GoodStep) /\ WF_vars(BadStep)

-----------------------------------------------------------------------------

\* Every variable has its type; a batch under way is part of the planned one, and
\* what is left of it part of the batch.
StreamTypeOK ==
    /\ topic \in [Offsets -> Message] /\ bronze \in 0..MaxMessages
    /\ \A q \in Queries :
          /\ done[q] \in 0..plan[q] /\ plan[q] \in 0..MaxMessages
          /\ run[q].batch \subseteq Batch(q) /\ run[q].todo \subseteq run[q].batch
    /\ seen \subseteq Events /\ newest \in 0..MaxTime /\ late \in 0..newest
    /\ silver \in [Events -> 0..2] /\ facts \subseteq Events /\ rows \subseteq Typed
    /\ dlq \in [Offsets -> 0..2] /\ quarantine \in [Offsets -> 0..2]

Loaded(o) == /\ topic[o].event \in facts
             /\ topic[o].event \in Typed => topic[o].event \in rows

\* An earlier valid message was ingested Delay later.
Overtaken(o) ==
    \E p \in 1..(o - 1) : ~Quarantined(p) /\ topic[o].at + Delay <= topic[p].at

\* The offsets of the good query never pass a message that is not in the warehouse,
\* wherever a crash struck between silver, event_fact, the typed tables and the
\* checkpoint; except for messages that the watermark had left behind.
NothingSkipped ==
    \A o \in 1..done["good"] : ~Quarantined(o) => Loaded(o) \/ Overtaken(o)

\* docs/ARCHITECTURE.md, "Rebuildable from silver data": silver has every event of
\* the warehouse; and a fact misses its typed row only while its batch is still to
\* be finished or repeated.
WarehouseFollowsSilver ==
    /\ rows \subseteq facts
    /\ \A e \in facts : silver[e] > 0
    /\ \A e \in (facts \cap Typed) \ rows : e \in EventsOf(Batch("good"))

\* The deduplication state knows exactly the events of the warehouse, but for those
\* of the batch under way: a message refused earlier with the same event id, or
\* left behind, never suppresses a later valid one.
SeenIsLoaded ==
    /\ seen \subseteq facts
    /\ facts \ seen \subseteq EventsOf(Batch("good"))

\* A committed defective message is in the dead-letter topic and in quarantine, a
\* valid one in neither; quarantine never holds what the topic does not.
DeadLettersComplete ==
    \A o \in Offsets :
        /\ Quarantined(o) /\ o <= done["bad"] => dlq[o] > 0 /\ quarantine[o] > 0
        /\ ~Quarantined(o) => dlq[o] = 0
        /\ quarantine[o] > 0 => dlq[o] > 0

\* Redelivered messages do not show in silver or in the dead-letter topic: copies
\* there come from a batch that was repeated, after a crash or because the
\* warehouse refused a message the good query had got to.
CopiesNeedARepetition ==
    (\E e \in Events : silver[e] > 1) \/ (\E o \in Offsets : dlq[o] > 1)
        => crashes > 0 \/ \E o \in 1..plan["good"] : FactRefuses(o) \/ RowRefuses(o)

Settled(o) ==
    /\ bronze >= o
    /\ \/ Loaded(o)
       \/ Overtaken(o)
       \/ dlq[o] > 0 /\ quarantine[o] > 0

\* Every message is retained in bronze and ends up in the warehouse, in the dead
\* letters, or behind the watermark, whatever the process went through: bad data
\* "goes to DLQ, not job failure" (docs/ARCHITECTURE.md:10).
EveryMessageSettles == <>(\A o \in Offsets : Settled(o))
=============================================================================
