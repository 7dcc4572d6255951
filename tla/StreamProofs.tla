----------------------------- MODULE StreamProofs -----------------------------
(***************************************************************************)
(* Theorems about StreamPipeline, for topics of any length and any number  *)
(* of crashes.                                                             *)
(***************************************************************************)
EXTENDS StreamPipeline, WellFoundedInduction, TLAPS

GoodSteps == {"idle", "silver", "facts", "rows", "commit"}
BadSteps  == {"idle", "dlq", "quarantine", "commit"}

Runs == [step : GoodSteps \cup BadSteps, batch : SUBSET Offsets, todo : SUBSET Offsets]

\* The variables have their types, and each query its own steps.
Types ==
    /\ topic \in [Offsets -> Message] /\ bronze \in 0..MaxMessages
    /\ done \in [Queries -> 0..MaxMessages] /\ plan \in [Queries -> 0..MaxMessages]
    /\ seen \subseteq Events /\ facts \subseteq Events /\ rows \subseteq Typed
    /\ newest \in 0..MaxTime /\ late \in 0..newest
    /\ silver \in [Events -> 0..2]
    /\ dlq \in [Offsets -> 0..2] /\ quarantine \in [Offsets -> 0..2]
    /\ run \in [Queries -> Runs] /\ crashes \in Nat
    /\ run["good"].step \in GoodSteps /\ run["bad"].step \in BadSteps

\* A batch is part of what was planned, and gone when its query is idle.
Batches ==
    /\ \A q \in Queries :
          /\ done[q] <= plan[q]
          /\ run[q].batch \subseteq Batch(q) /\ run[q].todo \subseteq run[q].batch
          /\ At(q, "idle") => run[q].batch = {}
    /\ At("good", "rows") => \A o \in run["good"].todo : topic[o].event \in Typed

\* The messages of its batch that a query has written to its first sink; the good
\* query, to event_fact and to the typed tables.
InSilver == IF At("good", "silver") THEN run["good"].batch \ run["good"].todo
                                    ELSE run["good"].batch
InFacts == IF At("good", "silver") THEN {}
           ELSE IF At("good", "facts") THEN run["good"].batch \ run["good"].todo
                                       ELSE run["good"].batch
InRows == IF At("good", "silver") \/ At("good", "facts") THEN {}
          ELSE IF At("good", "rows") THEN run["good"].batch \ run["good"].todo
                                     ELSE run["good"].batch
InDlq == IF At("bad", "dlq") THEN run["bad"].batch \ run["bad"].todo ELSE run["bad"].batch
InQuarantine == IF At("bad", "dlq") THEN {}
                ELSE IF At("bad", "quarantine") THEN run["bad"].batch \ run["bad"].todo
                                                ELSE run["bad"].batch

\* What is known of a good batch under way.
Good ==
    /\ ~ At("good", "idle") => run["good"].batch \in Deduplicated
    /\ At("good", "silver") => run["good"].todo # {}
    /\ \A o \in InSilver : silver[topic[o].event] > 0
    /\ \A o \in InFacts : topic[o].event \in facts
    /\ \A o \in InRows : topic[o].event \in Typed => topic[o].event \in rows

\* The warehouse is ahead of the deduplication state by what the planned batch
\* may load, and behind silver.
Warehouse ==
    /\ seen \subseteq facts /\ seen \cap Typed \subseteq rows /\ rows \subseteq facts
    /\ facts \ seen \subseteq EventsOf(Admitted)
    /\ \A e \in facts : silver[e] > 0

\* The watermark is the time of a valid message that was committed.
Marked ==
    \A at \in {newest, late} :
        at = 0 \/ \E o \in 1..done["good"] : ~ Quarantined(o) /\ topic[o].at = at

\* What is known of a bad batch under way.
Bad ==
    /\ ~ At("bad", "idle") => run["bad"].batch = {o \in Batch("bad") : Quarantined(o)}
    /\ \A o \in InDlq : dlq[o] > 0
    /\ \A o \in InQuarantine : quarantine[o] > 0

\* Something has made a batch run again, or will.
Repetition == crashes > 0 \/ \E o \in 1..plan["good"] : FactRefuses(o) \/ RowRefuses(o)

\* Until then, only what is committed or under way is in the first sinks, once.
Once ==
    ~ Repetition =>
        /\ \A e \in Events : /\ silver[e] <= 1
                             /\ silver[e] > 0 => e \in seen \cup EventsOf(InSilver)
        /\ \A o \in Offsets : /\ dlq[o] <= 1
                              /\ dlq[o] > 0 => o <= done["bad"] \/ o \in InDlq

Inv ==
    /\ Types /\ Batches
    /\ Good /\ Warehouse /\ Marked /\ NothingSkipped
    /\ Bad /\ DeadLettersComplete
    /\ Once

\* A set of numbers with a bound has a largest one, and it is what Max picks.
LEMMA LargestOf ==
    ASSUME NEW S \in SUBSET Nat, S # {}, NEW n \in Nat, \A x \in S : x <= n
    PROVE  Max(S) \in S /\ \A x \in S : x <= Max(S)
<1> DEFINE R == {p \in Nat \X Nat : p[1] < p[2]}
           T == {n - x : x \in S}
<1>1. IsWellFoundedOn(R, Nat)
  <2>1. R = OpToRel(<, Nat)
    BY DEF OpToRel
  <2>. QED
    BY <2>1, NatLessThanWellFounded
<1>2. \A x \in S : x \in Nat /\ n - x \in Nat
  OBVIOUS
<1>3. T \subseteq Nat /\ T # {}
  BY <1>2
<1>4. PICK m \in T : \A y \in T : ~ (<<y, m>> \in R)
  <2> HIDE DEF R, T
  <2>. QED
    BY <1>1, <1>3, WFMin
<1>5. PICK x \in S : m = n - x
  BY <1>4
<1>6. ASSUME NEW y \in S PROVE y <= x
  <2>1. <<n - y, n - x>> \notin R
    BY <1>4, <1>5
  <2>2. ~ (n - y < n - x)
    BY <1>2, <2>1
  <2>. QED
    BY <1>2, <2>2
<1>. QED
  BY <1>5, <1>6 DEF Max

\* A message less, or the next step: the batch and the other query stay.
LEMMA TookOne ==
    ASSUME Types, NEW q \in Queries, NEW o \in run[q].todo, NEW step \in GoodSteps \cup BadSteps,
           NEW todo \in SUBSET Offsets, Took(q, o, step, todo)
    PROVE  /\ run' \in [Queries -> Runs]
           /\ run'[q].batch = run[q].batch
           /\ \A p \in Queries : p # q => run'[p] = run[p]
           /\ \/ /\ run[q].todo # {o} /\ run'[q].step = run[q].step
                 /\ run'[q].todo = run[q].todo \ {o}
              \/ /\ run[q].todo = {o} /\ run'[q].todo = todo
                 /\ run'[q].step = IF todo = {} THEN "commit" ELSE step
<1>1. run \in [Queries -> Runs] /\ run[q] \in Runs
  BY DEF Types
<1>2. CASE run[q].todo # {o}
  <2> DEFINE left == run[q].todo \ {o}
             r == [run[q] EXCEPT !.todo = left]
  <2>1. run' = [run EXCEPT ![q] = r]
    BY <1>2 DEF Took
  <2>2. left \in SUBSET Offsets
    BY <1>1 DEF Runs
  <2> HIDE DEF left
  <2>3. run[q] \in Runs
    BY <1>1
  <2>4. r \in Runs
    BY <2>2, <2>3 DEF Runs
  <2>5. r.step = run[q].step /\ r.batch = run[q].batch /\ r.todo = left
    BY <2>3 DEF Runs
  <2> HIDE DEF r
  <2>. QED
    BY <1>1, <1>2, <2>1, <2>4, <2>5 DEF left
<1>3. CASE run[q].todo = {o}
  <2> DEFINE next == IF todo = {} THEN "commit" ELSE step
             r == [run[q] EXCEPT !.step = next, !.todo = todo]
  <2>1. run' = [run EXCEPT ![q] = r]
    BY <1>3 DEF Took
  <2>2. next \in GoodSteps \cup BadSteps
    BY DEF GoodSteps
  <2> HIDE DEF next
  <2>3. r \in Runs /\ r.step = next /\ r.batch = run[q].batch /\ r.todo = todo
    BY <1>1, <2>2 DEF Runs
  <2> HIDE DEF r
  <2>. QED
    BY <1>1, <1>3, <2>1, <2>3 DEF next
<1>. QED
  BY <1>2, <1>3

\* A query at rest.
LEMMA IdleRun == /\ Idle \in Runs /\ Idle.step = "idle" /\ Idle.batch = {} /\ Idle.todo = {}
                 /\ "idle" \in GoodSteps /\ "idle" \in BadSteps
BY DEF Idle, Runs, GoodSteps, BadSteps

\* The watermark moves to the time of a valid message of the batch, or stays.
LEMMA NewestGrows ==
    ASSUME Types, Batches, MoveWatermark
    PROVE  /\ newest' \in 0..MaxTime /\ late' = newest /\ newest <= newest'
           /\ \/ newest' = newest
              \/ \E o \in Batch("good") : ~ Quarantined(o) /\ topic[o].at = newest'
<1> DEFINE times == {topic[o].at : o \in {p \in Batch("good") : ~ Quarantined(p)}}
           S == {newest} \cup times
<1>1. MaxTime \in Nat /\ MaxMessages \in Nat /\ newest \in 0..MaxTime
  BY StreamAssumption DEF Types
<1>2. Batch("good") \subseteq Offsets
  BY <1>1 DEF Types, Queries, Batch, Offsets
<1>3. times \subseteq 0..MaxTime
  BY <1>2 DEF Types, Message
<1>4. S \in SUBSET Nat /\ S # {} /\ \A x \in S : x <= MaxTime
  BY <1>1, <1>3
<1>5. newest' = Max(S) /\ late' = newest
  BY DEF MoveWatermark
<1> HIDE DEF S
<1>6. newest' \in S /\ \A x \in S : x <= newest'
  BY <1>1, <1>4, <1>5, LargestOf
<1>. QED
  BY <1>1, <1>3, <1>5, <1>6 DEF S

-----------------------------------------------------------------------------
(* Types and batches.                                                      *)

\* At the start both queries are idle and nothing is planned.
LEMMA TypesInit == Init => Types /\ Batches
<1> SUFFICES ASSUME Init PROVE Types /\ Batches
  OBVIOUS
<1>1. MaxTime \in Nat /\ MaxMessages \in Nat
  BY StreamAssumption
<1>2. run \in [Queries -> Runs] /\ \A q \in Queries : run[q] = Idle
  BY IdleRun DEF Init
<1>3. \A q \in Queries : done[q] = 0 /\ plan[q] = 0
  BY DEF Init
<1>. QED
  BY <1>1, <1>2, <1>3, IdleRun DEF Init, Types, Batches, Queries

\* What the two queries do to their batches keeps the types.
LEMMA StepTypes ==
    ASSUME Types, Batches, Next
    PROVE  Types' /\ Batches'
<1> USE StreamAssumption
<1>1. /\ run \in [Queries -> Runs] /\ "good" \in Queries /\ "bad" \in Queries
      /\ \A q \in Queries : q = "good" \/ q = "bad"
      /\ \A q \in Queries : done[q] \in 0..MaxMessages /\ plan[q] \in 0..MaxMessages
      /\ \A q \in Queries : run[q] \in Runs /\ run[q].todo \subseteq Offsets /\ run[q].batch \subseteq Offsets
  BY DEF Types, Queries, Runs
<1>2. \A o \in Offsets : topic[o] \in Message /\ topic[o].event \in Events /\ topic[o].at \in 0..MaxTime
  BY DEF Types, Message
<1>3. CASE Retain
  BY <1>3 DEF Retain, Types, Batches, checkpoints, sinks, At, Batch, Offsets
<1>4. ASSUME NEW q \in Queries, Plan(q) PROVE Types' /\ Batches'
  <2>1. PICK end \in Offsets : done[q] < end /\ plan' = [plan EXCEPT ![q] = end]
    BY <1>4 DEF Plan
  <2>2. /\ UNCHANGED <<topic, bronze, done, seen, newest, late, silver, facts, rows, dlq,
                       quarantine, run, crashes>>
        /\ At(q, "idle")
    BY <1>4 DEF Plan, sinks
  <2>3. Types'
    BY <1>1, <2>1, <2>2 DEF Types, Offsets
  <2>4. Batches'
    BY <1>1, <2>1, <2>2 DEF Types, Batches, At, Batch, Offsets
  <2>. QED
    BY <2>3, <2>4
<1>5. CASE StartGood
  <2>1. PICK kept \in Deduplicated :
            run' = [run EXCEPT !["good"] = [step |-> FirstStep(kept), batch |-> kept, todo |-> kept]]
    BY <1>5 DEF StartGood
  <2>2. kept \subseteq Batch("good") /\ kept \subseteq Offsets
    BY <1>1 DEF Deduplicated, Admitted, Batch, Offsets
  <2>3. FirstStep(kept) \in {"commit", "silver"}
    BY DEF FirstStep
  <2> DEFINE r == [step |-> FirstStep(kept), batch |-> kept, todo |-> kept]
  <2>4. /\ r \in Runs /\ r.batch = kept /\ r.todo = kept
        /\ r.step \in GoodSteps /\ r.step \notin {"idle", "rows"}
    BY <2>2, <2>3 DEF Runs, GoodSteps
  <2> HIDE DEF r
  <2>5. run' = [run EXCEPT !["good"] = r]
    BY <2>1 DEF r
  <2>6. UNCHANGED <<topic, bronze, checkpoints, sinks, crashes>>
    BY <1>5 DEF StartGood
  <2>7. Types'
    BY <1>1, <2>4, <2>5, <2>6 DEF Types, checkpoints, sinks
  <2>8. Batches'
    BY <1>1, <2>2, <2>4, <2>5, <2>6 DEF Batches, checkpoints, At, Batch
  <2>. QED
    BY <2>7, <2>8
<1>6. CASE StartBad
  <2> DEFINE bad == {o \in Batch("bad") : Quarantined(o)}
             r == [step |-> IF bad = {} THEN "commit" ELSE "dlq", batch |-> bad, todo |-> bad]
  <2>1. run' = [run EXCEPT !["bad"] = r] /\ UNCHANGED <<topic, bronze, checkpoints, sinks, crashes>>
    BY <1>6 DEF StartBad
  <2>2. bad \subseteq Batch("bad") /\ bad \subseteq Offsets
    BY <1>1 DEF Batch, Offsets
  <2> HIDE DEF bad
  <2>3. /\ r \in Runs /\ r.batch = bad /\ r.todo = bad
        /\ r.step \in BadSteps /\ r.step # "idle"
    BY <2>2 DEF Runs, BadSteps
  <2> HIDE DEF r
  <2>4. Types'
    BY <1>1, <2>1, <2>3 DEF Types, checkpoints, sinks
  <2>5. Batches'
    BY <1>1, <2>1, <2>2, <2>3 DEF Batches, checkpoints, At, Batch
  <2>. QED
    BY <2>4, <2>5
<1>7. ASSUME NEW o \in Offsets, AppendSilver(o) \/ LoadFact(o) \/ LoadRow(o)
      PROVE  Types' /\ Batches'
  <2>1. PICK step \in {"facts", "rows", "commit"}, todo \in SUBSET run["good"].batch :
            /\ o \in run["good"].todo /\ Took("good", o, step, todo)
            /\ step = "rows" => \A p \in todo : topic[p].event \in Typed
    <3>1. CASE AppendSilver(o)
      BY <3>1 DEF AppendSilver
    <3>2. CASE LoadFact(o)
      BY <3>2 DEF LoadFact
    <3>3. CASE LoadRow(o)
      BY <3>3 DEF LoadRow
    <3>. QED
      BY <1>7, <3>1, <3>2, <3>3
  <2>2. step \in GoodSteps \cup BadSteps /\ todo \in SUBSET Offsets /\ step \in GoodSteps
    BY <1>1 DEF GoodSteps
  <2>3. /\ run' \in [Queries -> Runs] /\ run'["good"].batch = run["good"].batch
        /\ run'["bad"] = run["bad"]
        /\ \/ run'["good"].step = run["good"].step /\ run'["good"].todo \subseteq run["good"].todo
           \/ run'["good"].step \in {"commit", step} /\ run'["good"].todo = todo
    BY <1>1, <2>1, <2>2, TookOne
  <2>4. /\ UNCHANGED <<topic, bronze, done, plan, seen, newest, late, dlq, quarantine, crashes>>
        /\ ~ At("good", "idle")
    BY <1>7 DEF AppendSilver, LoadFact, LoadRow, checkpoints, At
  <2>5. run'["good"].step \in GoodSteps
    BY <2>2, <2>3 DEF Types, GoodSteps
  <2>6. silver' \in [Events -> 0..2] /\ facts' \subseteq Events /\ rows' \subseteq Typed
    <3>1. CASE AppendSilver(o)
      BY <1>2, <3>1 DEF AppendSilver, Again, Types
    <3>2. CASE LoadFact(o)
      BY <1>2, <3>2 DEF LoadFact, Types
    <3>3. CASE LoadRow(o)
      <4>1. topic[o].event \in Typed
        BY <3>3 DEF LoadRow, Batches
      <4>. QED
        BY <3>3, <4>1 DEF LoadRow, Types
    <3>. QED
      BY <1>7, <3>1, <3>2, <3>3
  <2>7. Types'
    BY <2>3, <2>4, <2>5, <2>6 DEF Types
  <2>8. Batches'
    BY <1>1, <2>1, <2>3, <2>4 DEF Batches, At, Batch
  <2>. QED
    BY <2>7, <2>8
<1>8. ASSUME NEW o \in Offsets, SendDlq(o) \/ AppendQuarantine(o)
      PROVE  Types' /\ Batches'
  <2>1. PICK step \in {"quarantine", "commit"}, todo \in SUBSET run["bad"].batch :
            o \in run["bad"].todo /\ Took("bad", o, step, todo)
    <3>1. CASE SendDlq(o)
      BY <3>1 DEF SendDlq
    <3>2. CASE AppendQuarantine(o)
      BY <3>2 DEF AppendQuarantine
    <3>. QED
      BY <1>8, <3>1, <3>2
  <2>2. step \in GoodSteps \cup BadSteps /\ todo \in SUBSET Offsets /\ step \in BadSteps
    BY <1>1 DEF BadSteps
  <2>3. /\ run' \in [Queries -> Runs] /\ run'["bad"].batch = run["bad"].batch
        /\ run'["good"] = run["good"]
        /\ \/ run'["bad"].step = run["bad"].step /\ run'["bad"].todo \subseteq run["bad"].todo
           \/ run'["bad"].step \in {"commit", step} /\ run'["bad"].todo = todo
    BY <1>1, <2>1, <2>2, TookOne
  <2>4. /\ UNCHANGED <<topic, bronze, done, plan, seen, newest, late, silver, facts, rows, crashes>>
        /\ ~ At("bad", "idle")
    BY <1>8 DEF SendDlq, AppendQuarantine, checkpoints, At
  <2>5. run'["bad"].step \in BadSteps
    BY <2>2, <2>3 DEF Types, BadSteps
  <2>6. dlq' \in [Offsets -> 0..2] /\ quarantine' \in [Offsets -> 0..2]
    <3>1. CASE SendDlq(o)
      BY <3>1 DEF SendDlq, Again, Types
    <3>2. CASE AppendQuarantine(o)
      BY <3>2 DEF AppendQuarantine, Again, Types
    <3>. QED
      BY <1>8, <3>1, <3>2
  <2>7. Types'
    BY <2>3, <2>4, <2>5, <2>6 DEF Types
  <2>8. Batches'
    BY <1>1, <2>1, <2>3, <2>4 DEF Batches, At, Batch
  <2>. QED
    BY <2>7, <2>8
<1>9. CASE CommitGood
  <2>1. /\ done' = [done EXCEPT !["good"] = plan["good"]]
        /\ run' = [run EXCEPT !["good"] = Idle]
        /\ UNCHANGED <<topic, bronze, plan, silver, facts, rows, dlq, quarantine, crashes>>
    BY <1>9 DEF CommitGood, sinks
  <2>2. seen' \subseteq Events
    BY <1>1, <1>2, <1>9 DEF CommitGood, EventsOf, Types
  <2>3. newest' \in 0..MaxTime /\ late' \in 0..newest'
    BY <1>9, NewestGrows DEF CommitGood, Types
  <2>4. Types'
    BY <1>1, <2>1, <2>2, <2>3, IdleRun DEF Types
  <2>5. Batches'
    BY <1>1, <2>1, IdleRun DEF Batches, At, Batch
  <2>. QED
    BY <2>4, <2>5
<1>10. CASE CommitBad
  <2>1. /\ done' = [done EXCEPT !["bad"] = plan["bad"]]
        /\ run' = [run EXCEPT !["bad"] = Idle]
        /\ UNCHANGED <<topic, bronze, plan, seen, newest, late, silver, facts, rows, dlq,
                       quarantine, crashes>>
    BY <1>10 DEF CommitBad, sinks
  <2>2. Types'
    BY <1>1, <2>1, IdleRun DEF Types
  <2>3. Batches'
    BY <1>1, <2>1, IdleRun DEF Batches, At, Batch
  <2>. QED
    BY <2>2, <2>3
<1>11. CASE Halt \/ Crash
  <2>1. /\ run' = [q \in Queries |-> Idle] /\ crashes' \in Nat
        /\ UNCHANGED <<topic, bronze, done, plan, seen, newest, late, silver, facts, rows, dlq,
                       quarantine>>
    BY <1>11 DEF Halt, Crash, checkpoints, sinks, Types
  <2>2. Types'
    BY <1>1, <2>1, IdleRun DEF Types
  <2>3. Batches'
    BY <1>1, <2>1, IdleRun DEF Batches, At, Batch
  <2>. QED
    BY <2>2, <2>3
<1>. QED
  BY <1>1, <1>3, <1>4, <1>5, <1>6, <1>7, <1>8, <1>9, <1>10, <1>11 DEF Next, GoodStep, BadStep

-----------------------------------------------------------------------------
(* The good query.                                                         *)

GoodPart == Good /\ Warehouse /\ Marked /\ NothingSkipped

\* What the other steps leave alone.
LEMMA GoodFrame ==
    ASSUME GoodPart, UNCHANGED <<topic, seen, newest, late, silver, facts, rows>>,
           done'["good"] = done["good"], plan'["good"] = plan["good"], run'["good"] = run["good"]
    PROVE  GoodPart'
<1>1. UNCHANGED <<Batch("good"), Admitted, Deduplicated, InSilver, InFacts, InRows>>
  BY DEF Batch, Admitted, Deduplicated, InSilver, InFacts, InRows, Quarantined, Behind, EventsOf, At
<1>2. Good'
  BY <1>1 DEF GoodPart, Good, At
<1>3. Warehouse'
  BY <1>1 DEF GoodPart, Warehouse, EventsOf
<1>4. Marked'
  BY DEF GoodPart, Marked, Quarantined
<1>5. NothingSkipped'
  BY DEF GoodPart, NothingSkipped, Quarantined, Loaded, Overtaken
<1>. QED
  BY <1>2, <1>3, <1>4, <1>5 DEF GoodPart

\* The process ends: nothing is under way, and the sinks keep what they have.
LEMMA GoodStops ==
    ASSUME GoodPart, run'["good"] = Idle,
           UNCHANGED <<topic, done, plan, seen, newest, late, silver, facts, rows>>
    PROVE  GoodPart'
<1>1. UNCHANGED Admitted
  BY DEF Admitted, Batch, Quarantined, Behind
<1>2. At("good", "idle")' /\ InSilver' = {} /\ InFacts' = {} /\ InRows' = {}
  BY IdleRun DEF At, InSilver, InFacts, InRows
<1>3. Good'
  BY <1>2 DEF Good, At
<1>4. Warehouse'
  BY <1>1 DEF GoodPart, Warehouse, EventsOf
<1>5. Marked'
  BY DEF GoodPart, Marked, Quarantined
<1>6. NothingSkipped'
  BY DEF GoodPart, NothingSkipped, Quarantined, Loaded, Overtaken
<1>. QED
  BY <1>3, <1>4, <1>5, <1>6 DEF GoodPart

\* A batch is planned when the last one is committed.
LEMMA GoodPlans ==
    ASSUME Types, Batches, GoodPart, Plan("good")
    PROVE  GoodPart'
<1>1. /\ UNCHANGED <<topic, done, seen, newest, late, silver, facts, rows, run>>
      /\ At("good", "idle") /\ plan["good"] = done["good"]
  BY DEF Plan, sinks
<1>2. Batch("good") = {}
  BY <1>1, StreamAssumption DEF Batch, Types, Queries
<1>3. facts \subseteq seen
  BY <1>2 DEF GoodPart, Warehouse, Admitted, EventsOf
<1>4. Good'
  BY <1>1 DEF GoodPart, Good, At, InSilver, InFacts, InRows
<1>5. Warehouse'
  BY <1>1, <1>3 DEF GoodPart, Warehouse
<1>6. Marked'
  BY <1>1 DEF GoodPart, Marked, Quarantined
<1>7. NothingSkipped'
  BY <1>1 DEF GoodPart, NothingSkipped, Quarantined, Loaded, Overtaken
<1>. QED
  BY <1>4, <1>5, <1>6, <1>7 DEF GoodPart

\* A batch starts with nothing written.
LEMMA GoodStarts ==
    ASSUME Types, Batches, GoodPart, StartGood
    PROVE  GoodPart'
<1>1. /\ UNCHANGED <<topic, done, plan, seen, newest, late, silver, facts, rows>>
  BY DEF StartGood, checkpoints, sinks
<1>2. PICK kept \in Deduplicated :
          run' = [run EXCEPT !["good"] = [step |-> FirstStep(kept), batch |-> kept, todo |-> kept]]
  BY DEF StartGood
<1>3. /\ run'["good"].step = FirstStep(kept)
      /\ run'["good"].batch = kept /\ run'["good"].todo = kept
  BY <1>2 DEF Types, Queries
<1>4. UNCHANGED <<Admitted, Deduplicated>>
  BY <1>1 DEF Batch, Admitted, Deduplicated, Quarantined, Behind, EventsOf
<1>5. InSilver' = {} /\ InFacts' = {} /\ InRows' = {}
  BY <1>3 DEF InSilver, InFacts, InRows, At, FirstStep
<1>6. Good'
  BY <1>3, <1>4, <1>5 DEF Good, At, FirstStep
<1>7. Warehouse'
  BY <1>1, <1>4 DEF GoodPart, Warehouse, EventsOf
<1>8. Marked'
  BY <1>1 DEF GoodPart, Marked, Quarantined
<1>9. NothingSkipped'
  BY <1>1 DEF GoodPart, NothingSkipped, Quarantined, Loaded, Overtaken
<1>. QED
  BY <1>6, <1>7, <1>8, <1>9 DEF GoodPart

\* Writing to the sinks: what is written is what the invariant counts as written.
LEMMA GoodWrites ==
    ASSUME Types, Batches, GoodPart, NEW o \in Offsets,
           AppendSilver(o) \/ LoadFact(o) \/ LoadRow(o)
    PROVE  /\ GoodPart'
           /\ \/ /\ silver' = [silver EXCEPT ![topic[o].event] = Again(@)]
                 /\ o \in run["good"].batch \ InSilver /\ InSilver' = InSilver \cup {o}
              \/ silver' = silver /\ InSilver' = InSilver
<1>1. /\ run["good"] \in Runs /\ run["good"].batch \subseteq Offsets
      /\ run["good"].todo \subseteq run["good"].batch /\ topic[o].event \in Events
  BY DEF Types, Batches, Queries, Runs, Message
<1>2. UNCHANGED <<topic, done, plan, seen, newest, late>>
  BY DEF AppendSilver, LoadFact, LoadRow, checkpoints
<1>3. UNCHANGED <<Admitted, Deduplicated>>
  BY <1>2 DEF Batch, Admitted, Deduplicated, Quarantined, Behind, EventsOf
<1>4. run["good"].batch \in Deduplicated /\ run["good"].batch \subseteq Admitted
  BY DEF GoodPart, Good, At, AppendSilver, LoadFact, LoadRow, Deduplicated
<1> DEFINE Writing(step, next, todo) ==
             /\ At("good", step) /\ o \in run["good"].todo
             /\ run'["good"].batch = run["good"].batch
             /\ \/ /\ run["good"].todo # {o} /\ run'["good"].step = step
                   /\ run'["good"].todo = run["good"].todo \ {o}
                \/ /\ run["good"].todo = {o} /\ run'["good"].todo = todo
                   /\ run'["good"].step = IF todo = {} THEN "commit" ELSE next
<1>5. ASSUME AppendSilver(o)
      PROVE  /\ Good' /\ Warehouse' /\ silver' = [silver EXCEPT ![topic[o].event] = Again(@)]
             /\ o \in run["good"].batch \ InSilver /\ InSilver' = InSilver \cup {o}
  <2>1. "facts" \in GoodSteps \cup BadSteps /\ run["good"].batch \in SUBSET Offsets /\ "good" \in Queries
    BY <1>1 DEF GoodSteps, Queries
  <2>2. Writing("silver", "facts", run["good"].batch)
    BY <1>5, <2>1, TookOne DEF AppendSilver, At
  <2>3. /\ InSilver' = InSilver \cup {o} /\ o \in run["good"].batch \ InSilver
        /\ InFacts' = {} /\ InRows' = {}
        /\ At("good", "silver")' \/ At("good", "facts")' 
        /\ At("good", "silver")' => run'["good"].todo # {}
    BY <1>1, <2>2 DEF InSilver, InFacts, InRows, At
  <2>4. /\ silver' = [silver EXCEPT ![topic[o].event] = Again(@)]
        /\ silver'[topic[o].event] > 0 /\ \A e \in Events : silver[e] > 0 => silver'[e] > 0
        /\ UNCHANGED <<facts, rows>>
    BY <1>1, <1>5 DEF AppendSilver, Again, Types
  <2>5. \A p \in InSilver : topic[p].event \in Events
    BY <1>1 DEF InSilver, Types, Message
  <2>6. Good'
    BY <1>2, <1>3, <1>4, <2>2, <2>3, <2>4, <2>5 DEF GoodPart, Good, At
  <2>7. Warehouse'
    BY <1>2, <1>3, <2>4 DEF GoodPart, Warehouse, EventsOf, Types
  <2>. QED
    BY <2>3, <2>4, <2>6, <2>7
<1>6. ASSUME LoadFact(o) PROVE Good' /\ Warehouse' /\ silver' = silver /\ InSilver' = InSilver
  <2> DEFINE typed == {p \in run["good"].batch : topic[p].event \in Typed}
  <2>1. "rows" \in GoodSteps \cup BadSteps /\ typed \in SUBSET Offsets /\ "good" \in Queries
    BY <1>1 DEF GoodSteps, Queries
  <2>2. Writing("facts", "rows", typed)
    BY <1>6, <2>1, TookOne DEF LoadFact, At
  <2>3. /\ InSilver' = run["good"].batch /\ InSilver = run["good"].batch
        /\ InFacts' \subseteq InFacts \cup {o} 
        /\ At("good", "facts")' \/ At("good", "rows")' \/ At("good", "commit")'
        /\ \A p \in InRows' : topic[p].event \notin Typed
    BY <1>1, <2>2 DEF InSilver, InFacts, InRows, At
  <2>4. facts' = facts \cup {topic[o].event} /\ UNCHANGED <<silver, rows>>
    BY <1>6 DEF LoadFact
  <2>5. o \in run["good"].batch /\ silver[topic[o].event] > 0
    BY <1>1, <2>2, <2>3 DEF GoodPart, Good
  <2>6. Good'
    BY <1>2, <1>3, <1>4, <2>2, <2>3, <2>4 DEF GoodPart, Good, At
  <2>7. Warehouse'
    BY <1>2, <1>3, <1>4, <2>4, <2>5 DEF GoodPart, Warehouse, EventsOf
  <2>. QED
    BY <2>3, <2>4, <2>6, <2>7
<1>7. ASSUME LoadRow(o) PROVE Good' /\ Warehouse' /\ silver' = silver /\ InSilver' = InSilver
  <2>1. "commit" \in GoodSteps \cup BadSteps /\ {} \in SUBSET Offsets /\ "good" \in Queries
    BY DEF GoodSteps, Queries
  <2>2. Writing("rows", "commit", {})
    BY <1>7, <2>1, TookOne DEF LoadRow, At
  <2>3. /\ InSilver' = run["good"].batch /\ InSilver = run["good"].batch
        /\ InFacts' = run["good"].batch /\ InFacts = run["good"].batch
        /\ At("good", "rows")' \/ At("good", "commit")'
        /\ InRows' \subseteq InRows \cup {o}
    BY <1>1, <2>2 DEF InSilver, InFacts, InRows, At
  <2>4. rows' = rows \cup {topic[o].event} /\ UNCHANGED <<silver, facts>>
    BY <1>7 DEF LoadRow
  <2>5. o \in run["good"].batch /\ topic[o].event \in facts
    BY <1>1, <2>2, <2>3 DEF GoodPart, Good
  <2>6. Good'
    BY <1>2, <1>3, <1>4, <2>2, <2>3, <2>4 DEF GoodPart, Good, At
  <2>7. Warehouse'
    BY <1>2, <1>3, <2>4, <2>5 DEF GoodPart, Warehouse, EventsOf
  <2>. QED
    BY <2>3, <2>4, <2>6, <2>7
<1>8. Marked'
  BY <1>2 DEF GoodPart, Marked, Quarantined
<1>9. NothingSkipped'
  <2>1. facts \subseteq facts' /\ rows \subseteq rows'
    BY DEF AppendSilver, LoadFact, LoadRow
  <2>. QED
    BY <1>2, <2>1 DEF GoodPart, NothingSkipped, Quarantined, Loaded, Overtaken
<1>. QED
  BY <1>5, <1>6, <1>7, <1>8, <1>9 DEF GoodPart

\* The commit: everything the batch was to load is loaded.
LEMMA GoodCommits ==
    ASSUME Types, Batches, GoodPart, CommitGood
    PROVE  GoodPart'
<1>1. /\ done'["good"] = plan["good"] /\ plan'["good"] = plan["good"] /\ run'["good"] = Idle
      /\ seen' = seen \cup EventsOf(run["good"].batch)
      /\ UNCHANGED <<topic, plan, silver, facts, rows>> /\ At("good", "commit")
  BY DEF CommitGood, sinks, Types, Queries
<1>2. /\ done["good"] \in Nat /\ plan["good"] \in Nat /\ done["good"] <= plan["good"]
      /\ plan["good"] <= MaxMessages /\ MaxMessages \in Nat
      /\ \A p \in Batch("good") : p \in Offsets /\ p > done["good"] /\ p \in Nat /\ p <= plan["good"]
  BY StreamAssumption DEF Types, Batches, Queries, Batch, Offsets
<1>3. /\ run["good"].batch \in Deduplicated
      /\ InFacts = run["good"].batch /\ InRows = run["good"].batch
  BY <1>1 DEF GoodPart, Good, At, InFacts, InRows
<1>4. EventsOf(run["good"].batch) = EventsOf(Admitted)
  BY <1>3 DEF Deduplicated
<1>5. \A p \in Admitted : Loaded(p)
  BY <1>3, <1>4 DEF GoodPart, Good, EventsOf, Loaded
<1>6. Good'
  BY <1>1, IdleRun DEF Good, At, InSilver, InFacts, InRows
<1>7. Warehouse'
  <2>1. EventsOf(run["good"].batch) \subseteq facts /\ EventsOf(run["good"].batch) \cap Typed \subseteq rows
    BY <1>3 DEF GoodPart, Good, EventsOf
  <2>2. facts \subseteq seen'
    BY <1>1, <1>4 DEF GoodPart, Warehouse
  <2>. QED
    BY <1>1, <2>1, <2>2 DEF GoodPart, Warehouse
<1>8. Marked'
  <2>1. MoveWatermark
    BY DEF CommitGood
  <2>2. late' = newest /\ (newest' = newest \/ \E p \in Batch("good") : ~ Quarantined(p) /\ topic[p].at = newest')
    BY <2>1, NewestGrows
  <2>3. \A at : (at = 0 \/ \E p \in 1..done["good"] : ~ Quarantined(p) /\ topic[p].at = at)
                 => (at = 0 \/ \E p \in 1..plan["good"] : ~ Quarantined(p) /\ topic[p].at = at)
    BY <1>2
  <2>4. newest = 0 \/ \E p \in 1..plan["good"] : ~ Quarantined(p) /\ topic[p].at = newest
    BY <2>3 DEF GoodPart, Marked
  <2>5. newest' = 0 \/ \E p \in 1..plan["good"] : ~ Quarantined(p) /\ topic[p].at = newest'
    BY <1>2, <2>2, <2>4
  <2>. QED
    BY <1>1, <2>2, <2>4, <2>5 DEF Marked, Quarantined
<1>9. NothingSkipped'
  <2>1. ASSUME NEW o \in 1..plan["good"], ~ Quarantined(o) PROVE Loaded(o) \/ Overtaken(o)
    <3>1. o \in 1..done["good"] \/ o \in Batch("good")
      BY <1>2 DEF Batch
    <3>2. CASE o \in 1..done["good"]
      BY <2>1, <3>2 DEF GoodPart, NothingSkipped
    <3>3. CASE o \in Admitted
      BY <1>5, <3>3
    <3>4. CASE topic[o].event \in seen
      BY <3>4 DEF GoodPart, Warehouse, Loaded
    <3>5. CASE o \in Batch("good") /\ Behind(o)
      <4>1. /\ topic[o].at \in Nat /\ Delay \in Nat /\ Delay > 0 /\ late \in Nat
            /\ topic[o].at + Delay <= late
        BY <1>2, <3>5, StreamAssumption DEF Behind, Types, Message
      <4>2. PICK p \in 1..done["good"] : ~ Quarantined(p) /\ topic[p].at = late
        BY <4>1 DEF GoodPart, Marked
      <4>3. p \in 1..(o - 1)
        BY <1>2, <3>5
      <4>. QED
        BY <4>1, <4>2, <4>3 DEF Overtaken
    <3>. QED
      BY <2>1, <3>1, <3>2, <3>3, <3>4, <3>5 DEF Admitted
  <2>. QED
    BY <1>1, <2>1 DEF NothingSkipped, Quarantined, Loaded, Overtaken
<1>. QED
  BY <1>6, <1>7, <1>8, <1>9 DEF GoodPart

-----------------------------------------------------------------------------
(* The bad query.                                                          *)

BadPart == Bad /\ DeadLettersComplete

\* What the other steps leave alone.
LEMMA BadFrame ==
    ASSUME BadPart, UNCHANGED <<topic, dlq, quarantine>>,
           done'["bad"] = done["bad"], plan'["bad"] = plan["bad"], run'["bad"] = run["bad"]
    PROVE  BadPart'
<1>1. UNCHANGED <<Batch("bad"), InDlq, InQuarantine>>
  BY DEF Batch, InDlq, InQuarantine, At
<1>2. Bad'
  BY <1>1 DEF BadPart, Bad, At, Quarantined
<1>3. DeadLettersComplete'
  BY DEF BadPart, DeadLettersComplete, Quarantined
<1>. QED
  BY <1>2, <1>3 DEF BadPart

\* The process ends.
LEMMA BadStops ==
    ASSUME BadPart, run'["bad"] = Idle, UNCHANGED <<topic, done, dlq, quarantine>>
    PROVE  BadPart'
<1>1. At("bad", "idle")' /\ InDlq' = {} /\ InQuarantine' = {}
  BY IdleRun DEF At, InDlq, InQuarantine
<1>2. Bad'
  BY <1>1 DEF Bad, At
<1>3. DeadLettersComplete'
  BY DEF BadPart, DeadLettersComplete, Quarantined
<1>. QED
  BY <1>2, <1>3 DEF BadPart

\* A batch is planned, and starts with nothing written.
LEMMA BadStarts ==
    ASSUME Types, Batches, BadPart, Plan("bad") \/ StartBad
    PROVE  BadPart'
<1>1. UNCHANGED <<topic, done, dlq, quarantine>>
  BY DEF Plan, StartBad, checkpoints, sinks
<1>2. CASE Plan("bad")
  BY <1>1, <1>2 DEF Plan, BadPart, Bad, At, InDlq, InQuarantine, DeadLettersComplete, Quarantined
<1>3. CASE StartBad
  <2> DEFINE bad == {o \in Batch("bad") : Quarantined(o)}
  <2>1. /\ run'["bad"].step = IF bad = {} THEN "commit" ELSE "dlq"
        /\ run'["bad"].batch = bad /\ run'["bad"].todo = bad /\ plan' = plan
    BY <1>3 DEF StartBad, Types, Queries, checkpoints
  <2>2. InDlq' = {} /\ InQuarantine' = {}
    BY <2>1 DEF InDlq, InQuarantine, At
  <2>3. Bad'
    BY <1>1, <2>1, <2>2 DEF Bad, At, Batch, Quarantined
  <2>4. DeadLettersComplete'
    BY <1>1 DEF BadPart, DeadLettersComplete, Quarantined
  <2>. QED
    BY <2>3, <2>4 DEF BadPart
<1>. QED
  BY <1>2, <1>3

\* Writing to the sinks.
LEMMA BadWrites ==
    ASSUME Types, Batches, BadPart, NEW o \in Offsets, SendDlq(o) \/ AppendQuarantine(o)
    PROVE  /\ BadPart'
           /\ \/ /\ dlq' = [dlq EXCEPT ![o] = Again(@)]
                 /\ o \in run["bad"].batch \ InDlq /\ InDlq' = InDlq \cup {o}
              \/ dlq' = dlq /\ InDlq' = InDlq
<1>1. /\ run["bad"] \in Runs /\ run["bad"].batch \subseteq Offsets /\ "bad" \in Queries
      /\ run["bad"].todo \subseteq run["bad"].batch
  BY DEF Types, Batches, Queries, Runs
<1>2. UNCHANGED <<topic, done, plan>>
  BY DEF SendDlq, AppendQuarantine, checkpoints
<1>3. /\ run["bad"].batch = {p \in Batch("bad") : Quarantined(p)}
      /\ ({p \in Batch("bad") : Quarantined(p)})' = {p \in Batch("bad") : Quarantined(p)}
  BY <1>2 DEF BadPart, Bad, At, SendDlq, AppendQuarantine, Batch, Quarantined
<1> DEFINE Writing(step, next, todo) ==
             /\ At("bad", step) /\ o \in run["bad"].todo
             /\ run'["bad"].batch = run["bad"].batch
             /\ \/ /\ run["bad"].todo # {o} /\ run'["bad"].step = step
                   /\ run'["bad"].todo = run["bad"].todo \ {o}
                \/ /\ run["bad"].todo = {o} /\ run'["bad"].todo = todo
                   /\ run'["bad"].step = IF todo = {} THEN "commit" ELSE next
<1>4. ASSUME SendDlq(o)
      PROVE  /\ BadPart' /\ dlq' = [dlq EXCEPT ![o] = Again(@)]
             /\ o \in run["bad"].batch \ InDlq /\ InDlq' = InDlq \cup {o}
  <2>1. "quarantine" \in GoodSteps \cup BadSteps /\ run["bad"].batch \in SUBSET Offsets
    BY <1>1 DEF BadSteps
  <2>2. Writing("dlq", "quarantine", run["bad"].batch)
    BY <1>1, <1>4, <2>1, TookOne DEF SendDlq, At
  <2>3. /\ InDlq' = InDlq \cup {o} /\ o \in run["bad"].batch \ InDlq /\ InQuarantine' = {}
        /\ ~ At("bad", "idle")'
    BY <1>1, <2>2 DEF InDlq, InQuarantine, At
  <2>4. /\ dlq' = [dlq EXCEPT ![o] = Again(@)] /\ quarantine' = quarantine
        /\ dlq'[o] > 0 /\ \A p \in Offsets \ {o} : dlq'[p] = dlq[p]
    BY <1>4 DEF SendDlq, Again, Types
  <2>5. Quarantined(o) /\ \A p \in Offsets : dlq[p] > 0 => dlq'[p] > 0
    BY <1>1, <1>3, <2>2, <2>4
  <2>6. Bad'
    BY <1>1, <1>3, <2>2, <2>3, <2>4, <2>5 DEF BadPart, Bad, InDlq
  <2>7. DeadLettersComplete'
    BY <1>2, <2>4, <2>5 DEF BadPart, DeadLettersComplete, Quarantined
  <2>. QED
    BY <2>3, <2>4, <2>6, <2>7 DEF BadPart
<1>5. ASSUME AppendQuarantine(o) PROVE BadPart' /\ dlq' = dlq /\ InDlq' = InDlq
  <2>1. "commit" \in GoodSteps \cup BadSteps /\ {} \in SUBSET Offsets
    BY DEF BadSteps
  <2>2. Writing("quarantine", "commit", {})
    BY <1>1, <1>5, <2>1, TookOne DEF AppendQuarantine, At
  <2>3. /\ InDlq' = run["bad"].batch /\ InDlq = run["bad"].batch
        /\ InQuarantine' \subseteq InQuarantine \cup {o} /\ o \in InDlq /\ ~ At("bad", "idle")'
    BY <1>1, <2>2 DEF InDlq, InQuarantine, At
  <2>4. /\ dlq' = dlq /\ quarantine'[o] > 0
        /\ \A p \in Offsets \ {o} : quarantine'[p] = quarantine[p]
    BY <1>5 DEF AppendQuarantine, Again, Types
  <2>5. /\ dlq[o] > 0 /\ \A p \in Offsets : quarantine[p] > 0 => quarantine'[p] > 0
        /\ InQuarantine \subseteq Offsets
    BY <1>1, <2>3, <2>4 DEF BadPart, Bad, InQuarantine
  <2>6. Bad'
    BY <1>1, <1>3, <2>2, <2>3, <2>4, <2>5 DEF BadPart, Bad
  <2>7. DeadLettersComplete'
    BY <1>2, <2>4, <2>5 DEF BadPart, DeadLettersComplete, Quarantined
  <2>. QED
    BY <2>3, <2>4, <2>6, <2>7 DEF BadPart
<1>. QED
  BY <1>4, <1>5

\* The commit: every defective message of the batch is in both places.
LEMMA BadCommits ==
    ASSUME Types, Batches, BadPart, CommitBad
    PROVE  BadPart'
<1>1. /\ done'["bad"] = plan["bad"] /\ run'["bad"] = Idle
      /\ UNCHANGED <<topic, dlq, quarantine>> /\ At("bad", "commit")
  BY DEF CommitBad, sinks, Types, Queries
<1>2. /\ InDlq = {o \in Batch("bad") : Quarantined(o)}
      /\ InQuarantine = {o \in Batch("bad") : Quarantined(o)}
  BY <1>1 DEF BadPart, Bad, At, InDlq, InQuarantine
<1>3. Bad'
  BY <1>1, IdleRun DEF Bad, At, InDlq, InQuarantine
<1>4. DeadLettersComplete'
  <2>1. ASSUME NEW o \in Offsets, Quarantined(o), o <= plan["bad"]
        PROVE  dlq[o] > 0 /\ quarantine[o] > 0
    <3>1. o <= done["bad"] \/ o \in Batch("bad")
      BY <2>1, StreamAssumption DEF Types, Queries, Offsets, Batch
    <3>. QED
      BY <1>2, <2>1, <3>1 DEF BadPart, Bad, DeadLettersComplete
  <2>. QED
    BY <1>1, <2>1 DEF BadPart, DeadLettersComplete, Quarantined
<1>. QED
  BY <1>3, <1>4 DEF BadPart

-----------------------------------------------------------------------------
(* Repeated batches.                                                       *)

\* Once a batch had to be repeated, this is never forgotten.
LEMMA RepetitionStays ==
    ASSUME Types, Batches, Next, Repetition
    PROVE  Repetition'
<1>1. topic' = topic /\ crashes' \in {crashes, crashes + 1} /\ crashes \in Nat
  BY DEF Next, Retain, GoodStep, BadStep, Plan, StartGood, AppendSilver, LoadFact, LoadRow,
         CommitGood, Halt, StartBad, SendDlq, AppendQuarantine, CommitBad, Crash, Types
<1>2. /\ plan["good"] \in Nat /\ plan'["good"] \in Nat /\ plan["good"] <= plan'["good"]
  <2>1. CASE plan' = plan
    BY <2>1, StreamAssumption DEF Types, Queries
  <2>2. CASE \E q \in Queries : Plan(q)
    BY <2>2, StreamAssumption DEF Plan, Types, Queries, Offsets
  <2>. QED
    BY <2>1, <2>2 DEF Next, Retain, GoodStep, BadStep, StartGood, AppendSilver, LoadFact, LoadRow,
       CommitGood, Halt, StartBad, SendDlq, AppendQuarantine, CommitBad, Crash, Queries, checkpoints
<1>. QED
  BY <1>1, <1>2 DEF Repetition, FactRefuses, RowRefuses

\* The part of Once about one query.
SilverOnce == \A e \in Events : /\ silver[e] <= 1
                                /\ silver[e] > 0 => e \in seen \cup EventsOf(InSilver)
DlqOnce == \A o \in Offsets : /\ dlq[o] <= 1
                              /\ dlq[o] > 0 => o <= done["bad"] \/ o \in InDlq

\* Silver gets each event once: those of a batch are not in the deduplication
\* state, and differ from each other.
LEMMA SilverStep ==
    ASSUME Types, Batches, GoodPart, SilverOnce, Next, ~ Repetition'
    PROVE  SilverOnce'
<1>1. topic \in [Offsets -> Message] /\ silver \in [Events -> 0..2]
  BY DEF Types
<1>2. ASSUME UNCHANGED <<topic, seen, silver>>, run'["good"] = run["good"] PROVE SilverOnce'
  BY <1>2 DEF SilverOnce, EventsOf, InSilver, At
<1>3. CASE Retain \/ BadStep \/ Plan("good")
  <2>1. ASSUME NEW o \in Offsets, SendDlq(o) \/ AppendQuarantine(o)
        PROVE  UNCHANGED <<topic, seen, silver>> /\ run'["good"] = run["good"]
    <3>1. run'["good"] = run["good"]
      BY <2>1 DEF SendDlq, AppendQuarantine, Took, Types, Queries
    <3>. QED
      BY <2>1, <3>1 DEF SendDlq, AppendQuarantine, checkpoints
  <2>2. CASE Retain \/ Plan("good") \/ Plan("bad") \/ StartBad \/ CommitBad
    BY <1>2, <2>2 DEF Retain, Plan, StartBad, CommitBad, checkpoints, sinks, Types, Queries
  <2>. QED
    BY <1>2, <1>3, <2>1, <2>2 DEF BadStep
<1>4. CASE StartGood
  <2>1. UNCHANGED <<topic, seen, silver>>
    BY <1>4 DEF StartGood, checkpoints, sinks
  <2>2. run["good"].batch = {}
    BY <1>4 DEF StartGood, Batches, Queries
  <2>3. InSilver = {}
    BY <2>2 DEF InSilver
  <2>. QED
    BY <2>1, <2>3 DEF SilverOnce, EventsOf
<1>5. ASSUME NEW o \in Offsets, AppendSilver(o) \/ LoadFact(o) \/ LoadRow(o) PROVE SilverOnce'
  <2>1. topic' = topic /\ seen' = seen
    BY <1>5 DEF AppendSilver, LoadFact, LoadRow, checkpoints
  <2>2. CASE silver' = silver /\ InSilver' = InSilver
    BY <2>1, <2>2 DEF SilverOnce, EventsOf
  <2>3. CASE /\ silver' = [silver EXCEPT ![topic[o].event] = Again(@)]
             /\ o \in run["good"].batch \ InSilver /\ InSilver' = InSilver \cup {o}
    <3>1. run["good"].batch \in Deduplicated
      BY <1>5 DEF GoodPart, Good, At, AppendSilver, LoadFact, LoadRow
    <3>2. topic[o].event \notin seen
      BY <2>3, <3>1 DEF Deduplicated, Admitted
    <3>3. InSilver \subseteq run["good"].batch
      BY DEF InSilver
    <3>4. topic[o].event \notin EventsOf(InSilver)
      BY <2>3, <3>1, <3>3 DEF Deduplicated, EventsOf
    <3>5. topic[o].event \in Events /\ silver[topic[o].event] \in 0..2
      BY <1>1 DEF Message
    <3>6. silver[topic[o].event] = 0
      BY <3>2, <3>4, <3>5 DEF SilverOnce
    <3>7. /\ silver'[topic[o].event] = 1
          /\ \A e \in Events \ {topic[o].event} : silver'[e] = silver[e]
      BY <1>1, <2>3, <3>5, <3>6 DEF Again
    <3>8. EventsOf(InSilver)' = EventsOf(InSilver) \cup {topic[o].event}
      BY <2>1, <2>3 DEF EventsOf
    <3>. QED
      BY <2>1, <3>7, <3>8 DEF SilverOnce
  <2>. QED
    BY <1>5, <2>2, <2>3, GoodWrites
<1>6. CASE CommitGood
  <2>1. /\ topic' = topic /\ silver' = silver /\ At("good", "commit")
        /\ seen' = seen \cup EventsOf(run["good"].batch)
    BY <1>6 DEF CommitGood, sinks
  <2>2. InSilver = run["good"].batch
    BY <2>1 DEF InSilver, At
  <2>. QED
    BY <2>1, <2>2 DEF SilverOnce
<1>7. CASE Halt
  <2>1. PICK o \in run["good"].batch : FactRefuses(o) \/ RowRefuses(o)
    BY <1>7 DEF Halt, Batches, Queries
  <2>2. o \in 1..plan["good"]
    BY <2>1, StreamAssumption DEF Batches, Batch, Types, Queries
  <2>. QED
    BY <2>1, <2>2, RepetitionStays DEF Repetition
<1>8. CASE Crash
  BY <1>8 DEF Crash, Types, Repetition
<1>. QED
  BY <1>3, <1>4, <1>5, <1>6, <1>7, <1>8 DEF Next, GoodStep

\* And the dead-letter topic each message once: a batch is not behind the
\* committed offsets.
LEMMA DlqStep ==
    ASSUME Types, Batches, BadPart, DlqOnce, Next, ~ Repetition'
    PROVE  DlqOnce'
<1>1. dlq \in [Offsets -> 0..2]
  BY DEF Types
<1>2. ASSUME UNCHANGED dlq, run'["bad"] = run["bad"], done'["bad"] = done["bad"] PROVE DlqOnce'
  BY <1>2 DEF DlqOnce, InDlq, At
<1>3. CASE Retain \/ (GoodStep /\ ~ Halt) \/ Plan("bad")
  <2>1. ASSUME NEW o \in Offsets, AppendSilver(o) \/ LoadFact(o) \/ LoadRow(o)
        PROVE  UNCHANGED <<dlq, done>> /\ run'["bad"] = run["bad"]
    <3>1. run'["bad"] = run["bad"]
      BY <2>1 DEF AppendSilver, LoadFact, LoadRow, Took, Types, Queries
    <3>. QED
      BY <2>1, <3>1 DEF AppendSilver, LoadFact, LoadRow, checkpoints
  <2>2. CASE Retain \/ Plan("good") \/ Plan("bad") \/ StartGood \/ CommitGood
    BY <1>2, <2>2 DEF Retain, Plan, StartGood, CommitGood, checkpoints, sinks, Types, Queries
  <2>. QED
    BY <1>2, <1>3, <2>1, <2>2 DEF GoodStep
<1>4. CASE StartBad
  <2>1. UNCHANGED <<dlq, done>>
    BY <1>4 DEF StartBad, checkpoints, sinks
  <2>2. run["bad"].batch = {}
    BY <1>4 DEF StartBad, Batches, Queries
  <2>3. InDlq = {}
    BY <2>2 DEF InDlq
  <2>. QED
    BY <2>1, <2>3 DEF DlqOnce
<1>5. ASSUME NEW o \in Offsets, SendDlq(o) \/ AppendQuarantine(o) PROVE DlqOnce'
  <2>1. done' = done
    BY <1>5 DEF SendDlq, AppendQuarantine, checkpoints
  <2>2. CASE dlq' = dlq /\ InDlq' = InDlq
    BY <2>1, <2>2 DEF DlqOnce
  <2>3. CASE /\ dlq' = [dlq EXCEPT ![o] = Again(@)]
             /\ o \in run["bad"].batch \ InDlq /\ InDlq' = InDlq \cup {o}
    <3>1. ~ (o <= done["bad"])
      BY <2>3, StreamAssumption DEF Batches, Batch, Types, Queries
    <3>2. dlq[o] = 0
      BY <1>1, <2>3, <3>1 DEF DlqOnce
    <3>3. dlq'[o] = 1 /\ \A p \in Offsets \ {o} : dlq'[p] = dlq[p]
      BY <1>1, <2>3, <3>2 DEF Again
    <3>. QED
      BY <2>1, <2>3, <3>3 DEF DlqOnce
  <2>. QED
    BY <1>5, <2>2, <2>3, BadWrites
<1>6. CASE CommitBad
  <2>1. dlq' = dlq /\ done'["bad"] = plan["bad"] /\ At("bad", "commit")
    BY <1>6 DEF CommitBad, sinks, Types, Queries
  <2>2. /\ InDlq \subseteq Batch("bad") /\ done["bad"] <= plan["bad"]
        /\ done["bad"] \in Nat /\ plan["bad"] \in Nat
    BY StreamAssumption DEF InDlq, Batches, Types, Queries
  <2>. QED
    BY <2>1, <2>2 DEF DlqOnce, Batch, Offsets
<1>7. CASE Halt
  <2>1. PICK o \in run["good"].batch : FactRefuses(o) \/ RowRefuses(o)
    BY <1>7 DEF Halt, Batches, Queries
  <2>2. o \in 1..plan["good"]
    BY <2>1, StreamAssumption DEF Batches, Batch, Types, Queries
  <2>. QED
    BY <2>1, <2>2, RepetitionStays DEF Repetition
<1>8. CASE Crash
  BY <1>8 DEF Crash, Types, Repetition
<1>. QED
  BY <1>3, <1>4, <1>5, <1>6, <1>7, <1>8 DEF Next, BadStep

-----------------------------------------------------------------------------
(* The theorems.                                                           *)

\* Nothing has been read, written or seen to begin with.
LEMMA InvInit == Init => Inv
<1> SUFFICES ASSUME Init PROVE Inv
  OBVIOUS
<1>1. Types /\ Batches
  BY TypesInit
<1>2. \A q \in Queries : run[q] = Idle /\ done[q] = 0 /\ plan[q] = 0
  BY DEF Init
<1>3. InSilver = {} /\ InFacts = {} /\ InRows = {} /\ InDlq = {} /\ InQuarantine = {}
  BY <1>2, IdleRun DEF InSilver, InFacts, InRows, InDlq, InQuarantine, At, Queries
<1>4. Good /\ Bad
  BY <1>2, <1>3, IdleRun DEF Good, Bad, At, Queries
<1>5. Warehouse /\ Marked /\ NothingSkipped
  BY <1>2 DEF Init, Warehouse, Marked, NothingSkipped, Queries
<1>6. DeadLettersComplete
  BY <1>2, StreamAssumption DEF Init, DeadLettersComplete, Offsets, Queries
<1>7. Once
  BY DEF Init, Once
<1>. QED
  BY <1>1, <1>4, <1>5, <1>6, <1>7 DEF Inv

\* Every step keeps all that is known of the two queries.
LEMMA InvNext == Inv /\ [Next]_vars => Inv'
<1> SUFFICES ASSUME Inv, [Next]_vars PROVE Inv'
  OBVIOUS
<1>1. Types /\ Batches /\ GoodPart /\ BadPart /\ (~ Repetition => SilverOnce /\ DlqOnce)
  BY DEF Inv, GoodPart, BadPart, Once, SilverOnce, DlqOnce
<1>2. CASE Next
  <2>1. Types' /\ Batches'
    BY <1>1, <1>2, StepTypes
  <2>2. GoodPart'
    <3>1. CASE Retain \/ BadStep
      <4>1. ASSUME NEW o \in Offsets, SendDlq(o) \/ AppendQuarantine(o)
            PROVE  run'["good"] = run["good"]
        BY <1>1, <4>1 DEF SendDlq, AppendQuarantine, Took, Types, Queries
      <4>2. /\ UNCHANGED <<topic, seen, newest, late, silver, facts, rows>>
            /\ done'["good"] = done["good"] /\ plan'["good"] = plan["good"]
            /\ run'["good"] = run["good"]
        BY <1>1, <3>1, <4>1 DEF BadStep, Retain, Plan, StartBad, SendDlq, AppendQuarantine, CommitBad,
           checkpoints, sinks, Types, Queries
      <4>. QED
        BY <1>1, <4>2, GoodFrame
    <3>2. CASE Halt \/ Crash
      BY <1>1, <3>2, GoodStops DEF Halt, Crash, checkpoints, sinks, Queries
    <3>. QED
      BY <1>1, <1>2, <3>1, <3>2, GoodPlans, GoodStarts, GoodWrites, GoodCommits DEF Next, GoodStep
  <2>3. BadPart'
    <3>1. CASE Retain \/ (GoodStep /\ ~ Halt)
      <4>1. ASSUME NEW o \in Offsets, AppendSilver(o) \/ LoadFact(o) \/ LoadRow(o)
            PROVE  run'["bad"] = run["bad"]
        BY <1>1, <4>1 DEF AppendSilver, LoadFact, LoadRow, Took, Types, Queries
      <4>2. /\ UNCHANGED <<topic, dlq, quarantine>>
            /\ done'["bad"] = done["bad"] /\ plan'["bad"] = plan["bad"] /\ run'["bad"] = run["bad"]
        BY <1>1, <3>1, <4>1 DEF GoodStep, Retain, Plan, StartGood, AppendSilver, LoadFact, LoadRow,
           CommitGood, checkpoints, sinks, Types, Queries
      <4>. QED
        BY <1>1, <4>2, BadFrame
    <3>2. CASE Halt \/ Crash
      BY <1>1, <3>2, BadStops DEF Halt, Crash, checkpoints, sinks, Queries
    <3>. QED
      BY <1>1, <1>2, <3>1, <3>2, BadStarts, BadWrites, BadCommits DEF Next, BadStep
  <2>4. Once'
    BY <1>1, <1>2, RepetitionStays, SilverStep, DlqStep DEF Once, SilverOnce, DlqOnce
  <2>. QED
    BY <2>1, <2>2, <2>3, <2>4 DEF Inv, GoodPart, BadPart
<1>3. CASE UNCHANGED vars
  BY <1>1, <1>3, GoodFrame, BadFrame DEF vars, Inv, GoodPart, BadPart, Types, Batches, Batch, At, Once,
     Repetition, FactRefuses, RowRefuses, EventsOf, InSilver, InDlq, checkpoints, sinks
<1>. QED
  BY <1>2, <1>3

\* So all of it is always known.
LEMMA InvAlways == Spec => []Inv
BY InvInit, InvNext, PTL DEF Spec

\* The good query never commits past a message that is neither in the warehouse
\* nor behind the watermark, whatever crashes do between its sinks.
THEOREM NoneSkipped == Spec => []NothingSkipped
<1>1. Inv => NothingSkipped
  BY DEF Inv
<1>. QED
  BY <1>1, InvAlways, PTL

\* The deduplication state and the warehouse differ by the batch under way at most.
THEOREM SeenAgrees == Spec => []SeenIsLoaded
<1>1. Inv => SeenIsLoaded
  BY DEF Inv, Warehouse, SeenIsLoaded, EventsOf, Admitted
<1>. QED
  BY <1>1, InvAlways, PTL

\* Silver is never behind event_fact, nor event_fact behind the typed tables, and
\* the typed tables miss only what the batch under way is to load.
THEOREM SilverLeads == Spec => []WarehouseFollowsSilver
<1>1. Inv => WarehouseFollowsSilver
  <2> SUFFICES ASSUME Inv PROVE WarehouseFollowsSilver
    OBVIOUS
  <2>1. \A e \in (facts \cap Typed) \ rows : e \in EventsOf(Admitted)
    BY DEF Inv, Warehouse
  <2>2. EventsOf(Admitted) \subseteq EventsOf(Batch("good"))
    BY DEF EventsOf, Admitted
  <2>. QED
    BY <2>1, <2>2 DEF Inv, Warehouse, WarehouseFollowsSilver
<1>. QED
  BY <1>1, InvAlways, PTL

\* Committed defective messages are in the dead-letter topic and in quarantine.
THEOREM DeadLettersKept == Spec => []DeadLettersComplete
<1>1. Inv => DeadLettersComplete
  BY DEF Inv
<1>. QED
  BY <1>1, InvAlways, PTL

\* Only a repeated batch writes a second copy to silver or to the dead-letter topic.
THEOREM CopiesExplained == Spec => []CopiesNeedARepetition
<1>1. Inv => CopiesNeedARepetition
  <2> SUFFICES ASSUME Inv, ~ Repetition,
                      (\E e \in Events : silver[e] > 1) \/ (\E o \in Offsets : dlq[o] > 1)
               PROVE  FALSE
    BY DEF CopiesNeedARepetition, Repetition
  <2>1. silver \in [Events -> 0..2] /\ dlq \in [Offsets -> 0..2]
    BY DEF Inv, Types
  <2>. QED
    BY <2>1 DEF Inv, Once
<1>. QED
  BY <1>1, InvAlways, PTL

\* Every variable has its type: no copy is counted twice over, and a batch under
\* way is part of the planned one.
THEOREM StreamTypes == Spec => []StreamTypeOK
<1>1. Inv => StreamTypeOK
  <2> SUFFICES ASSUME Types, Batches PROVE StreamTypeOK
    BY DEF Inv
  <2>1. \A q \in Queries : /\ done[q] \in 0..plan[q] /\ plan[q] \in 0..MaxMessages
                           /\ run[q].batch \subseteq Batch(q) /\ run[q].todo \subseteq run[q].batch
    BY DEF Types, Batches
  <2>. QED
    BY <2>1 DEF Types, StreamTypeOK
<1>. QED
  BY <1>1, InvAlways, PTL
=============================================================================
