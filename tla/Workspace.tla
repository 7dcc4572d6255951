------------------------------ MODULE Workspace ------------------------------
(***************************************************************************)
(* One visitor's warehouse of the web sandbox (src/finpulse/demo/engine.py):*)
(* the bronze deliveries, the typed event facts, the pipeline runs and the *)
(* audit trail that live in one SQLite file, and the requests that change  *)
(* them.  Every request runs in one transaction that commits or rolls back *)
(* as a whole (store.py, WorkspaceStore.workspace), so an operation is one *)
(* step here; WorkspaceTx takes the transaction apart.                     *)
(*                                                                         *)
(* The operations are functions of a warehouse value w, so that            *)
(* initialize(), which chains five of them, a transaction, which applies   *)
(* them to a working copy, and the requests share one definition.          *)
(*                                                                         *)
(* The operators named Slip... are plausible mistakes in the operator that *)
(* follows them; nothing uses them, and each run has to notice its own.    *)
(***************************************************************************)
EXTENDS Naturals, Sequences, FiniteSets

CONSTANTS
    MaxEvents,      \* deliveries a workspace may hold (MAX_EVENTS, 2500)
    MaxBatch,       \* deliveries one simulation may stage (MAX_BATCH, 100)
    MaxRuns,        \* pipeline runs a workspace may hold (MAX_RUNS, 40)
    MaxAudit,       \* audit entries kept (100)
    SourceLimit,    \* accepted deliveries a duplicate batch copies from (100)
    SeedNormal,     \* deliveries staged by the first seed run (960)
    SeedDuplicates, SeedInvalid, SeedLate   \* the rehearsal batches (8, 6, 6)

ASSUME LimitsAssumption ==
    /\ MaxEvents \in Nat /\ MaxBatch \in Nat /\ MaxRuns \in Nat
    /\ MaxAudit \in Nat \ {0}
    /\ SourceLimit \in Nat \ {0}

\* The sample workspace fits its own limits, so that initialize() never raises.
ASSUME SeedAssumption ==
    /\ SeedNormal \in Nat \ {0}
    /\ SeedDuplicates \in 1..MaxBatch
    /\ SeedInvalid \in 1..MaxBatch
    /\ SeedLate \in 1..MaxBatch
    /\ SeedNormal + SeedDuplicates + SeedInvalid + SeedInvalid + SeedLate
         <= MaxEvents
    /\ MaxRuns >= 2

VARIABLE db         \* the committed contents of the SQLite file

-----------------------------------------------------------------------------
(* What a delivery carries.  "good" and "late" are the raw envelopes that   *)
(* load; the other three are the defects inject_invalid() writes: a schema  *)
(* version the contract refuses, an ingestion before the occurrence, and an *)
(* occurrence two days ahead (which the unchanged ingestion precedes).      *)

Clean  == {"good", "late"}
Broken == {"schema", "ingested", "future"}
Raw    == Clean \cup Broken

Statuses  == {"pending", "accepted", "duplicate", "quarantined", "replayed"}
Scenarios == {"normal", "duplicates", "invalid", "late"}
Triggers  == {"initial_seed", "quality_rehearsal", "manual", "approved_replay"}
AuditActions == {"staged", "completed", "approved", "exported"}

\* EventEnvelope.from_json refuses the raw envelope.
FailsContract(raw) == raw = "schema"
\* validate_business_rules reports an issue of severity "error".
FailsRules(raw) == raw \in {"ingested", "future"}
\* validate_business_rules reports the freshness_24h warning.
IsLate(raw) == raw = "late"

\* A delivery row.  event is the generator's sequence number, which determines
\* the event id; corrected is the original envelope kept beside an injected
\* defect; run and replay are 0 while run_id and replay_id are NULL.
Delivery == [event : Nat, raw : Raw, corrected : Raw \cup {"none"},
             status : Statuses, late : BOOLEAN, run : Nat, replay : Nat]

Fact == [event : Nat, raw : Raw]

Run == [trigger : Triggers, received : Nat, accepted : Nat,
        quarantined : Nat, duplicates : Nat, late : Nat]

Warehouse == [deliveries : Seq(Delivery), facts : SUBSET Fact, runs : Seq(Run),
              cursor : Nat, revision : Nat, audit : Seq(AuditActions)]

-----------------------------------------------------------------------------
(* Reading a warehouse.                                                     *)

Rows(w) == DOMAIN w.deliveries

WithStatus(w, statuses) == {i \in Rows(w) : w.deliveries[i].status \in statuses}

Pending(w) == WithStatus(w, {"pending"})

\* The event ids event_fact holds.
Loaded(w) == {f.event : f \in w.facts}

\* The known corrections still to come: a room is kept for each of them.
OpenCorrections(w) ==
    {i \in WithStatus(w, {"pending", "quarantined"}) :
        w.deliveries[i].corrected # "none"}

\* What a duplicate batch copies: the first SourceLimit accepted deliveries.
Sources(w) ==
    {i \in WithStatus(w, {"accepted"}) :
        Cardinality({j \in WithStatus(w, {"accepted"}) : j < i}) < SourceLimit}

\* The element of a set of numbers that has k smaller ones in it.
Nth(S, k) == CHOOSE i \in S : Cardinality({j \in S : j < i}) = k

-----------------------------------------------------------------------------
(* Writing one.                                                             *)

\* audit(): append, then keep the newest MaxAudit entries.
Logged(log, action) ==
    IF Len(log) < MaxAudit THEN Append(log, action)
                           ELSE Append(Tail(log), action)

\* stage(): one row, always 'pending'.
Staged(event, raw, corrected) ==
    [event |-> event, raw |-> raw, corrected |-> corrected,
     status |-> "pending", late |-> FALSE, run |-> 0, replay |-> 0]

\* inject_invalid(): the defect that the k-th envelope of a batch receives.
Defect(k) == CASE k % 3 = 0 -> "schema"
               [] k % 3 = 1 -> "ingested"
               [] OTHER     -> "future"

\* The k-th row (from 0) that simulate() stages.
Simulated(w, scenario, k) ==
    CASE scenario = "duplicates" ->
            LET source == w.deliveries[Nth(Sources(w), k % Cardinality(Sources(w)))]
            IN  Staged(source.event, source.raw, "none")
      [] scenario = "invalid" -> Staged(w.cursor + k + 1, Defect(k), "good")
      [] scenario = "late"    -> Staged(w.cursor + k + 1, "late", "none")
      [] scenario = "normal"  -> Staged(w.cursor + k + 1, "good", "none")

NewRows(w, scenario, count) == [k \in 1..count |-> Simulated(w, scenario, k - 1)]

\* A batch and the generator position it leaves: a duplicate batch draws nothing
\* from the generator.
Batch(w, scenario, count) ==
    [w EXCEPT !.deliveries = @ \o NewRows(w, scenario, count),
              !.cursor = IF scenario = "duplicates" THEN @ ELSE @ + count]

SlipBatchOnly(w, scenario, count) == count

SlipBatchUndoubled(w, scenario, count) == count + Cardinality(OpenCorrections(w))

\* simulate() keeps room for the batch, for every correction still open, and for
\* the corrections an invalid batch will itself need.
Required(w, scenario, count) ==
    count + Cardinality(OpenCorrections(w))
          + (IF scenario = "invalid" THEN count ELSE 0)

SimulateAllowed(w, scenario, count) ==
    /\ count \in 1..MaxBatch
    /\ Len(w.deliveries) + Required(w, scenario, count) <= MaxEvents
    /\ scenario = "duplicates" => Sources(w) # {}

AfterSimulate(w, scenario, count) ==
    [Batch(w, scenario, count) EXCEPT !.revision = @ + 1,
                                      !.audit = Logged(@, "staged")]

SlipRunOnly(w, selected, i) ==
    \E j \in selected : j < i /\ w.deliveries[j].event = w.deliveries[i].event

SlipSeenInBronze(w, selected, i) ==
    \E j \in Rows(w) : j < i /\ w.deliveries[j].event = w.deliveries[i].event

\* process() looks an event up in event_fact when its turn comes: a row is a
\* duplicate if the event was loaded before the run or by an earlier row of it.
AlreadyLoaded(w, selected, i) ==
    \/ w.deliveries[i].event \in Loaded(w)
    \/ \E j \in selected : /\ j < i
                           /\ w.deliveries[j].event = w.deliveries[i].event
                           /\ w.deliveries[j].raw \in Clean

\* The contract comes first, deduplication second, the business rules last.
Outcome(w, selected, i) ==
    CASE FailsContract(w.deliveries[i].raw) -> "quarantined"
      [] ~FailsContract(w.deliveries[i].raw)
           /\ AlreadyLoaded(w, selected, i) -> "duplicate"
      [] ~FailsContract(w.deliveries[i].raw)
           /\ ~AlreadyLoaded(w, selected, i)
           /\ FailsRules(w.deliveries[i].raw) -> "quarantined"
      [] OTHER -> "accepted"

Settled(w, selected, i) ==
    LET outcome == Outcome(w, selected, i)
    IN  [w.deliveries[i] EXCEPT
            !.status = outcome,
            !.run = Len(w.runs) + 1,
            !.late = (outcome = "accepted") /\ IsLate(w.deliveries[i].raw)]

SlipReceivedAfterDedup(w, trigger, selected) ==
    LET Of(outcome) == {i \in selected : Outcome(w, selected, i) = outcome}
    IN  [trigger |-> trigger,
         received |-> Cardinality(Of("accepted") \cup Of("quarantined")),
         accepted |-> Cardinality(Of("accepted")),
         quarantined |-> Cardinality(Of("quarantined")),
         duplicates |-> Cardinality(Of("duplicate")),
         late |-> Cardinality({i \in Of("accepted") : IsLate(w.deliveries[i].raw)})]

\* The counters of QualityReport, as demo_runs and pipeline_runs store them.
RunRecord(w, trigger, selected) ==
    LET Of(outcome) == {i \in selected : Outcome(w, selected, i) = outcome}
    IN  [trigger |-> trigger,
         received |-> Cardinality(selected),
         accepted |-> Cardinality(Of("accepted")),
         quarantined |-> Cardinality(Of("quarantined")),
         duplicates |-> Cardinality(Of("duplicate")),
         late |-> Cardinality({i \in Of("accepted") : IsLate(w.deliveries[i].raw)})]

ProcessAllowed(w, selected) ==
    /\ Len(w.runs) < MaxRuns
    /\ selected # {}

AfterProcess(w, trigger, selected) ==
    [w EXCEPT
        !.deliveries = [i \in Rows(w) |->
            IF i \in selected THEN Settled(w, selected, i) ELSE w.deliveries[i]],
        !.facts = @ \cup {[event |-> w.deliveries[i].event, raw |-> w.deliveries[i].raw] :
                            i \in {j \in selected : Outcome(w, selected, j) = "accepted"}},
        !.runs = Append(@, RunRecord(w, trigger, selected)),
        !.revision = @ + 1,
        !.audit = Logged(@, "completed")]

\* The conditions replay() checks before it stages anything, in its order.  A
\* corrected envelope is checked again like any other.
Replayable(w, i) ==
    /\ i \in Rows(w)
    /\ w.deliveries[i].status = "quarantined" /\ w.deliveries[i].replay = 0
    /\ w.deliveries[i].corrected # "none"
    /\ Len(w.deliveries) < MaxEvents
    /\ ~FailsContract(w.deliveries[i].corrected)
    /\ ~FailsRules(w.deliveries[i].corrected)
    /\ w.deliveries[i].event \notin Loaded(w)

\* The run that replay() then asks for has a limit of its own.
ReplayAllowed(w, i) == Replayable(w, i) /\ Len(w.runs) < MaxRuns

\* The corrected envelope becomes a delivery of its own at the end of bronze.
WithCorrection(w, i) ==
    [w EXCEPT !.deliveries =
        Append(@, Staged(w.deliveries[i].event, w.deliveries[i].corrected, "none"))]

SlipReplayRunsAll(w, i) ==
    LET new == Len(w.deliveries) + 1
        corrected == WithCorrection(w, i)
        run == AfterProcess(corrected, "approved_replay", Pending(corrected))
    IN  [run EXCEPT !.deliveries[i] = [@ EXCEPT !.status = "replayed", !.replay = new],
                    !.audit = Logged(@, "approved")]

SlipReplayUnlinked(w, i) ==
    LET new == Len(w.deliveries) + 1
        run == AfterProcess(WithCorrection(w, i), "approved_replay", {new})
    IN  [run EXCEPT !.deliveries[i] = [@ EXCEPT !.status = "replayed"],
                    !.audit = Logged(@, "approved")]

SlipReplayInPlace(w, i) ==
    LET corrected == [w EXCEPT !.deliveries[i] =
                        [@ EXCEPT !.raw = w.deliveries[i].corrected, !.status = "pending"]]
        run == AfterProcess(corrected, "approved_replay", {i})
    IN  [run EXCEPT !.audit = Logged(@, "approved")]

\* Only that delivery is processed, whatever else is pending; then the defective
\* one is closed, and the approval is logged after the run it caused.
AfterReplay(w, i) ==
    LET new == Len(w.deliveries) + 1
        run == AfterProcess(WithCorrection(w, i), "approved_replay", {new})
    IN  [run EXCEPT !.deliveries[i] = [@ EXCEPT !.status = "replayed", !.replay = new],
                    !.audit = Logged(@, "approved")]

-----------------------------------------------------------------------------
(* initialize(): the sample workspace of a new visitor and of a reset.      *)

Empty == [deliveries |-> <<>>, facts |-> {}, runs |-> <<>>,
          cursor |-> 0, revision |-> 0, audit |-> <<>>]

\* The first batch is staged directly: no limit is checked, nothing is logged.
FirstRun ==
    LET staged == Batch(Empty, "normal", SeedNormal)
    IN  AfterProcess(staged, "initial_seed", Pending(staged))

Rehearsal ==
    AfterSimulate(
        AfterSimulate(
            AfterSimulate(FirstRun, "duplicates", SeedDuplicates),
            "invalid", SeedInvalid),
        "late", SeedLate)

Seeded == AfterProcess(Rehearsal, "quality_rehearsal", Pending(Rehearsal))

-----------------------------------------------------------------------------
(* The requests.  A refused request changes nothing.                        *)

Init == db = Seeded

Simulate(scenario, count) ==
    /\ SimulateAllowed(db, scenario, count)
    /\ db' = AfterSimulate(db, scenario, count)

RunPipeline ==
    /\ ProcessAllowed(db, Pending(db))
    /\ db' = AfterProcess(db, "manual", Pending(db))

Replay(i) ==
    /\ ReplayAllowed(db, i)
    /\ db' = AfterReplay(db, i)

\* Every table is emptied and the sample is loaded again, in one transaction.
Reset == db' = Seeded

\* A download leaves a trace in the audit and no other.
Export == db' = [db EXCEPT !.audit = Logged(@, "exported")]

Next == \/ \E scenario \in Scenarios, count \in 1..MaxBatch : Simulate(scenario, count)
        \/ RunPipeline
        \/ \E i \in Rows(db) : Replay(i)
        \/ Reset
        \/ Export

Spec == Init /\ [][Next]_db

-----------------------------------------------------------------------------
(* The parts of the inductive invariant, each of a warehouse value.         *)

WellTyped(w) ==
    /\ w \in Warehouse
    /\ Len(w.deliveries) <= MaxEvents
    /\ Len(w.runs) <= MaxRuns
    /\ Len(w.audit) <= MaxAudit

\* Every delivery carries an event the generator has already drawn.
DrawnFromGenerator(w) ==
    \A i \in Rows(w) : w.deliveries[i].event \in 1..w.cursor

\* Only envelopes that pass load or are suppressed; only defective ones, which
\* carry the original beside them, are held back or replayed.
StatusFollowsRaw(w) ==
    \A i \in Rows(w) :
        LET d == w.deliveries[i] IN
        /\ d.status \in {"accepted", "duplicate"} => d.raw \in Clean
        /\ d.status \in {"quarantined", "replayed"} => d.raw \in Broken
        /\ d.raw \in Broken => d.corrected = "good"
        /\ d.raw \in Clean => d.corrected = "none"
        /\ d.status # "replayed" => d.replay = 0

\* event_fact holds exactly the envelopes of the accepted deliveries, and no
\* event was accepted twice.
FactsFollowDeliveries(w) ==
    LET accepted == WithStatus(w, {"accepted"}) IN
    /\ w.facts = {[event |-> w.deliveries[i].event, raw |-> w.deliveries[i].raw] :
                    i \in accepted}
    /\ \A i, j \in accepted :
          w.deliveries[i].event = w.deliveries[j].event => i = j

\* While a defective delivery waits, it is the only one of its event.
AwaitsAlone(w) ==
    \A i \in Rows(w) :
        w.deliveries[i].raw \in Broken /\ w.deliveries[i].status # "replayed" =>
            \A j \in Rows(w) \ {i} : w.deliveries[j].event # w.deliveries[i].event

\* A replayed delivery names the accepted delivery that replaced it.
ReplayedOnce(w) ==
    \A i \in WithStatus(w, {"replayed"}) :
        LET d == w.deliveries[i] IN
        /\ d.replay \in WithStatus(w, {"accepted"})
        /\ w.deliveries[d.replay].event = d.event
        /\ w.deliveries[d.replay].raw = d.corrected

\* Room is left for every correction still open.
RoomForCorrections(w) ==
    Len(w.deliveries) + Cardinality(OpenCorrections(w)) <= MaxEvents

Sound(w) ==
    /\ WellTyped(w)
    /\ DrawnFromGenerator(w)
    /\ StatusFollowsRaw(w)
    /\ FactsFollowDeliveries(w)
    /\ AwaitsAlone(w)
    /\ ReplayedOnce(w)
    /\ RoomForCorrections(w)

Inv == Sound(db)

-----------------------------------------------------------------------------
(* What the runs check.                                                     *)

\* Every column holds a value of its type, and no table outgrows its limit:
\* the guards of simulate(), process() and replay() and the trim of audit().
TypeOK == WellTyped(db)

\* simulate() keeps room for the corrections: staged and quarantined defects can
\* all be replayed later without passing the delivery limit, whatever sequence of
\* batches, runs and replays comes in between.
RoomForEveryCorrection == RoomForCorrections(db)

\* event_fact is the set of accepted envelopes, one row per event id, although
\* deliveries repeat and replays bring the same event id back.
FactsMatchAccepted == FactsFollowDeliveries(db)

\* What replay() checks about a quarantined delivery with a known correction can
\* only fail for want of a pipeline run: its event is never loaded already, the
\* delivery limit is never in the way, and the correction passes validation.
OnlyRunsCanBlockReplay ==
    \A i \in OpenCorrections(db) \cap WithStatus(db, {"quarantined"}) :
        ReplayAllowed(db, i) \/ Len(db.runs) = MaxRuns

\* Each approval leads from one defective delivery to one accepted delivery of
\* the same event, through a run of its own that processed nothing else.
EveryReplayHasItsRun ==
    /\ ReplayedOnce(db)
    /\ \A i \in WithStatus(db, {"replayed"}) :
          LET replacement == db.deliveries[db.deliveries[i].replay]
          IN  /\ db.runs[replacement.run].trigger = "approved_replay"
              /\ db.runs[replacement.run].received = 1
              /\ db.deliveries[i].run < replacement.run
    /\ Cardinality({r \in DOMAIN db.runs : db.runs[r].trigger = "approved_replay"})
         = Cardinality(WithStatus(db, {"replayed"}))

\* The counters a run reported are those of the deliveries that name it, also
\* after a later replay changed the status of one of them; and the stats of
\* snapshot() add up, although it counts accepted events in event_fact and
\* everything else in the deliveries.
CountersAgree ==
    /\ \A r \in DOMAIN db.runs :
           LET Named(statuses) ==
                   {i \in WithStatus(db, statuses) : db.deliveries[i].run = r}
           IN  /\ db.runs[r].received = Cardinality(Named(Statuses))
               /\ db.runs[r].accepted = Cardinality(Named({"accepted"}))
               /\ db.runs[r].duplicates = Cardinality(Named({"duplicate"}))
               /\ db.runs[r].quarantined = Cardinality(Named({"quarantined", "replayed"}))
               /\ db.runs[r].late =
                    Cardinality({i \in Named({"accepted"}) : db.deliveries[i].late})
    /\ Len(db.deliveries) =
           Cardinality(db.facts)
           + Cardinality(WithStatus(db, {"duplicate"}))
           + Cardinality(WithStatus(db, {"quarantined", "replayed"}))
           + Cardinality(Pending(db))

\* A suppressed delivery has the accepted delivery of its event before it in
\* bronze: nothing is suppressed in favour of an event that was not loaded.
SuppressedBehindOriginal ==
    \A i \in WithStatus(db, {"duplicate"}) :
        \E j \in WithStatus(db, {"accepted"}) :
            j < i /\ db.deliveries[j].event = db.deliveries[i].event

\* Except for a reset, bronze only grows: what a delivery received is never
\* rewritten, a settled delivery stays settled, and only a quarantined one can
\* still change, to replayed.
BronzeKept(w, next) ==
    /\ Len(next.deliveries) >= Len(w.deliveries)
    /\ \A i \in Rows(w) :
          LET d == w.deliveries[i]
              e == next.deliveries[i]
          IN  /\ e.event = d.event /\ e.raw = d.raw /\ e.corrected = d.corrected
              /\ e.status # d.status => \/ d.status = "pending" /\ e.status # "replayed"
                                        \/ d.status = "quarantined" /\ e.status = "replayed"
              /\ d.run # 0 => e.run = d.run

\* Facts enter only through a pipeline run, as many as it reports accepted, and
\* none ever leaves.
FactsKept(w, next) ==
    /\ w.facts \subseteq next.facts
    /\ \/ next.runs = w.runs /\ next.facts = w.facts
       \/ /\ Len(next.runs) = Len(w.runs) + 1
          /\ Cardinality(next.facts) = Cardinality(w.facts) + next.runs[Len(next.runs)].accepted

\* The entries a request leaves in the audit, by what it does to the tables.
Traces(w, next) ==
    LET rows == Len(next.deliveries) > Len(w.deliveries)
        run == Len(next.runs) > Len(w.runs)
    IN  CASE rows /\ ~run -> <<"staged">>
          [] ~rows /\ run -> <<"completed">>
          [] rows /\ run  -> <<"completed", "approved">>
          [] OTHER        -> <<"exported">>

IsEndOf(kept, all) ==
    /\ Len(kept) = IF Len(all) < MaxAudit THEN Len(all) ELSE MaxAudit
    /\ \A i \in 1..Len(kept) : kept[i] = all[Len(all) - Len(kept) + i]

\* The audit tells of every request, the newest MaxAudit entries in their order.
AuditKept(w, next) == IsEndOf(next.audit, w.audit \o Traces(w, next))

\* Except for a reset, the tables keep what they hold, whatever is run or approved,
\* and the audit tells what was done, up to its limit (engine.py:153).
HistoryIsKept ==
    [][db' = Seeded \/ (BronzeKept(db, db') /\ FactsKept(db, db') /\ AuditKept(db, db'))]_db

=============================================================================
