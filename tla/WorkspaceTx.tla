----------------------------- MODULE WorkspaceTx -----------------------------
(***************************************************************************)
(* A request as it runs inside its transaction (WorkspaceStore.workspace): *)
(* BEGIN IMMEDIATE, the statements of simulate(), process(), replay(),     *)
(* export_csv() or reset, one row at a time, and COMMIT; or an exception at *)
(* any statement, and ROLLBACK.  The visitor lock admits one transaction at *)
(* a time (WorkspaceStore), so one is open here at most.                   *)
(*                                                                         *)
(* work is what the open transaction reads and writes, db what is committed.*)
(* The rows of one batch or one run are taken in their order, as the loops *)
(* of the code do; Workspace says what a whole batch or run amounts to.    *)
(***************************************************************************)
EXTENDS Workspace

VARIABLES
    work,       \* the contents of the file as the open transaction sees them
    tx          \* where the open transaction stands

txvars == <<db, work, tx>>

Requests ==
    [op : {"simulate"}, scenario : Scenarios, count : 1..MaxBatch]
      \cup [op : {"replay"}, row : 1..MaxEvents]
      \cup [op : {"run", "reset", "export"}]

\* QualityReport(), whose counters process() advances row by row.
NoReport == [received |-> 0, accepted |-> 0, quarantined |-> 0,
             duplicates |-> 0, late |-> 0]

Idle == [step |-> "idle"]

FirstStep(op) == CASE op = "simulate" -> "admit"
                   [] op = "run"      -> "select"
                   [] op = "replay"   -> "approve"
                   [] op = "reset"    -> "wipe"
                   [] op = "export"   -> "note"

At(step) == tx.step = step

\* The loops take the row with the smallest sequence number next.
First(rows) == CHOOSE i \in rows : \A j \in rows : i <= j

-----------------------------------------------------------------------------

TxInit == Init /\ work = db /\ tx = Idle

Begin(request) ==
    /\ At("idle")
    /\ tx' = [step |-> FirstStep(request.op), request |-> request,
              todo |-> {}, parsed |-> {}, report |-> NoReport]
    /\ work' = db
    /\ UNCHANGED db

\* simulate(): the limits, and the generator's position.
Admit ==
    LET scenario == tx.request.scenario
        count == tx.request.count
    IN  /\ At("admit")
        /\ SimulateAllowed(work, scenario, count)
        /\ work' = [work EXCEPT !.cursor = IF scenario = "duplicates" THEN @ ELSE @ + count]
        /\ tx' = [tx EXCEPT !.step = "stage", !.todo = 1..count]
        /\ UNCHANGED db

\* simulate(): one stage() call of its loop.
StageRow ==
    LET k == First(tx.todo)
    IN  /\ At("stage") /\ tx.todo # {}
        /\ work' = [work EXCEPT !.deliveries =
                        Append(@, Simulated(db, tx.request.scenario, k - 1))]
        /\ tx' = [tx EXCEPT !.todo = @ \ {k}]
        /\ UNCHANGED db

\* simulate(): the revision and the audit entry after the loop.
Stamp ==
    /\ At("stage") /\ tx.todo = {}
    /\ work' = [work EXCEPT !.revision = @ + 1, !.audit = Logged(@, "staged")]
    /\ tx' = [tx EXCEPT !.step = "commit"]
    /\ UNCHANGED db

\* replay(): its own conditions, then stage() of the correction.
Approve ==
    /\ At("approve")
    /\ Replayable(work, tx.request.row)
    /\ work' = WithCorrection(work, tx.request.row)
    /\ tx' = [tx EXCEPT !.step = "select"]
    /\ UNCHANGED db

SlipSelectsOriginal ==
    IF tx.request.op = "replay" THEN {tx.request.row} \cap Pending(work) ELSE Pending(work)

\* The rows process() takes: those pending, or the one that replay() staged.
Selection == IF tx.request.op = "replay" THEN {Len(work.deliveries)} ELSE Pending(work)

\* process(): the run limit, and the rows.
Select ==
    /\ At("select")
    /\ ProcessAllowed(work, Selection)
    /\ tx' = [tx EXCEPT !.step = "contract", !.todo = Selection]
    /\ UNCHANGED <<db, work>>

\* process(): what becomes of one row, in work and in the report.
Mark(i, status, late) ==
    [work EXCEPT !.deliveries[i] =
        [@ EXCEPT !.status = status, !.run = Len(work.runs) + 1, !.late = late]]

\* process(), first loop: the contract.  Only what it refuses is marked.
Contract ==
    LET i == First(tx.todo)
        refused == FailsContract(work.deliveries[i].raw)
    IN  /\ At("contract") /\ tx.todo # {}
        /\ work' = IF refused THEN Mark(i, "quarantined", FALSE) ELSE work
        /\ tx' = [tx EXCEPT !.todo = @ \ {i},
                            !.parsed = IF refused THEN @ ELSE @ \cup {i},
                            !.report.received = @ + 1,
                            !.report.quarantined = IF refused THEN @ + 1 ELSE @]
        /\ UNCHANGED db

StartQuality ==
    /\ At("contract") /\ tx.todo = {}
    /\ tx' = [tx EXCEPT !.step = "quality", !.todo = tx.parsed]
    /\ UNCHANGED <<db, work>>

\* process(), second loop: the event is looked up in event_fact as the rows before
\* it left that table.
Suppress ==
    LET i == First(tx.todo)
    IN  /\ At("quality") /\ tx.todo # {}
        /\ work.deliveries[i].event \in Loaded(work)
        /\ work' = Mark(i, "duplicate", FALSE)
        /\ tx' = [tx EXCEPT !.todo = @ \ {i}, !.report.duplicates = @ + 1]
        /\ UNCHANGED db

HoldBack ==
    LET i == First(tx.todo)
    IN  /\ At("quality") /\ tx.todo # {}
        /\ work.deliveries[i].event \notin Loaded(work)
        /\ FailsRules(work.deliveries[i].raw)
        /\ work' = Mark(i, "quarantined", FALSE)
        /\ tx' = [tx EXCEPT !.todo = @ \ {i}, !.report.quarantined = @ + 1]
        /\ UNCHANGED db

SlipLoadUncounted ==
    LET i == First(tx.todo)
        late == IsLate(work.deliveries[i].raw)
    IN  /\ At("quality") /\ tx.todo # {}
        /\ work.deliveries[i].event \notin Loaded(work)
        /\ ~FailsRules(work.deliveries[i].raw)
        /\ work' = [Mark(i, "accepted", late) EXCEPT
                        !.facts = @ \cup {[event |-> work.deliveries[i].event,
                                           raw |-> work.deliveries[i].raw]}]
        /\ tx' = [tx EXCEPT !.todo = @ \ {i}, !.report.accepted = @ + 1]
        /\ UNCHANGED db

Load ==
    LET i == First(tx.todo)
        late == IsLate(work.deliveries[i].raw)
    IN  /\ At("quality") /\ tx.todo # {}
        /\ work.deliveries[i].event \notin Loaded(work)
        /\ ~FailsRules(work.deliveries[i].raw)
        /\ work' = [Mark(i, "accepted", late) EXCEPT
                        !.facts = @ \cup {[event |-> work.deliveries[i].event,
                                           raw |-> work.deliveries[i].raw]}]
        /\ tx' = [tx EXCEPT !.todo = @ \ {i},
                            !.report.accepted = @ + 1,
                            !.report.late = IF late THEN @ + 1 ELSE @]
        /\ UNCHANGED db

\* process(): the run, the revision and the audit entry after the loops.
Record ==
    LET trigger == IF tx.request.op = "replay" THEN "approved_replay" ELSE "manual"
        run == [trigger |-> trigger, received |-> tx.report.received,
                accepted |-> tx.report.accepted, quarantined |-> tx.report.quarantined,
                duplicates |-> tx.report.duplicates, late |-> tx.report.late]
    IN  /\ At("quality") /\ tx.todo = {}
        /\ work' = [work EXCEPT !.runs = Append(@, run), !.revision = @ + 1,
                                !.audit = Logged(@, "completed")]
        /\ tx' = [tx EXCEPT !.step = IF tx.request.op = "replay" THEN "close" ELSE "commit"]
        /\ UNCHANGED db

\* replay(): the defective delivery is closed, and the approval logged.
Close ==
    LET i == tx.request.row
    IN  /\ At("close")
        /\ work' = [work EXCEPT
                !.deliveries[i] = [@ EXCEPT !.status = "replayed",
                                            !.replay = Len(work.deliveries)],
                !.audit = Logged(@, "approved")]
        /\ tx' = [tx EXCEPT !.step = "commit"]
        /\ UNCHANGED db

\* reset: every table is emptied, then initialize() runs in the same transaction,
\* operation by operation; its limits are never in the way (SeedAssumption).
Wipe == /\ At("wipe")
        /\ work' = Empty
        /\ tx' = [tx EXCEPT !.step = "fill"]
        /\ UNCHANGED db

\* One operation of initialize().
Filled(step, next, contents) ==
    /\ At(step)
    /\ work' = contents
    /\ tx' = [tx EXCEPT !.step = next]
    /\ UNCHANGED db

Fill == \/ Filled("fill", "first run", Batch(work, "normal", SeedNormal))
        \/ Filled("first run", "duplicates", AfterProcess(work, "initial_seed", Pending(work)))
        \/ Filled("duplicates", "invalid", AfterSimulate(work, "duplicates", SeedDuplicates))
        \/ Filled("invalid", "late", AfterSimulate(work, "invalid", SeedInvalid))
        \/ Filled("late", "rehearsal", AfterSimulate(work, "late", SeedLate))
        \/ Filled("rehearsal", "commit", AfterProcess(work, "quality_rehearsal", Pending(work)))

\* export_csv(): one audit entry.
Note == /\ At("note")
        /\ work' = [work EXCEPT !.audit = Logged(@, "exported")]
        /\ tx' = [tx EXCEPT !.step = "commit"]
        /\ UNCHANGED db

Commit == /\ At("commit")
          /\ db' = work
          /\ tx' = Idle
          /\ UNCHANGED work

\* The conditions under which the code raises a DemoError, by the step it is at.
Refusing ==
    \/ At("admit") /\ ~SimulateAllowed(work, tx.request.scenario, tx.request.count)
    \/ At("approve") /\ ~Replayable(work, tx.request.row)
    \/ At("select") /\ ~ProcessAllowed(work, Selection)

SlipNoRollback == /\ tx' = Idle
                  /\ db' = work
                  /\ UNCHANGED work

Rollback == /\ tx' = Idle
            /\ work' = db
            /\ UNCHANGED db

Refuse == Refusing /\ Rollback

\* A storage error, an unexpected exception, or the end of the process.
Fault == ~At("idle") /\ Rollback

TxNext == \/ \E request \in Requests : Begin(request)
          \/ Admit \/ StageRow \/ Stamp
          \/ Approve
          \/ Select \/ Contract \/ StartQuality \/ Suppress \/ HoldBack \/ Load \/ Record
          \/ Close
          \/ Wipe \/ Fill \/ Note
          \/ Commit \/ Refuse \/ Fault

TxSpec == TxInit /\ [][TxNext]_txvars

-----------------------------------------------------------------------------

\* Whether a committed state permits a request as a whole.
Permitted(w, request) ==
    CASE request.op = "simulate" -> SimulateAllowed(w, request.scenario, request.count)
      [] request.op = "run"      -> ProcessAllowed(w, Pending(w))
      [] request.op = "replay"   -> ReplayAllowed(w, request.row)
      [] request.op \in {"reset", "export"} -> TRUE

\* Every request, run row by row with a rollback at any statement, is one step of
\* Workspace or none: batches, runs and approvals appear all at once, the counters
\* of a run included, and an approval that finds no run left (process(), after
\* replay() has staged the correction) leaves no trace.
ImplementsWorkspace == Spec

\* A DemoError raised half-way through a transaction has its cause in the
\* committed warehouse: the request would have been refused at its start.
RefusedForAReason == [][Refuse => ~Permitted(db, tx.request)]_txvars

\* What is committed is what the request asked for, and was permitted.
CommitsWhatWasAsked ==
    [][Commit =>
        /\ Permitted(db, tx.request)
        /\ db' = CASE tx.request.op = "simulate" ->
                        AfterSimulate(db, tx.request.scenario, tx.request.count)
                   [] tx.request.op = "run"    -> AfterProcess(db, "manual", Pending(db))
                   [] tx.request.op = "replay" -> AfterReplay(db, tx.request.row)
                   [] tx.request.op = "reset"  -> Seeded
                   [] tx.request.op = "export" -> [db EXCEPT !.audit = Logged(@, "exported")]
      ]_txvars
=============================================================================
