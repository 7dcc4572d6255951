--------------------------- MODULE DailyPortfolio ---------------------------
(***************************************************************************)
(* The daily Airflow run (src/airflow/dags/finpulse_daily_portfolio.py):   *)
(* two checks of the warehouse, the dbt marts built and tested, an audit   *)
(* record and table maintenance, each a task that is tried three times,    *)
(* while the streaming job goes on changing the warehouse.                 *)
(*                                                                         *)
(* A version of the warehouse is known by whether the dbt tests accept     *)
(* marts built from it.  A mart is a table that is replaced when its model *)
(* is built: fct_credit_portfolio, then those that read it, which are one  *)
(* here.                                                                   *)
(***************************************************************************)
EXTENDS Naturals, Sequences, FiniteSets

CONSTANTS
    Retries,        \* of each task (2)
    MaxRuns, MaxVersion, MaxLost        \* bounds on what is explored

ASSUME PortfolioAssumption ==
    Retries \in Nat /\ MaxRuns \in Nat /\ MaxVersion \in Nat \ {0} /\ MaxLost \in Nat

VARIABLES
    warehouse,  \* its present version, and whether it is fresh and full enough
    sound,      \* versions that the tests accept
    marts,      \* what each mart was built from, and in which run
    run,        \* number of the latest run
    task,       \* state and tries of each of its tasks
    checked,    \* version that each check of the run accepted
    tested,     \* the marts that passed the tests of the run
    audit,      \* observability.pipeline_runs, rows of this pipeline
    lost        \* attempts so far that died after their work was done

vars == <<warehouse, sound, marts, run, task, checked, tested, audit, lost>>

-----------------------------------------------------------------------------

Checks == {"freshness", "volume"}
Tasks == Checks \cup {"build", "test", "manifest", "audit", "analyze"}
Models == {"facts", "derived"}

Built(version, r) == [version |-> version, run |-> r]
NoMarts == [model \in Models |-> Built(0, 0)]

SlipAuditBesideTest(t) ==
    CASE t \in Checks -> {} [] t = "build" -> Checks [] t = "test" -> {"build"}
      [] t = "manifest" -> {"build"} [] t = "audit" -> {"manifest"} [] t = "analyze" -> {"audit"}
\* The tasks that have to succeed before t is started.
Upstream(t) ==
    CASE t \in Checks -> {} [] t = "build" -> Checks [] t = "test" -> {"build"}
      [] t = "manifest" -> {"test"} [] t = "audit" -> {"manifest"} [] t = "analyze" -> {"audit"}

Waiting == [state |-> "waiting", tries |-> 0]
Ended == {"success", "failed", "upstream_failed"}
Over == \A t \in Tasks : task[t].state \in Ended

\* A failed attempt is repeated while tries are left.
AfterFailure(t) == IF task[t].tries <= Retries THEN "waiting" ELSE "failed"

State(t, state) == [task EXCEPT ![t].state = state]

-----------------------------------------------------------------------------

Init ==
    /\ sound \in SUBSET (1 .. MaxVersion)
    /\ warehouse \in [version : {1}, fresh : BOOLEAN, full : BOOLEAN]
    /\ marts = NoMarts /\ run = 0
    /\ task = [t \in Tasks |-> [state |-> "success", tries |-> 0]]
    /\ checked = [t \in Checks |-> 0] /\ tested = NoMarts
    /\ audit = <<>> /\ lost = 0

\* The streaming job loads more, or falls behind.
Stream ==
    /\ warehouse.version < MaxVersion
    /\ \E fresh, full \in BOOLEAN :
           warehouse' = [version |-> warehouse.version + 1, fresh |-> fresh, full |-> full]
    /\ UNCHANGED <<sound, marts, run, task, checked, tested, audit, lost>>

\* The next day's run, once the last one is over (max_active_runs=1).
Trigger ==
    /\ Over /\ run < MaxRuns
    /\ run' = run + 1
    /\ task' = [t \in Tasks |-> Waiting]
    /\ checked' = [t \in Checks |-> 0] /\ tested' = NoMarts
    /\ UNCHANGED <<warehouse, sound, marts, audit, lost>>

StartTask(t) ==
    /\ task[t].state = "waiting" /\ \A u \in Upstream(t) : task[u].state = "success"
    /\ task' = [task EXCEPT ![t] = [state |-> "running", tries |-> @.tries + 1]]
    /\ UNCHANGED <<warehouse, sound, marts, run, checked, tested, audit, lost>>

SlipOneLevel(t) ==
    /\ task[t].state = "waiting" /\ \E u \in Upstream(t) : task[u].state = "failed"
    /\ task' = State(t, "upstream_failed")
    /\ UNCHANGED <<warehouse, sound, marts, run, checked, tested, audit, lost>>
\* A task behind one that failed is not started.
GiveUp(t) ==
    /\ task[t].state = "waiting"
    /\ \E u \in Upstream(t) : task[u].state \in {"failed", "upstream_failed"}
    /\ task' = State(t, "upstream_failed")
    /\ UNCHANGED <<warehouse, sound, marts, run, checked, tested, audit, lost>>

\* An attempt that does nothing, or what its check says fails it.
FailTask(t) ==
    /\ task[t].state \in {"running", "half"}
    /\ task' = State(t, AfterFailure(t))
    /\ UNCHANGED <<warehouse, sound, marts, run, checked, tested, audit, lost>>

\* An attempt has done its work and reports it, or dies before it can.
Report(t) ==
    \/ task' = State(t, "success") /\ lost' = lost
    \/ lost < MaxLost /\ task' = State(t, AfterFailure(t)) /\ lost' = lost + 1

Check(t) ==
    /\ task[t].state = "running"
    /\ IF t = "freshness" THEN warehouse.fresh ELSE warehouse.full
    /\ checked' = [checked EXCEPT ![t] = warehouse.version]
    /\ Report(t)
    /\ UNCHANGED <<warehouse, sound, marts, run, tested, audit>>

\* dbt run replaces one mart after the other.
BuildFacts ==
    /\ task["build"].state = "running"
    /\ marts' = [marts EXCEPT !["facts"] = Built(warehouse.version, run)]
    /\ task' = State("build", "half")
    /\ UNCHANGED <<warehouse, sound, run, checked, tested, audit, lost>>

BuildDerived ==
    /\ task["build"].state = "half"
    /\ marts' = [marts EXCEPT !["derived"] = Built(warehouse.version, run)]
    /\ Report("build")
    /\ UNCHANGED <<warehouse, sound, run, checked, tested, audit>>

Test ==
    /\ task["test"].state = "running"
    /\ \A model \in Models : marts[model].version \in sound
    /\ tested' = marts
    /\ Report("test")
    /\ UNCHANGED <<warehouse, sound, marts, run, checked, audit>>

\* The manifest says that all gates passed; ANALYZE changes no data.
Quietly(t) ==
    /\ t \in {"manifest", "analyze"} /\ task[t].state = "running"
    /\ Report(t)
    /\ UNCHANGED <<warehouse, sound, marts, run, checked, tested, audit>>

Publish ==
    /\ task["audit"].state = "running"
    /\ audit' = Append(audit, [run |-> run, checked |-> checked, tested |-> tested,
                               served |-> marts])
    /\ Report("audit")
    /\ UNCHANGED <<warehouse, sound, marts, run, checked, tested>>

Attempt(t) == StartTask(t) \/ GiveUp(t) \/ FailTask(t)
Work == \/ \E t \in Checks : Check(t)
        \/ BuildFacts \/ BuildDerived \/ Test \/ Publish
        \/ \E t \in Tasks : Quietly(t)

Next == Stream \/ Trigger \/ Work \/ \E t \in Tasks : Attempt(t)

Spec == Init /\ [][Next]_vars

\* The scheduler starts what can be started, and an attempt ends: if by
\* nothing else, by its execution_timeout.
FairSpec == Spec /\ WF_vars(Work \/ \E t \in Tasks : Attempt(t))

-----------------------------------------------------------------------------

\* Type correctness.
PortfolioTypeOK ==
    /\ warehouse \in [version : 1 .. MaxVersion, fresh : BOOLEAN, full : BOOLEAN]
    /\ marts \in [Models -> [version : 0 .. MaxVersion, run : 0 .. run]]
    /\ tested \in {NoMarts, marts}
    /\ task \in [Tasks -> [state : Ended \cup {"waiting", "running", "half"},
                           tries : 0 .. Retries + 1]]
    /\ checked \in [Checks -> 0 .. warehouse.version]

\* The gates hold for the audit: at the time of an audit record the marts
\* in service are the very ones that passed the tests of its run, all of them built in
\* that run, from a warehouse no older than the one the checks accepted.
AuditedMartsWereTested ==
    \A i \in 1 .. Len(audit) : \A model \in Models :
        LET served == audit[i].served[model] IN
        /\ audit[i].tested = audit[i].served
        /\ served.run = audit[i].run /\ served.version \in sound
        /\ \A t \in Checks : audit[i].checked[t] \in 1 .. served.version

\* Every run ends: retries and tasks behind a failed one do not go on for ever.
RunsEnd == ~ Over ~> Over
=============================================================================
