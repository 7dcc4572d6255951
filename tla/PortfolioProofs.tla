-------------------------- MODULE PortfolioProofs ---------------------------
(***************************************************************************)
(* What an audit record of DailyPortfolio vouches for, for every number of *)
(* runs, retries, lost reports and versions of the warehouse.              *)
(*                                                                         *)
(* That the audited marts were tested is not inductive: it rests on the    *)
(* order of the tasks (Order), on what the tasks that have succeeded left  *)
(* behind (Gates), and on nobody touching that before the audit.           *)
(***************************************************************************)
EXTENDS DailyPortfolio, TLAPS

States == Ended \cup {"waiting", "running", "half"}
Underway == {"running", "half", "success"}

Records == [run : Nat, checked : [Checks -> 0 .. MaxVersion],
            tested : [Models -> [version : 0 .. MaxVersion, run : Nat]],
            served : [Models -> [version : 0 .. MaxVersion, run : Nat]]]

\* What each variable holds.  A waiting task has a try left.
Types ==
    /\ warehouse \in [version : 1 .. MaxVersion, fresh : BOOLEAN, full : BOOLEAN]
    /\ run \in Nat
    /\ marts \in [Models -> [version : 0 .. MaxVersion, run : 0 .. run]]
    /\ tested \in [Models -> [version : 0 .. MaxVersion, run : 0 .. run]]
    /\ task \in [Tasks -> [state : States, tries : 0 .. Retries + 1]]
    /\ \A t \in Tasks : task[t].state = "waiting" => task[t].tries <= Retries
    /\ checked \in [Checks -> 0 .. warehouse.version]
    /\ audit \in Seq(Records)

\* A task is tried only behind tasks that succeeded; before the first run all have.
Order ==
    /\ \A t \in Tasks : \A u \in Upstream(t) :
           task[t].state \in Underway => task[u].state = "success"
    /\ run = 0 => \A t \in Tasks : task[t].state = "success"

\* A mart built in this run, from a warehouse no older than the checks accepted.
Current(model) ==
    /\ marts[model].run = run
    /\ \A t \in Checks : checked[t] \in 1 .. marts[model].version

\* What a successful check, half a build, a build and a test leave behind.
Gates == run > 0 =>
    /\ \A t \in Checks : task[t].state = "success" => checked[t] \in 1 .. warehouse.version
    /\ task["build"].state = "half" => Current("facts")
    /\ task["build"].state = "success" => \A model \in Models : Current(model)
    /\ task["test"].state = "success" =>
           tested = marts /\ \A model \in Models : marts[model].version \in sound

\* Tests are remembered only behind a build that succeeded.
Fresh == tested = NoMarts \/ (tested = marts /\ task["build"].state = "success")

Inv == Types /\ Order /\ Gates /\ Fresh /\ AuditedMartsWereTested

-----------------------------------------------------------------------------
(* Steps of one task.                                                      *)

\* A state of the run changes at most one task, and none that has succeeded.
Moves(t, states) ==
    /\ t \in Tasks /\ task[t].state \notin {"success", "failed", "upstream_failed"}
    /\ \E state \in states : /\ task'[t].state = state
                             /\ task' = [task EXCEPT ![t] = task'[t]]

\* The tasks are seven, and their predecessors are tasks.
LEMMA TaskNames ==
    /\ Checks \subseteq Tasks
    /\ {"build", "test", "manifest", "audit", "analyze"} \subseteq Tasks
    /\ \A t \in Tasks : Upstream(t) \subseteq Tasks /\ t \notin Upstream(t)
    /\ Upstream("build") = Checks /\ Upstream("test") = {"build"}
    /\ Upstream("manifest") = {"test"} /\ Upstream("audit") = {"manifest"}
BY DEF Tasks, Checks, Upstream

\* A failed attempt leaves its task waiting or failed.
LEMMA AfterFailureStates ==
    ASSUME NEW t \in Tasks
    PROVE  /\ AfterFailure(t) \in {"waiting", "failed"}
           /\ AfterFailure(t) = "waiting" => task[t].tries <= Retries
BY DEF AfterFailure

\* Report moves its task to success, or back to waiting or to failed.
LEMMA ReportMoves ==
    ASSUME Types, NEW t \in Tasks, Report(t), task[t].state \in {"running", "half"}
    PROVE  /\ Moves(t, {"success", "waiting", "failed"})
           /\ task' \in [Tasks -> [state : States, tries : 0 .. Retries + 1]]
           /\ task'[t].tries = task[t].tries
           /\ task'[t].state = "waiting" => task[t].tries <= Retries
<1>1. task \in [Tasks -> [state : States, tries : 0 .. Retries + 1]]
  BY DEF Types
<1>2. PICK s \in {"success", "waiting", "failed"} :
          /\ task' = State(t, s)
          /\ s = "waiting" => task[t].tries <= Retries
  BY AfterFailureStates DEF Report
<1>3. /\ task'[t] = [task[t] EXCEPT !.state = s]
      /\ task' = [task EXCEPT ![t] = task'[t]]
  BY <1>1, <1>2 DEF State
<1>4. task'[t].state = s /\ task'[t].tries = task[t].tries
  BY <1>1, <1>3
<1>5. s \in States
  BY <1>2 DEF States, Ended
<1>6. task'[t] \in [state : States, tries : 0 .. Retries + 1]
  BY <1>1, <1>3, <1>5
<1>7. QED
  BY <1>1, <1>2, <1>3, <1>4, <1>6 DEF Moves

\* So the order of the tasks is kept by a task that is under way.
LEMMA MovesOrder ==
    ASSUME Types, Order, NEW t \in Tasks, UNCHANGED run,
           Moves(t, {"success", "waiting", "failed", "half"}),
           task[t].state \in {"running", "half"}
    PROVE  Order'
<1> USE TaskNames
<1>1. task \in [Tasks -> [state : States, tries : 0 .. Retries + 1]]
  BY DEF Types
<1>2. \A u \in Tasks : u # t => task'[u] = task[u]
  BY <1>1 DEF Moves
<1>3. \A u \in Upstream(t) : task[u].state = "success"
  BY DEF Order, Underway
<1>4. ASSUME NEW s \in Tasks, NEW u \in Upstream(s), task'[s].state \in Underway
      PROVE  task'[u].state = "success"
  <2>1. task[s].state \in Underway
    BY <1>2, <1>4 DEF Underway
  <2>2. task[u].state = "success"
    BY <2>1 DEF Order
  <2>3. u # t /\ u \in Tasks
    BY <2>2
  <2> QED
    BY <1>2, <2>2, <2>3
<1>5. run # 0
  BY DEF Order
<1> QED
  BY <1>4, <1>5 DEF Order

-----------------------------------------------------------------------------

\* The first state satisfies the invariant.
LEMMA InvInit == Init => Inv
<1> SUFFICES ASSUME Init PROVE Inv
  OBVIOUS
<1>1. warehouse \in [version : 1 .. MaxVersion, fresh : BOOLEAN, full : BOOLEAN]
  BY PortfolioAssumption DEF Init
<1>2. NoMarts \in [Models -> [version : 0 .. MaxVersion, run : 0 .. 0]]
  BY PortfolioAssumption DEF NoMarts, Built
<1>3. task \in [Tasks -> [state : States, tries : 0 .. Retries + 1]]
  BY PortfolioAssumption DEF Init, States, Ended
<1>4. \A t \in Tasks : task[t].state = "success"
  BY DEF Init
<1>5. Types
  BY <1>1, <1>2, <1>3, <1>4 DEF Types, Init
<1>6. Order
  BY <1>4, TaskNames DEF Order
<1>7. Gates /\ Fresh /\ AuditedMartsWereTested
  BY DEF Init, Gates, Fresh, AuditedMartsWereTested
<1> QED
  BY <1>5, <1>6, <1>7 DEF Inv

\* The warehouse moves on: what was checked is older than before.
LEMMA StreamInv == Inv /\ Stream => Inv'
<1> SUFFICES ASSUME Inv, Stream PROVE Inv'
  OBVIOUS
<1> USE DEF Inv
<1>1. /\ warehouse' \in [version : 1 .. MaxVersion, fresh : BOOLEAN, full : BOOLEAN]
      /\ warehouse.version < warehouse'.version
  BY PortfolioAssumption DEF Stream, Types
<1>2. checked' \in [Checks -> 0 .. warehouse'.version]
  BY <1>1 DEF Stream, Types
<1>3. Types'
  BY <1>1, <1>2 DEF Stream, Types
<1>4. Order' /\ Fresh' /\ AuditedMartsWereTested'
  BY DEF Stream, Order, Fresh, AuditedMartsWereTested
<1>5. ASSUME NEW t \in Checks, checked[t] \in 1 .. warehouse.version
      PROVE  checked[t] \in 1 .. warehouse'.version
  BY <1>1, <1>5 DEF Types
<1>6. Gates'
  BY <1>5 DEF Stream, Gates, Current
<1> QED
  BY <1>3, <1>4, <1>6

\* A new run starts with nothing checked and nothing tested.
LEMMA TriggerInv == Inv /\ Trigger => Inv'
<1> SUFFICES ASSUME Inv, Trigger PROVE Inv'
  OBVIOUS
<1> USE DEF Inv
<1>1. task' = [t \in Tasks |-> Waiting] /\ run' = run + 1 /\ run' # 0 /\ run' \in Nat
  BY DEF Trigger, Types
<1>2. task' \in [Tasks -> [state : States, tries : 0 .. Retries + 1]]
  BY <1>1, PortfolioAssumption DEF Waiting, States
<1>3. \A t \in Tasks : task'[t].state = "waiting" /\ task'[t].tries = 0
  BY <1>1 DEF Waiting
<1>4. 0 .. run \subseteq 0 .. run'
  BY <1>1 DEF Types
<1>5. NoMarts \in [Models -> [version : 0 .. MaxVersion, run : 0 .. run']]
  BY <1>1, PortfolioAssumption DEF NoMarts, Built
<1>6. marts' \in [Models -> [version : 0 .. MaxVersion, run : 0 .. run']]
  <2>1. marts' = marts /\ marts \in [Models -> [version : 0 .. MaxVersion, run : 0 .. run]]
    BY DEF Trigger, Types
  <2> QED
    BY <1>4, <2>1
<1>7. checked' \in [Checks -> 0 .. warehouse.version]
  BY DEF Trigger, Types
<1>8. Types'
  BY <1>1, <1>2, <1>3, <1>5, <1>6, <1>7, PortfolioAssumption DEF Trigger, Types
<1>9. Order' /\ Gates' /\ Fresh'
  BY <1>1, <1>3, TaskNames DEF Trigger, Order, Gates, Fresh, Underway
<1>10. AuditedMartsWereTested'
  BY DEF Trigger, AuditedMartsWereTested
<1> QED
  BY <1>8, <1>9, <1>10

\* A task is started behind tasks that have succeeded.
LEMMA StartTaskInv == Inv /\ (\E t \in Tasks : StartTask(t)) => Inv'
<1> SUFFICES ASSUME Inv, NEW t \in Tasks, StartTask(t) PROVE Inv'
  OBVIOUS
<1> USE TaskNames DEF Inv
<1>1. task \in [Tasks -> [state : States, tries : 0 .. Retries + 1]]
  BY DEF Types
<1>2. /\ task'[t] = [state |-> "running", tries |-> task[t].tries + 1]
      /\ \A u \in Tasks : u # t => task'[u] = task[u]
      /\ task[t].state = "waiting"
  BY <1>1 DEF StartTask
<1>3. task[t].tries \in 0 .. Retries
  BY <1>1, <1>2 DEF Types
<1>4. task'[t] \in [state : States, tries : 0 .. Retries + 1]
  BY <1>2, <1>3, PortfolioAssumption DEF States
<1>5. task' \in [Tasks -> [state : States, tries : 0 .. Retries + 1]]
  BY <1>1, <1>4 DEF StartTask
<1>6. Types'
  BY <1>2, <1>5 DEF Types, StartTask
<1>7. Order'
  <2>1. ASSUME NEW s \in Tasks, NEW u \in Upstream(s), task'[s].state \in Underway
        PROVE  task'[u].state = "success"
    <3>1. task[u].state = "success"
      BY <1>2, <2>1 DEF Order, StartTask
    <3> QED
      BY <1>2, <3>1
  <2> QED
    BY <1>2, <2>1 DEF Order, StartTask
<1>8. Gates' /\ Fresh' /\ AuditedMartsWereTested'
  BY <1>2 DEF StartTask, Gates, Fresh, Current, AuditedMartsWereTested
<1> QED
  BY <1>6, <1>7, <1>8

\* A task behind a failed one is given up: nothing behind it is under way.
LEMMA GiveUpInv == Inv /\ (\E t \in Tasks : GiveUp(t)) => Inv'
<1> SUFFICES ASSUME Inv, NEW t \in Tasks, GiveUp(t) PROVE Inv'
  OBVIOUS
<1> USE TaskNames DEF Inv
<1>1. task \in [Tasks -> [state : States, tries : 0 .. Retries + 1]]
  BY DEF Types
<1>2. /\ task'[t] = [state |-> "upstream_failed", tries |-> task[t].tries]
      /\ \A u \in Tasks : u # t => task'[u] = task[u]
      /\ task[t].state = "waiting"
  BY <1>1 DEF GiveUp, State
<1>3. task'[t] \in [state : States, tries : 0 .. Retries + 1]
  BY <1>1, <1>2 DEF States, Ended
<1>4. task' \in [Tasks -> [state : States, tries : 0 .. Retries + 1]]
  BY <1>1, <1>3 DEF GiveUp, State
<1>5. Types'
  <2>1. \A u \in Tasks : task'[u].state = "waiting" => task'[u].tries <= Retries
    <3>1. \A u \in Tasks : task[u].state = "waiting" => task[u].tries <= Retries
      BY DEF Types
    <3>2. task'[t].state = "waiting" => task'[t].tries <= Retries
      BY <1>2
    <3> QED
      BY <1>2, <3>1, <3>2
  <2> QED
    BY <1>4, <2>1 DEF Types, GiveUp
<1>6. Order'
  BY <1>2 DEF Order, GiveUp, Underway
<1>7. Gates' /\ Fresh' /\ AuditedMartsWereTested'
  BY <1>2 DEF GiveUp, Gates, Fresh, Current, AuditedMartsWereTested
<1> QED
  BY <1>5, <1>6, <1>7

\* An attempt fails: the task waits for its next try, or has failed.
LEMMA FailTaskInv == Inv /\ (\E t \in Tasks : FailTask(t)) => Inv'
<1> SUFFICES ASSUME Inv, NEW t \in Tasks, FailTask(t) PROVE Inv'
  OBVIOUS
<1> USE TaskNames DEF Inv
<1>1. task \in [Tasks -> [state : States, tries : 0 .. Retries + 1]]
  BY DEF Types
<1>2. /\ task'[t] = [state |-> AfterFailure(t), tries |-> task[t].tries]
      /\ \A u \in Tasks : u # t => task'[u] = task[u]
      /\ task[t].state \in {"running", "half"}
  BY <1>1 DEF FailTask, State
<1>3. /\ AfterFailure(t) \in {"waiting", "failed"}
      /\ AfterFailure(t) = "waiting" => task[t].tries <= Retries
  BY AfterFailureStates
<1>4. task'[t] \in [state : States, tries : 0 .. Retries + 1]
  BY <1>1, <1>2, <1>3 DEF States, Ended
<1>5. task' \in [Tasks -> [state : States, tries : 0 .. Retries + 1]]
  BY <1>1, <1>4 DEF FailTask, State
<1>6. Types'
  <2>1. \A u \in Tasks : task'[u].state = "waiting" => task'[u].tries <= Retries
    <3>1. \A u \in Tasks : task[u].state = "waiting" => task[u].tries <= Retries
      BY DEF Types
    <3>2. task'[t].state = "waiting" => task'[t].tries <= Retries
      BY <1>2, <1>3
    <3> QED
      BY <1>2, <3>1, <3>2
  <2> QED
    BY <1>5, <2>1 DEF Types, FailTask
<1>7. Order'
  <2>1. Moves(t, {"waiting", "failed"})
    BY <1>1, <1>2, <1>3 DEF FailTask, State, Moves
  <2>2. Moves(t, {"success", "waiting", "failed", "half"})
    BY <2>1 DEF Moves
  <2> QED
    BY <1>2, <2>2, MovesOrder DEF FailTask
<1>8. Gates' /\ Fresh' /\ AuditedMartsWereTested'
  BY <1>2, <1>3 DEF FailTask, Gates, Fresh, Current, AuditedMartsWereTested
<1> QED
  BY <1>6, <1>7, <1>8

\* A check accepts the present version.  The build has not begun.
LEMMA CheckInv == Inv /\ (\E t \in Checks : Check(t)) => Inv'
<1> SUFFICES ASSUME Inv, NEW t \in Checks, Check(t) PROVE Inv'
  OBVIOUS
<1> USE TaskNames DEF Inv
<1>1. t \in Tasks /\ task[t].state = "running" /\ Report(t)
  BY DEF Check
<1>2. /\ Moves(t, {"success", "waiting", "failed"})
      /\ task' \in [Tasks -> [state : States, tries : 0 .. Retries + 1]]
      /\ task'[t].tries = task[t].tries
      /\ task'[t].state = "waiting" => task[t].tries <= Retries
  BY <1>1, ReportMoves
<1>3. \A u \in Tasks : u # t => task'[u] = task[u]
  BY <1>2 DEF Moves, Types
<1>4. /\ checked' = [checked EXCEPT ![t] = warehouse.version]
      /\ warehouse.version \in 1 .. MaxVersion
      /\ checked' \in [Checks -> 0 .. warehouse.version]
  BY DEF Check, Types
<1>5. Types'
  BY <1>2, <1>3, <1>4 DEF Types, Check
<1>6. Order'
  <2>1. Moves(t, {"success", "waiting", "failed", "half"})
    BY <1>2 DEF Moves
  <2> QED
    BY <1>1, <2>1, MovesOrder DEF Check
<1>7. task["build"].state \notin Underway /\ task["test"].state \notin Underway
  <2>1. task["build"].state \notin Underway
    BY <1>1 DEF Order
  <2> QED
    BY <2>1 DEF Order, Underway
<1>8. "build" # t /\ "test" # t
  BY DEF Checks
<1>9. Gates'
  <2>1. ASSUME NEW u \in Checks, task'[u].state = "success", run > 0
        PROVE  checked'[u] \in 1 .. warehouse.version
    <3>1. CASE u = t
      BY <1>4, <3>1 DEF Types
    <3>2. CASE u # t
      BY <1>3, <1>4, <2>1, <3>2 DEF Gates, Types
    <3> QED
      BY <3>1, <3>2
  <2> QED
    BY <1>3, <1>7, <1>8, <2>1 DEF Gates, Underway, Check
<1>10. Fresh'
  BY <1>3, <1>7, <1>8 DEF Fresh, Underway, Check
<1>11. AuditedMartsWereTested'
  BY DEF AuditedMartsWereTested, Check
<1> QED
  BY <1>5, <1>6, <1>9, <1>10, <1>11

\* The first mart is replaced, from a warehouse no older than the checks.
LEMMA BuildFactsInv == Inv /\ BuildFacts => Inv'
<1> SUFFICES ASSUME Inv, BuildFacts PROVE Inv'
  OBVIOUS
<1> USE TaskNames DEF Inv
<1>1. task \in [Tasks -> [state : States, tries : 0 .. Retries + 1]]
  BY DEF Types
<1>2. /\ task'["build"] = [state |-> "half", tries |-> task["build"].tries]
      /\ \A u \in Tasks : u # "build" => task'[u] = task[u]
      /\ task["build"].state = "running"
  BY <1>1 DEF BuildFacts, State
<1>3. task'["build"] \in [state : States, tries : 0 .. Retries + 1]
  BY <1>1, <1>2 DEF States
<1>4. task' \in [Tasks -> [state : States, tries : 0 .. Retries + 1]]
  BY <1>1, <1>3 DEF BuildFacts, State
<1>5. /\ marts' = [marts EXCEPT !["facts"] = Built(warehouse.version, run)]
      /\ warehouse.version \in 1 .. MaxVersion /\ run \in Nat
      /\ Built(warehouse.version, run) \in [version : 0 .. MaxVersion, run : 0 .. run]
  BY DEF BuildFacts, Types, Built
<1>6. marts' \in [Models -> [version : 0 .. MaxVersion, run : 0 .. run]]
  BY <1>5 DEF Types
<1>7. Types'
  <2>1. \A u \in Tasks : task'[u].state = "waiting" => task'[u].tries <= Retries
    <3>1. \A u \in Tasks : task[u].state = "waiting" => task[u].tries <= Retries
      BY DEF Types
    <3>2. task'["build"].state = "waiting" => task'["build"].tries <= Retries
      BY <1>2
    <3> QED
      BY <1>2, <3>1, <3>2
  <2> QED
    BY <1>4, <1>6, <2>1 DEF Types, BuildFacts
<1>8. Order'
  <2>1. Moves("build", {"success", "waiting", "failed", "half"})
    BY <1>1, <1>2 DEF BuildFacts, State, Moves
  <2> QED
    BY <1>2, <2>1, MovesOrder DEF BuildFacts
<1>9. \A t \in Checks : task[t].state = "success" /\ t # "build"
  BY <1>2 DEF Order, Underway, Checks
<1>10. task["test"].state \notin Underway
  BY <1>2 DEF Order
<1>11. marts'["facts"] = Built(warehouse.version, run)
  BY <1>5 DEF Types, Models
<1>12. run > 0 => Current("facts")'
  BY <1>9, <1>11 DEF Gates, Current, Built, BuildFacts
<1>13. Gates'
  BY <1>2, <1>9, <1>10, <1>12 DEF Gates, Underway, BuildFacts
<1>14. Fresh'
  BY <1>2 DEF Fresh, BuildFacts
<1>15. AuditedMartsWereTested'
  BY DEF AuditedMartsWereTested, BuildFacts
<1> QED
  BY <1>7, <1>8, <1>13, <1>14, <1>15

\* The other marts follow, from a warehouse at least as new.
LEMMA BuildDerivedInv == Inv /\ BuildDerived => Inv'
<1> SUFFICES ASSUME Inv, BuildDerived PROVE Inv'
  OBVIOUS
<1> USE TaskNames DEF Inv
<1>1. task["build"].state = "half" /\ Report("build")
  BY DEF BuildDerived
<1>2. /\ Moves("build", {"success", "waiting", "failed"})
      /\ task' \in [Tasks -> [state : States, tries : 0 .. Retries + 1]]
      /\ task'["build"].tries = task["build"].tries
      /\ task'["build"].state = "waiting" => task["build"].tries <= Retries
  BY <1>1, ReportMoves
<1>3. \A u \in Tasks : u # "build" => task'[u] = task[u]
  BY <1>2 DEF Moves, Types
<1>4. /\ marts' = [marts EXCEPT !["derived"] = Built(warehouse.version, run)]
      /\ warehouse.version \in 1 .. MaxVersion /\ run \in Nat
      /\ Built(warehouse.version, run) \in [version : 0 .. MaxVersion, run : 0 .. run]
  BY DEF BuildDerived, Types, Built
<1>5. marts' \in [Models -> [version : 0 .. MaxVersion, run : 0 .. run]]
  BY <1>4 DEF Types
<1>6. Types'
  BY <1>2, <1>3, <1>5 DEF Types, BuildDerived
<1>7. Order'
  <2>1. Moves("build", {"success", "waiting", "failed", "half"})
    BY <1>2 DEF Moves
  <2> QED
    BY <1>1, <2>1, MovesOrder DEF BuildDerived
<1>8. \A t \in Checks : task[t].state = "success" /\ t # "build"
  BY <1>1 DEF Order, Underway, Checks
<1>9. task["test"].state \notin Underway
  BY <1>1 DEF Order, Underway
<1>10. marts'["derived"] = Built(warehouse.version, run) /\ marts'["facts"] = marts["facts"]
  BY <1>4 DEF Types, Models
<1>11. run > 0 => \A model \in Models : Current(model)'
  BY <1>1, <1>8, <1>10 DEF Gates, Current, Built, BuildDerived, Models
<1>12. task'["build"].state # "half"
  BY <1>2 DEF Moves
<1>13. Gates'
  BY <1>3, <1>8, <1>9, <1>11, <1>12 DEF Gates, Underway, BuildDerived
<1>14. Fresh'
  BY <1>1 DEF Fresh, BuildDerived
<1>15. AuditedMartsWereTested'
  BY DEF AuditedMartsWereTested, BuildDerived
<1> QED
  BY <1>6, <1>7, <1>13, <1>14, <1>15

\* The tests accept the marts in service.
LEMMA TestInv == Inv /\ Test => Inv'
<1> SUFFICES ASSUME Inv, Test PROVE Inv'
  OBVIOUS
<1> USE TaskNames DEF Inv
<1>1. task["test"].state = "running" /\ Report("test")
  BY DEF Test
<1>2. /\ Moves("test", {"success", "waiting", "failed"})
      /\ task' \in [Tasks -> [state : States, tries : 0 .. Retries + 1]]
      /\ task'["test"].tries = task["test"].tries
      /\ task'["test"].state = "waiting" => task["test"].tries <= Retries
  BY <1>1, ReportMoves
<1>3. \A u \in Tasks : u # "test" => task'[u] = task[u]
  BY <1>2 DEF Moves, Types
<1>4. Types'
  BY <1>2, <1>3 DEF Types, Test
<1>5. Order'
  <2>1. Moves("test", {"success", "waiting", "failed", "half"})
    BY <1>2 DEF Moves
  <2> QED
    BY <1>1, <2>1, MovesOrder DEF Test
<1>6. "test" \notin Checks /\ "test" # "build"
  BY DEF Checks
<1>7. tested' = marts' /\ \A model \in Models : marts[model].version \in sound
  BY DEF Test
<1>8. Gates'
  BY <1>3, <1>6, <1>7 DEF Gates, Current, Test
<1>9. task'["build"].state = "success"
  BY <1>1, <1>3, <1>6 DEF Order, Underway
<1>10. Fresh' /\ AuditedMartsWereTested'
  BY <1>7, <1>9 DEF Fresh, AuditedMartsWereTested, Test
<1> QED
  BY <1>4, <1>5, <1>8, <1>10

\* Manifest and maintenance change no data.
LEMMA QuietlyInv == Inv /\ (\E t \in Tasks : Quietly(t)) => Inv'
<1> SUFFICES ASSUME Inv, NEW t \in Tasks, Quietly(t) PROVE Inv'
  OBVIOUS
<1> USE TaskNames DEF Inv
<1>1. task[t].state = "running" /\ Report(t) /\ t \in {"manifest", "analyze"}
  BY DEF Quietly
<1>2. /\ Moves(t, {"success", "waiting", "failed"})
      /\ task' \in [Tasks -> [state : States, tries : 0 .. Retries + 1]]
      /\ task'[t].tries = task[t].tries
      /\ task'[t].state = "waiting" => task[t].tries <= Retries
  BY <1>1, ReportMoves
<1>3. \A u \in Tasks : u # t => task'[u] = task[u]
  BY <1>2 DEF Moves, Types
<1>4. Types'
  BY <1>2, <1>3 DEF Types, Quietly
<1>5. Order'
  <2>1. Moves(t, {"success", "waiting", "failed", "half"})
    BY <1>2 DEF Moves
  <2> QED
    BY <1>1, <2>1, MovesOrder DEF Quietly
<1>6. t \notin Checks /\ t # "build" /\ t # "test"
  BY <1>1 DEF Checks
<1>7. Gates' /\ Fresh' /\ AuditedMartsWereTested'
  BY <1>3, <1>6 DEF Gates, Fresh, Current, AuditedMartsWereTested, Quietly
<1> QED
  BY <1>4, <1>5, <1>7

\* The audit: everything before it has succeeded, so its record is true.
LEMMA PublishInv == Inv /\ Publish => Inv'
<1> SUFFICES ASSUME Inv, Publish PROVE Inv'
  OBVIOUS
<1> USE TaskNames DEF Inv
<1> DEFINE record == [run |-> run, checked |-> checked, tested |-> tested, served |-> marts]
<1>1. task["audit"].state = "running" /\ Report("audit") /\ audit' = Append(audit, record)
  BY DEF Publish
<1>2. /\ Moves("audit", {"success", "waiting", "failed"})
      /\ task' \in [Tasks -> [state : States, tries : 0 .. Retries + 1]]
      /\ task'["audit"].tries = task["audit"].tries
      /\ task'["audit"].state = "waiting" => task["audit"].tries <= Retries
  BY <1>1, ReportMoves
<1>3. \A u \in Tasks : u # "audit" => task'[u] = task[u]
  BY <1>2 DEF Moves, Types
<1>4. \A t \in Checks \cup {"build", "test", "manifest"} : task[t].state = "success"
  <2>1. task["manifest"].state = "success"
    BY <1>1 DEF Order, Underway
  <2>2. task["test"].state = "success"
    BY <2>1 DEF Order, Underway
  <2>3. task["build"].state = "success"
    BY <2>2 DEF Order, Underway
  <2>4. \A t \in Checks : task[t].state = "success"
    BY <2>3 DEF Order, Underway
  <2> QED
    BY <2>1, <2>2, <2>3, <2>4
<1>5. run > 0
  BY <1>1 DEF Order, Types
<1>6. /\ tested = marts
      /\ \A model \in Models : marts[model].version \in sound /\ Current(model)
  BY <1>4, <1>5 DEF Gates
<1>7. record \in Records
  <2>1. 0 .. warehouse.version \subseteq 0 .. MaxVersion /\ 0 .. run \subseteq Nat
    <3>1. warehouse.version \in 1 .. MaxVersion /\ run \in Nat
      BY DEF Types
    <3> QED
      BY <3>1, PortfolioAssumption
  <2>2. checked \in [Checks -> 0 .. MaxVersion]
    BY <2>1 DEF Types
  <2>3. marts \in [Models -> [version : 0 .. MaxVersion, run : Nat]]
    <3>1. marts \in [Models -> [version : 0 .. MaxVersion, run : 0 .. run]]
      BY DEF Types
    <3> QED
      BY <2>1, <3>1
  <2> QED
    BY <1>6, <2>2, <2>3 DEF Types, Records
<1>8. Types'
  <2>1. audit' \in Seq(Records)
    BY <1>1, <1>7 DEF Types
  <2>2. \A u \in Tasks : task'[u].state = "waiting" => task'[u].tries <= Retries
    BY <1>2, <1>3 DEF Types
  <2> QED
    BY <1>2, <2>1, <2>2 DEF Types, Publish
<1>9. Order'
  <2>1. Moves("audit", {"success", "waiting", "failed", "half"})
    BY <1>2 DEF Moves
  <2> QED
    BY <1>1, <2>1, MovesOrder DEF Publish
<1>10. "audit" \notin Checks /\ "audit" # "build" /\ "audit" # "test"
  BY DEF Checks
<1>11. Gates' /\ Fresh'
  BY <1>3, <1>10 DEF Gates, Fresh, Current, Publish
<1>12. AuditedMartsWereTested'
  <2> SUFFICES ASSUME NEW i \in 1 .. Len(audit'), NEW model \in Models
               PROVE  LET served == audit'[i].served[model] IN
                      /\ audit'[i].tested = audit'[i].served
                      /\ served.run = audit'[i].run /\ served.version \in sound'
                      /\ \A t \in Checks : audit'[i].checked[t] \in 1 .. served.version
    BY DEF AuditedMartsWereTested
  <2>1. sound' = sound
    BY DEF Publish
  <2>2. CASE i \in 1 .. Len(audit)
    <3>1. audit'[i] = audit[i]
      BY <1>1, <1>7, <2>2 DEF Types
    <3> QED
      BY <2>1, <2>2, <3>1 DEF AuditedMartsWereTested
  <2>3. CASE i = Len(audit) + 1
    <3>1. audit'[i] = record
      BY <1>1, <1>7, <2>3 DEF Types
    <3> QED
      BY <1>6, <2>1, <3>1 DEF Current
  <2>4. Len(audit') = Len(audit) + 1 /\ Len(audit) \in Nat
    BY <1>1, <1>7 DEF Types
  <2> HIDE DEF record
  <2> QED
    BY <2>2, <2>3, <2>4
<1> QED
  BY <1>8, <1>9, <1>11, <1>12

\* So every step keeps the invariant.
LEMMA InvNext == Inv /\ [Next]_vars => Inv'
<1> SUFFICES ASSUME Inv, [Next]_vars PROVE Inv'
  OBVIOUS
<1>1. CASE Stream
  BY <1>1, StreamInv
<1>2. CASE Trigger
  BY <1>2, TriggerInv
<1>3. CASE Work
  BY <1>3, CheckInv, BuildFactsInv, BuildDerivedInv, TestInv, PublishInv, QuietlyInv DEF Work
<1>4. CASE \E t \in Tasks : Attempt(t)
  BY <1>4, StartTaskInv, GiveUpInv, FailTaskInv DEF Attempt
<1>5. CASE UNCHANGED vars
  BY <1>5 DEF vars, Inv, Types, Order, Gates, Fresh, Current, AuditedMartsWereTested
<1> QED
  BY <1>1, <1>2, <1>3, <1>4, <1>5 DEF Next

-----------------------------------------------------------------------------

\* Whenever an audit record was written, the marts in service had passed the
\* tests of that very run and stood on data that both checks accepted, however
\* often tasks were retried, and whatever the stream loaded meanwhile.
THEOREM AuditsAreTrue == Spec => []AuditedMartsWereTested
<1>1. Inv => AuditedMartsWereTested
  BY DEF Inv
<1> QED
  BY <1>1, InvInit, InvNext, PTL DEF Spec

\* Type correctness: what warehouse, marts, tasks and checks hold.
THEOREM PortfolioTypes == Spec => []PortfolioTypeOK
<1>1. Inv => PortfolioTypeOK
  BY DEF Inv, Types, Fresh, PortfolioTypeOK, States
<1> QED
  BY <1>1, InvInit, InvNext, PTL DEF Spec
=============================================================================
