---------------------------- MODULE LocalPipeline ----------------------------
(***************************************************************************)
(* The portable pipeline (src/finpulse/local_pipeline.py): run_local_demo() *)
(* clears the output directory, draws a story from the generator, and runs *)
(* it, with redeliveries and malformed records, through contract,          *)
(* deduplication and quality rules into a fresh database whose views are   *)
(* the marts.  The process may end anywhere, and is then started again.    *)
(*                                                                         *)
(* The numbers of events are also their order in time, since the           *)
(* generator's clock only moves forward.                                   *)
(***************************************************************************)
EXTENDS Generator, FiniteSets, FiniteSetsExt

CONSTANTS MaxRuns, MaxRecords           \* bounds on what is explored

ASSUME LocalAssumption == MaxRuns \in Nat /\ MaxRecords \in Nat

VARIABLES
    run,        \* number of the present run
    pc,
    story,      \* the events drawn for it, and the generator
    source,
    records,    \* the records read so far
    report,     \* the counters of QualityReport
    seen,       \* event ids met
    facts,      \* events loaded: event_fact, and the typed tables row by row
    disk        \* what each file of the output directory holds

vars == <<run, pc, story, source, records, report, seen, facts, disk>>

-----------------------------------------------------------------------------

Files == {"database", "bronze", "quarantine", "report", "summary", "lineage"}
Data == {"database", "bronze", "quarantine"}
Absent == [run |-> 0, whole |-> FALSE]
Part(r) == [run |-> r, whole |-> FALSE]
Whole(r) == [run |-> r, whole |-> TRUE]

\* A record delivers an event in a form that the contract and the rules accept,
\* accept with the freshness warning, or the rules refuse.  0: malformed.
Record(number, form) == [number |-> number, form |-> form]
Forms == {"fine", "late", "refused"}
Malformed == Record(0, "malformed")

NoReport == [received |-> 0, accepted |-> 0, quarantined |-> 0, duplicates |-> 0, late |-> 0]
Counting(counters) ==
    [name \in DOMAIN report |->
        report[name] + (IF name \in counters \cup {"received"} THEN 1 ELSE 0)]

-----------------------------------------------------------------------------
(* The marts: views over the loaded events.                                *)

Loaded(kinds) == {n \in facts : story[n].kind \in kinds}
Applications == {story[n].application : n \in Loaded({"application"})}
DecisionsOn(a) == {n \in Loaded({"approved", "not_approved"}) : story[n].application = a}

SlipFirstDecision(a) == IF DecisionsOn(a) = {} THEN "none" ELSE story[Min(DecisionsOn(a))].kind
\* The decision of mart_application_portfolio: the latest.
Decision(a) == IF DecisionsOn(a) = {} THEN "none" ELSE story[Max(DecisionsOn(a))].kind

RepaymentsOf(a) == {n \in Loaded({"repayment"}) : story[n].application = a}

\* mart_credit_funnel.
Funnel ==
    [applications |-> Cardinality(Applications),
     decisions |-> Cardinality({a \in Applications : Decision(a) # "none"}),
     approvals |-> Cardinality({a \in Applications : Decision(a) = "approved"}),
     loans_with_repayment |->
         Cardinality({story[n].application : n \in Loaded({"repayment"})})]

-----------------------------------------------------------------------------

Init ==
    /\ run = 0 /\ pc = "idle"
    /\ story = <<>> /\ source = NewGenerator /\ records = <<>>
    /\ report = NoReport /\ seen = {} /\ facts = {}
    /\ disk = [file \in Files |-> Absent]

SlipNotCleared == {}
\* What rmtree() has still to remove, in any order.
ToRemove == {file \in Files : disk[file] # Absent}

\* run_local_demo() is called.
Begin ==
    /\ pc = "idle" /\ run < MaxRuns
    /\ run' = run + 1 /\ pc' = "clearing"
    /\ story' = <<>> /\ source' = NewGenerator /\ records' = <<>>
    /\ report' = NoReport /\ seen' = {} /\ facts' = {}
    /\ UNCHANGED disk

Clear ==
    /\ pc = "clearing"
    /\ \E file \in ToRemove : disk' = [disk EXCEPT ![file] = Absent]
    /\ UNCHANGED <<run, pc, story, source, records, report, seen, facts>>

\* The database gets its schema, the files are opened.
Open ==
    /\ pc = "clearing" /\ ToRemove = {}
    /\ pc' = "reading"
    /\ disk' = [file \in Files |-> IF file \in Data THEN Part(run) ELSE disk[file]]
    /\ UNCHANGED <<run, story, source, records, report, seen, facts>>

SlipSeenWhenLoaded(record) ==
    IF record.number \in seen
    THEN /\ report' = Counting({"duplicates"}) /\ UNCHANGED <<seen, facts>>
    ELSE IF record.form = "refused"
         THEN /\ report' = Counting({"quarantined"}) /\ UNCHANGED <<seen, facts>>
         ELSE /\ report' = Counting({"accepted"} \cup (IF record.form = "late" THEN {"late"} ELSE {}))
              /\ seen' = seen \cup {record.number} /\ facts' = facts \cup {record.number}
\* A record that the contract accepts: deduplicated first, then judged.
Judge(record) ==
    /\ seen' = seen \cup {record.number}
    /\ \/ /\ record.number \in seen
          /\ report' = Counting({"duplicates"}) /\ UNCHANGED facts
       \/ /\ record.number \notin seen /\ record.form = "refused"
          /\ report' = Counting({"quarantined"}) /\ UNCHANGED facts
       \/ /\ record.number \notin seen /\ record.form # "refused"
          /\ report' = Counting({"accepted"} \cup (IF record.form = "late" THEN {"late"} ELSE {}))
          /\ facts' = facts \cup {record.number}

\* One iteration of the loop: the next event of the story, an earlier one
\* again, or a malformed record.
Read(record) ==
    /\ pc = "reading" /\ Len(records) < MaxRecords
    /\ records' = Append(records, record)
    /\ IF record = Malformed
       THEN report' = Counting({"quarantined"}) /\ UNCHANGED <<seen, facts>>
       ELSE Judge(record)
    /\ UNCHANGED <<run, pc, disk>>

ReadNext == \E e \in Draws(source), form \in Forms :
    /\ e.number <= MaxEvents
    /\ story' = Append(story, e) /\ source' = Drawn(source, e)
    /\ Read(Record(e.number, form))

ReadAgain == \E record \in {Malformed} \cup {Record(n, form) : n \in 1 .. Len(story), form \in Forms} :
    Read(record) /\ UNCHANGED <<story, source>>

\* The end of a run: commit, close the files, and three documents about it.
Stages == {[at |-> "reading", files |-> {"database"}, then |-> "committed"],
           [at |-> "committed", files |-> {"bronze", "quarantine"}, then |-> "closed"],
           [at |-> "closed", files |-> {"report"}, then |-> "reported"],
           [at |-> "reported", files |-> {"summary"}, then |-> "summarised"],
           [at |-> "summarised", files |-> {"lineage"}, then |-> "idle"]}

Finish == \E stage \in Stages :
    /\ pc = stage.at /\ pc' = stage.then
    /\ disk' = [file \in Files |-> IF file \in stage.files THEN Whole(run) ELSE disk[file]]
    /\ UNCHANGED <<run, story, source, records, report, seen, facts>>

\* The process ends; files keep what they hold.
Crash ==
    /\ pc # "idle"
    /\ pc' = "idle"
    /\ UNCHANGED <<run, story, source, records, report, seen, facts, disk>>

Next == Begin \/ Clear \/ Open \/ ReadNext \/ ReadAgain \/ Finish \/ Crash

Spec == Init /\ [][Next]_vars

-----------------------------------------------------------------------------

\* Type correctness.
LocalTypeOK ==
    /\ run \in 0 .. MaxRuns
    /\ pc \in {"idle", "clearing"} \cup {stage.at : stage \in Stages}
    /\ story \in Seq(Events) /\ Coherent(story) /\ source \in Generators
    /\ \A i \in 1 .. Len(records) :
           records[i] = Malformed \/ records[i] \in [number : 1 .. Len(story), form : Forms]
    /\ report \in [DOMAIN NoReport -> 0 .. MaxRecords]
    /\ seen \subseteq 1 .. Len(story) /\ facts \subseteq seen
    /\ disk \in [Files -> [run : 0 .. MaxRuns, whole : BOOLEAN]]

\* The reference: the first delivery that the contract accepts decides about
\* its event, whatever comes later.  In particular a delivery that the rules
\* refuse blocks a corrected one of the same run, unlike in the sandbox.  What
\* QualityReport and pipeline_runs count is that, and adds up.
FirstDeliveryDecides ==
    /\ facts = {n \in 1 .. Len(story) : \E i \in 1 .. Len(records) :
                   /\ records[i].number = n /\ records[i].form \in {"fine", "late"}
                   /\ \A j \in 1 .. i - 1 : records[j].number # n}
    /\ report.accepted = Cardinality(facts) /\ report.late <= report.accepted
    /\ report.received = Len(records)
    /\ report.received = report.accepted + report.quarantined + report.duplicates

\* Whatever run a crash cut short, reports never lie beside data of another run
\* or of a run that did not finish.
ArtifactsAgree ==
    \A document \in Files \ Data : disk[document] # Absent =>
        \A file \in Files : disk[file] # Absent => disk[file] = disk[document]

\* The marts agree with the story although decisions repeat, records arrive
\* again and some are refused: an application that was repaid but is not shown
\* as approved was decided again since an approval, or the rules refused the
\* approval; and no stage of the funnel passes the one before it, except
\* repaid loans, when the rules refused an application or an approval or one
\* was decided again.
MartsTellTheStory ==
    /\ \A a \in Applications :
           RepaymentsOf(a) # {} /\ Decision(a) # "approved" =>
               \E n \in seen :
                   /\ story[n].kind = "approved" /\ story[n].application = a
                   /\ n \in facts => \E later \in DecisionsOn(a) :
                                       later > n /\ story[later].kind = "not_approved"
    /\ Funnel.approvals <= Funnel.decisions /\ Funnel.decisions <= Funnel.applications
    /\ Funnel.loans_with_repayment > Funnel.approvals =>
           \E n \in seen :
               IF n \in facts THEN story[n].kind = "not_approved"
                              ELSE story[n].kind \in {"application", "approved"}
=============================================================================
