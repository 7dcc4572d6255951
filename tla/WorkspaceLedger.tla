--------------------------- MODULE WorkspaceLedger ---------------------------
(***************************************************************************)
(* The warehouse implements the ledger: its deliveries, facts and replays  *)
(* are a way to carry every event from waiting to loaded at most once.     *)
(***************************************************************************)
EXTENDS Workspace

\* Sequence numbers of the generator.  Every delivery of a new event takes a row,
\* so no more than MaxEvents are ever drawn.
EventNumbers == 1..MaxEvents

\* Where an event stands.  A loaded event may have suppressed deliveries pending
\* beside it, and a replayed one keeps its defective delivery.
PhaseOf(w, e) ==
    LET Delivered(statuses) ==
            \E i \in WithStatus(w, statuses) : w.deliveries[i].event = e
    IN  CASE e \in Loaded(w) -> "loaded"
          [] e \notin Loaded(w) /\ Delivered({"quarantined"}) -> "held"
          [] e \notin Loaded(w) /\ ~Delivered({"quarantined"})
               /\ Delivered({"pending"}) -> "waiting"
          [] OTHER -> "unseen"

PhasesOf(w) == [e \in EventNumbers |-> PhaseOf(w, e)]

Ledger == INSTANCE EventLedger WITH
            Events <- EventNumbers, Sample <- PhasesOf(Seeded), phase <- PhasesOf(db)

\* Every request is a step of the ledger or no step of it at all.
ImplementsLedger == Ledger!Spec
=============================================================================
