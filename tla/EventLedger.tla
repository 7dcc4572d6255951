----------------------------- MODULE EventLedger -----------------------------
(***************************************************************************)
(* What the warehouse promises about one event, whatever is delivered, how *)
(* often and in which order: it waits until a pipeline run settles it, the *)
(* run loads it or holds it back, an approval releases it, and once loaded *)
(* it stays loaded and is never loaded again.  Re-deliveries do not show.  *)
(***************************************************************************)
CONSTANTS
    Events,     \* the events a generator can draw
    Sample      \* the phase the sample workspace leaves each of them in

Phases == {"unseen", "waiting", "held", "loaded"}

VARIABLE phase

\* Some events move from one phase to another; the others stay.
Moving(from, to) ==
    /\ phase' \in [Events -> Phases]
    /\ \A e \in Events : phase'[e] # phase[e] => phase[e] \in from /\ phase'[e] \in to

Init == phase = Sample

\* A batch of new events.  (A batch of re-deliveries is a stuttering step.)
Offer == Moving({"unseen"}, {"waiting"})

\* One run settles everything that waits, and nothing else.
Settle == /\ Moving({"waiting"}, {"loaded", "held"})
          /\ \A e \in Events : phase'[e] # "waiting"

\* One approval releases one event, and touches nothing that waits beside it.
Release ==
    \E e \in Events : /\ phase[e] = "held"
                      /\ phase' = [phase EXCEPT ![e] = "loaded"]

Restart == phase' = Sample

Next == Offer \/ Settle \/ Release \/ Restart

Spec == Init /\ [][Next]_phase
=============================================================================
