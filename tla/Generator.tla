------------------------------ MODULE Generator ------------------------------
(***************************************************************************)
(* The synthetic source (src/finpulse/generator.py): which event it may     *)
(* draw next, given what it has drawn before.  Which of these it draws is   *)
(* settled by the random seed; amounts, scores, devices, countries and     *)
(* times are left out.  GSM, mobile-money and device events are one kind.   *)
(***************************************************************************)
EXTENDS Naturals, Sequences

CONSTANTS
    MinCustomers,   \* registered before anything else is drawn (25)
    MaxCustomers, MaxEvents         \* bounds on what is explored

ASSUME GeneratorAssumption ==
    MinCustomers \in Nat \ {0} /\ MaxCustomers \in Nat /\ MaxEvents \in Nat

Kinds == {"registered", "activity", "application", "approved", "not_approved", "repayment"}
Customers == 1 .. MaxCustomers

\* An event is known by its number, the sequence in uuid5(seed:sequence:type);
\* an application by the number of the event that made it.  0: none.
Event(number, kind, customer, application) ==
    [number |-> number, kind |-> kind, customer |-> customer, application |-> application]
Events == [number : 1 .. MaxEvents, kind : Kinds, customer : Customers,
           application : 0 .. MaxEvents]

\* The generator remembers its customers, in order of registration, and the
\* applications and approved applications of each.
Generators == [sequence : 0 .. MaxEvents, customers : 0 .. MaxCustomers,
               applications : SUBSET (Customers \X (1 .. MaxEvents)),
               approved : SUBSET (Customers \X (1 .. MaxEvents))]
NewGenerator == [sequence |-> 0, customers |-> 0, applications |-> {}, approved |-> {}]

\* A decision on any application of the customer, however often decided before.
Decisions(g, number) ==
    {Event(number, kind, pair[1], pair[2]) : kind \in {"approved", "not_approved"},
                                             pair \in g.applications}

SlipRepaysApplications(g, number) ==
    {Event(number, "repayment", pair[1], pair[2]) : pair \in g.applications}
\* A repayment of an application that was approved at some time.
Repayments(g, number) ==
    {Event(number, "repayment", pair[1], pair[2]) : pair \in g.approved}

Registrations(g, number) ==
    IF g.customers < MaxCustomers THEN {Event(number, "registered", g.customers + 1, 0)} ELSE {}

Activities(g, number) ==
    {Event(number, "activity", c, 0) : c \in 1 .. g.customers}
        \cup {Event(number, "application", c, number) : c \in 1 .. g.customers}

\* What next_event() may return.
Draws(g) ==
    LET number == g.sequence + 1 IN
    Registrations(g, number) \cup
        IF g.customers < MinCustomers THEN {}
        ELSE Activities(g, number) \cup Decisions(g, number) \cup Repayments(g, number)

\* The generator once it has drawn e.
Drawn(g, e) ==
    [sequence |-> e.number,
     customers |-> g.customers + (IF e.kind = "registered" THEN 1 ELSE 0),
     applications |-> g.applications \cup
         (IF e.kind = "application" THEN {<<e.customer, e.application>>} ELSE {}),
     approved |-> g.approved \cup
         (IF e.kind = "approved" THEN {<<e.customer, e.application>>} ELSE {})]

-----------------------------------------------------------------------------

\* Event e speaks of something that event d brought about: its customer, its
\* application, or the approval of its application.
Needs(e, d) ==
    /\ e # d /\ e.customer = d.customer
    /\ \/ d.kind = "registered"
       \/ e.application = d.application /\ d.kind = "application"
       \/ e.application = d.application /\ d.kind = "approved" /\ e.kind = "repayment"

\* A sequence of events tells a possible story: customers register once, before
\* anything else of theirs; decisions and repayments name an earlier
\* application of the same customer, repayments one approved before.
Coherent(events) ==
    \A i \in 1 .. Len(events) :
        LET e == events[i]
            Before(kind, application) ==
                \E j \in 1 .. i - 1 : /\ events[j].kind = kind
                                      /\ events[j].customer = e.customer
                                      /\ events[j].application = application IN
        /\ e.number = i
        /\ Before("registered", 0) <=> e.kind # "registered"
        /\ e.kind = "application" => e.application = i
        /\ e.kind \in {"approved", "not_approved", "repayment"} =>
               Before("application", e.application)
        /\ e.kind = "repayment" => Before("approved", e.application)
=============================================================================
