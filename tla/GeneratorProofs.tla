--------------------------- MODULE GeneratorProofs ---------------------------
(***************************************************************************)
(* Theorems about Generator and the two programs that draw from it,        *)
(* Producer and LocalPipeline, for any number of customers, events, runs   *)
(* and records and any length of the send queue.                           *)
(*                                                                         *)
(* What a generator remembers is exactly what the events it has drawn tell *)
(* (Remembers), so whatever it may draw next fits behind them, and a story *)
(* it continues stays coherent, be it drawn by one run or by several that  *)
(* share a seed.                                                           *)
(***************************************************************************)
EXTENDS Producer, LocalPipeline, SequenceTheorems, FiniteSetTheorems, WellFoundedInduction, TLAPS

\* Event i of the sequence is the registration of customer c.
Registers(events, i, c) ==
    events[i].kind = "registered" /\ events[i].customer = c /\ events[i].application = 0

\* What the first n events of a sequence tell of applications and approvals.
Pairs(events, n, kind) ==
    {<<events[j].customer, events[j].application>> :
        j \in {i \in 1 .. n : events[i].kind = kind}}

\* A generator's memory is that of the events it has drawn.
Remembers(g, events) ==
    /\ g.sequence \in 0 .. Len(events)
    /\ \A c \in Customers :
           c <= g.customers <=> \E j \in 1 .. g.sequence : Registers(events, j, c)
    /\ g.applications = Pairs(events, g.sequence, "application")
    /\ g.approved = Pairs(events, g.sequence, "approved")

\* Customers are registered in the order of their numbers.
InOrder(events) ==
    \A i \in 1 .. Len(events) : events[i].kind = "registered" =>
        /\ events[i].application = 0
        /\ \A c \in Customers :
               c < events[i].customer <=> \E j \in 1 .. i - 1 : Registers(events, j, c)

\* e may be the next event of the story after the first n events of a sequence:
\* what Coherent and InOrder ask of one event.
Fits(events, n, e) ==
    /\ e \in Events /\ e.number = n + 1
    /\ \A c \in Customers :
           e.kind = "registered" =>
               /\ e.application = 0
               /\ c < e.customer <=> \E j \in 1 .. n : Registers(events, j, c)
    /\ (\E j \in 1 .. n : Registers(events, j, e.customer)) <=> e.kind # "registered"
    /\ e.kind = "application" => e.application = n + 1
    /\ e.kind \in {"approved", "not_approved", "repayment"} =>
           <<e.customer, e.application>> \in Pairs(events, n, "application")
    /\ e.kind = "repayment" => <<e.customer, e.application>> \in Pairs(events, n, "approved")

-----------------------------------------------------------------------------

\* A new generator remembers the empty story.
LEMMA NothingDrawn ==
    ASSUME MaxEvents \in Nat, MaxCustomers \in Nat
    PROVE  /\ NewGenerator \in Generators /\ Remembers(NewGenerator, <<>>)
           /\ Coherent(<<>>) /\ InOrder(<<>>)
<1>1. NewGenerator \in Generators
  BY DEF NewGenerator, Generators
<1>2. Remembers(NewGenerator, <<>>)
  <2>1. Pairs(<<>>, 0, "application") = {} /\ Pairs(<<>>, 0, "approved") = {}
    BY DEF Pairs
  <2>2. \A c \in Customers : ~ c <= 0
    BY DEF Customers
  <2>. QED
    BY <2>1, <2>2 DEF Remembers, NewGenerator
<1>3. Coherent(<<>>) /\ InOrder(<<>>)
  BY DEF Coherent, InOrder
<1>. QED
  BY <1>1, <1>2, <1>3

\* Whatever a generator may draw fits behind the events it remembers.
LEMMA DrawFits ==
    ASSUME NEW events \in Seq(Events), Len(events) < MaxEvents, MaxEvents \in Nat,
           MaxCustomers \in Nat, MinCustomers \in Nat \ {0},
           NEW g \in Generators, Remembers(g, events), g.sequence = Len(events),
           Coherent(events),
           NEW e \in Draws(g)
    PROVE  Fits(events, Len(events), e)
<1> DEFINE n == Len(events)
<1>1. n \in Nat /\ g.sequence = n /\ g.customers \in 0 .. MaxCustomers
  BY DEF Generators
<1>2. \A c \in Customers : c <= g.customers <=> \E j \in 1 .. n : Registers(events, j, c)
  BY <1>1 DEF Remembers
<1>3. g.applications = Pairs(events, n, "application") /\ g.approved = Pairs(events, n, "approved")
  BY <1>1 DEF Remembers
<1>4. CASE e \in Registrations(g, n + 1)
  <2>1. e = Event(n + 1, "registered", g.customers + 1, 0) /\ g.customers < MaxCustomers
    BY <1>4 DEF Registrations
  <2>2. e \in Events /\ e.customer = g.customers + 1 /\ e.customer \in Customers
    BY <1>1, <2>1 DEF Event, Events, Kinds, Customers
  <2>. QED
    BY <1>1, <1>2, <2>1, <2>2 DEF Fits, Event, Customers
<1>5. CASE e \in Activities(g, n + 1)
  <2>1. PICK c \in 1 .. g.customers : \/ e = Event(n + 1, "activity", c, 0)
                                      \/ e = Event(n + 1, "application", c, n + 1)
    BY <1>5 DEF Activities
  <2>2. e \in Events /\ e.customer = c /\ c \in Customers /\ c <= g.customers
    BY <1>1, <2>1 DEF Event, Events, Kinds, Customers
  <2>. QED
    BY <1>1, <1>2, <2>1, <2>2 DEF Fits, Event
<1>6. \A pair \in g.applications : pair[1] \in Customers /\ pair[2] \in 1 .. MaxEvents
                                  /\ pair = <<pair[1], pair[2]>>
  BY DEF Generators
<1>7. \A pair \in g.approved : pair[1] \in Customers /\ pair[2] \in 1 .. MaxEvents
                              /\ pair = <<pair[1], pair[2]>>
  BY DEF Generators
<1>8. \A kind \in Kinds : \A c, a : <<c, a>> \in Pairs(events, n, kind) =>
          \E j \in 1 .. n : events[j].kind = kind /\ events[j].customer = c
                            /\ events[j].application = a
  BY DEF Pairs
<1>9. ASSUME NEW j \in 1 .. n, events[j].kind \in {"application", "approved"}
      PROVE  \E i \in 1 .. n : Registers(events, i, events[j].customer)
  <2>1. \E i \in 1 .. j - 1 : /\ events[i].kind = "registered"
                              /\ events[i].customer = events[j].customer
                              /\ events[i].application = 0
    BY <1>1, <1>9 DEF Coherent
  <2>. QED
    BY <1>1, <2>1 DEF Registers
<1>10. CASE e \in Decisions(g, n + 1)
  <2>1. PICK kind \in {"approved", "not_approved"}, pair \in g.applications :
            e = Event(n + 1, kind, pair[1], pair[2])
    BY <1>10 DEF Decisions
  <2>2. e \in Events /\ e.customer = pair[1] /\ e.application = pair[2]
    BY <1>1, <1>6, <2>1 DEF Event, Events, Kinds
  <2>3. <<e.customer, e.application>> \in Pairs(events, n, "application")
    BY <1>3, <1>6, <2>2
  <2>4. \E j \in 1 .. n : Registers(events, j, e.customer)
    BY <1>8, <1>9, <2>3 DEF Kinds
  <2>. QED
    BY <1>1, <2>1, <2>2, <2>3, <2>4 DEF Fits, Event
<1>11. CASE e \in Repayments(g, n + 1)
  <2>1. PICK pair \in g.approved : e = Event(n + 1, "repayment", pair[1], pair[2])
    BY <1>11 DEF Repayments
  <2>2. e \in Events /\ e.customer = pair[1] /\ e.application = pair[2]
    BY <1>1, <1>7, <2>1 DEF Event, Events, Kinds
  <2>3. <<e.customer, e.application>> \in Pairs(events, n, "approved")
    BY <1>3, <1>7, <2>2
  <2>4. PICK j \in 1 .. n : events[j].kind = "approved" /\ events[j].customer = e.customer
                            /\ events[j].application = e.application
    BY <1>8, <2>3 DEF Kinds
  <2>5. \E i \in 1 .. n : Registers(events, i, e.customer)
    BY <1>9, <2>4
  <2>6. \E i \in 1 .. j - 1 : events[i].kind = "application" /\ events[i].customer = e.customer
                              /\ events[i].application = e.application
    BY <1>1, <2>4 DEF Coherent
  <2>7. <<e.customer, e.application>> \in Pairs(events, n, "application")
    BY <1>1, <2>6 DEF Pairs
  <2>. QED
    BY <1>1, <2>1, <2>2, <2>3, <2>5, <2>7 DEF Fits, Event
<1>. QED
  BY <1>1, <1>4, <1>5, <1>10, <1>11 DEF Draws

\* The next event of a settled story fits behind the ones before it.
LEMMA SettledFits ==
    ASSUME NEW events \in Seq(Events), Coherent(events), InOrder(events),
           MaxEvents \in Nat, MaxCustomers \in Nat,
           NEW n \in 0 .. Len(events) - 1
    PROVE  Fits(events, n, events[n + 1])
<1> DEFINE e == events[n + 1]
<1>1. n \in Nat /\ n + 1 \in 1 .. Len(events) /\ e \in Events /\ (n + 1) - 1 = n
  OBVIOUS
<1>2. /\ e.number = n + 1
      /\ (\E j \in 1 .. n : Registers(events, j, e.customer)) <=> e.kind # "registered"
      /\ e.kind = "application" => e.application = n + 1
  BY <1>1 DEF Coherent, Registers
<1>3. /\ e.kind \in {"approved", "not_approved", "repayment"} =>
             \E j \in 1 .. n : events[j].kind = "application" /\ events[j].customer = e.customer
                               /\ events[j].application = e.application
      /\ e.kind = "repayment" =>
             \E j \in 1 .. n : events[j].kind = "approved" /\ events[j].customer = e.customer
                               /\ events[j].application = e.application
  BY <1>1 DEF Coherent
<1>4. /\ e.kind \in {"approved", "not_approved", "repayment"} =>
             <<e.customer, e.application>> \in Pairs(events, n, "application")
      /\ e.kind = "repayment" => <<e.customer, e.application>> \in Pairs(events, n, "approved")
  BY <1>3 DEF Pairs
<1>5. ASSUME NEW c \in Customers, e.kind = "registered"
      PROVE  e.application = 0 /\ (c < e.customer <=> \E j \in 1 .. n : Registers(events, j, c))
  BY <1>1, <1>5 DEF InOrder
<1>. QED
  BY <1>1, <1>2, <1>4, <1>5 DEF Fits

\* A story stays coherent and in order when an event that fits is added.
LEMMA FittingAdded ==
    ASSUME NEW events \in Seq(Events), Coherent(events), InOrder(events),
           MaxEvents \in Nat, MaxCustomers \in Nat,
           NEW e, Fits(events, Len(events), e)
    PROVE  /\ Append(events, e) \in Seq(Events)
           /\ Coherent(Append(events, e)) /\ InOrder(Append(events, e))
<1> DEFINE n == Len(events)
           more == Append(events, e)
<1>1. /\ n \in Nat /\ e \in Events /\ more \in Seq(Events) /\ Len(more) = n + 1
      /\ \A i \in 1 .. n : more[i] = events[i]
      /\ more[n + 1] = e
  BY DEF Fits
<1> HIDE DEF more
<1>2. \A i \in 1 .. n + 1 : i - 1 \in 0 .. n /\ 1 .. i - 1 \subseteq 1 .. n
                            /\ (i # n + 1 => i \in 1 .. n)
  BY <1>1
<1>3. ASSUME NEW k \in {"application", "approved"},
             <<e.customer, e.application>> \in Pairs(events, n, k)
      PROVE  \E j \in 1 .. n : events[j].kind = k /\ events[j].customer = e.customer
                               /\ events[j].application = e.application
  BY <1>3 DEF Pairs
<1>4. Coherent(more)
  <2> SUFFICES ASSUME NEW i \in 1 .. Len(more)
               PROVE  LET x == more[i]
                          Before(kind, application) ==
                              \E j \in 1 .. i - 1 : /\ more[j].kind = kind
                                                    /\ more[j].customer = x.customer
                                                    /\ more[j].application = application IN
                      /\ x.number = i
                      /\ Before("registered", 0) <=> x.kind # "registered"
                      /\ x.kind = "application" => x.application = i
                      /\ x.kind \in {"approved", "not_approved", "repayment"} =>
                             Before("application", x.application)
                      /\ x.kind = "repayment" => Before("approved", x.application)
    BY DEF Coherent
  <2>1. CASE i \in 1 .. n
    <3>1. more[i] = events[i] /\ \A j \in 1 .. i - 1 : more[j] = events[j]
      BY <1>1, <1>2, <2>1
    <3> DEFINE Prior(k, c, a) == \E j \in 1 .. i - 1 : /\ events[j].kind = k
                                                       /\ events[j].customer = c
                                                       /\ events[j].application = a
    <3>2. \A k, c, a : Prior(k, c, a) <=>
              \E j \in 1 .. i - 1 : /\ more[j].kind = k
                                    /\ more[j].customer = c
                                    /\ more[j].application = a
      BY <3>1
    <3>3. LET x == events[i] IN
              /\ x.number = i
              /\ Prior("registered", x.customer, 0) <=> x.kind # "registered"
              /\ x.kind = "application" => x.application = i
              /\ x.kind \in {"approved", "not_approved", "repayment"} =>
                     Prior("application", x.customer, x.application)
              /\ x.kind = "repayment" => Prior("approved", x.customer, x.application)
      BY <2>1 DEF Coherent
    <3> HIDE DEF Prior
    <3>. QED
      BY <3>1, <3>2, <3>3
  <2>2. CASE i = n + 1
    <3>1. more[i] = e /\ i - 1 = n /\ \A j \in 1 .. i - 1 : more[j] = events[j]
      BY <1>1, <2>2
    <3>2. /\ e.number = i
          /\ (\E j \in 1 .. n : Registers(events, j, e.customer)) <=> e.kind # "registered"
          /\ e.kind = "application" => e.application = i
      BY <2>2 DEF Fits
    <3>3. /\ e.kind \in {"approved", "not_approved", "repayment"} =>
                 <<e.customer, e.application>> \in Pairs(events, n, "application")
          /\ e.kind = "repayment" => <<e.customer, e.application>> \in Pairs(events, n, "approved")
      BY DEF Fits
    <3>. QED
      BY <1>3, <3>1, <3>2, <3>3, SMTT(40) DEF Registers
  <2>. QED
    BY <1>1, <1>2, <2>1, <2>2
<1>5. InOrder(more)
  <2> SUFFICES ASSUME NEW i \in 1 .. Len(more), more[i].kind = "registered",
                      NEW c \in Customers
               PROVE  /\ more[i].application = 0
                      /\ c < more[i].customer <=> \E j \in 1 .. i - 1 : Registers(more, j, c)
    <3>1. 1 \in Customers \/ Customers = {}
      BY DEF Customers
    <3>2. \A k \in 1 .. Len(more) : more[k] \in Events
      BY <1>1
    <3>3. \A x \in Events : x.customer \in Customers
      BY DEF Events
    <3>. QED
      BY <3>1, <3>2, <3>3 DEF InOrder
  <2>1. CASE i \in 1 .. n
    <3>1. more[i] = events[i] /\ \A j \in 1 .. i - 1 : more[j] = events[j]
      BY <1>1, <1>2, <2>1
    <3>. QED
      BY <2>1, <3>1 DEF InOrder, Registers
  <2>2. CASE i = n + 1
    <3>1. more[i] = e /\ i - 1 = n /\ \A j \in 1 .. i - 1 : more[j] = events[j]
      BY <1>1, <2>2
    <3>. QED
      BY <3>1 DEF Fits, Registers
  <2>. QED
    BY <1>1, <1>2, <2>1, <2>2
<1>. QED
  BY <1>1, <1>4, <1>5 DEF more

\* A generator that draws an event that fits remembers it.
LEMMA DrawnRemembers ==
    ASSUME NEW events \in Seq(Events), MaxEvents \in Nat, MaxCustomers \in Nat,
           NEW g \in Generators, Remembers(g, events),
           g.sequence < Len(events), Len(events) <= MaxEvents,
           Fits(events, g.sequence, events[g.sequence + 1])
    PROVE  /\ Drawn(g, events[g.sequence + 1]) \in Generators
           /\ Remembers(Drawn(g, events[g.sequence + 1]), events)
<1> DEFINE n == g.sequence
           e == events[n + 1]
           h == Drawn(g, e)
<1>1. /\ n \in 0 .. MaxEvents /\ n \in Nat /\ n + 1 \in 1 .. Len(events)
      /\ g.customers \in 0 .. MaxCustomers
      /\ e \in Events /\ e.number = n + 1
  BY DEF Generators, Fits
<1>2. h = [sequence |-> n + 1,
           customers |-> g.customers + (IF e.kind = "registered" THEN 1 ELSE 0),
           applications |-> g.applications \cup
               (IF e.kind = "application" THEN {<<e.customer, e.application>>} ELSE {}),
           approved |-> g.approved \cup
               (IF e.kind = "approved" THEN {<<e.customer, e.application>>} ELSE {})]
  BY <1>1 DEF Drawn
<1>3. e.customer \in Customers /\ e.application \in 0 .. MaxEvents /\ e.kind \in Kinds
  BY <1>1 DEF Events
<1>4. 1 .. n + 1 = 1 .. n \cup {n + 1}
  BY <1>1
<1>5. \A k : Pairs(events, n + 1, k) =
                 Pairs(events, n, k) \cup
                     (IF e.kind = k THEN {<<e.customer, e.application>>} ELSE {})
  BY <1>4 DEF Pairs
<1>6. h.applications = Pairs(events, n + 1, "application")
      /\ h.approved = Pairs(events, n + 1, "approved")
  BY <1>2, <1>5 DEF Remembers
<1>7. ASSUME NEW c \in Customers
      PROVE  (c <= h.customers) <=> \E j \in 1 .. n + 1 : Registers(events, j, c)
  <2>1. (c <= g.customers) <=> \E j \in 1 .. n : Registers(events, j, c)
    BY DEF Remembers
  <2>2. CASE e.kind # "registered"
    <3>1. ~ Registers(events, n + 1, c)
      BY <2>2 DEF Registers
    <3>2. h.customers = g.customers
      BY <1>1, <1>2, <2>2
    <3>. QED
      BY <1>4, <2>1, <3>1, <3>2
  <2>3. CASE e.kind = "registered"
    <3>1. (c < e.customer) <=> c <= g.customers
      BY <2>1, <2>3 DEF Fits
    <3>2. Registers(events, n + 1, c) <=> e.customer = c
      BY <2>3 DEF Fits, Registers
    <3>3. h.customers = g.customers + 1
      BY <1>2, <2>3
    <3>4. e.customer = g.customers + 1
      <4>1. \A d \in Customers : d < e.customer <=> d <= g.customers
        BY <2>3 DEF Fits, Remembers
      <4>2. e.customer \in 1 .. MaxCustomers /\ Customers = 1 .. MaxCustomers
        BY <1>3 DEF Customers
      <4>3. ~ (e.customer <= g.customers)
        BY <1>1, <4>1, <4>2
      <4>4. ~ (g.customers + 1 < e.customer)
        BY <1>1, <4>1, <4>2
      <4>. QED
        BY <1>1, <4>2, <4>3, <4>4
    <3>5. c \in Nat /\ g.customers \in Nat
      BY <1>1 DEF Customers
    <3>6. (c <= h.customers) <=> (c <= g.customers \/ c = e.customer)
      BY <3>3, <3>4, <3>5
    <3>. QED
      BY <1>4, <2>1, <3>2, <3>6
  <2>. QED
    BY <2>2, <2>3
<1>8. h.customers \in 0 .. MaxCustomers
  <2>1. CASE e.kind = "registered"
    <3>1. e.customer \in 1 .. MaxCustomers /\ e.customer \in Customers
      BY <1>3 DEF Customers
    <3>2. ~ (e.customer <= g.customers)
      BY <1>1, <2>1, <3>1 DEF Fits, Remembers
    <3>. QED
      BY <1>1, <1>2, <2>1, <3>1, <3>2
  <2>2. CASE e.kind # "registered"
    BY <1>1, <1>2, <2>2
  <2>. QED
    BY <2>1, <2>2
<1>9. e.kind = "application" => e.application \in 1 .. MaxEvents
  BY <1>1, <1>3 DEF Fits
<1>10. e.kind = "approved" => e.application \in 1 .. MaxEvents
  BY DEF Fits, Remembers, Generators
<1>11. h \in Generators
  <2>1. h.applications \subseteq Customers \X (1 .. MaxEvents)
    BY <1>2, <1>3, <1>9 DEF Generators
  <2>2. h.approved \subseteq Customers \X (1 .. MaxEvents)
    BY <1>2, <1>3, <1>10 DEF Generators
  <2>. QED
    BY <1>1, <1>2, <1>8, <2>1, <2>2 DEF Generators
<1>. QED
  BY <1>1, <1>2, <1>6, <1>7, <1>11 DEF Remembers

\* What a generator remembers is not changed by later events.
LEMMA StillRemembers ==
    ASSUME NEW events \in Seq(Events), NEW more \in Seq(Events), Len(events) <= Len(more),
           \A i \in 1 .. Len(events) : more[i] = events[i],
           NEW g \in Generators, Remembers(g, events)
    PROVE  Remembers(g, more)
<1>1. g.sequence \in 0 .. Len(events) /\ g.sequence \in 0 .. Len(more)
      /\ \A i \in 1 .. g.sequence : more[i] = events[i]
  BY DEF Remembers
<1>2. \A kind : Pairs(more, g.sequence, kind) = Pairs(events, g.sequence, kind)
  BY <1>1 DEF Pairs
<1>3. \A c \in Customers : (\E j \in 1 .. g.sequence : Registers(events, j, c)) <=>
                           (\E j \in 1 .. g.sequence : Registers(more, j, c))
  BY <1>1 DEF Registers
<1>. QED
  BY <1>1, <1>2, <1>3 DEF Remembers

-----------------------------------------------------------------------------
(* Producer.  The order of a key is kept because a run's queue is ordered   *)
(* by number, and what it has delivered of a key comes before what it has  *)
(* still to deliver of it (Orderly).                                       *)

\* The story so far is coherent, and every generator remembers its part of it.
StoryInv ==
    /\ drawn \in Seq(Events) /\ Len(drawn) <= MaxEvents
    /\ gen \in [Runs -> Generators]
    /\ Coherent(drawn) /\ InOrder(drawn)
    /\ \A r \in Runs : Remembers(gen[r], drawn)

-----------------------------------------------------------------------------
(* The story.                                                              *)

\* Nothing is drawn at first.
LEMMA StoryInit == ProducerInit => StoryInv
<1> SUFFICES ASSUME ProducerInit PROVE StoryInv
  OBVIOUS
<1>. QED
  BY NothingDrawn, GeneratorAssumption DEF ProducerInit, StoryInv

\* An iteration draws the next event of the story, or continues it with an
\* event that fits; what the other runs remember stays true.
LEMMA IterateTells ==
    ASSUME StoryInv, NEW r \in Runs, Iterate(r)
    PROVE  StoryInv'
<1> DEFINE g == gen[r]
           n == g.sequence
<1>1. /\ drawn \in Seq(Events) /\ Len(drawn) \in Nat /\ Len(drawn) <= MaxEvents
      /\ gen \in [Runs -> Generators] /\ g \in Generators
      /\ Coherent(drawn) /\ InOrder(drawn)
      /\ Remembers(g, drawn) /\ n \in 0 .. Len(drawn) /\ n < MaxEvents
      /\ MaxEvents \in Nat /\ MaxCustomers \in Nat /\ MinCustomers \in Nat \ {0}
  BY GeneratorAssumption DEF StoryInv, Remembers, Iterate
<1>2. PICK e \in NextEvents(r) :
          /\ drawn' = IF n < Len(drawn) THEN drawn ELSE Append(drawn, e)
          /\ gen' = [gen EXCEPT ![r] = Drawn(@, e)]
  BY DEF Iterate
<1>3. Fits(drawn, n, e)
  <2>1. CASE n < Len(drawn)
    <3>1. e = drawn[n + 1] /\ n \in 0 .. Len(drawn) - 1
      BY <1>1, <1>2, <2>1 DEF NextEvents
    <3>. QED
      BY <1>1, <3>1, SettledFits
  <2>2. CASE ~ n < Len(drawn)
    <3>1. e \in Draws(g) /\ n = Len(drawn)
      BY <1>1, <1>2, <2>2 DEF NextEvents
    <3>. QED
      BY <1>1, <3>1, DrawFits
  <2>. QED
    BY <2>1, <2>2
<1>4. /\ drawn' \in Seq(Events) /\ Len(drawn') <= MaxEvents /\ n < Len(drawn')
      /\ Coherent(drawn') /\ InOrder(drawn')
      /\ Len(drawn) <= Len(drawn') /\ \A i \in 1 .. Len(drawn) : drawn'[i] = drawn[i]
      /\ drawn'[n + 1] = e
  <2>1. CASE n < Len(drawn)
    BY <1>1, <1>2, <2>1 DEF NextEvents
  <2>2. CASE ~ n < Len(drawn)
    <3>1. n = Len(drawn) /\ drawn' = Append(drawn, e) /\ e \in Events
      BY <1>1, <1>2, <1>3, <2>2 DEF Fits
    <3>2. Coherent(Append(drawn, e)) /\ InOrder(Append(drawn, e))
      BY <1>1, <1>3, <3>1, FittingAdded
    <3>. QED
      BY <1>1, <3>1, <3>2
  <2>. QED
    BY <2>1, <2>2
<1>5. \A s \in Runs : Remembers(gen[s], drawn')
  <2> TAKE s \in Runs
  <2>1. gen[s] \in Generators /\ Remembers(gen[s], drawn)
    BY DEF StoryInv
  <2>. QED
    BY <1>1, <1>4, <2>1, StillRemembers
<1>6. Fits(drawn', n, drawn'[n + 1])
  <2>1. n \in 0 .. Len(drawn') - 1
    BY <1>1, <1>4
  <2>2. drawn' \in Seq(Events) /\ Coherent(drawn') /\ InOrder(drawn')
    BY <1>4
  <2>3. MaxEvents \in Nat /\ MaxCustomers \in Nat
    BY <1>1
  <2>. QED
    BY <2>1, <2>2, <2>3, SettledFits
<1>7. Drawn(g, e) \in Generators /\ Remembers(Drawn(g, e), drawn')
  BY <1>1, <1>4, <1>5, <1>6, DrawnRemembers
<1>8. gen' \in [Runs -> Generators] /\ \A s \in Runs : Remembers(gen'[s], drawn')
  BY <1>1, <1>2, <1>5, <1>7
<1>. QED
  BY <1>4, <1>8 DEF StoryInv

\* Every step keeps the story, and what the generators remember of it.
LEMMA StoryNext == StoryInv /\ [ProducerNext]_producerVars => StoryInv'
<1> SUFFICES ASSUME StoryInv, [ProducerNext]_producerVars PROVE StoryInv'
  OBVIOUS
<1>1. CASE UNCHANGED <<drawn, gen>>
  BY <1>1 DEF StoryInv
<1>2. ASSUME NEW r \in Runs, Iterate(r) PROVE StoryInv'
  BY <1>2, IterateTells
<1>3. ASSUME NEW r \in Runs, Start(r) \/ Deliver(r) \/ GiveUp(r) \/ Stop(r) \/ End(r)
      PROVE  UNCHANGED <<drawn, gen>>
  BY <1>3 DEF Start, Deliver, GiveUp, Stop, End
<1>. QED
  BY <1>1, <1>2, <1>3 DEF ProducerNext, producerVars

\* The events of the seed tell a coherent story, whichever of the events it
\* may draw the generator of src/finpulse/generator.py draws, and however the
\* runs of the producer are restarted, stopped and interleaved.
THEOREM StoryHolds == ProducerSpec => []StoryIsCoherent
<1>1. StoryInv => StoryIsCoherent
  BY DEF StoryInv, StoryIsCoherent
<1>. QED
  BY <1>1, StoryInit, StoryNext, PTL DEF ProducerSpec

-----------------------------------------------------------------------------
(* The order of a key.                                                     *)

\* The messages of a run are in the order in which it drew their events.
Sorted(messages) ==
    \A i, j \in 1 .. Len(messages) :
        i < j /\ messages[i].run = messages[j].run
              /\ messages[i].number # 0 /\ messages[j].number # 0 =>
            messages[i].number < messages[j].number

\* A message is about an event its run has drawn.
Known(m) == m.number <= gen[m.run].sequence

\* What of a key a run still has to deliver comes after what it has delivered.
Ahead(k, r) ==
    \A i \in 1 .. Len(topic[k]) : \A j \in 1 .. Len(queue[r]) :
        topic[k][i].run = r /\ Key(queue[r][j]) = k
            /\ topic[k][i].number # 0 /\ queue[r][j].number # 0 =>
                topic[k][i].number < queue[r][j].number

QueuesOrderly ==
    /\ queue \in [Runs -> Seq(Messages)]
    /\ \A r \in Runs : /\ Len(queue[r]) <= MaxQueue
                       /\ Sorted(queue[r])
                       /\ \A i \in 1 .. Len(queue[r]) : queue[r][i].run = r /\ Known(queue[r][i])

TopicOrderly ==
    /\ topic \in [Keys -> Seq(Messages)]
    /\ \A k \in Keys : /\ Sorted(topic[k])
                       /\ \A i \in 1 .. Len(topic[k]) : Key(topic[k][i]) = k /\ Known(topic[k][i])

Orderly ==
    /\ StoryInv /\ QueuesOrderly /\ TopicOrderly
    /\ \A k \in Keys : \A r \in Runs : Ahead(k, r)

\* A queue without its i-th message has the others, in their order.
LEMMA OthersRemain ==
    ASSUME NEW messages \in Seq(Messages), NEW i \in 1 .. Len(messages)
    PROVE  /\ Without(messages, i) \in Seq(Messages)
           /\ Len(Without(messages, i)) = Len(messages) - 1
           /\ \A a \in 1 .. Len(messages) - 1 :
                  Without(messages, i)[a] = messages[IF a < i THEN a ELSE a + 1]
<1>1. Len(messages) - 1 \in Nat
  OBVIOUS
<1>2. \A a \in 1 .. Len(messages) - 1 :
          (IF a < i THEN a ELSE a + 1) \in 1 .. Len(messages)
  OBVIOUS
<1>. QED
  BY <1>1, <1>2 DEF Without

\* The messages of queues that only lose messages stay in order.
LEMMA FewerQueued ==
    ASSUME Orderly, UNCHANGED <<drawn, gen, topic>>, NEW r \in Runs,
           NEW rest \in Seq(Messages), queue' = [queue EXCEPT ![r] = rest],
           Len(rest) <= MaxQueue,
           \E at \in [1 .. Len(rest) -> 1 .. Len(queue[r])] :
               /\ \A a \in 1 .. Len(rest) : rest[a] = queue[r][at[a]]
               /\ \A a, b \in 1 .. Len(rest) : a < b => at[a] < at[b]
    PROVE  Orderly'
<1>1. PICK at \in [1 .. Len(rest) -> 1 .. Len(queue[r])] :
               /\ \A a \in 1 .. Len(rest) : rest[a] = queue[r][at[a]]
               /\ \A a, b \in 1 .. Len(rest) : a < b => at[a] < at[b]
  OBVIOUS
<1>2. queue \in [Runs -> Seq(Messages)] /\ queue' \in [Runs -> Seq(Messages)]
      /\ queue'[r] = rest /\ \A s \in Runs : s # r => queue'[s] = queue[s]
  BY DEF Orderly, QueuesOrderly
<1>3. StoryInv' /\ TopicOrderly'
  BY DEF Orderly, StoryInv, TopicOrderly, Known, Key
<1>4. Sorted(rest)
  <2>1. Sorted(queue[r])
    BY DEF Orderly, QueuesOrderly
  <2> SUFFICES ASSUME NEW a \in 1 .. Len(rest), NEW b \in 1 .. Len(rest), a < b,
                      rest[a].run = rest[b].run, rest[a].number # 0, rest[b].number # 0
               PROVE  rest[a].number < rest[b].number
    BY DEF Sorted
  <2>2. /\ at[a] \in 1 .. Len(queue[r]) /\ at[b] \in 1 .. Len(queue[r]) /\ at[a] < at[b]
        /\ rest[a] = queue[r][at[a]] /\ rest[b] = queue[r][at[b]]
    BY <1>1
  <2>. QED
    BY <2>1, <2>2 DEF Sorted
<1>5. \A i \in 1 .. Len(rest) : rest[i].run = r /\ Known(rest[i])
  BY <1>1 DEF Orderly, QueuesOrderly
<1>6. QueuesOrderly'
  BY <1>2, <1>4, <1>5 DEF Orderly, QueuesOrderly, Known
<1>7. ASSUME NEW k \in Keys, NEW s \in Runs PROVE Ahead(k, s)'
  <2>1. Ahead(k, s)
    BY DEF Orderly
  <2>2. CASE s # r
    BY <1>2, <2>1, <2>2 DEF Ahead, Key
  <2>3. CASE s = r
    <3>1. topic' = topic /\ drawn' = drawn /\ queue'[s] = rest
      BY <1>2, <2>3
    <3> SUFFICES ASSUME NEW i \in 1 .. Len(topic[k]), NEW a \in 1 .. Len(rest),
                        topic[k][i].run = s, Key(rest[a])' = k,
                        topic[k][i].number # 0, rest[a].number # 0
                 PROVE  topic[k][i].number < rest[a].number
      BY <3>1 DEF Ahead, Key
    <3>2. Key(rest[a]) = k
      BY <3>1 DEF Key
    <3>3. at[a] \in 1 .. Len(queue[s]) /\ rest[a] = queue[s][at[a]]
      BY <1>1, <2>3
    <3>. QED
      BY <2>1, <3>2, <3>3 DEF Ahead
  <2>. QED
    BY <2>2, <2>3
<1>. QED
  BY <1>3, <1>6, <1>7 DEF Orderly

\* What remains of a queue without one of its messages keeps its order.
LEMMA RestInOrder ==
    ASSUME NEW messages \in Seq(Messages), NEW i \in 1 .. Len(messages)
    PROVE  \E at \in [1 .. Len(Without(messages, i)) -> 1 .. Len(messages)] :
               /\ \A a \in 1 .. Len(Without(messages, i)) :
                      Without(messages, i)[a] = messages[at[a]] /\ at[a] # i
               /\ \A a, b \in 1 .. Len(Without(messages, i)) : a < b => at[a] < at[b]
<1> DEFINE at == [a \in 1 .. Len(Without(messages, i)) |-> IF a < i THEN a ELSE a + 1]
<1>1. Len(messages) \in Nat /\ Len(Without(messages, i)) = Len(messages) - 1
  BY OthersRemain
<1>2. at \in [1 .. Len(Without(messages, i)) -> 1 .. Len(messages)]
  BY <1>1
<1>3. ASSUME NEW a \in 1 .. Len(Without(messages, i))
      PROVE  Without(messages, i)[a] = messages[at[a]] /\ at[a] # i
  <2>1. a \in 1 .. Len(messages) - 1
    BY <1>1
  <2>2. Without(messages, i)[a] = messages[IF a < i THEN a ELSE a + 1]
    BY <2>1, OthersRemain
  <2>3. at[a] = IF a < i THEN a ELSE a + 1
    OBVIOUS
  <2>4. (IF a < i THEN a ELSE a + 1) # i
    BY <2>1
  <2>. QED
    BY <2>2, <2>3, <2>4
<1>4. \A a, b \in 1 .. Len(Without(messages, i)) : a < b => at[a] < at[b]
  BY <1>1
<1>. QED
  BY <1>2, <1>3, <1>4

\* Nothing is queued or delivered at first.
LEMMA OrderlyInit == ProducerInit => Orderly
<1> SUFFICES ASSUME ProducerInit PROVE Orderly
  OBVIOUS
<1>1. StoryInv
  BY StoryInit
<1>2. QueuesOrderly /\ TopicOrderly
  BY ProducerAssumption DEF ProducerInit, QueuesOrderly, TopicOrderly, Sorted
<1>3. \A k \in Keys : \A r \in Runs : Ahead(k, r)
  BY DEF ProducerInit, Ahead
<1>. QED
  BY <1>1, <1>2, <1>3 DEF Orderly

\* The known messages keep their keys when the story grows.
LEMMA KnownKeepsKey ==
    ASSUME StoryInv, NEW r \in Runs, Iterate(r), NEW m \in Messages, Known(m)
    PROVE  Key(m)' = Key(m) /\ Known(m)' /\ (m.run = r => m.number < gen'[r].sequence)
<1>1. /\ drawn \in Seq(Events) /\ gen \in [Runs -> Generators]
      /\ \A s \in Runs : gen[s].sequence \in 0 .. Len(drawn) /\ gen[s].sequence \in Nat
  BY DEF StoryInv, Remembers
<1>2. PICK e \in NextEvents(r) :
          /\ drawn' = IF gen[r].sequence < Len(drawn) THEN drawn ELSE Append(drawn, e)
          /\ gen' = [gen EXCEPT ![r] = Drawn(@, e)]
  BY DEF Iterate
<1>3. gen'[r].sequence = gen[r].sequence + 1 /\ \A s \in Runs : s # r => gen'[s] = gen[s]
  <2>1. e.number = gen[r].sequence + 1
    <3>1. CASE gen[r].sequence < Len(drawn)
      <4>1. e = drawn[gen[r].sequence + 1] /\ gen[r].sequence + 1 \in 1 .. Len(drawn)
        BY <1>1, <1>2, <3>1 DEF NextEvents
      <4>. QED
        BY <4>1 DEF StoryInv, Coherent
    <3>2. CASE ~ gen[r].sequence < Len(drawn)
      BY <1>2, <3>2 DEF NextEvents, Draws, Registrations, Activities, Decisions, Repayments, Event
    <3>. QED
      BY <3>1, <3>2
  <2>. QED
    BY <1>1, <1>2, <2>1 DEF Drawn
<1>4. m.run \in Runs /\ m.number \in Nat
  BY GeneratorAssumption DEF Messages
<1>5. m.number <= gen[m.run].sequence
  BY DEF Known
<1>6. Known(m)' /\ (m.run = r => m.number < gen'[r].sequence)
  BY <1>1, <1>3, <1>4, <1>5 DEF Known
<1>7. m.number # 0 => m.number \in 1 .. Len(drawn)
  BY <1>1, <1>4, <1>5
<1>8. m.number # 0 => drawn'[m.number] = drawn[m.number]
  <2>1. CASE gen[r].sequence < Len(drawn)
    BY <1>2, <2>1
  <2>2. CASE ~ gen[r].sequence < Len(drawn)
    <3>1. drawn' = Append(drawn, e)
      BY <1>2, <2>2
    <3>. QED
      BY <1>1, <1>7, <3>1
  <2>. QED
    BY <2>1, <2>2
<1>. QED
  BY <1>6, <1>8 DEF Key

\* What an iteration hands over comes behind everything of its run, with the
\* number of the event just drawn or none.
LEMMA HandedOver ==
    ASSUME Orderly, NEW r \in Runs, Iterate(r)
    PROVE  LET n == Len(queue[r]) IN
           /\ queue' \in [Runs -> Seq(Messages)]
           /\ \A s \in Runs : s # r => queue'[s] = queue[s]
           /\ n \in Nat /\ Len(queue'[r]) \in n .. n + 2 /\ Len(queue'[r]) <= MaxQueue
           /\ \A i \in 1 .. n : queue'[r][i] = queue[r][i]
           /\ \A i \in n + 1 .. Len(queue'[r]) :
                  /\ queue'[r][i].run = r
                  /\ queue'[r][i].number =
                         IF i = n + 1 THEN gen'[r].sequence ELSE 0
<1> DEFINE n == Len(queue[r])
           room == MaxQueue - n
           needed == IF Due(r) THEN 2 ELSE 1
           most == IF room < needed THEN room ELSE needed
<1>1. PICK e \in NextEvents(r) :
          /\ drawn' = IF gen[r].sequence < Len(drawn) THEN drawn ELSE Append(drawn, e)
          /\ gen' = [gen EXCEPT ![r] = Drawn(@, e)]
          /\ HandOver(r, e)
  BY DEF Iterate
<1> DEFINE both == <<Message(r, e.number), Message(r, 0)>>
<1>2. /\ queue \in [Runs -> Seq(Messages)] /\ queue[r] \in Seq(Messages)
      /\ n \in Nat /\ n <= MaxQueue /\ MaxQueue \in Nat
  BY ProducerAssumption DEF Orderly, QueuesOrderly
<1>3. most \in 0 .. 2
  BY <1>2
<1>4. gen' \in [Runs -> Generators] /\ gen'[r].sequence = e.number
  <2>1. StoryInv'
    BY IterateTells DEF Orderly
  <2>. QED
    BY <1>1, <2>1 DEF StoryInv, Orderly, Drawn
<1>5. e.number \in 0 .. MaxEvents
  BY <1>4 DEF Generators
<1>6. both \in Seq(Messages) /\ Len(both) = 2 /\ both[1] = Message(r, e.number)
      /\ both[2] = Message(r, 0)
  BY <1>5, GeneratorAssumption DEF Message, Messages
<1> HIDE DEF both
<1>7. ASSUME NEW c \in 0 .. 2
      PROVE  /\ SubSeq(both, 1, c) \in Seq(Messages) /\ Len(SubSeq(both, 1, c)) = c
             /\ \A i \in 1 .. c : SubSeq(both, 1, c)[i] = both[i]
  <2>1. both[1] \in Messages /\ both[2] \in Messages
    BY <1>5, GeneratorAssumption DEF Message, Messages, both
  <2>2. \A i \in 1 .. c : both[i] \in Messages
    BY <2>1
  <2>. QED
    BY <2>1, <2>2, SubSeqProperties
<1>8. queue' = [queue EXCEPT ![r] = queue[r] \o SubSeq(both, 1, most)]
  BY <1>1 DEF HandOver, both
<1> HIDE DEF most
<1>9. /\ queue'[r] = queue[r] \o SubSeq(both, 1, most) /\ queue'[r] \in Seq(Messages)
      /\ queue' \in [Runs -> Seq(Messages)]
      /\ \A s \in Runs : s # r => queue'[s] = queue[s]
  BY <1>2, <1>3, <1>7, <1>8
<1>10. /\ Len(queue'[r]) = n + most
       /\ \A i \in 1 .. n : queue'[r][i] = queue[r][i]
       /\ \A i \in n + 1 .. n + most : queue'[r][i] = both[i - n]
  BY <1>2, <1>3, <1>7, <1>9
<1>11. n + most <= MaxQueue
  BY <1>2 DEF most
<1>12. ASSUME NEW i \in n + 1 .. n + most
       PROVE  /\ queue'[r][i].run = r
              /\ queue'[r][i].number = IF i = n + 1 THEN gen'[r].sequence ELSE 0
  <2>1. i = n + 1 \/ i = n + 2
    BY <1>2, <1>3
  <2>2. both[1].run = r /\ both[1].number = e.number /\ both[2].run = r /\ both[2].number = 0
    BY <1>6 DEF Message
  <2>3. (i = n + 1 => i - n = 1) /\ (i = n + 2 => i - n = 2 /\ i # n + 1)
    BY <1>2
  <2>. QED
    BY <1>4, <1>10, <2>1, <2>2, <2>3
<1>. QED
  BY <1>2, <1>3, <1>9, <1>10, <1>11, <1>12

\* An iteration keeps the order.
LEMMA IterateKeepsOrder ==
    ASSUME Orderly, NEW r \in Runs, Iterate(r)
    PROVE  Orderly'
<1> DEFINE n == Len(queue[r])
<1>1. StoryInv /\ StoryInv' /\ topic' = topic
  BY IterateTells DEF Orderly, Iterate
<1>2. /\ queue \in [Runs -> Seq(Messages)] /\ topic \in [Keys -> Seq(Messages)]
      /\ gen' \in [Runs -> Generators] /\ gen'[r].sequence \in Nat
  BY <1>1, GeneratorAssumption DEF Orderly, QueuesOrderly, TopicOrderly, StoryInv, Generators
<1>3. /\ queue' \in [Runs -> Seq(Messages)]
      /\ \A s \in Runs : s # r => queue'[s] = queue[s]
      /\ n \in Nat /\ Len(queue'[r]) \in n .. n + 2 /\ Len(queue'[r]) <= MaxQueue
      /\ \A i \in 1 .. n : queue'[r][i] = queue[r][i]
      /\ \A i \in n + 1 .. Len(queue'[r]) :
             /\ queue'[r][i].run = r
             /\ queue'[r][i].number = IF i = n + 1 THEN gen'[r].sequence ELSE 0
  BY HandedOver
<1>4. \A s \in Runs : \A i \in 1 .. Len(queue[s]) :
          /\ queue[s][i] \in Messages /\ queue[s][i].run = s
          /\ queue[s][i].number \in Nat /\ Known(queue[s][i])
  <2>1. \A s \in Runs : \A i \in 1 .. Len(queue[s]) : queue[s][i] \in Messages
    BY <1>2
  <2>2. \A m \in Messages : m.number \in Nat
    BY GeneratorAssumption DEF Messages
  <2>. QED
    BY <2>1, <2>2 DEF Orderly, QueuesOrderly
<1>5. \A k \in Keys : \A i \in 1 .. Len(topic[k]) :
          /\ topic[k][i] \in Messages /\ topic[k][i].number \in Nat
          /\ Key(topic[k][i]) = k /\ Known(topic[k][i])
  <2>1. \A k \in Keys : \A i \in 1 .. Len(topic[k]) : topic[k][i] \in Messages
    BY <1>2
  <2>2. \A m \in Messages : m.number \in Nat
    BY GeneratorAssumption DEF Messages
  <2>. QED
    BY <2>1, <2>2 DEF Orderly, TopicOrderly
<1>6. TopicOrderly'
  <2>1. ASSUME NEW k \in Keys, NEW i \in 1 .. Len(topic[k])
        PROVE  Key(topic[k][i])' = k /\ Known(topic[k][i])'
    <3>1. topic[k][i] \in Messages /\ Key(topic[k][i]) = k /\ Known(topic[k][i])
      BY <1>5
    <3>2. PICK m : m = topic[k][i]
      OBVIOUS
    <3>3. Key(m)' = Key(m) /\ Known(m)'
      BY <1>1, <3>1, <3>2, KnownKeepsKey
    <3>4. m = topic'[k][i] /\ Key(m)' = k
      BY <1>1, <3>1, <3>2, <3>3
    <3>. QED
      BY <3>3, <3>4 DEF Key, Known
  <2>. QED
    BY <1>1, <2>1 DEF Orderly, TopicOrderly
<1>7. Sorted(queue'[r])
  <2> SUFFICES ASSUME NEW i \in 1 .. Len(queue'[r]), NEW j \in 1 .. Len(queue'[r]), i < j,
                      queue'[r][i].number # 0, queue'[r][j].number # 0
               PROVE  queue'[r][i].number < queue'[r][j].number
    BY DEF Sorted
  <2>1. CASE j \in 1 .. n
    <3>1. i \in 1 .. n /\ Sorted(queue[r])
      BY <1>3, <2>1 DEF Orderly, QueuesOrderly
    <3>2. queue'[r][i] = queue[r][i] /\ queue'[r][j] = queue[r][j]
      BY <1>3, <2>1, <3>1
    <3>3. queue[r][i].run = queue[r][j].run
      BY <1>3, <1>4, <2>1, <3>1
    <3>. QED
      BY <1>3, <2>1, <3>1, <3>2, <3>3 DEF Sorted
  <2>2. CASE ~ j \in 1 .. n
    <3>1. j = n + 1 /\ i \in 1 .. n
      BY <1>3, <2>2
    <3>2. queue'[r][j].number = gen'[r].sequence /\ queue'[r][i] = queue[r][i]
      BY <1>3, <3>1
    <3>3. PICK m : m = queue[r][i]
      OBVIOUS
    <3>4. m \in Messages /\ m.run = r /\ Known(m)
      BY <1>4, <3>1, <3>3
    <3>5. m.number < gen'[r].sequence
      BY <1>1, <3>4, KnownKeepsKey
    <3>. QED
      BY <3>2, <3>3, <3>5
  <2>. QED
    BY <2>1, <2>2
<1>8. ASSUME NEW s \in Runs, NEW i \in 1 .. Len(queue'[s])
      PROVE  queue'[s][i].run = s /\ queue'[s][i].number <= gen'[s].sequence
  <2>1. CASE i \in 1 .. Len(queue[s])
    <3>1. queue'[s][i] = queue[s][i]
      BY <1>3, <2>1
    <3>2. PICK m : m = queue[s][i]
      OBVIOUS
    <3>3. m \in Messages /\ m.run = s /\ Known(m)
      BY <1>4, <2>1, <3>2
    <3>4. Known(m)'
      BY <1>1, <3>3, KnownKeepsKey
    <3>. QED
      BY <3>1, <3>2, <3>3, <3>4 DEF Known
  <2>2. CASE ~ i \in 1 .. Len(queue[s])
    <3>1. s = r /\ i \in n + 1 .. Len(queue'[r])
      BY <1>3, <2>2
    <3>. QED
      BY <1>2, <1>3, <3>1
  <2>. QED
    BY <2>1, <2>2
<1>9. QueuesOrderly'
  <2>1. \A s \in Runs : Len(queue'[s]) <= MaxQueue /\ Sorted(queue'[s])
    BY <1>3, <1>7 DEF Orderly, QueuesOrderly
  <2>. QED
    BY <1>3, <1>8, <2>1 DEF QueuesOrderly, Known
<1>10. ASSUME NEW k \in Keys, NEW s \in Runs PROVE Ahead(k, s)'
  <2> SUFFICES ASSUME NEW i \in 1 .. Len(topic[k]), NEW j \in 1 .. Len(queue'[s]),
                      topic[k][i].run = s, Key(queue[s][j])' = k,
                      topic[k][i].number # 0, queue'[s][j].number # 0
               PROVE  topic[k][i].number < queue'[s][j].number
    BY <1>1 DEF Ahead, Key
  <2>1. CASE j \in 1 .. Len(queue[s])
    <3>1. queue'[s][j] = queue[s][j]
      BY <1>3, <2>1
    <3>2. PICK m : m = queue[s][j]
      OBVIOUS
    <3>3. m \in Messages /\ m.run = s /\ Known(m)
      BY <1>4, <2>1, <3>2
    <3>4. Key(m)' = Key(m)
      BY <1>1, <3>3, KnownKeepsKey
    <3>5. Key(queue[s][j]) = k
      BY <3>1, <3>2, <3>4 DEF Key
    <3>. QED
      BY <2>1, <3>1, <3>5 DEF Orderly, Ahead
  <2>2. CASE ~ j \in 1 .. Len(queue[s])
    <3>1. s = r /\ j = n + 1 /\ queue'[s][j].number = gen'[r].sequence
      BY <1>3, <2>2
    <3>2. PICK m : m = topic[k][i]
      OBVIOUS
    <3>3. m \in Messages /\ m.run = r /\ Known(m)
      BY <1>5, <3>1, <3>2
    <3>4. m.number < gen'[r].sequence
      BY <1>1, <3>3, KnownKeepsKey
    <3>. QED
      BY <3>1, <3>2, <3>4
  <2>. QED
    BY <2>1, <2>2
<1>. QED
  BY <1>1, <1>6, <1>9, <1>10 DEF Orderly

\* What a run delivers comes after what it delivered of the key before, and
\* before what it has left of it.
LEMMA DeliverKeepsOrder ==
    ASSUME Orderly, NEW r \in Runs, Deliver(r)
    PROVE  Orderly'
<1>1. PICK i \in 1 .. Len(queue[r]) :
          /\ Foremost(r, i)
          /\ topic' = [topic EXCEPT ![Key(queue[r][i])] = Append(@, queue[r][i])]
          /\ queue' = [queue EXCEPT ![r] = Without(@, i)]
          /\ UNCHANGED <<drawn, gen>>
  BY DEF Deliver
<1> DEFINE m == queue[r][i]
           key == Key(m)
           rest == Without(queue[r], i)
<1>2. /\ queue \in [Runs -> Seq(Messages)] /\ queue[r] \in Seq(Messages)
      /\ topic \in [Keys -> Seq(Messages)]
  BY DEF Orderly, QueuesOrderly, TopicOrderly
<1>3. m \in Messages /\ m.run = r /\ Known(m) /\ m.number \in Nat
  <2>1. m \in Messages
    BY <1>2
  <2>2. m.run = r /\ Known(m)
    BY DEF Orderly, QueuesOrderly
  <2>. QED
    BY <2>1, <2>2, GeneratorAssumption DEF Messages
<1>4. key \in Keys
  <2>1. m.number # 0 => m.number \in 1 .. Len(drawn)
    BY <1>3 DEF Known, Orderly, StoryInv, Remembers
  <2>2. \A e \in Events : e.customer \in 1 .. MaxCustomers
    BY DEF Events, Customers
  <2>3. drawn \in Seq(Events)
    BY DEF Orderly, StoryInv
  <2>. QED
    BY <2>1, <2>2, <2>3, GeneratorAssumption DEF Key, Keys
<1>5. /\ rest \in Seq(Messages) /\ Len(rest) = Len(queue[r]) - 1
      /\ Len(rest) <= MaxQueue
      /\ \E at \in [1 .. Len(rest) -> 1 .. Len(queue[r])] :
             /\ \A a \in 1 .. Len(rest) : rest[a] = queue[r][at[a]] /\ at[a] # i
             /\ \A a, b \in 1 .. Len(rest) : a < b => at[a] < at[b]
  <2>1. Len(queue[r]) <= MaxQueue /\ Len(queue[r]) \in Nat
    BY <1>2 DEF Orderly, QueuesOrderly
  <2>2. rest \in Seq(Messages) /\ Len(rest) = Len(queue[r]) - 1
    BY <1>2, OthersRemain
  <2>3. \E at \in [1 .. Len(rest) -> 1 .. Len(queue[r])] :
             /\ \A a \in 1 .. Len(rest) : rest[a] = queue[r][at[a]] /\ at[a] # i
             /\ \A a, b \in 1 .. Len(rest) : a < b => at[a] < at[b]
    BY <1>2, RestInOrder
  <2> HIDE DEF rest
  <2>4. Len(rest) <= MaxQueue
    BY <2>1, <2>2, ProducerAssumption
  <2>. QED
    BY <2>2, <2>3, <2>4
<1>6. PICK at \in [1 .. Len(rest) -> 1 .. Len(queue[r])] :
             /\ \A a \in 1 .. Len(rest) : rest[a] = queue[r][at[a]] /\ at[a] # i
             /\ \A a, b \in 1 .. Len(rest) : a < b => at[a] < at[b]
  BY <1>5
<1>7. /\ topic' \in [Keys -> Seq(Messages)]
      /\ topic'[key] = Append(topic[key], m) /\ Len(topic'[key]) = Len(topic[key]) + 1
      /\ \A a \in 1 .. Len(topic[key]) : topic'[key][a] = topic[key][a]
      /\ topic'[key][Len(topic[key]) + 1] = m
      /\ \A k \in Keys : k # key => topic'[k] = topic[k]
      /\ Len(topic[key]) \in Nat
  BY <1>1, <1>2, <1>3, <1>4
<1>8. /\ queue' \in [Runs -> Seq(Messages)] /\ queue'[r] = rest
      /\ \A s \in Runs : s # r => queue'[s] = queue[s]
  BY <1>1, <1>2, <1>5
<1> HIDE DEF rest
<1>9. \A a \in 1 .. Len(topic[key]) : topic[key][a].run = r
          /\ topic[key][a].number # 0 /\ m.number # 0 => topic[key][a].number < m.number
  BY <1>4 DEF Orderly, Ahead
<1>10. \A a \in 1 .. Len(rest) :
          Key(rest[a]) = key /\ rest[a].number # 0 /\ m.number # 0 => m.number < rest[a].number
  <2> SUFFICES ASSUME NEW a \in 1 .. Len(rest), Key(rest[a]) = key,
                      rest[a].number # 0, m.number # 0
               PROVE  m.number < rest[a].number
    OBVIOUS
  <2>1. at[a] \in 1 .. Len(queue[r]) /\ rest[a] = queue[r][at[a]] /\ at[a] # i
    BY <1>6
  <2>2. ~ at[a] < i
    BY <1>1, <2>1 DEF Foremost
  <2>3. i < at[a]
    BY <2>1, <2>2
  <2>4. Sorted(queue[r]) /\ queue[r][at[a]].run = r
    BY <2>1 DEF Orderly, QueuesOrderly
  <2>. QED
    BY <1>3, <2>1, <2>3, <2>4 DEF Sorted
<1> HIDE DEF m, key
<1>16. drawn' = drawn /\ gen' = gen
  BY <1>1
<1>11. StoryInv'
  BY <1>16 DEF Orderly, StoryInv
<1>12. TopicOrderly'
  <2>1. ASSUME NEW k \in Keys
        PROVE  /\ Sorted(topic'[k])
               /\ \A a \in 1 .. Len(topic'[k]) : Key(topic'[k][a]) = k /\ Known(topic'[k][a])
    <3>1. Sorted(topic[k]) /\ \A a \in 1 .. Len(topic[k]) : Key(topic[k][a]) = k /\ Known(topic[k][a])
      BY DEF Orderly, TopicOrderly
    <3>2. CASE k # key
      BY <1>7, <3>1, <3>2
    <3>3. CASE k = key
      <4>1. \A a \in 1 .. Len(topic'[k]) : a \in 1 .. Len(topic[k]) \/ a = Len(topic[k]) + 1
        BY <1>7, <3>3
      <4>2. \A a \in 1 .. Len(topic'[k]) : Key(topic'[k][a]) = k /\ Known(topic'[k][a])
        BY <1>3, <1>7, <3>1, <3>3, <4>1 DEF key
      <4>3. Sorted(topic'[k])
        <5> SUFFICES ASSUME NEW a \in 1 .. Len(topic'[k]), NEW b \in 1 .. Len(topic'[k]), a < b,
                            topic'[k][a].run = topic'[k][b].run,
                            topic'[k][a].number # 0, topic'[k][b].number # 0
                     PROVE  topic'[k][a].number < topic'[k][b].number
          BY DEF Sorted
        <5>1. CASE b \in 1 .. Len(topic[k])
          <6>1. a \in 1 .. Len(topic[k])
            BY <1>7, <3>3, <5>1
          <6>. QED
            BY <1>7, <3>1, <3>3, <5>1, <6>1 DEF Sorted
        <5>2. CASE b = Len(topic[k]) + 1
          <6>1. a \in 1 .. Len(topic[k])
            BY <1>7, <3>3, <5>2
          <6>2. topic'[key][a] = topic[key][a]
            BY <1>7, <3>3, <6>1
          <6>3. topic'[key][b] = m
            BY <1>7, <3>3, <5>2
          <6>4. topic[key][a].number # 0 /\ m.number # 0 /\ topic[key][a].run = r
            BY <1>3, <3>3, <6>2, <6>3
          <6>5. topic[key][a].number < m.number
            BY <1>9, <3>3, <6>1, <6>4
          <6>. QED
            BY <3>3, <6>2, <6>3, <6>5
        <5>. QED
          BY <4>1, <5>1, <5>2
      <4>. QED
        BY <4>2, <4>3
    <3>. QED
      BY <3>2, <3>3
  <2>2. topic' \in [Keys -> Seq(Messages)]
    BY <1>7
  <2>. QED
    BY <1>16, <2>1, <2>2 DEF TopicOrderly, Key, Known
<1>13. Sorted(rest) /\ \A a \in 1 .. Len(rest) : rest[a].run = r /\ Known(rest[a])
  <2>1. Sorted(queue[r]) /\ \A a \in 1 .. Len(queue[r]) : queue[r][a].run = r /\ Known(queue[r][a])
    BY DEF Orderly, QueuesOrderly
  <2>2. \A a \in 1 .. Len(rest) : at[a] \in 1 .. Len(queue[r]) /\ rest[a] = queue[r][at[a]]
    BY <1>6
  <2>3. Sorted(rest)
    <3> SUFFICES ASSUME NEW a \in 1 .. Len(rest), NEW b \in 1 .. Len(rest), a < b,
                        rest[a].run = rest[b].run, rest[a].number # 0, rest[b].number # 0
                 PROVE  rest[a].number < rest[b].number
      BY DEF Sorted
    <3>1. at[a] < at[b]
      BY <1>6
    <3>2. /\ at[a] \in 1 .. Len(queue[r]) /\ rest[a] = queue[r][at[a]]
          /\ at[b] \in 1 .. Len(queue[r]) /\ rest[b] = queue[r][at[b]]
      BY <2>2
    <3>. QED
      BY <2>1, <3>1, <3>2 DEF Sorted
  <2>4. \A a \in 1 .. Len(rest) : rest[a].run = r /\ Known(rest[a])
    BY <2>1, <2>2
  <2>. QED
    BY <2>3, <2>4
<1>14. QueuesOrderly'
  <2>1. ASSUME NEW s \in Runs
        PROVE  /\ Len(queue'[s]) <= MaxQueue /\ Sorted(queue'[s])
               /\ \A a \in 1 .. Len(queue'[s]) : queue'[s][a].run = s /\ Known(queue'[s][a])
    <3>1. CASE s = r
      BY <1>5, <1>8, <1>13, <3>1
    <3>2. CASE s # r
      BY <1>8, <3>2 DEF Orderly, QueuesOrderly
    <3>. QED
      BY <3>1, <3>2
  <2>. QED
    BY <1>8, <1>16, <2>1 DEF QueuesOrderly, Known
<1>15. ASSUME NEW k \in Keys, NEW s \in Runs PROVE Ahead(k, s)'
  <2> SUFFICES ASSUME NEW a \in 1 .. Len(topic'[k]), NEW b \in 1 .. Len(queue'[s]),
                      topic'[k][a].run = s, Key(queue'[s][b]) = k,
                      topic'[k][a].number # 0, queue'[s][b].number # 0
               PROVE  topic'[k][a].number < queue'[s][b].number
    BY <1>16 DEF Ahead, Key
  <2>1. \E c \in 1 .. Len(queue[s]) : queue'[s][b] = queue[s][c]
    <3>1. CASE s = r
      <4>1. queue'[s] = rest /\ b \in 1 .. Len(rest)
        BY <1>8, <3>1
      <4>2. at[b] \in 1 .. Len(queue[r]) /\ rest[b] = queue[r][at[b]]
        BY <1>6, <4>1
      <4>. QED
        BY <3>1, <4>1, <4>2
    <3>2. CASE s # r
      BY <1>8, <3>2
    <3>. QED
      BY <3>1, <3>2
  <2>2. CASE a \in 1 .. Len(topic[k])
    <3>1. topic'[k][a] = topic[k][a]
      BY <1>7, <2>2
    <3>2. PICK c \in 1 .. Len(queue[s]) : queue'[s][b] = queue[s][c]
      BY <2>1
    <3>3. Ahead(k, s)
      BY DEF Orderly
    <3>. QED
      BY <2>2, <3>1, <3>2, <3>3 DEF Ahead
  <2>3. CASE ~ a \in 1 .. Len(topic[k])
    <3>1. k = key /\ a = Len(topic[k]) + 1 /\ topic'[k][a] = m
      BY <1>7, <2>3
    <3>2. s = r /\ queue'[s] = rest
      BY <1>3, <1>8, <3>1
    <3>. QED
      BY <1>10, <3>1, <3>2
  <2>. QED
    BY <2>2, <2>3
<1>. QED
  BY <1>11, <1>12, <1>14, <1>15 DEF Orderly

\* Giving a message up, or ending, only takes messages from a queue.
LEMMA LosingKeepsOrder ==
    ASSUME Orderly, NEW r \in Runs, GiveUp(r) \/ End(r)
    PROVE  Orderly'
<1>1. queue[r] \in Seq(Messages) /\ Len(queue[r]) \in Nat /\ Len(queue[r]) <= MaxQueue
      /\ MaxQueue \in Nat
  BY ProducerAssumption DEF Orderly, QueuesOrderly
<1>2. CASE GiveUp(r)
  <2>1. PICK i \in 1 .. Len(queue[r]) :
            queue' = [queue EXCEPT ![r] = Without(@, i)] /\ UNCHANGED <<drawn, gen, topic>>
    BY <1>2 DEF GiveUp
  <2> DEFINE rest == Without(queue[r], i)
  <2>2. rest \in Seq(Messages) /\ Len(rest) <= MaxQueue
    BY <1>1, OthersRemain
  <2>3. \E at \in [1 .. Len(rest) -> 1 .. Len(queue[r])] :
               /\ \A a \in 1 .. Len(rest) : rest[a] = queue[r][at[a]]
               /\ \A a, b \in 1 .. Len(rest) : a < b => at[a] < at[b]
    BY <1>1, RestInOrder
  <2>4. queue' = [queue EXCEPT ![r] = rest]
    BY <2>1
  <2> HIDE DEF rest
  <2>. QED
    BY <2>1, <2>2, <2>3, <2>4, FewerQueued
<1>3. CASE End(r)
  <2> DEFINE rest == <<>>
  <2>1. queue' = [queue EXCEPT ![r] = rest] /\ UNCHANGED <<drawn, gen, topic>>
    BY <1>3 DEF End
  <2>2. rest \in Seq(Messages) /\ Len(rest) = 0 /\ Len(rest) <= MaxQueue
    BY <1>1
  <2>3. [a \in {} |-> 1] \in [1 .. Len(rest) -> 1 .. Len(queue[r])]
    BY <2>2
  <2>4. \E at \in [1 .. Len(rest) -> 1 .. Len(queue[r])] :
               /\ \A a \in 1 .. Len(rest) : rest[a] = queue[r][at[a]]
               /\ \A a, b \in 1 .. Len(rest) : a < b => at[a] < at[b]
    BY <2>2, <2>3
  <2> HIDE DEF rest
  <2>. QED
    BY <2>1, <2>2, <2>4, FewerQueued
<1>. QED
  BY <1>2, <1>3

\* Every step keeps the order.
LEMMA OrderlyNext == Orderly /\ [ProducerNext]_producerVars => Orderly'
<1> SUFFICES ASSUME Orderly, [ProducerNext]_producerVars PROVE Orderly'
  OBVIOUS
<1>1. CASE UNCHANGED <<drawn, gen, queue, topic>>
  BY <1>1 DEF Orderly, StoryInv, QueuesOrderly, TopicOrderly, Ahead, Known, Key
<1>2. ASSUME NEW r \in Runs, Iterate(r) PROVE Orderly'
  BY <1>2, IterateKeepsOrder
<1>3. ASSUME NEW r \in Runs, Deliver(r) PROVE Orderly'
  BY <1>3, DeliverKeepsOrder
<1>4. ASSUME NEW r \in Runs, GiveUp(r) \/ End(r) PROVE Orderly'
  BY <1>4, LosingKeepsOrder
<1>5. ASSUME NEW r \in Runs, Start(r) \/ Stop(r)
      PROVE  UNCHANGED <<drawn, gen, queue, topic>>
  BY <1>5 DEF Start, Stop
<1>. QED
  BY <1>1, <1>2, <1>3, <1>4, <1>5 DEF ProducerNext, producerVars

\* Each run of src/finpulse/producer.py keeps the order of a customer: what an
\* event of the topic needs came before it from the same run, or that run lost
\* it and will not send it.  For any number of runs side by side and any length
\* of their queues, whatever is given up and wherever runs end.  It orders the
\* events of one run, not those of one run against another's.
THEOREM NeededHolds == ProducerSpec => []NeededComesFirst
<1>1. Orderly => NeededComesFirst
  <2> SUFFICES ASSUME Orderly, NEW k \in Keys, NEW i \in 1 .. Len(topic[k]),
                      topic[k][i].number # 0,
                      NEW d \in 1 .. Len(drawn),
                      Needs(drawn[topic[k][i].number], drawn[d]), d < topic[k][i].number
               PROVE  /\ ~ Queued(d, topic[k][i].run)
                      /\ Delivered(d, topic[k][i].run) =>
                             \E j \in 1 .. i - 1 : topic[k][j] = Message(topic[k][i].run, d)
    BY DEF NeededComesFirst
  <2> DEFINE m == topic[k][i]
             r == m.run
  <2>1. topic \in [Keys -> Seq(Messages)] /\ m \in Messages
    BY DEF Orderly, TopicOrderly
  <2>2. r \in Runs /\ m.number \in Nat
    BY <2>1, GeneratorAssumption DEF Messages
  <2>3. Key(m) = k /\ Key(Message(r, d)) = k
    <3>1. Key(m) = k
      BY DEF Orderly, TopicOrderly
    <3>2. drawn[m.number].customer = drawn[d].customer
      BY DEF Needs
    <3>3. Message(r, d).number = d /\ d # 0
      BY DEF Message
    <3>. QED
      BY <3>1, <3>2, <3>3 DEF Key
  <2>4. ~ Queued(d, r)
    <3> SUFFICES ASSUME NEW j \in 1 .. Len(queue[r]), queue[r][j] = Message(r, d)
                 PROVE  FALSE
      BY DEF Queued
    <3>1. queue[r][j].number = d /\ Key(queue[r][j]) = k
      BY <2>3 DEF Message
    <3>2. Ahead(k, r)
      BY <2>2 DEF Orderly
    <3>3. m.number < d
      BY <3>1, <3>2 DEF Ahead
    <3>. QED
      BY <2>2, <3>3
  <2>5. ASSUME Delivered(d, r)
        PROVE  \E j \in 1 .. i - 1 : topic[k][j] = Message(r, d)
    <3>1. PICK h \in Keys : \E j \in 1 .. Len(topic[h]) : topic[h][j] = Message(r, d)
      BY <2>5 DEF Delivered
    <3>2. PICK j \in 1 .. Len(topic[h]) : topic[h][j] = Message(r, d)
      BY <3>1
    <3>3. h = k
      BY <2>3, <3>2 DEF Orderly, TopicOrderly
    <3>4. topic[k][j].number = d /\ topic[k][j].run = r
      BY <3>2, <3>3 DEF Message
    <3>5. j # i
      BY <2>2, <3>4
    <3>6. ~ i < j
      <4> SUFFICES ASSUME i < j PROVE FALSE
        OBVIOUS
      <4>1. Sorted(topic[k])
        BY DEF Orderly, TopicOrderly
      <4>2. m.number < d
        BY <3>3, <3>4, <4>1 DEF Sorted
      <4>. QED
        BY <2>2, <4>2
    <3>. QED
      BY <3>2, <3>3, <3>5, <3>6
  <2>. QED
    BY <2>4, <2>5
<1>. QED
  BY <1>1, OrderlyInit, OrderlyNext, PTL DEF ProducerSpec

-----------------------------------------------------------------------------
(* Types.                                                                  *)

\* No run counts more events than it has drawn.
Counts ==
    /\ phase \in [Runs -> {"new", "running", "stopping", "ended"}]
    /\ sent \in [Runs -> Nat] /\ \A r \in Runs : sent[r] <= gen[r].sequence

\* An iteration draws one event and counts one at most.
LEMMA IterateCounts ==
    ASSUME Orderly, Counts, NEW r \in Runs, Iterate(r)
    PROVE  Counts'
<1>1. /\ drawn \in Seq(Events) /\ gen \in [Runs -> Generators] /\ Coherent(drawn)
      /\ gen[r].sequence \in 0 .. Len(drawn) /\ gen[r].sequence \in Nat
  BY DEF Orderly, StoryInv, Remembers
<1>2. PICK e \in NextEvents(r) :
          /\ gen' = [gen EXCEPT ![r] = Drawn(@, e)]
          /\ \/ sent' = sent
             \/ sent' = [sent EXCEPT ![r] = @ + 1]
  <2>1. PICK e \in NextEvents(r) : gen' = [gen EXCEPT ![r] = Drawn(@, e)] /\ HandOver(r, e)
    BY DEF Iterate
  <2>2. sent' = sent \/ sent' = [sent EXCEPT ![r] = @ + 1]
    BY <2>1 DEF HandOver, Counts
  <2>. QED
    BY <2>1, <2>2
<1>3. e.number = gen[r].sequence + 1
  <2>1. CASE gen[r].sequence < Len(drawn)
    <3>1. e = drawn[gen[r].sequence + 1] /\ gen[r].sequence + 1 \in 1 .. Len(drawn)
      BY <1>1, <1>2, <2>1 DEF NextEvents
    <3>. QED
      BY <1>1, <3>1 DEF Coherent
  <2>2. CASE ~ gen[r].sequence < Len(drawn)
    BY <1>2, <2>2 DEF NextEvents, Draws, Registrations, Activities, Decisions, Repayments, Event
  <2>. QED
    BY <2>1, <2>2
<1>4. gen'[r].sequence = gen[r].sequence + 1 /\ \A s \in Runs : s # r => gen'[s] = gen[s]
  BY <1>1, <1>2, <1>3 DEF Drawn
<1>5. sent' \in [Runs -> Nat] /\ \A s \in Runs : sent'[s] \in {sent[s], sent[s] + 1}
                              /\ (s # r => sent'[s] = sent[s])
  BY <1>2 DEF Counts
<1>6. \A s \in Runs : sent'[s] <= gen'[s].sequence
  <2>1. ASSUME NEW s \in Runs, s = r
        PROVE  sent'[s] <= gen'[s].sequence
    <3>1. sent[r] \in Nat /\ sent[r] <= gen[r].sequence /\ sent'[r] \in {sent[r], sent[r] + 1}
      BY <1>5 DEF Counts
    <3>. QED
      BY <1>1, <1>4, <2>1, <3>1
  <2>2. ASSUME NEW s \in Runs, s # r
        PROVE  sent'[s] <= gen'[s].sequence
    <3>1. sent[s] <= gen[s].sequence
      BY DEF Counts
    <3>2. sent'[s] = sent[s]
      BY <1>5, <2>2
    <3>3. gen'[s] = gen[s]
      BY <1>4, <2>2
    <3>. QED
      BY <3>1, <3>2, <3>3
  <2>. QED
    BY <2>1, <2>2
<1>. QED
  BY <1>5, <1>6 DEF Counts, Iterate

\* Type correctness: no run counts more than the seed has events, and no queue
\* holds more than the library allows.
THEOREM ProducerTypes == ProducerSpec => []ProducerTypeOK
<1>1. ProducerInit => Orderly /\ Counts
  <2>1. ProducerInit => Counts
    BY DEF ProducerInit, Counts, NewGenerator
  <2>. QED
    BY <2>1, OrderlyInit
<1>2. Orderly /\ Counts /\ [ProducerNext]_producerVars => Orderly' /\ Counts'
  <2> SUFFICES ASSUME Orderly, Counts, [ProducerNext]_producerVars PROVE Counts'
    BY OrderlyNext
  <2>1. CASE UNCHANGED producerVars
    BY <2>1 DEF producerVars, Counts
  <2>2. ASSUME NEW r \in Runs, Iterate(r) PROVE Counts'
    BY <2>2, IterateCounts
  <2>3. ASSUME NEW r \in Runs, Start(r) \/ Deliver(r) \/ GiveUp(r) \/ Stop(r) \/ End(r)
        PROVE  Counts'
    BY <2>3 DEF Counts, Start, Deliver, GiveUp, Stop, End
  <2>. QED
    BY <2>1, <2>2, <2>3 DEF ProducerNext
<1>3. Orderly /\ Counts => ProducerTypeOK
  <2> SUFFICES ASSUME Orderly, Counts PROVE ProducerTypeOK
    OBVIOUS
  <2>1. \A r \in Runs : gen[r].sequence \in 0 .. MaxEvents
    BY DEF Orderly, StoryInv, Generators
  <2>2. sent \in [Runs -> 0 .. MaxEvents]
    BY <2>1, GeneratorAssumption DEF Counts
  <2>. QED
    BY <2>2 DEF Orderly, StoryInv, QueuesOrderly, TopicOrderly, Counts, ProducerTypeOK
<1>. QED
  BY <1>1, <1>2, <1>3, PTL DEF ProducerSpec

-----------------------------------------------------------------------------
(* LocalPipeline.  The marts tell the story because the story is coherent   *)
(* and no event of it is left unread (Reading); which deliveries decide    *)
(* follows from what is seen being exactly what was read (Reading); and    *)
(* documents never lie beside foreign data because a run writes them only  *)
(* into a directory it has cleared, in an order (Stored).                  *)

\* The story so far is coherent, and its generator remembers it.
Telling ==
    /\ story \in Seq(Events) /\ Len(story) <= MaxEvents
    /\ source \in Generators /\ source.sequence = Len(story)
    /\ Coherent(story) /\ InOrder(story) /\ Remembers(source, story)

Deliveries == {Malformed} \cup [number : Nat \ {0}, form : Forms]

\* n is among the first k records, the first of them being in an accepted form.
Among(n, k) == \E i \in 1 .. k : records[i].number = n
Decided(n, k) == \E i \in 1 .. k : /\ records[i].number = n /\ records[i].form \in {"fine", "late"}
                                   /\ \A j \in 1 .. i - 1 : records[j].number # n

\* Every event of the story has been read, and seen and facts say how.
Reading ==
    /\ records \in Seq(Deliveries) /\ Len(records) <= MaxRecords
    /\ \A i \in 1 .. Len(records) : records[i].number <= Len(story)
    /\ seen = 1 .. Len(story)
    /\ \A n \in seen : Among(n, Len(records))
    /\ facts = {n \in 1 .. Len(story) : Decided(n, Len(records))}

\* The counters add up.
Counted ==
    /\ report \in [DOMAIN NoReport -> Nat]
    /\ report.accepted = Cardinality(facts) /\ report.late <= report.accepted
    /\ report.received = Len(records)
    /\ report.received = report.accepted + report.quarantined + report.duplicates

\* What lies in the directory while a run fills it.
Stored ==
    /\ run \in 0 .. MaxRuns
    /\ pc \in {"idle", "clearing"} \cup {stage.at : stage \in Stages}
    /\ disk \in [Files -> [run : 0 .. MaxRuns, whole : BOOLEAN]]
    /\ pc \in {"reading", "committed"} => \A document \in Files \ Data : disk[document] = Absent
    /\ pc = "committed" => disk["database"] = Whole(run)
    /\ pc \in {"closed", "reported", "summarised"} =>
           /\ \A file \in Data : disk[file] = Whole(run)
           /\ \A document \in Files \ Data : disk[document] \in {Absent, Whole(run)}
    /\ ArtifactsAgree

Inv == Telling /\ Reading /\ Counted /\ Stored

-----------------------------------------------------------------------------
(* The story.                                                              *)

\* A generator numbers its events without a gap.
LEMMA DrawNumber ==
    ASSUME NEW g \in Generators, NEW e \in Draws(g)
    PROVE  e.number = g.sequence + 1
BY DEF Draws, Registrations, Activities, Decisions, Repayments, Event

\* Nothing is told at first, nor when a run begins.
LEMMA TellingInit ==
    /\ Init => Telling
    /\ Begin => Telling'
<1>1. <<>> \in Seq(Events) /\ Len(<<>>) = 0 /\ 0 <= MaxEvents
  BY GeneratorAssumption
<1>2. /\ NewGenerator \in Generators /\ NewGenerator.sequence = 0
      /\ Coherent(<<>>) /\ InOrder(<<>>) /\ Remembers(NewGenerator, <<>>)
  BY NothingDrawn, GeneratorAssumption DEF NewGenerator
<1>3. ASSUME story = <<>>, source = NewGenerator PROVE Telling
  BY <1>1, <1>2, <1>3 DEF Telling
<1>4. ASSUME story' = <<>>, source' = NewGenerator PROVE Telling'
  BY <1>1, <1>2, <1>4 DEF Telling
<1> QED
  BY <1>3, <1>4 DEF Init, Begin

\* The next event of the story fits behind it.
LEMMA TellingOn ==
    ASSUME Telling, NEW e \in Draws(source), e.number <= MaxEvents,
           story' = Append(story, e), source' = Drawn(source, e)
    PROVE  Telling' /\ Len(story') = Len(story) + 1 /\ e.number = Len(story) + 1
<1> DEFINE n == Len(story)
<1>1. /\ n \in Nat /\ n <= MaxEvents /\ MaxEvents \in Nat /\ MaxCustomers \in Nat
      /\ MinCustomers \in Nat \ {0} /\ source.sequence = n
  BY GeneratorAssumption DEF Telling
<1>2. e.number = n + 1
  BY <1>1, DrawNumber DEF Telling
<1>3. n < MaxEvents
  BY <1>1, <1>2
<1>4. Fits(story, n, e)
  BY <1>1, <1>3, DrawFits DEF Telling
<1>5. story' \in Seq(Events) /\ Coherent(story') /\ InOrder(story')
  BY <1>1, <1>4, FittingAdded DEF Telling
<1>6. /\ Len(story') = n + 1 /\ story'[n + 1] = e /\ e \in Events
      /\ \A i \in 1 .. n : story'[i] = story[i]
  BY <1>4 DEF Telling, Fits
<1>7. Remembers(source, story')
  <2>1. story \in Seq(Events) /\ source \in Generators /\ Remembers(source, story)
    BY DEF Telling
  <2>2. Len(story) <= Len(story')
    BY <1>1, <1>6
  <2> QED
    BY <1>5, <1>6, <2>1, <2>2, StillRemembers
<1>8. Fits(story', n, e)
  <2>1. \A k \in {"application", "approved"} : Pairs(story', n, k) = Pairs(story, n, k)
    BY <1>1, <1>6 DEF Pairs
  <2>2. \A c \in Customers : (\E j \in 1 .. n : Registers(story', j, c)) <=>
                             (\E j \in 1 .. n : Registers(story, j, c))
    BY <1>1, <1>6 DEF Registers
  <2>3. e.customer \in Customers
    BY <1>6 DEF Events
  <2> QED
    BY <1>4, <2>1, <2>2, <2>3 DEF Fits
<1>9. source' \in Generators /\ Remembers(source', story')
  <2>1. /\ source \in Generators /\ source.sequence < Len(story') /\ Len(story') <= MaxEvents
        /\ story'[source.sequence + 1] = e /\ Fits(story', source.sequence, e)
    BY <1>1, <1>3, <1>6, <1>8 DEF Telling
  <2>2. /\ Drawn(source, story'[source.sequence + 1]) \in Generators
        /\ Remembers(Drawn(source, story'[source.sequence + 1]), story')
    BY <1>1, <1>5, <1>7, <2>1, DrawnRemembers
  <2> QED
    BY <2>1, <2>2
<1>10. source'.sequence = n + 1
  BY <1>2 DEF Drawn
<1> QED
  BY <1>1, <1>2, <1>3, <1>5, <1>6, <1>9, <1>10 DEF Telling

-----------------------------------------------------------------------------
(* Records.                                                                *)

\* What one record more changes in what was read and what was decided.
LEMMA OneRecordMore ==
    ASSUME records \in Seq(Deliveries), NEW record \in Deliveries,
           records' = Append(records, record)
    PROVE  /\ records' \in Seq(Deliveries) /\ Len(records') = Len(records) + 1
           /\ \A i \in 1 .. Len(records) : records'[i] = records[i]
           /\ records'[Len(records')] = record
           /\ \A n \in Nat :
                  Among(n, Len(records))' <=> Among(n, Len(records)) \/ record.number = n
           /\ \A n \in Nat :
                  Decided(n, Len(records))' <=>
                      \/ Decided(n, Len(records))
                      \/ /\ record.number = n /\ record.form \in {"fine", "late"}
                         /\ ~ Among(n, Len(records))
<1> DEFINE k == Len(records)
<1>1. /\ k \in Nat /\ records' \in Seq(Deliveries) /\ Len(records') = k + 1
      /\ \A i \in 1 .. k : records'[i] = records[i]
      /\ records'[k + 1] = record
  OBVIOUS
<1>2. 1 .. k + 1 = 1 .. k \cup {k + 1} /\ 1 .. (k + 1) - 1 = 1 .. k
  BY <1>1
<1>3. \A i \in 1 .. k : 1 .. i - 1 \subseteq 1 .. k
  BY <1>1
<1>4. ASSUME NEW n \in Nat
      PROVE  Among(n, Len(records))' <=> Among(n, Len(records)) \/ record.number = n
  BY <1>1, <1>2 DEF Among
<1>5. ASSUME NEW n \in Nat
      PROVE  Decided(n, Len(records))' <=>
                 \/ Decided(n, Len(records))
                 \/ /\ record.number = n /\ record.form \in {"fine", "late"}
                    /\ ~ Among(n, Len(records))
  <2> DEFINE First(i) == /\ records'[i].number = n /\ records'[i].form \in {"fine", "late"}
                         /\ \A j \in 1 .. i - 1 : records'[j].number # n
  <2>1. \A i \in 1 .. k : First(i) <=>
            /\ records[i].number = n /\ records[i].form \in {"fine", "late"}
            /\ \A j \in 1 .. i - 1 : records[j].number # n
    BY <1>1, <1>3
  <2>2. First(k + 1) <=> /\ record.number = n /\ record.form \in {"fine", "late"}
                         /\ ~ Among(n, k)
    BY <1>1, <1>2 DEF Among
  <2>3. Decided(n, Len(records))' <=> (\E i \in 1 .. k : First(i)) \/ First(k + 1)
    BY <1>1, <1>2 DEF Decided
  <2>4. (\E i \in 1 .. k : First(i)) <=> Decided(n, k)
    BY <2>1 DEF Decided
  <2> QED
    BY <2>2, <2>3, <2>4
<1> QED
  BY <1>1, <1>4, <1>5

\* Counting adds one to each counter named, and to those received.
LEMMA CountingOne ==
    ASSUME report \in [DOMAIN NoReport -> Nat], NEW counters, report' = Counting(counters),
           "received" \notin counters
    PROVE  /\ report' \in [DOMAIN NoReport -> Nat]
           /\ report'.received = report.received + 1
           /\ report'.accepted = report.accepted + (IF "accepted" \in counters THEN 1 ELSE 0)
           /\ report'.quarantined = report.quarantined + (IF "quarantined" \in counters THEN 1 ELSE 0)
           /\ report'.duplicates = report.duplicates + (IF "duplicates" \in counters THEN 1 ELSE 0)
           /\ report'.late = report.late + (IF "late" \in counters THEN 1 ELSE 0)
<1>1. DOMAIN NoReport = {"received", "accepted", "quarantined", "duplicates", "late"}
  BY DEF NoReport
<1> QED
  BY <1>1 DEF Counting

\* The loaded events are finitely many.
LEMMA FactsFinite ==
    ASSUME Telling, facts \subseteq 1 .. Len(story)
    PROVE  IsFiniteSet(facts) /\ Cardinality(facts) \in Nat
<1>1. IsFiniteSet(1 .. Len(story))
  BY FS_Interval DEF Telling
<1>2. IsFiniteSet(facts)
  BY <1>1, FS_Subset
<1> QED
  BY <1>2, FS_CardinalityType

\* The first delivery of an event decides about it.
LEMMA ReadNextInv == Inv /\ ReadNext => Telling' /\ Reading' /\ Counted'
<1> SUFFICES ASSUME Inv, NEW e \in Draws(source), NEW form \in Forms,
                    e.number <= MaxEvents,
                    story' = Append(story, e), source' = Drawn(source, e),
                    Read(Record(e.number, form))
             PROVE  Telling' /\ Reading' /\ Counted'
  BY DEF ReadNext
<1> DEFINE n == Len(story)
           record == Record(e.number, form)
<1>1. /\ Telling' /\ Len(story') = n + 1 /\ e.number = n + 1 /\ n \in Nat
  BY TellingOn DEF Inv, Telling
<1>2. record.number = n + 1 /\ record.form = form /\ record \in Deliveries /\ record # Malformed
  BY <1>1 DEF Record, Deliveries, Malformed, Forms
<1>3. seen = 1 .. n /\ facts \subseteq 1 .. n
  BY DEF Inv, Reading
<1>4. n + 1 \notin seen /\ n + 1 \notin facts
  BY <1>1, <1>3
<1>5. records \in Seq(Deliveries) /\ records' = Append(records, record) /\ Judge(record)
  BY <1>2 DEF Inv, Reading, Read
<1> HIDE DEF record
<1>6. /\ seen' = seen \cup {n + 1}
      /\ facts' = IF form = "refused" THEN facts ELSE facts \cup {n + 1}
      /\ form = "refused" => report' = Counting({"quarantined"})
      /\ form # "refused" =>
             report' = Counting({"accepted"} \cup (IF form = "late" THEN {"late"} ELSE {}))
  BY <1>2, <1>4, <1>5 DEF Judge
<1>7. ~ Among(n + 1, Len(records)) /\ ~ Decided(n + 1, Len(records))
  <2>1. \A i \in 1 .. Len(records) : records[i].number <= n /\ records[i].number \in Nat
    <3>1. \A i \in 1 .. Len(records) : records[i] \in Deliveries
      BY <1>5
    <3>2. \A d \in Deliveries : d.number \in Nat
      BY DEF Deliveries, Malformed, Record
    <3> QED
      BY <3>1, <3>2 DEF Inv, Reading
  <2> QED
    BY <1>1, <2>1 DEF Among, Decided
<1>8. /\ records' \in Seq(Deliveries) /\ Len(records') = Len(records) + 1
      /\ \A i \in 1 .. Len(records) : records'[i] = records[i]
      /\ records'[Len(records')] = record
      /\ \A m \in Nat : Among(m, Len(records))' <=> Among(m, Len(records)) \/ record.number = m
      /\ \A m \in Nat : Decided(m, Len(records))' <=>
                            \/ Decided(m, Len(records))
                            \/ /\ record.number = m /\ record.form \in {"fine", "late"}
                               /\ ~ Among(m, Len(records))
  BY <1>2, <1>5, OneRecordMore
<1>9. Len(records) \in Nat
  BY <1>5
<1>10. Reading'
  <2>1. \A i \in 1 .. Len(records') : records'[i].number <= Len(story')
    <3>1. \A i \in 1 .. Len(records) : records[i].number <= n /\ records[i].number \in Nat
      <4>1. \A i \in 1 .. Len(records) : records[i] \in Deliveries
        BY <1>5
      <4>2. \A d \in Deliveries : d.number \in Nat
        BY DEF Deliveries, Malformed, Record
      <4> QED
        BY <4>1, <4>2 DEF Inv, Reading
    <3>2. \A i \in 1 .. Len(records') : i \in 1 .. Len(records) \/ i = Len(records')
      BY <1>8, <1>9
    <3> QED
      BY <1>1, <1>2, <1>8, <3>1, <3>2
  <2>2. 1 .. n + 1 = 1 .. n \cup {n + 1}
    BY <1>1
  <2>3. seen' = 1 .. Len(story')
    BY <1>1, <1>3, <1>6, <2>2
  <2>4. \A m \in seen' : Among(m, Len(records))'
    <3>1. \A m \in seen : m \in Nat /\ Among(m, Len(records))
      BY <1>3 DEF Inv, Reading
    <3>2. \A m \in seen' : m \in seen \/ m = n + 1
      BY <1>6
    <3> QED
      BY <1>1, <1>2, <1>8, <3>1, <3>2
  <2>5. facts = {m \in 1 .. n : Decided(m, Len(records))}
    BY DEF Inv, Reading
  <2>6. \A m \in 1 .. n : m \in Nat /\ m # n + 1
    BY <1>1
  <2>7. \A m \in 1 .. n : Decided(m, Len(records))' <=> Decided(m, Len(records))
    BY <1>2, <1>8, <2>6
  <2>8. Decided(e.number, Len(records))' <=> form \in {"fine", "late"}
    <3>1. e.number \in Nat /\ record.number = e.number
      BY <1>1, <1>2
    <3>2. ~ Among(e.number, Len(records)) /\ ~ Decided(e.number, Len(records))
      BY <1>1, <1>7
    <3> QED
      BY <1>2, <1>8, <3>1, <3>2
  <2>9. form = "refused" \/ form \in {"fine", "late"}
    BY DEF Forms
  <2>10. facts' = {m \in 1 .. n + 1 : Decided(m, Len(records))'}
    <3>1. \A m \in 1 .. n + 1 :
              Decided(m, Len(records))' <=> m \in facts \/ (m = n + 1 /\ form # "refused")
      BY <1>1, <1>4, <2>2, <2>5, <2>7, <2>8, <2>9
    <3>2. facts' \subseteq 1 .. n + 1
      BY <1>3, <1>6, <2>2
    <3>3. \A m : m \in facts' <=> m \in facts \/ (m = n + 1 /\ form # "refused")
      BY <1>6
    <3> QED
      BY <3>1, <3>2, <3>3
  <2> QED
    <3>1. Len(records') <= MaxRecords
      BY <1>8, <1>9, LocalAssumption DEF Read
    <3> QED
      BY <1>1, <1>8, <2>1, <2>3, <2>4, <2>10, <3>1 DEF Reading
<1>11. Counted'
  <2>1. IsFiniteSet(facts) /\ Cardinality(facts) \in Nat
    BY <1>3, FactsFinite DEF Inv
  <2>2. Cardinality(facts \cup {n + 1}) = Cardinality(facts) + 1
    BY <1>4, <2>1, FS_AddElement
  <2>3. /\ report \in [DOMAIN NoReport -> Nat]
        /\ report.accepted = Cardinality(facts) /\ report.late <= report.accepted
        /\ report.received = Len(records)
        /\ report.received = report.accepted + report.quarantined + report.duplicates
    BY DEF Inv, Counted
  <2>4. /\ report.late \in Nat /\ report.accepted \in Nat /\ report.quarantined \in Nat
        /\ report.duplicates \in Nat
    BY <2>3 DEF NoReport
  <2>5. CASE form = "refused"
    <3> DEFINE counters == {"quarantined"}
    <3>0. report' = Counting(counters) /\ "received" \notin counters /\ "accepted" \notin counters
          /\ "quarantined" \in counters /\ "duplicates" \notin counters /\ "late" \notin counters
      BY <1>6, <2>5
    <3> HIDE DEF counters
    <3>1. /\ report' \in [DOMAIN NoReport -> Nat]
          /\ report'.received = report.received + 1
          /\ report'.accepted = report.accepted
          /\ report'.quarantined = report.quarantined + 1
          /\ report'.duplicates = report.duplicates
          /\ report'.late = report.late
      BY <2>3, <2>4, <3>0, CountingOne
    <3>2. facts' = facts
      BY <1>6, <2>5
    <3> QED
      BY <1>8, <1>9, <2>3, <2>4, <3>1, <3>2 DEF Counted
  <2>6. CASE form # "refused"
    <3> DEFINE counters == {"accepted"} \cup (IF form = "late" THEN {"late"} ELSE {})
    <3>1. report' = Counting(counters) /\ "received" \notin counters /\ "accepted" \in counters
          /\ "quarantined" \notin counters /\ "duplicates" \notin counters
      BY <1>6, <2>6
    <3> HIDE DEF counters
    <3>2. /\ report' \in [DOMAIN NoReport -> Nat]
          /\ report'.received = report.received + 1
          /\ report'.accepted = report.accepted + 1
          /\ report'.quarantined = report.quarantined
          /\ report'.duplicates = report.duplicates
          /\ report'.late \in {report.late, report.late + 1}
      BY <2>3, <2>4, <3>1, CountingOne, SMTT(40)
    <3>3. Cardinality(facts') = Cardinality(facts) + 1
      BY <1>6, <2>2, <2>6
    <3>4. /\ report'.accepted = Cardinality(facts') /\ report'.received = Len(records')
          /\ report'.late <= report'.accepted
      BY <1>8, <1>9, <2>3, <2>4, <3>2, <3>3
    <3>5. report'.received = report'.accepted + report'.quarantined + report'.duplicates
      BY <2>3, <2>4, <3>2
    <3> QED
      BY <3>2, <3>4, <3>5 DEF Counted
  <2> QED
    BY <2>5, <2>6
<1> QED
  BY <1>1, <1>10, <1>11

\* A redelivery is a duplicate, whatever its form; a malformed record is kept apart.
LEMMA ReadAgainInv == Inv /\ ReadAgain => Telling' /\ Reading' /\ Counted'
<1> SUFFICES ASSUME Inv, UNCHANGED <<story, source>>,
                    NEW record \in {Malformed} \cup {Record(n, form) : n \in 1 .. Len(story), form \in Forms},
                    Read(record)
             PROVE  Telling' /\ Reading' /\ Counted'
  BY DEF ReadAgain
<1>1. Telling' /\ Len(story) \in Nat
  BY DEF Inv, Telling
<1>2. /\ record \in Deliveries /\ record.number \in 0 .. Len(story)
      /\ record # Malformed => record.number \in 1 .. Len(story)
      /\ record = Malformed => record.number = 0 /\ record.form = "malformed"
  BY <1>1 DEF Record, Deliveries, Malformed, Forms
<1>3. seen = 1 .. Len(story) /\ facts \subseteq 1 .. Len(story)
  BY DEF Inv, Reading
<1>4. records \in Seq(Deliveries) /\ records' = Append(records, record)
  BY DEF Inv, Reading, Read
<1>5. /\ seen' = seen /\ facts' = facts
      /\ report' \in {Counting({"quarantined"}), Counting({"duplicates"})}
  <2>1. CASE record = Malformed
    BY <2>1 DEF Read
  <2>2. CASE record # Malformed
    <3>1. record.number \in seen /\ Judge(record)
      BY <1>2, <1>3, <2>2 DEF Read
    <3> QED
      BY <3>1 DEF Judge
  <2> QED
    BY <2>1, <2>2
<1>6. /\ records' \in Seq(Deliveries) /\ Len(records') = Len(records) + 1
      /\ \A i \in 1 .. Len(records) : records'[i] = records[i]
      /\ records'[Len(records')] = record
      /\ \A m \in Nat : Among(m, Len(records))' <=> Among(m, Len(records)) \/ record.number = m
      /\ \A m \in Nat : Decided(m, Len(records))' <=>
                            \/ Decided(m, Len(records))
                            \/ /\ record.number = m /\ record.form \in {"fine", "late"}
                               /\ ~ Among(m, Len(records))
  BY <1>2, <1>4, OneRecordMore
<1>7. Len(records) \in Nat
  BY <1>4
<1>8. Reading'
  <2>1. \A i \in 1 .. Len(records') : records'[i].number <= Len(story')
    <3>1. \A i \in 1 .. Len(records) : records[i].number <= Len(story)
      BY DEF Inv, Reading
    <3>2. \A i \in 1 .. Len(records') : i \in 1 .. Len(records) \/ i = Len(records')
      BY <1>6, <1>7
    <3>3. record.number <= Len(story)
      BY <1>1, <1>2
    <3> QED
      BY <1>6, <3>1, <3>2, <3>3
  <2>2. \A m \in seen : m \in Nat /\ Among(m, Len(records))
    BY <1>3 DEF Inv, Reading
  <2>3. \A m \in seen' : Among(m, Len(records))'
    BY <1>5, <1>6, <2>2
  <2>4. \A m \in 1 .. Len(story) : Decided(m, Len(records))' <=> Decided(m, Len(records))
    <3> SUFFICES ASSUME NEW m \in 1 .. Len(story)
                 PROVE  Decided(m, Len(records))' <=> Decided(m, Len(records))
      OBVIOUS
    <3>1. m \in Nat /\ Among(m, Len(records))
      BY <1>3, <2>2
    <3> QED
      BY <1>6, <3>1
  <2>5. facts' = {m \in 1 .. Len(story') : Decided(m, Len(records))'}
    BY <1>5, <2>4 DEF Inv, Reading
  <2> QED
    <3>1. Len(records') <= MaxRecords
      BY <1>6, <1>7, LocalAssumption DEF Read
    <3> QED
      BY <1>3, <1>5, <1>6, <2>1, <2>3, <2>5, <3>1 DEF Reading
<1>9. Counted'
  <2>1. IsFiniteSet(facts) /\ Cardinality(facts) \in Nat
    BY <1>3, FactsFinite DEF Inv
  <2>2. /\ report \in [DOMAIN NoReport -> Nat]
        /\ report.accepted = Cardinality(facts) /\ report.late <= report.accepted
        /\ report.received = Len(records)
        /\ report.received = report.accepted + report.quarantined + report.duplicates
    BY DEF Inv, Counted
  <2>3. /\ report.late \in Nat /\ report.accepted \in Nat /\ report.quarantined \in Nat
        /\ report.duplicates \in Nat
    BY <2>2 DEF NoReport
  <2>4. PICK counter \in {"quarantined", "duplicates"} : report' = Counting({counter})
    BY <1>5
  <2> DEFINE counters == {counter}
  <2>5. /\ report' = Counting(counters) /\ "received" \notin counters
        /\ "accepted" \notin counters /\ "late" \notin counters
        /\ ("quarantined" \in counters <=> "duplicates" \notin counters)
    BY <2>4
  <2> HIDE DEF counters
  <2>6. /\ report' \in [DOMAIN NoReport -> Nat]
        /\ report'.received = report.received + 1
        /\ report'.accepted = report.accepted
        /\ report'.quarantined + report'.duplicates = report.quarantined + report.duplicates + 1
        /\ report'.late = report.late
    <3>1. /\ report' \in [DOMAIN NoReport -> Nat]
          /\ report'.received = report.received + 1
          /\ report'.accepted = report.accepted + (IF "accepted" \in counters THEN 1 ELSE 0)
          /\ report'.quarantined = report.quarantined + (IF "quarantined" \in counters THEN 1 ELSE 0)
          /\ report'.duplicates = report.duplicates + (IF "duplicates" \in counters THEN 1 ELSE 0)
          /\ report'.late = report.late + (IF "late" \in counters THEN 1 ELSE 0)
      BY <2>2, <2>5, CountingOne
    <3> QED
      BY <2>3, <2>5, <3>1
  <2>7. report'.quarantined \in Nat /\ report'.duplicates \in Nat
    BY <2>6 DEF NoReport
  <2>8. report'.received = report'.accepted + report'.quarantined + report'.duplicates
    <3>1. report'.received = (report.accepted + report.quarantined + report.duplicates) + 1
      BY <2>2, <2>6
    <3>2. report.accepted \in Nat /\ report'.accepted = report.accepted
          /\ report'.quarantined + report'.duplicates = report.quarantined + report.duplicates + 1
      BY <2>3, <2>6
    <3> QED
      BY <2>3, <2>7, <3>1, <3>2, SMTT(40)
  <2> QED
    BY <1>5, <1>6, <2>2, <2>6, <2>8 DEF Counted
<1> QED
  BY <1>1, <1>8, <1>9

-----------------------------------------------------------------------------
(* The output directory.                                                   *)

\* Its files are six, three of them documents.
LEMMA FileNames ==
    /\ Data = {"database", "bronze", "quarantine"} /\ Data \subseteq Files
    /\ Files \ Data = {"report", "summary", "lineage"}
    /\ \A r : Whole(r) # Absent /\ Part(r) # Whole(r)
BY DEF Data, Files, Whole, Absent, Part

\* The stages of a run's end come one after the other.
LEMMA StageNames ==
    /\ {stage.at : stage \in Stages} = {"reading", "committed", "closed", "reported", "summarised"}
    /\ \A stage \in Stages :
          \/ stage.at = "reading" /\ stage.files = {"database"} /\ stage.then = "committed"
          \/ stage.at = "committed" /\ stage.files = {"bronze", "quarantine"} /\ stage.then = "closed"
          \/ stage.at = "closed" /\ stage.files = {"report"} /\ stage.then = "reported"
          \/ stage.at = "reported" /\ stage.files = {"summary"} /\ stage.then = "summarised"
          \/ stage.at = "summarised" /\ stage.files = {"lineage"} /\ stage.then = "idle"
BY DEF Stages

\* A cleared file takes nothing from the others.
LEMMA ClearStored == Stored /\ Clear => Stored'
<1> SUFFICES ASSUME Stored, Clear PROVE Stored'
  OBVIOUS
<1>1. PICK file \in Files : disk' = [disk EXCEPT ![file] = Absent]
  BY DEF Clear, ToRemove
<1>2. Absent \in [run : 0 .. MaxRuns, whole : BOOLEAN]
  BY LocalAssumption DEF Absent
<1>3. disk' \in [Files -> [run : 0 .. MaxRuns, whole : BOOLEAN]]
  BY <1>1, <1>2 DEF Stored
<1>4. \A f \in Files : disk'[f] = Absent \/ disk'[f] = disk[f]
  BY <1>1 DEF Stored
<1>5. ArtifactsAgree'
  BY <1>4 DEF Stored, ArtifactsAgree
<1>6. pc = "clearing" /\ pc' = pc /\ run' = run
  BY DEF Clear
<1> QED
  BY <1>3, <1>5, <1>6 DEF Stored

\* A run opens its files in an empty directory.
LEMMA OpenStored == Stored /\ Open => Stored'
<1> SUFFICES ASSUME Stored, Open PROVE Stored'
  OBVIOUS
<1>1. \A file \in Files : disk[file] = Absent
  BY DEF Open, ToRemove
<1>2. disk' = [file \in Files |-> IF file \in Data THEN Part(run) ELSE disk[file]]
  BY DEF Open
<1>3. Part(run) \in [run : 0 .. MaxRuns, whole : BOOLEAN] /\ Absent \in [run : 0 .. MaxRuns, whole : BOOLEAN]
  BY LocalAssumption DEF Stored, Part, Absent
<1>4. disk' \in [Files -> [run : 0 .. MaxRuns, whole : BOOLEAN]]
  BY <1>1, <1>2, <1>3
<1>5. \A document \in Files \ Data : disk'[document] = Absent
  BY <1>1, <1>2
<1>6. pc' = "reading" /\ run' = run
  BY DEF Open
<1>7. ArtifactsAgree'
  BY <1>5 DEF ArtifactsAgree
<1> QED
  BY <1>4, <1>5, <1>6, <1>7, StageNames DEF Stored

\* A run writes its documents when its data are whole.
LEMMA FinishStored == Stored /\ Finish => Stored'
<1> SUFFICES ASSUME Stored, NEW stage \in Stages, pc = stage.at, pc' = stage.then, run' = run,
                    disk' = [file \in Files |-> IF file \in stage.files THEN Whole(run) ELSE disk[file]]
             PROVE  Stored'
  BY DEF Finish
<1>1. Whole(run) \in [run : 0 .. MaxRuns, whole : BOOLEAN]
  BY DEF Stored, Whole
<1>2. disk' \in [Files -> [run : 0 .. MaxRuns, whole : BOOLEAN]]
  BY <1>1 DEF Stored
<1>3. \A file \in Files : disk'[file] = IF file \in stage.files THEN Whole(run) ELSE disk[file]
  OBVIOUS
<1>4. /\ pc' \in {"committed"} => \A document \in Files \ Data : disk'[document] = Absent
      /\ pc' = "committed" => disk'["database"] = Whole(run)
  BY <1>3, StageNames, FileNames DEF Stored
<1>5. pc' \in {"closed", "reported", "summarised", "idle"} =>
          /\ \A file \in Data : disk'[file] = Whole(run)
          /\ \A document \in Files \ Data : disk'[document] \in {Absent, Whole(run)}
  <2>1. CASE pc = "committed"
    BY <1>3, <2>1, StageNames, FileNames DEF Stored
  <2>2. CASE pc \in {"closed", "reported", "summarised"}
    <3>1. stage.files \subseteq Files \ Data
      BY <2>2, StageNames, FileNames
    <3> QED
      BY <1>3, <2>2, <3>1, FileNames DEF Stored
  <2>3. CASE pc = "reading"
    BY <2>3, StageNames
  <2> QED
    BY <2>1, <2>2, <2>3, StageNames
<1>6. pc' \in {"committed", "closed", "reported", "summarised", "idle"}
  BY StageNames
<1>7. ArtifactsAgree'
  <2>1. CASE pc' = "committed"
    BY <1>4, <2>1 DEF ArtifactsAgree
  <2>2. CASE pc' # "committed"
    BY <1>5, <1>6, <2>2, FileNames DEF ArtifactsAgree
  <2> QED
    BY <2>1, <2>2
<1> QED
  BY <1>2, <1>4, <1>5, <1>6, <1>7, StageNames DEF Stored

-----------------------------------------------------------------------------

\* The first state satisfies the invariant.
LEMMA InvInit == Init => Inv
<1> SUFFICES ASSUME Init PROVE Inv
  OBVIOUS
<1>1. Telling
  BY TellingInit
<1>2. /\ records = <<>> /\ story = <<>> /\ seen = {} /\ facts = {} /\ report = NoReport
      /\ run = 0 /\ pc = "idle" /\ disk = [file \in Files |-> Absent]
  BY DEF Init
<1>3. Reading
  BY <1>2, LocalAssumption DEF Reading
<1>4. Counted
  BY <1>2, FS_EmptySet DEF Counted, NoReport
<1>5. Stored
  BY <1>2, LocalAssumption DEF Stored, ArtifactsAgree, Absent
<1> QED
  BY <1>1, <1>3, <1>4, <1>5 DEF Inv

\* A run begins: a new story, whatever lies in the directory.
LEMMA BeginInv == Inv /\ Begin => Inv'
<1> SUFFICES ASSUME Inv, Begin PROVE Inv'
  OBVIOUS
<1>1. Telling'
  BY TellingInit
<1>2. /\ records' = <<>> /\ story' = <<>> /\ seen' = {} /\ facts' = {} /\ report' = NoReport
      /\ run' = run + 1 /\ pc' = "clearing" /\ disk' = disk
  BY DEF Begin
<1>3. Reading'
  BY <1>2, LocalAssumption DEF Reading
<1>4. Counted'
  BY <1>2, FS_EmptySet DEF Counted, NoReport
<1>5. Stored'
  <2>1. run + 1 \in 0 .. MaxRuns
    BY LocalAssumption DEF Inv, Stored, Begin
  <2> QED
    BY <1>2, <2>1 DEF Inv, Stored, ArtifactsAgree
<1> QED
  BY <1>1, <1>3, <1>4, <1>5 DEF Inv

\* Every step keeps the invariant.
LEMMA InvNext == Inv /\ [Next]_vars => Inv'
<1> SUFFICES ASSUME Inv, [Next]_vars PROVE Inv'
  OBVIOUS
<1>1. ASSUME UNCHANGED <<story, source, records, report, seen, facts>>
      PROVE  Telling' /\ Reading' /\ Counted'
  BY <1>1 DEF Inv, Telling, Reading, Counted, Among, Decided
<1>2. ASSUME UNCHANGED <<run, pc, disk>> PROVE Stored'
  BY <1>2 DEF Inv, Stored, ArtifactsAgree
<1>3. CASE Begin
  BY <1>3, BeginInv
<1>4. CASE Clear
  BY <1>1, <1>4, ClearStored DEF Inv, Clear
<1>5. CASE Open
  BY <1>1, <1>5, OpenStored DEF Inv, Open
<1>6. CASE ReadNext
  <2>1. UNCHANGED <<run, pc, disk>>
    BY <1>6 DEF ReadNext, Read
  <2> QED
    BY <1>2, <1>6, <2>1, ReadNextInv DEF Inv
<1>7. CASE ReadAgain
  <2>1. UNCHANGED <<run, pc, disk>>
    BY <1>7 DEF ReadAgain, Read
  <2> QED
    BY <1>2, <1>7, <2>1, ReadAgainInv DEF Inv
<1>8. CASE Finish
  BY <1>1, <1>8, FinishStored DEF Inv, Finish
<1>9. CASE Crash
  <2>1. Stored'
    BY <1>9 DEF Inv, Crash, Stored, ArtifactsAgree
  <2> QED
    BY <1>1, <1>9, <2>1 DEF Inv, Crash
<1>10. CASE UNCHANGED vars
  BY <1>1, <1>2, <1>10 DEF Inv, vars
<1> QED
  BY <1>3, <1>4, <1>5, <1>6, <1>7, <1>8, <1>9, <1>10 DEF Next

\* The invariant holds in every state.
LEMMA InvAlways == Spec => []Inv
BY InvInit, InvNext, PTL DEF Spec

-----------------------------------------------------------------------------
(* The marts.                                                              *)

\* A set of numbers that is bounded and not empty has a largest one.
LEMMA LargestOf ==
    ASSUME NEW S \in SUBSET Nat, S # {}, NEW n \in Nat, \A x \in S : x <= n
    PROVE  Max(S) \in S /\ \A x \in S : x <= Max(S)
<1> DEFINE R == {p \in Nat \X Nat : p[1] < p[2]}
           T == {n - x : x \in S}
<1>1. IsWellFoundedOn(R, Nat)
  <2>1. R = OpToRel(<, Nat)
    BY DEF OpToRel
  <2>. QED
    BY <2>1, NatLessThanWellFounded
<1>2. \A x \in S : x \in Nat /\ n - x \in Nat
  OBVIOUS
<1>3. T \subseteq Nat /\ T # {}
  BY <1>2
<1>4. PICK m \in T : \A y \in T : ~ (<<y, m>> \in R)
  <2> HIDE DEF R, T
  <2>. QED
    BY <1>1, <1>3, WFMin
<1>5. PICK x \in S : m = n - x
  BY <1>4
<1>6. ASSUME NEW y \in S PROVE y <= x
  <2>1. <<n - y, n - x>> \notin R
    BY <1>4, <1>5
  <2>2. ~ (n - y < n - x)
    BY <1>2, <2>1
  <2>. QED
    BY <1>2, <2>2
<1>. QED
  BY <1>5, <1>6 DEF Max

\* An image of the loaded events is finite.
LEMMA ImageFinite ==
    ASSUME Telling, facts \subseteq 1 .. Len(story), NEW kinds
    PROVE  IsFiniteSet({story[n].application : n \in Loaded(kinds)})
<1> DEFINE S == Loaded(kinds)
           f == [n \in S |-> story[n].application]
           T == {story[n].application : n \in S}
<1>1. IsFiniteSet(S)
  <2>1. IsFiniteSet(facts) /\ S \in SUBSET facts
    BY FactsFinite DEF Loaded
  <2> QED
    BY <2>1, FS_Subset
<1>2. f \in Surjection(S, T)
  BY DEF Surjection
<1> HIDE DEF f, S, T
<1>3. IsFiniteSet(T)
  BY <1>1, <1>2, FS_Surjection
<1> QED
  BY <1>3 DEF T, S

\* The decision that the mart shows is the kind of the latest one loaded.
LEMMA LatestDecides ==
    ASSUME Telling, facts \subseteq 1 .. Len(story), NEW a, DecisionsOn(a) # {}
    PROVE  \E n \in DecisionsOn(a) : /\ Decision(a) = story[n].kind
                                     /\ \A m \in DecisionsOn(a) : m <= n
<1>1. Len(story) \in Nat
  BY DEF Telling
<1>2. DecisionsOn(a) \subseteq 1 .. Len(story)
  BY DEF DecisionsOn, Loaded
<1>3. DecisionsOn(a) \in SUBSET Nat /\ \A x \in DecisionsOn(a) : x <= Len(story)
  BY <1>1, <1>2
<1>4. Max(DecisionsOn(a)) \in DecisionsOn(a) /\ \A x \in DecisionsOn(a) : x <= Max(DecisionsOn(a))
  BY <1>1, <1>3, LargestOf
<1> QED
  BY <1>4 DEF Decision

\* A repayment in the story has its application and an approval before it.
LEMMA RepaidWasApproved ==
    ASSUME Telling, NEW n \in 1 .. Len(story), story[n].kind = "repayment"
    PROVE  /\ \E j \in 1 .. Len(story) : /\ j < n /\ story[j].kind = "approved"
                                         /\ story[j].application = story[n].application
           /\ \E j \in 1 .. Len(story) : /\ story[j].kind = "application"
                                         /\ story[j].application = story[n].application
<1>1. Len(story) \in Nat /\ \A j \in 1 .. n - 1 : j \in 1 .. Len(story) /\ j < n
  BY DEF Telling
<1>2. /\ \E j \in 1 .. n - 1 : /\ story[j].kind = "approved"
                               /\ story[j].application = story[n].application
      /\ \E j \in 1 .. n - 1 : /\ story[j].kind = "application"
                               /\ story[j].application = story[n].application
  BY DEF Telling, Coherent
<1> QED
  BY <1>1, <1>2

\* What the marts say of a coherent story that was read without a gap.
LEMMA MartsTell == Inv => MartsTellTheStory
<1> SUFFICES ASSUME Inv PROVE MartsTellTheStory
  OBVIOUS
<1>1. Telling /\ seen = 1 .. Len(story) /\ facts \subseteq 1 .. Len(story) /\ Len(story) \in Nat
  BY DEF Inv, Telling, Reading
<1>2. ASSUME NEW a \in Applications, RepaymentsOf(a) # {}, Decision(a) # "approved"
      PROVE  \E n \in seen :
                 /\ story[n].kind = "approved" /\ story[n].application = a
                 /\ n \in facts => \E later \in DecisionsOn(a) :
                                     later > n /\ story[later].kind = "not_approved"
  <2>1. PICK r \in facts : story[r].kind = "repayment" /\ story[r].application = a
    BY <1>2 DEF RepaymentsOf, Loaded
  <2>2. PICK j \in 1 .. Len(story) : story[j].kind = "approved" /\ story[j].application = a
    BY <1>1, <2>1, RepaidWasApproved
  <2>3. ASSUME j \in facts
        PROVE  \E later \in DecisionsOn(a) : later > j /\ story[later].kind = "not_approved"
    <3>1. j \in DecisionsOn(a)
      BY <2>2, <2>3 DEF DecisionsOn, Loaded
    <3>2. PICK n \in DecisionsOn(a) : /\ Decision(a) = story[n].kind
                                      /\ \A m \in DecisionsOn(a) : m <= n
      BY <1>1, <3>1, LatestDecides
    <3>3. story[n].kind = "not_approved"
      BY <1>2, <3>2 DEF DecisionsOn, Loaded
    <3>4. j <= n /\ j # n /\ j \in Nat /\ n \in Nat
      BY <1>1, <2>2, <3>1, <3>2, <3>3 DEF DecisionsOn, Loaded
    <3> QED
      BY <3>2, <3>3, <3>4
  <2> QED
    BY <1>1, <2>2, <2>3
<1> DEFINE Approved == {a \in Applications : Decision(a) = "approved"}
           DecidedOn == {a \in Applications : Decision(a) # "none"}
           Repaid == {story[n].application : n \in Loaded({"repayment"})}
<1>3. IsFiniteSet(Applications) /\ IsFiniteSet(Repaid)
  BY <1>1, ImageFinite DEF Applications
<1>4. Approved \in SUBSET DecidedOn /\ DecidedOn \in SUBSET Applications
  OBVIOUS
<1>5. /\ IsFiniteSet(DecidedOn) /\ Cardinality(DecidedOn) <= Cardinality(Applications)
      /\ IsFiniteSet(Approved) /\ Cardinality(Approved) <= Cardinality(DecidedOn)
  <2> HIDE DEF Approved, DecidedOn
  <2> QED
    BY <1>3, <1>4, FS_Subset
<1>6. Funnel = [applications |-> Cardinality(Applications), decisions |-> Cardinality(DecidedOn),
                approvals |-> Cardinality(Approved), loans_with_repayment |-> Cardinality(Repaid)]
  BY DEF Funnel
<1>7. ASSUME \A n \in seen : ~ (IF n \in facts THEN story[n].kind = "not_approved"
                                ELSE story[n].kind \in {"application", "approved"})
      PROVE  Repaid \in SUBSET Approved
  <2> SUFFICES ASSUME NEW r \in facts, story[r].kind = "repayment"
               PROVE  story[r].application \in Approved
    BY DEF Loaded
  <2> DEFINE a == story[r].application
  <2>1. PICK i \in 1 .. Len(story) : story[i].kind = "application" /\ story[i].application = a
    BY <1>1, RepaidWasApproved
  <2>2. PICK j \in 1 .. Len(story) : story[j].kind = "approved" /\ story[j].application = a
    BY <1>1, RepaidWasApproved
  <2>3. i \in facts /\ j \in facts
    BY <1>1, <1>7, <2>1, <2>2
  <2>4. a \in Applications /\ j \in DecisionsOn(a)
    BY <2>1, <2>2, <2>3 DEF Applications, DecisionsOn, Loaded
  <2>5. PICK n \in DecisionsOn(a) : Decision(a) = story[n].kind
    BY <1>1, <2>4, LatestDecides
  <2>6. n \in facts /\ story[n].kind \in {"approved", "not_approved"}
    BY DEF DecisionsOn, Loaded
  <2>7. story[n].kind = "approved"
    BY <1>1, <1>7, <2>6
  <2> QED
    BY <2>4, <2>5, <2>7
<1>8. ASSUME Cardinality(Repaid) > Cardinality(Approved)
      PROVE  \E n \in seen : IF n \in facts THEN story[n].kind = "not_approved"
                             ELSE story[n].kind \in {"application", "approved"}
  <2> HIDE DEF Approved, DecidedOn, Repaid
  <2> SUFFICES ASSUME Repaid \in SUBSET Approved PROVE FALSE
    BY <1>7
  <2>1. Cardinality(Repaid) <= Cardinality(Approved)
    BY <1>5, FS_Subset
  <2>2. Cardinality(Repaid) \in Nat /\ Cardinality(Approved) \in Nat
    BY <1>3, <1>5, FS_CardinalityType
  <2> QED
    BY <1>8, <2>1, <2>2
<1> HIDE DEF Approved, DecidedOn, Repaid
<1> QED
  BY <1>2, <1>5, <1>6, <1>8 DEF MartsTellTheStory

-----------------------------------------------------------------------------

\* Whatever is delivered again, refused or malformed: the first delivery that
\* the contract accepts decides about its event, and the counters say so.
THEOREM FirstDecides == Spec => []FirstDeliveryDecides
<1>1. Inv => FirstDeliveryDecides
  BY DEF Inv, Reading, Counted, Decided, FirstDeliveryDecides
<1> QED
  BY <1>1, InvAlways, PTL

\* What the marts say of applications, decisions and repayments is coherent
\* with the story, and every difference has its reason among what was refused
\* or decided again.
THEOREM MartsAreRight == Spec => []MartsTellTheStory
BY MartsTell, InvAlways, PTL

\* However many runs were cut short, wherever, in the same directory: no report,
\* summary or lineage lies beside data of another run, or of an unfinished one.
THEOREM ArtifactsBelongTogether == Spec => []ArtifactsAgree
<1>1. Inv => ArtifactsAgree
  BY DEF Inv, Stored
<1> QED
  BY <1>1, InvAlways, PTL

\* The invariant says what every variable holds.
LEMMA InvTypes == Inv => LocalTypeOK
<1> SUFFICES ASSUME Inv PROVE LocalTypeOK
  OBVIOUS
<1>1. \A i \in 1 .. Len(records) :
          records[i] = Malformed \/ records[i] \in [number : 1 .. Len(story), form : Forms]
  <2> SUFFICES ASSUME NEW i \in 1 .. Len(records), records[i] # Malformed
               PROVE  records[i] \in [number : 1 .. Len(story), form : Forms]
    OBVIOUS
  <2>1. records[i] \in [number : Nat \ {0}, form : Forms]
    BY DEF Inv, Reading, Deliveries
  <2>2. records[i].number \in 1 .. Len(story)
    BY <2>1 DEF Inv, Reading, Telling
  <2> QED
    BY <2>1, <2>2
<1>2. report \in [DOMAIN NoReport -> 0 .. MaxRecords]
  <2>1. /\ report \in [DOMAIN NoReport -> Nat] /\ report.received = Len(records)
        /\ report.received = report.accepted + report.quarantined + report.duplicates
        /\ report.late <= report.accepted /\ Len(records) <= MaxRecords
    BY DEF Inv, Counted, Reading
  <2>2. DOMAIN NoReport = {"received", "accepted", "quarantined", "duplicates", "late"}
    BY DEF NoReport
  <2>3. \A name \in DOMAIN NoReport : report[name] \in 0 .. MaxRecords
    <3>1. /\ report.received \in Nat /\ report.accepted \in Nat /\ report.quarantined \in Nat
          /\ report.duplicates \in Nat /\ report.late \in Nat
      BY <2>1, <2>2
    <3>2. /\ report.received <= MaxRecords /\ report.accepted <= MaxRecords
          /\ report.quarantined <= MaxRecords /\ report.duplicates <= MaxRecords
          /\ report.late <= MaxRecords
      BY <2>1, <3>1, LocalAssumption
    <3> QED
      BY <2>2, <3>1, <3>2, LocalAssumption
  <2> QED
    BY <2>1, <2>3
<1>3. facts \subseteq seen /\ seen \subseteq 1 .. Len(story)
  BY DEF Inv, Reading
<1> QED
  BY <1>1, <1>2, <1>3 DEF Inv, Telling, Stored, LocalTypeOK

\* Type correctness, the coherence of the story included.
THEOREM LocalTypes == Spec => []LocalTypeOK
BY InvTypes, InvAlways, PTL
=============================================================================
