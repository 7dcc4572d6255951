------------------------------- MODULE Producer -------------------------------
(***************************************************************************)
(* The Kafka producer (src/finpulse/producer.py).  A run of it draws events  *)
(* from a generator of its own and hands them to the client library, which *)
(* sends them in the background.  A container that is restarted, and every *)
(* replica of it, is another run with the same seed.                       *)
(*                                                                         *)
(* The generator is deterministic: what the n-th event of the seed is, is  *)
(* settled when some run first draws it, and found again by the others.    *)
(* Only its times are those of the run.                                    *)
(***************************************************************************)
EXTENDS Generator, FiniteSets

CONSTANTS
    Runs,           \* runs of the program
    Replicas,       \* alive at a time (1 in docker-compose, 2 in Kubernetes)
    MaxQueue,       \* messages the client library holds
    Every           \* a malformed message after so many events (500)

ASSUME ProducerAssumption ==
    Replicas \in Nat \ {0} /\ MaxQueue \in Nat \ {0} /\ Every \in Nat \ {0}

VARIABLES
    drawn,      \* the events of the seed, as far as some run has drawn them
    phase,      \* of each run: new, running, stopping, ended
    gen,        \* its generator
    sent,       \* its counter of events sent
    queue,      \* the messages in its client library
    topic       \* the raw topic: the messages of each key, in order

producerVars == <<drawn, phase, gen, sent, queue, topic>>

-----------------------------------------------------------------------------

\* A message is a run's copy of an event; number 0 is the malformed message.
Message(r, number) == [run |-> r, number |-> number]
Messages == [run : Runs, number : 0 .. MaxEvents]

SlipKeyByApplication(m) == IF m.number = 0 THEN 0 ELSE drawn[m.number].application
\* The key of a message settles its partition; one key's messages keep their order.
Key(m) == IF m.number = 0 THEN 0 ELSE drawn[m.number].customer
Keys == 0 .. MaxCustomers

Alive == {r \in Runs : phase[r] \in {"running", "stopping"}}

\* The next event of a run: settled, if another run has drawn it before.
NextEvents(r) ==
    IF gen[r].sequence < Len(drawn) THEN {drawn[gen[r].sequence + 1]} ELSE Draws(gen[r])

Due(r) == sent[r] > 0 /\ sent[r] % Every = 0

-----------------------------------------------------------------------------

ProducerInit ==
    /\ drawn = <<>>
    /\ phase = [r \in Runs |-> "new"]
    /\ gen = [r \in Runs |-> NewGenerator]
    /\ sent = [r \in Runs |-> 0]
    /\ queue = [r \in Runs |-> <<>>]
    /\ topic = [k \in Keys |-> <<>>]

Start(r) ==
    /\ phase[r] = "new" /\ Cardinality(Alive) < Replicas
    /\ phase' = [phase EXCEPT ![r] = "running"]
    /\ UNCHANGED <<drawn, gen, sent, queue, topic>>

\* The body of the try: the event and, if one is due, a malformed message
\* are handed over.  A full queue raises BufferError at either of them, and
\* then the event is not counted; it is not sent again.
HandOver(r, e) ==
    LET room == MaxQueue - Len(queue[r])
        needed == IF Due(r) THEN 2 ELSE 1
        both == <<Message(r, e.number), Message(r, 0)>> IN
    /\ queue' = [queue EXCEPT ![r] = @ \o SubSeq(both, 1, IF room < needed THEN room ELSE needed)]
    /\ sent' = [sent EXCEPT ![r] = IF room < needed THEN @ ELSE @ + 1]

\* One iteration of the loop.
Iterate(r) ==
    /\ phase[r] = "running" /\ gen[r].sequence < MaxEvents
    /\ \E e \in NextEvents(r) :
           /\ drawn' = IF gen[r].sequence < Len(drawn) THEN drawn ELSE Append(drawn, e)
           /\ gen' = [gen EXCEPT ![r] = Drawn(@, e)]
           /\ HandOver(r, e)
    /\ UNCHANGED <<phase, topic>>

\* The message at position i of the queue is the first of its key.
Foremost(r, i) == \A j \in 1 .. i - 1 : Key(queue[r][j]) # Key(queue[r][i])
Without(messages, i) == [j \in 1 .. Len(messages) - 1 |-> messages[IF j < i THEN j ELSE j + 1]]

\* The library delivers a message.
Deliver(r) == \E i \in 1 .. Len(queue[r]) :
    /\ phase[r] \in {"running", "stopping"} /\ Foremost(r, i)
    /\ topic' = [topic EXCEPT ![Key(queue[r][i])] = Append(@, queue[r][i])]
    /\ queue' = [queue EXCEPT ![r] = Without(@, i)]
    /\ UNCHANGED <<drawn, phase, gen, sent>>

\* It gives a message up and reports that to delivery_callback(), which logs it.
GiveUp(r) == \E i \in 1 .. Len(queue[r]) :
    /\ phase[r] \in {"running", "stopping"} /\ Foremost(r, i)
    /\ queue' = [queue EXCEPT ![r] = Without(@, i)]
    /\ UNCHANGED <<drawn, phase, gen, sent, topic>>

\* A signal: the loop ends and flush(15) waits for what is queued.
Stop(r) ==
    /\ phase[r] = "running"
    /\ phase' = [phase EXCEPT ![r] = "stopping"]
    /\ UNCHANGED <<drawn, gen, sent, queue, topic>>

\* The process ends: after the flush, or by a crash.  What is queued is lost.
End(r) ==
    /\ phase[r] \in {"running", "stopping"}
    /\ phase' = [phase EXCEPT ![r] = "ended"]
    /\ queue' = [queue EXCEPT ![r] = <<>>]
    /\ UNCHANGED <<drawn, gen, sent, topic>>

ProducerNext == \E r \in Runs :
    Start(r) \/ Iterate(r) \/ Deliver(r) \/ GiveUp(r) \/ Stop(r) \/ End(r)

ProducerSpec == ProducerInit /\ [][ProducerNext]_producerVars

-----------------------------------------------------------------------------

\* Type correctness.
ProducerTypeOK ==
    /\ drawn \in Seq(Events) /\ Len(drawn) <= MaxEvents
    /\ phase \in [Runs -> {"new", "running", "stopping", "ended"}]
    /\ gen \in [Runs -> Generators]
    /\ sent \in [Runs -> 0 .. MaxEvents]
    /\ queue \in [Runs -> Seq(Messages)] /\ \A r \in Runs : Len(queue[r]) <= MaxQueue
    /\ topic \in [Keys -> Seq(Messages)]

\* The events of the seed tell a coherent story (README.md:157), although
\* decisions repeat and contradict each other.
StoryIsCoherent == Coherent(drawn)

Delivered(number, r) == \E k \in Keys : \E i \in 1 .. Len(topic[k]) : topic[k][i] = Message(r, number)
Queued(number, r) == \E i \in 1 .. Len(queue[r]) : queue[r][i] = Message(r, number)

\* Each run keeps the order of a customer: of what an event needs, the run that
\* delivered it has delivered all before it, or lost it for good; nothing it has
\* still queued, or delivers later, is needed by what it has delivered.  That
\* holds because the key is the customer (producer.py:75), for every loss and
\* beside any other run.  It is said of one run: where a run lost an event that
\* another delivers, a reader that keeps the first copy of each event id meets
\* it behind what needs it.
NeededComesFirst ==
    \A k \in Keys : \A i \in 1 .. Len(topic[k]) :
        LET m == topic[k][i] IN
        m.number # 0 =>
            \A d \in 1 .. Len(drawn) :
                Needs(drawn[m.number], drawn[d]) /\ d < m.number =>
                    /\ ~ Queued(d, m.run)
                    /\ Delivered(d, m.run) =>
                           \E j \in 1 .. i - 1 : topic[k][j] = Message(m.run, d)
===============================================================================
