--------------------------- MODULE LakehouseProofs ---------------------------
(***************************************************************************)
(* Theorems about Lakehouse, for any number of events, days, messages,     *)
(* backfills and repeated micro-batches.                                   *)
(*                                                                         *)
(* That losses and copies have the causes named needs to know that every   *)
(* row in silver was loaded by the stream, is of the micro-batch it is      *)
(* trying, or was put there ahead of it (Known).  That a complete rebuild restores silver needs to know   *)
(* what the partitions that were replaced hold while the stream waits      *)
(* (Rebuilding).                                                           *)
(***************************************************************************)
EXTENDS Lakehouse, FiniteSetTheorems, TLAPS

Jobs == [state : {"writing"}, from : Days, to : Days, read : Nat, since : Nat,
         rows : SUBSET Nat, remove : SUBSET Days, place : SUBSET Days]

Causes == [missed : SUBSET (Days \X Events), ahead : SUBSET Events, repeated : SUBSET Events]

\* What each variable holds.
Types ==
    /\ topic \in Seq(Messages)
    /\ bronze \in 0 .. Len(topic)
    /\ planned \in 0 .. Len(topic) /\ curated \in 0 .. planned
    /\ written \in BOOLEAN /\ (written => curated < planned)
    /\ attempts \in 0 .. MaxAttempts
    /\ seen \subseteq Events
    /\ silver \in [Days -> [Events -> Nat]]
    /\ job = NoJob \/ job \in Jobs
    /\ backfills \in 0 .. MaxBackfills
    /\ marks \in Causes

\* A backfill has read each event at most once, from bronze, and replaces no
\* partition but those of its rows.
Reads == job # NoJob =>
    /\ job.read <= bronze /\ job.rows \subseteq 1 .. job.read
    /\ \A i, j \in job.rows : topic[i].event = topic[j].event => i = j
    /\ job.remove \cup job.place \subseteq Replaced(job.rows)
    /\ job.remove \cap job.place = {}

\* Silver holds what the stream has loaded or is about to, or what came ahead of it.
Open == EventsOf(Batch(planned))
Known == \A day \in Days, e \in Events : silver[day][e] > 0 => e \in seen \cup Open \cup marks.ahead

\* While the stream appends nothing, a partition that is replaced is still to be removed,
\* or empty, or holds just the rows of the backfill; and it was read from every
\* message of bronze, if its window is open and bronze had them.
Rebuilding == job # NoJob =>
    /\ job.since <= attempts
    /\ \A i \in 1 .. job.read : topic[i].arrived \in job.from .. job.to =>
           \E j \in job.rows : topic[j].event = topic[i].event
    /\ attempts = job.since => \A day \in Replaced(job.rows) :
           /\ day \in job.place => silver[day] = Empty
           /\ day \notin job.remove \cup job.place => silver[day] = Copies(job.rows, day)

\* The stream has seen only events of the messages it has taken.
Taken == \A e \in seen : \E i \in 1 .. curated : topic[i].event = e

Inv == Types /\ Reads /\ Known /\ Rebuilding /\ Taken /\ DamageHasACause

-----------------------------------------------------------------------------
(* Lemmas about rows and partitions.                                       *)

\* A set without two elements has one or none.
LEMMA AtMostOne ==
    ASSUME NEW S, \A x, y \in S : x = y
    PROVE  Cardinality(S) \in {0, 1} /\ (Cardinality(S) = 1 <=> S # {})
<1>1. CASE S = {}
  BY <1>1, FS_EmptySet
<1>2. CASE S # {}
  <2>1. PICK x \in S : TRUE
    BY <1>2
  <2>2. S = {x}
    BY <2>1
  <2> QED
    BY <1>2, <2>2, FS_Singleton
<1> QED
  BY <1>1, <1>2

\* Rows without repetition make at most one copy of an event in a partition.
LEMMA CopiesAreSingle ==
    ASSUME NEW rows, \A i, j \in rows : topic[i].event = topic[j].event => i = j
    PROVE  \A day \in Days : /\ Copies(rows, day) \in [Events -> {0, 1}]
                             /\ \A e \in Events : Copies(rows, day)[e] = 1 <=>
                                    \E i \in rows : topic[i].event = e /\ topic[i].occurred = day
<1> SUFFICES ASSUME NEW day \in Days
             PROVE  /\ Copies(rows, day) \in [Events -> {0, 1}]
                    /\ \A e \in Events : Copies(rows, day)[e] = 1 <=>
                           \E i \in rows : topic[i].event = e /\ topic[i].occurred = day
  OBVIOUS
<1> DEFINE S(e) == {i \in rows : topic[i].event = e /\ topic[i].occurred = day}
<1>1. \A e \in Events : \A x, y \in S(e) : x = y
  OBVIOUS
<1>2. \A e \in Events : S(e) # {} <=> \E i \in rows : topic[i].event = e /\ topic[i].occurred = day
  OBVIOUS
<1>3. Copies(rows, day) = [e \in Events |-> Cardinality(S(e))]
  BY DEF Copies
<1> HIDE DEF S
<1>4. ASSUME NEW e \in Events
      PROVE  Cardinality(S(e)) \in {0, 1} /\ (Cardinality(S(e)) = 1 <=> S(e) # {})
  BY <1>1, AtMostOne
<1> QED
  BY <1>2, <1>3, <1>4

\* What a backfill has read is not changed by others.
LEMMA SameRows ==
    ASSUME UNCHANGED topic, job'.rows = job.rows
    PROVE  /\ Replaced(job.rows)' = Replaced(job.rows)
           /\ \A day \in Days : Copies(job.rows, day)' = Copies(job.rows, day)
<1>1. Replaced(job.rows)' = Replaced(job.rows)
  BY DEF Replaced
<1>2. ASSUME NEW day \in Days PROVE Copies(job.rows, day)' = Copies(job.rows, day)
  BY DEF Copies
<1> QED
  BY <1>1, <1>2

\* What the stream has loaded is not changed by others.
LEMMA SameStream ==
    ASSUME UNCHANGED <<topic, stream>>
    PROVE  /\ UNCHANGED <<curated, planned, written, attempts, seen>>
           /\ Open' = Open
           /\ \A e \in Events : Loaded(e)' = Loaded(e)
<1>1. UNCHANGED <<curated, planned, written, attempts, seen>>
  BY DEF stream
<1>2. EventsOf(Batch(planned))' = EventsOf(Batch(planned))
  BY <1>1 DEF EventsOf, Batch, Wanted
<1> QED
  BY <1>1, <1>2 DEF Open, Loaded

\* A partition that is replaced holds one of the rows.
LEMMA ReplacedDays ==
    ASSUME Types, Reads, job # NoJob
    PROVE  /\ job \in Jobs /\ bronze \in Nat /\ job.read \in Nat /\ bronze <= Len(topic)
           /\ \A i \in job.rows : i \in 1 .. Len(topic) /\ topic[i] \in Messages
                                  /\ topic[i].event \in Events /\ topic[i].occurred \in Days
           /\ Replaced(job.rows) \subseteq Days
<1>1. job \in Jobs /\ bronze \in Nat /\ bronze <= Len(topic) /\ Len(topic) \in Nat
  BY DEF Types
<1>2. job.read \in Nat
  BY <1>1 DEF Jobs
<1>3. ASSUME NEW i \in job.rows
      PROVE  i \in 1 .. Len(topic) /\ topic[i] \in Messages
             /\ topic[i].event \in Events /\ topic[i].occurred \in Days
  <2>1. i \in 1 .. job.read /\ job.read <= bronze
    BY <1>3 DEF Reads
  <2>2. i \in 1 .. Len(topic)
    BY <1>1, <1>2, <2>1
  <2>3. topic[i] \in Messages
    BY <2>2 DEF Types
  <2> QED
    BY <2>2, <2>3 DEF Messages
<1> QED
  BY <1>1, <1>2, <1>3 DEF Replaced

\* The copies that a backfill makes of an event in a partition.
LEMMA JobCopies ==
    ASSUME Types, Reads, job # NoJob
    PROVE  \A day \in Days : /\ Copies(job.rows, day) \in [Events -> {0, 1}]
                             /\ \A e \in Events : Copies(job.rows, day)[e] = 1 <=>
                                    \E i \in job.rows : topic[i].event = e /\ topic[i].occurred = day
<1>1. \A i, j \in job.rows : topic[i].event = topic[j].event => i = j
  BY DEF Reads
<1> QED
  BY <1>1, CopiesAreSingle

-----------------------------------------------------------------------------

\* The first state satisfies the invariant.
LEMMA InvInit == Init => Inv
<1> SUFFICES ASSUME Init PROVE Inv
  OBVIOUS
<1>1. topic \in Seq(Messages)
  <2>1. PICK n \in 1 .. MaxMessages : topic \in [1 .. n -> Messages]
    BY DEF Init
  <2> QED
    BY <2>1, LakehouseAssumption
<1>2. Empty \in [Events -> Nat]
  BY DEF Empty
<1>3. Types
  <2>1. marks \in Causes
    BY DEF Init, NoMarks, Causes
  <2>2. silver \in [Days -> [Events -> Nat]] /\ job = NoJob /\ backfills \in 0 .. MaxBackfills
    BY <1>2, LakehouseAssumption DEF Init
  <2>3. Len(topic) \in Nat
    BY <1>1
  <2>4. /\ bronze \in 0 .. Len(topic) /\ planned \in 0 .. Len(topic) /\ curated \in 0 .. planned
        /\ attempts \in 0 .. MaxAttempts
    BY <2>3, LakehouseAssumption DEF Init
  <2>5. written = FALSE /\ seen = {}
    BY DEF Init
  <2> QED
    BY <1>1, <2>1, <2>2, <2>4, <2>5 DEF Types
<1>4. Reads /\ Rebuilding /\ Taken
  BY DEF Init, Reads, Rebuilding, Taken
<1>5. Known /\ DamageHasACause
  BY DEF Init, Known, DamageHasACause, LossesAreExplained, Loaded, CopiesAreExplained, Twice, Empty
<1> QED
  BY <1>3, <1>4, <1>5 DEF Inv

\* Bronze grows; what a backfill has read stays.
LEMMA RetainInv == Inv /\ Retain => Inv'
<1> SUFFICES ASSUME Inv, Retain PROVE Inv'
  OBVIOUS
<1>1. /\ bronze' \in 0 .. Len(topic) /\ bronze' = bronze + 1 /\ bronze \in Nat
      /\ UNCHANGED <<topic, stream, silver, job, backfills, marks>>
  BY DEF Inv, Types, Retain
<1>0. /\ UNCHANGED <<curated, planned, written, attempts, seen>> /\ Open' = Open
      /\ \A e \in Events : Loaded(e)' = Loaded(e)
  BY <1>1, SameStream
<1>2. Types'
  BY <1>0, <1>1 DEF Inv, Types
<1>3. Reads'
  <2>1. job # NoJob => job.read <= bronze + 1
    <3>1. job # NoJob => job.read \in Nat /\ job.read <= bronze
      BY DEF Inv, Types, Jobs, Reads
    <3> QED
      BY <1>1, <3>1
  <2> QED
    BY <1>1, <2>1 DEF Inv, Reads, Replaced
<1>4. Rebuilding'
  <2>1. job # NoJob => Replaced(job.rows) \subseteq Days
    BY ReplacedDays DEF Inv
  <2>2. /\ Replaced(job.rows)' = Replaced(job.rows)
        /\ \A day \in Days : Copies(job.rows, day)' = Copies(job.rows, day)
    BY <1>1, SameRows
  <2>3. Empty' = Empty
    BY DEF Empty
  <2> QED
    BY <1>0, <1>1, <2>1, <2>2, <2>3 DEF Inv, Rebuilding
<1>5. Known' /\ Taken' /\ DamageHasACause'
  BY <1>0, <1>1 DEF Inv, Known, Taken, DamageHasACause, LossesAreExplained,
                    CopiesAreExplained, Held, Twice
<1> QED
  BY <1>2, <1>3, <1>4, <1>5 DEF Inv

\* The micro-batch that the stream tries holds events that it has not seen.
LEMMA BatchEvents ==
    ASSUME Types, NEW upto \in 1 .. Len(topic), curated < upto
    PROVE  /\ Batch(upto) \subseteq 1 .. upto
           /\ EventsOf(Batch(upto)) \subseteq Events /\ EventsOf(Batch(upto)) \cap seen = {}
<1>1. curated \in Nat /\ upto <= Len(topic) /\ Len(topic) \in Nat /\ upto \in Nat
  BY DEF Types
<1>2. ASSUME NEW i \in Batch(upto)
      PROVE  i \in 1 .. upto /\ topic[i].event \in Events /\ topic[i].event \notin seen
  <2>1. i \in curated + 1 .. upto /\ Wanted(topic[i])
    BY <1>2 DEF Batch
  <2>2. i \in 1 .. Len(topic) /\ i \in 1 .. upto
    BY <1>1, <2>1
  <2>3. topic[i] \in Messages
    BY <2>2 DEF Types
  <2> QED
    BY <2>1, <2>2, <2>3 DEF Wanted, Messages
<1> QED
  BY <1>2 DEF EventsOf

\* Whatever part of its micro-batch the stream appends, for the first time or
\* again, is of the batch, and marked if it is tried again.
LEMMA AttemptInv ==
    ASSUME Inv, NEW upto \in 1 .. Len(topic), NEW days \in SUBSET Days, Attempt(upto, days),
           written' \in BOOLEAN, written' => days = Days
    PROVE  Inv'
<1>1. PICK rows \in Deduplicated(Batch(upto)) :
          /\ silver' = [day \in Days |-> IF day \in days
                             THEN [e \in Events |-> silver[day][e] + Copies(rows, day)[e]]
                             ELSE silver[day]]
          /\ marks' = [marks EXCEPT !.repeated =
                           @ \cup (IF planned = upto THEN EventsOf(rows) ELSE {})]
  BY DEF Attempt
<1>2. /\ ~ written /\ attempts < MaxAttempts /\ upto > curated /\ planned \in {curated, upto}
      /\ planned' = upto /\ attempts' = attempts + 1
      /\ UNCHANGED <<topic, bronze, curated, seen, job, backfills>>
  BY DEF Attempt
<1>3. Types
  BY DEF Inv
<1>4. /\ curated \in Nat /\ planned \in Nat /\ upto \in Nat /\ attempts \in Nat
      /\ attempts' \in 0 .. MaxAttempts
  BY <1>2, <1>3, LakehouseAssumption DEF Types
<1>5. /\ Batch(upto) \subseteq 1 .. upto
      /\ EventsOf(Batch(upto)) \subseteq Events /\ EventsOf(Batch(upto)) \cap seen = {}
  BY <1>2, <1>3, <1>4, BatchEvents
<1>6. /\ rows \subseteq Batch(upto)
      /\ \A i, j \in rows : topic[i].event = topic[j].event => i = j
      /\ EventsOf(rows) = EventsOf(Batch(upto))
  BY DEF Deduplicated, EventsOf
<1>7. Open' = EventsOf(rows)
  <2>1. Batch(planned)' = Batch(upto)
    BY <1>2 DEF Batch, Wanted
  <2> QED
    BY <1>2, <1>6, <2>1 DEF Open, EventsOf
<1>8. /\ curated = planned => Open = {}
      /\ planned = upto => Open = EventsOf(rows)
  <2>1. curated = planned => Batch(planned) = {}
    BY <1>4 DEF Batch
  <2> QED
    BY <1>6, <2>1 DEF Open, EventsOf
<1>9. \A day \in Days : /\ Copies(rows, day) \in [Events -> {0, 1}]
                        /\ \A e \in Events : Copies(rows, day)[e] = 1 <=>
                               \E i \in rows : topic[i].event = e /\ topic[i].occurred = day
  BY <1>6, CopiesAreSingle
<1> DEFINE more(day, e) == IF day \in days THEN Copies(rows, day)[e] ELSE 0
<1>10. silver \in [Days -> [Events -> Nat]]
  BY <1>3 DEF Types
<1>11. /\ silver' \in [Days -> [Events -> Nat]]
       /\ \A day \in Days, e \in Events : silver'[day][e] = silver[day][e] + more(day, e)
  <2> DEFINE part(day) == [e \in Events |-> silver[day][e] + Copies(rows, day)[e]]
  <2>1. ASSUME NEW day \in Days
        PROVE  part(day) \in [Events -> Nat]
    <3>1. ASSUME NEW e \in Events PROVE silver[day][e] + Copies(rows, day)[e] \in Nat
      <4>1. silver[day][e] \in Nat /\ Copies(rows, day)[e] \in {0, 1}
        BY <1>9, <1>10
      <4> QED
        BY <4>1
    <3> QED
      BY <3>1
  <2>2. \A day \in Days, e \in Events : silver[day][e] \in Nat
    BY <1>10
  <2>3. \A day \in Days : silver'[day] = IF day \in days THEN part(day) ELSE silver[day]
    BY <1>1
  <2>4. silver' \in [Days -> [Events -> Nat]]
    BY <1>1, <1>10, <2>1
  <2>5. \A day \in Days, e \in Events : part(day)[e] = silver[day][e] + Copies(rows, day)[e]
    OBVIOUS
  <2> HIDE DEF part
  <2> QED
    BY <2>2, <2>3, <2>4, <2>5
<1>12. \A day \in Days, e \in Events :
           /\ more(day, e) \in {0, 1}
           /\ more(day, e) = 1 => \E i \in rows : topic[i].event = e /\ topic[i].occurred = day
  BY <1>9
<1>13. \A day \in Days, e \in Events : more(day, e) = 1 => e \in EventsOf(rows)
  BY <1>12 DEF EventsOf
<1>14. \A one, other \in Days, e \in Events :
           more(one, e) = 1 /\ more(other, e) = 1 => one = other
  BY <1>6, <1>12
<1>15. \A e \in EventsOf(rows) : days = Days => \E day \in Days : more(day, e) = 1
  <2> SUFFICES ASSUME NEW e \in EventsOf(rows), days = Days
               PROVE  \E day \in Days : more(day, e) = 1
    OBVIOUS
  <2>1. PICK i \in rows : topic[i].event = e
    BY DEF EventsOf
  <2>2. i \in 1 .. Len(topic)
    BY <1>5, <1>6
  <2>3. topic[i] \in Messages
    BY <1>3, <2>2 DEF Types
  <2>4. topic[i].occurred \in Days /\ e \in Events
    BY <2>1, <2>3 DEF Messages
  <2> QED
    BY <1>9, <2>1, <2>4
<1> HIDE DEF more
<1>16. /\ marks'.missed = marks.missed /\ marks'.ahead = marks.ahead
       /\ marks.repeated \subseteq marks'.repeated
       /\ planned = upto => EventsOf(rows) \subseteq marks'.repeated
       /\ marks' \in Causes
  <2>1. marks \in Causes
    BY <1>3 DEF Types
  <2>2. (IF planned = upto THEN EventsOf(rows) ELSE {}) \subseteq Events
    BY <1>5, <1>6
  <2>3. /\ marks'.missed = marks.missed /\ marks'.ahead = marks.ahead
        /\ marks'.repeated = marks.repeated \cup (IF planned = upto THEN EventsOf(rows) ELSE {})
        /\ marks' \in Causes
    BY <1>1, <2>1, <2>2 DEF Causes
  <2> QED
    BY <2>3
<1>17. Types'
  BY <1>2, <1>3, <1>4, <1>11, <1>16 DEF Types
<1>18. Reads' /\ Taken'
  BY <1>2 DEF Inv, Reads, Replaced, Taken
<1>19. Rebuilding'
  <2>1. job # NoJob => job.since \in Nat /\ job.since <= attempts
    BY <1>3 DEF Inv, Types, Jobs, Rebuilding
  <2>2. job # NoJob => job.since <= attempts' /\ attempts' # job.since
    BY <1>2, <1>4, <2>1
  <2> QED
    BY <1>2, <2>2 DEF Inv, Rebuilding
<1>20. Known'
  <2> SUFFICES ASSUME NEW day \in Days, NEW e \in Events, silver'[day][e] > 0
               PROVE  e \in seen \cup Open' \cup marks.ahead
    BY <1>2, <1>16 DEF Known
  <2>1. CASE more(day, e) = 1
    BY <1>7, <1>13, <2>1
  <2>2. CASE more(day, e) = 0
    <3>1. silver[day][e] > 0
      BY <1>10, <1>11, <2>2
    <3> QED
      BY <1>2, <1>7, <1>8, <3>1 DEF Inv, Known
  <2> QED
    BY <1>12, <2>1, <2>2
<1>21. \A e \in Events : Held(e) => Held(e)'
  <2>1. \A day \in Days, e \in Events : silver[day][e] > 0 => silver'[day][e] > 0
    <3> SUFFICES ASSUME NEW day \in Days, NEW e \in Events, silver[day][e] > 0
                 PROVE  silver'[day][e] > 0
      OBVIOUS
    <3>1. silver[day][e] \in Nat /\ more(day, e) \in Nat
      BY <1>10, <1>12
    <3> QED
      BY <1>11, <3>1
  <2> QED
    BY <2>1 DEF Held
<1>22. LossesAreExplained'
  <2> SUFFICES ASSUME NEW e \in Events, Loaded(e)'
               PROVE  \/ Held(e)'
                      \/ \E day \in Days : <<day, e>> \in marks.missed
                      \/ job # NoJob /\ \E i \in job.rows :
                             topic[i].event = e /\ topic[i].occurred \in job.place
    BY <1>2, <1>16 DEF LossesAreExplained
  <2>1. CASE e \in seen
    BY <1>21, <2>1 DEF Inv, DamageHasACause, LossesAreExplained, Loaded
  <2>2. CASE e \notin seen
    <3>1. written' /\ e \in EventsOf(rows)
      BY <1>2, <1>7, <2>2 DEF Loaded, Open
    <3>2. PICK day \in Days : more(day, e) = 1
      BY <1>15, <3>1
    <3>3. silver[day][e] \in Nat
      BY <1>10
    <3>4. silver'[day][e] > 0
      BY <1>11, <3>2, <3>3
    <3> QED
      BY <3>4 DEF Held
  <2> QED
    BY <2>1, <2>2
<1>23. CopiesAreExplained'
  <2> SUFFICES ASSUME NEW e \in Events, Twice(e)'
               PROVE  e \in marks.ahead \cup marks'.repeated
    BY <1>16 DEF CopiesAreExplained
  <2>1. CASE Twice(e)
    BY <1>16, <2>1 DEF Inv, DamageHasACause, CopiesAreExplained
  <2>2. CASE ~ Twice(e) /\ \A day \in Days : more(day, e) = 0
    <3>1. \A day \in Days : silver'[day][e] = silver[day][e]
      BY <1>10, <1>11, <2>2
    <3> QED
      BY <2>2, <3>1 DEF Twice
  <2>3. CASE Held(e) /\ \E day \in Days : more(day, e) = 1
    <3>1. e \in EventsOf(rows) /\ e \notin seen
      BY <1>5, <1>6, <1>13, <2>3
    <3>2. e \in Open \cup marks.ahead
      BY <2>3, <3>1 DEF Inv, Known, Held
    <3> QED
      BY <1>2, <1>8, <1>16, <3>1, <3>2
  <2>4. CASE ~ Held(e)
    <3>1. \A day \in Days : silver[day][e] = 0
      BY <1>10, <2>4 DEF Held
    <3>2. \A day \in Days : silver'[day][e] = more(day, e)
      BY <1>11, <1>12, <3>1
    <3> QED
      BY <1>12, <1>14, <3>2 DEF Twice
  <2> QED
    BY <1>12, <2>1, <2>2, <2>3, <2>4
<1> QED
  BY <1>17, <1>18, <1>19, <1>20, <1>22, <1>23 DEF Inv, DamageHasACause

\* An append is complete, or it breaks off.
LEMMA TryInv ==
    ASSUME Inv,
           \E upto \in 1 .. Len(topic) :
               AppendAll(upto) \/ \E days \in SUBSET Days : BreakOff(upto, days)
    PROVE  Inv'
<1>1. PICK upto \in 1 .. Len(topic) :
          AppendAll(upto) \/ \E days \in SUBSET Days : BreakOff(upto, days)
  OBVIOUS
<1>2. CASE AppendAll(upto)
  <2>1. Attempt(upto, Days) /\ written' = TRUE /\ Days \in SUBSET Days
    BY <1>2 DEF AppendAll
  <2> QED
    BY <2>1, AttemptInv
<1>3. ASSUME NEW days \in SUBSET Days, BreakOff(upto, days) PROVE Inv'
  <2>1. Attempt(upto, days) /\ written' = FALSE
    BY <1>3 DEF BreakOff
  <2> QED
    BY <2>1, AttemptInv
<1> QED
  BY <1>1, <1>2, <1>3

\* The batch is committed: what it holds has been seen.
LEMMA CommitInv == Inv /\ Commit => Inv'
<1> SUFFICES ASSUME Inv, Commit PROVE Inv'
  OBVIOUS
<1>1. /\ written /\ curated' = planned /\ written' = FALSE /\ seen' = seen \cup Open
      /\ UNCHANGED <<topic, bronze, planned, attempts, silver, job, backfills, marks>>
  BY DEF Commit, Open
<1>2. Types
  BY DEF Inv
<1>3. planned \in 1 .. Len(topic) /\ curated < planned /\ curated \in Nat /\ planned \in Nat
  BY <1>1, <1>2 DEF Types
<1>4. Batch(planned) \subseteq 1 .. planned /\ Open \subseteq Events
  BY <1>2, <1>3, BatchEvents DEF Open
<1>5. Open' = {}
  <2>1. Batch(planned)' = {}
    BY <1>1, <1>3 DEF Batch
  <2> QED
    BY <2>1 DEF EventsOf, Open
<1>6. Types'
  <2>1. curated' \in 0 .. planned' /\ written' = FALSE /\ seen' \subseteq Events
    BY <1>1, <1>2, <1>3, <1>4 DEF Types
  <2> QED
    BY <1>1, <1>2, <2>1 DEF Types
<1>7. Reads' /\ Rebuilding' /\ Known'
  <2>1. /\ Replaced(job.rows)' = Replaced(job.rows)
        /\ \A day \in Days : Copies(job.rows, day)' = Copies(job.rows, day)
        /\ Empty' = Empty
    BY <1>1, SameRows DEF Empty
  <2>2. Reads'
    BY <1>1, <2>1 DEF Inv, Reads
  <2>3. job # NoJob => Replaced(job.rows) \subseteq Days
    BY <1>2, ReplacedDays DEF Inv
  <2>4. Rebuilding'
    BY <1>1, <2>1, <2>3 DEF Inv, Rebuilding
  <2>5. Known'
    BY <1>1 DEF Inv, Known
  <2> QED
    BY <2>2, <2>4, <2>5
<1>8. Taken'
  <2> SUFFICES ASSUME NEW e \in seen' PROVE \E i \in 1 .. planned : topic[i].event = e
    BY <1>1 DEF Taken
  <2>1. CASE e \in seen
    <3>1. PICK i \in 1 .. curated : topic[i].event = e
      BY <2>1 DEF Inv, Taken
    <3>2. i \in 1 .. planned
      BY <1>3
    <3> QED
      BY <3>1, <3>2
  <2>2. CASE e \in Open
    BY <1>4, <2>2 DEF Open, EventsOf
  <2> QED
    BY <1>1, <2>1, <2>2
<1>9. DamageHasACause'
  <2>1. \A e \in Events : Loaded(e)' => Loaded(e)
    BY <1>1, <1>5 DEF Loaded, Open
  <2> QED
    BY <1>1, <2>1 DEF Inv, DamageHasACause, LossesAreExplained, CopiesAreExplained, Held, Twice
<1> QED
  BY <1>6, <1>7, <1>8, <1>9 DEF Inv

\* A backfill reads its window.
LEMMA StartInv == Inv /\ (\E from, to \in Days : StartBackfill(from, to)) => Inv'
<1> SUFFICES ASSUME Inv, NEW from \in Days, NEW to \in Days, StartBackfill(from, to)
             PROVE  Inv'
  OBVIOUS
<1>1. PICK rows \in Deduplicated(Window(from, to)) :
          job' = [state |-> "writing", from |-> from, to |-> to, read |-> bronze,
                  since |-> attempts, rows |-> rows,
                  remove |-> Replaced(rows), place |-> {}]
  BY DEF StartBackfill
<1>2. /\ job = NoJob /\ backfills' = backfills + 1 /\ backfills < MaxBackfills
      /\ UNCHANGED <<topic, bronze, stream, silver, marks>>
  BY DEF StartBackfill
<1>0. /\ UNCHANGED <<curated, planned, written, attempts, seen>> /\ Open' = Open
      /\ \A e \in Events : Loaded(e)' = Loaded(e)
  BY <1>2, SameStream
<1>3. /\ rows \subseteq Window(from, to)
      /\ \A i, j \in rows : topic[i].event = topic[j].event => i = j
      /\ \A i \in Window(from, to) : \E j \in rows : topic[i].event = topic[j].event
  BY DEF Deduplicated
<1>4. bronze \in Nat /\ attempts \in Nat /\ bronze <= Len(topic) /\ rows \subseteq 1 .. bronze
  BY <1>3, LakehouseAssumption DEF Inv, Types, Window
<1>5. \A i \in 1 .. bronze : topic[i] \in Messages
  BY <1>4 DEF Inv, Types
<1>6. Replaced(rows) \subseteq Days
  BY <1>4, <1>5 DEF Replaced, Messages
<1>7. rows \in SUBSET Nat
  BY <1>4
<1>8. job' \in Jobs
  BY <1>1, <1>4, <1>6, <1>7 DEF Jobs
<1>9. job'.read = bronze /\ job'.since = attempts /\ job'.rows = rows /\ job'.from = from
      /\ job'.to = to /\ job'.remove = Replaced(rows) /\ job'.place = {}
  BY <1>1
<1>10. Types'
  BY <1>0, <1>2, <1>8, LakehouseAssumption DEF Inv, Types
<1>11. Reads'
  <2>1. job'.remove \cup job'.place \subseteq Replaced(job.rows)'
    BY <1>2, <1>9 DEF Replaced
  <2>2. job'.read <= bronze' /\ job'.rows \subseteq 1 .. job'.read
    BY <1>2, <1>4, <1>9
  <2>3. \A i, j \in job'.rows : topic'[i].event = topic'[j].event => i = j
    BY <1>2, <1>3, <1>9
  <2> QED
    BY <1>9, <2>1, <2>2, <2>3 DEF Reads
<1>12. Rebuilding'
  <2>1. \A i \in 1 .. bronze : topic[i].arrived \in from .. to => i \in Window(from, to)
    BY DEF Window
  <2>2. Replaced(job.rows)' = job'.remove
    BY <1>2, <1>9 DEF Replaced
  <2>3. \A i \in 1 .. job'.read : topic'[i].arrived \in job'.from .. job'.to =>
            \E j \in job'.rows : topic'[j].event = topic'[i].event
    BY <1>2, <1>3, <1>9, <2>1
  <2> QED
    BY <1>0, <1>2, <1>4, <1>9, <2>2, <2>3 DEF Rebuilding
<1>13. Known' /\ Taken'
  BY <1>0, <1>2 DEF Inv, Known, Taken
<1>14. DamageHasACause'
  BY <1>0, <1>2 DEF Inv, DamageHasACause, LossesAreExplained, CopiesAreExplained, Held, Twice
<1> QED
  BY <1>10, <1>11, <1>12, <1>13, <1>14 DEF Inv

\* A partition is removed: what it held and the backfill does not have is missed.
LEMMA RemoveInv == Inv /\ (\E day \in Days : RemovePartition(day)) => Inv'
<1> SUFFICES ASSUME Inv, NEW day \in Days, RemovePartition(day) PROVE Inv'
  OBVIOUS
<1>1. job # NoJob /\ day \in job.remove
  BY DEF RemovePartition, NoJob
<1>2. Types /\ Reads
  BY DEF Inv
<1>3. /\ job \in Jobs /\ Replaced(job.rows) \subseteq Days
      /\ \A i \in job.rows : topic[i].event \in Events /\ topic[i].occurred \in Days
  BY <1>1, <1>2, ReplacedDays
<1>4. /\ silver' = [silver EXCEPT ![day] = Empty]
      /\ job' = [job EXCEPT !.remove = @ \ {day}, !.place = @ \cup {day}]
      /\ UNCHANGED <<topic, bronze, stream, backfills>>
  BY DEF RemovePartition
<1>0. /\ UNCHANGED <<curated, planned, written, attempts, seen>> /\ Open' = Open
      /\ \A e \in Events : Loaded(e)' = Loaded(e)
  BY <1>4, SameStream
<1>5. /\ job' \in Jobs /\ job' # NoJob
      /\ job'.remove = job.remove \ {day} /\ job'.place = job.place \cup {day}
      /\ job'.rows = job.rows /\ job'.read = job.read /\ job'.since = job.since
      /\ job'.from = job.from /\ job'.to = job.to
  <2>1. job' \in Jobs
    BY <1>3, <1>4 DEF Jobs
  <2> QED
    BY <1>3, <1>4, <2>1 DEF Jobs, NoJob
<1> DEFINE gone == {e \in Events : /\ \E i \in job.rows : topic[i].occurred = day
                                   /\ silver[day][e] > 0 /\ Copies(job.rows, day)[e] = 0}
<1>6. /\ marks'.missed = marks.missed \cup {<<day, e>> : e \in gone}
      /\ marks'.ahead = marks.ahead /\ marks'.repeated = marks.repeated
      /\ marks' \in Causes
  <2>1. marks \in Causes
    BY <1>2 DEF Types
  <2>2. marks' = [marks EXCEPT !.missed = @ \cup {<<day, e>> : e \in gone}]
    BY DEF RemovePartition
  <2>3. {<<day, e>> : e \in gone} \subseteq Days \X Events
    OBVIOUS
  <2> HIDE DEF gone
  <2> QED
    BY <2>1, <2>2, <2>3 DEF Causes
<1>7. silver \in [Days -> [Events -> Nat]] /\ Empty \in [Events -> Nat]
  BY <1>2 DEF Types, Empty
<1>8. /\ silver' \in [Days -> [Events -> Nat]] /\ silver'[day] = Empty
      /\ \A d \in Days : d # day => silver'[d] = silver[d]
  BY <1>4, <1>7
<1>9. \A d \in Days, e \in Events : silver'[d][e] > 0 => silver'[d] = silver[d] /\ d # day
  BY <1>7, <1>8 DEF Empty
<1>10. Types'
  BY <1>0, <1>2, <1>4, <1>5, <1>6, <1>8 DEF Types
<1>11. /\ Replaced(job.rows)' = Replaced(job.rows)
       /\ \A d \in Days : Copies(job.rows, d)' = Copies(job.rows, d)
       /\ Empty' = Empty
  BY <1>4, <1>5, SameRows DEF Empty
<1>12. Reads'
  <2>1. job'.remove \cup job'.place \subseteq Replaced(job.rows)'
    BY <1>1, <1>2, <1>5, <1>11 DEF Reads
  <2>2. job'.remove \cap job'.place = {}
    BY <1>1, <1>2, <1>5 DEF Reads
  <2>3. \A i, j \in job'.rows : topic'[i].event = topic'[j].event => i = j
    BY <1>1, <1>2, <1>4, <1>5 DEF Reads
  <2> QED
    BY <1>1, <1>2, <1>4, <1>5, <2>1, <2>2, <2>3 DEF Reads
<1>13. Known'
  BY <1>0, <1>4, <1>6, <1>9 DEF Inv, Known
<1>14. Rebuilding'
  <2>1. job.since <= attempts
        /\ \A i \in 1 .. job.read : topic[i].arrived \in job.from .. job.to =>
               \E j \in job.rows : topic[j].event = topic[i].event
    BY <1>1 DEF Inv, Rebuilding
  <2>2. ASSUME attempts = job.since, NEW d \in Replaced(job.rows)
        PROVE  /\ d \in job'.place => silver'[d] = Empty
               /\ d \notin job'.remove \cup job'.place => silver'[d] = Copies(job.rows, d)
    BY <1>1, <1>3, <1>5, <1>8, <2>2 DEF Inv, Rebuilding
  <2> QED
    BY <1>0, <1>3, <1>4, <1>5, <1>11, <2>1, <2>2 DEF Rebuilding
<1>15. Taken'
  BY <1>0, <1>4 DEF Inv, Taken
<1>16. LossesAreExplained'
  <2> SUFFICES ASSUME NEW e \in Events, Loaded(e)
               PROVE  \/ Held(e)'
                      \/ \E d \in Days : <<d, e>> \in marks'.missed
                      \/ \E i \in job.rows : topic[i].event = e /\ topic[i].occurred \in job'.place
    BY <1>0, <1>4, <1>5 DEF LossesAreExplained
  <2>1. CASE \E d \in Days : d # day /\ silver[d][e] > 0
    BY <1>8, <2>1 DEF Held
  <2>2. CASE silver[day][e] > 0
    <3>1. PICK i \in job.rows : topic[i].occurred = day
      BY <1>1, <1>2 DEF Reads, Replaced
    <3>2. CASE Copies(job.rows, day)[e] = 0
      <4>1. e \in gone
        BY <2>2, <3>1, <3>2
      <4> HIDE DEF gone
      <4> QED
        BY <1>6, <4>1
    <3>3. CASE Copies(job.rows, day)[e] # 0
      <4>1. Copies(job.rows, day)[e] = 1
        BY <1>1, <1>2, <3>3, JobCopies
      <4>2. \E j \in job.rows : topic[j].event = e /\ topic[j].occurred = day
        BY <1>1, <1>2, <4>1, JobCopies
      <4> QED
        BY <1>5, <4>2
    <3> QED
      BY <3>2, <3>3
  <2>3. CASE ~ Held(e)
    BY <1>5, <1>6, <2>3 DEF Inv, DamageHasACause, LossesAreExplained
  <2> QED
    BY <2>1, <2>2, <2>3 DEF Held
<1>17. CopiesAreExplained'
  <2> SUFFICES ASSUME NEW e \in Events, Twice(e)'
               PROVE  e \in marks.ahead \cup marks.repeated
    BY <1>6 DEF CopiesAreExplained
  <2>1. CASE \E d \in Days : silver'[d][e] > 1
    <3>1. PICK d \in Days : silver'[d][e] > 1
      BY <2>1
    <3>2. silver'[d][e] > 0
      BY <1>8, <3>1
    <3>3. silver[d][e] > 1
      BY <1>9, <3>1, <3>2
    <3> QED
      BY <3>3 DEF Inv, DamageHasACause, CopiesAreExplained, Twice
  <2>2. CASE \E one, other \in Days : one # other /\ silver'[one][e] > 0 /\ silver'[other][e] > 0
    BY <1>9, <2>2 DEF Inv, DamageHasACause, CopiesAreExplained, Twice
  <2> QED
    BY <2>1, <2>2 DEF Twice
<1> QED
  BY <1>10, <1>12, <1>13, <1>14, <1>15, <1>16, <1>17 DEF Inv, DamageHasACause

\* The new partition is put in place, beside what the stream wrote there meanwhile.
LEMMA PlaceInv == Inv /\ (\E day \in Days : PlacePartition(day)) => Inv'
<1> SUFFICES ASSUME Inv, NEW day \in Days, PlacePartition(day) PROVE Inv'
  OBVIOUS
<1> DEFINE copies == Copies(job.rows, day)
<1>1. job # NoJob /\ day \in job.place
  BY DEF PlacePartition, NoJob
<1>2. Types /\ Reads
  BY DEF Inv
<1>3. /\ job \in Jobs /\ Replaced(job.rows) \subseteq Days
      /\ \A i \in job.rows : topic[i].event \in Events /\ topic[i].occurred \in Days
  BY <1>1, <1>2, ReplacedDays
<1>4. /\ copies \in [Events -> {0, 1}]
      /\ \A e \in Events : copies[e] = 1 <=>
             \E i \in job.rows : topic[i].event = e /\ topic[i].occurred = day
  BY <1>1, <1>2, JobCopies
<1>5. /\ silver' = [silver EXCEPT ![day] = [e \in Events |-> silver[day][e] + copies[e]]]
      /\ job' = [job EXCEPT !.place = @ \ {day}]
      /\ UNCHANGED <<topic, bronze, stream, backfills>>
  BY DEF PlacePartition
<1>0. /\ UNCHANGED <<curated, planned, written, attempts, seen>> /\ Open' = Open
      /\ \A e \in Events : Loaded(e)' = Loaded(e)
  BY <1>5, SameStream
<1> HIDE DEF copies
<1>6. /\ job' \in Jobs /\ job' # NoJob
      /\ job'.remove = job.remove /\ job'.place = job.place \ {day}
      /\ job'.rows = job.rows /\ job'.read = job.read /\ job'.since = job.since
      /\ job'.from = job.from /\ job'.to = job.to
  <2>1. job' \in Jobs
    BY <1>3, <1>5 DEF Jobs
  <2> QED
    BY <1>3, <1>5, <2>1 DEF Jobs, NoJob
<1> DEFINE here == {i \in job.rows : topic[i].occurred = day}
           early == {e \in EventsOf(here) : e \notin seen \/ Held(e)}
<1>7. /\ marks'.missed = marks.missed /\ marks'.repeated = marks.repeated
      /\ marks'.ahead = marks.ahead \cup early
      /\ marks' \in Causes
      /\ \A e \in Events : copies[e] = 1 /\ (e \notin seen \/ Held(e)) => e \in early
  <2>1. marks \in Causes
    BY <1>2 DEF Types
  <2>2. marks' = [marks EXCEPT !.ahead = @ \cup early]
    BY DEF PlacePartition
  <2>3. early \subseteq Events
    BY <1>3 DEF EventsOf
  <2>4. \A e \in Events : copies[e] = 1 => e \in EventsOf(here)
    BY <1>4 DEF EventsOf
  <2>5. \A e \in Events : copies[e] = 1 /\ (e \notin seen \/ Held(e)) => e \in early
    BY <2>4
  <2> HIDE DEF early, here
  <2> QED
    BY <2>1, <2>2, <2>3, <2>5 DEF Causes
<1> HIDE DEF early, here
<1>8. silver \in [Days -> [Events -> Nat]]
  BY <1>2 DEF Types
<1>9. /\ silver' \in [Days -> [Events -> Nat]]
      /\ \A e \in Events : silver'[day][e] = silver[day][e] + copies[e]
      /\ \A d \in Days : d # day => silver'[d] = silver[d]
  <2> DEFINE part == [e \in Events |-> silver[day][e] + copies[e]]
  <2>1. \A e \in Events : silver[day][e] \in Nat /\ copies[e] \in Nat
    BY <1>4, <1>8
  <2>2. part \in [Events -> Nat] /\ \A e \in Events : part[e] = silver[day][e] + copies[e]
    BY <2>1
  <2> HIDE DEF part
  <2> QED
    BY <1>5, <1>8, <2>2 DEF part
<1>10. Types'
  BY <1>0, <1>2, <1>5, <1>6, <1>7, <1>9 DEF Types
<1>11. /\ Replaced(job.rows)' = Replaced(job.rows)
       /\ \A d \in Days : Copies(job.rows, d)' = Copies(job.rows, d)
       /\ Empty' = Empty
  BY <1>5, <1>6, SameRows DEF Empty
<1>12. Reads'
  <2>1. job'.remove \cup job'.place \subseteq Replaced(job.rows)'
    BY <1>1, <1>2, <1>6, <1>11 DEF Reads
  <2>2. job'.remove \cap job'.place = {}
    BY <1>1, <1>2, <1>6 DEF Reads
  <2>3. \A i, j \in job'.rows : topic'[i].event = topic'[j].event => i = j
    BY <1>1, <1>2, <1>5, <1>6 DEF Reads
  <2> QED
    BY <1>1, <1>2, <1>5, <1>6, <2>1, <2>2, <2>3 DEF Reads
<1>13. Known'
  <2> SUFFICES ASSUME NEW d \in Days, NEW e \in Events, silver'[d][e] > 0
               PROVE  e \in seen \cup Open \cup marks'.ahead
    BY <1>0 DEF Known
  <2>1. CASE silver[d][e] > 0
    BY <1>7, <2>1 DEF Inv, Known
  <2>2. CASE ~ (silver[d][e] > 0)
    <3>1. copies[e] = 1
      BY <1>4, <1>8, <1>9, <2>2
    <3> QED
      BY <1>7, <3>1
  <2> QED
    BY <2>1, <2>2
<1>14. Rebuilding'
  <2>1. job.since <= attempts
        /\ \A i \in 1 .. job.read : topic[i].arrived \in job.from .. job.to =>
               \E j \in job.rows : topic[j].event = topic[i].event
    BY <1>1 DEF Inv, Rebuilding
  <2>2. ASSUME attempts = job.since, NEW d \in Replaced(job.rows)
        PROVE  /\ d \in job'.place => silver'[d] = Empty
               /\ d \notin job'.remove \cup job'.place => silver'[d] = Copies(job.rows, d)
    <3>1. CASE d # day
      BY <1>1, <1>3, <1>6, <1>9, <2>2, <3>1 DEF Inv, Rebuilding
    <3>2. CASE d = day
      <4>1. silver[day] = Empty
        BY <1>1, <2>2, <3>2 DEF Inv, Rebuilding
      <4>2. \A e \in Events : silver'[day][e] = copies[e]
        BY <1>4, <1>9, <4>1 DEF Empty
      <4>3. silver'[day] \in [Events -> Nat] /\ copies \in [Events -> {0, 1}]
        BY <1>4, <1>9
      <4>4. silver'[day] = copies
        BY <4>2, <4>3
      <4> QED
        BY <1>6, <3>2, <4>4 DEF copies
    <3> QED
      BY <3>1, <3>2
  <2> QED
    BY <1>0, <1>3, <1>5, <1>6, <1>11, <2>1, <2>2 DEF Rebuilding
<1>15. Taken'
  BY <1>0, <1>5 DEF Inv, Taken
<1>16. LossesAreExplained'
  <2> SUFFICES ASSUME NEW e \in Events, Loaded(e)
               PROVE  \/ Held(e)'
                      \/ \E d \in Days : <<d, e>> \in marks'.missed
                      \/ \E i \in job.rows : topic[i].event = e /\ topic[i].occurred \in job'.place
    BY <1>0, <1>5, <1>6 DEF LossesAreExplained
  <2>1. CASE Held(e)
    <3>1. PICK d \in Days : silver[d][e] > 0
      BY <2>1 DEF Held
    <3>2. silver'[d][e] > 0
      BY <1>4, <1>8, <1>9, <3>1
    <3> QED
      BY <3>2 DEF Held
  <2>2. CASE \E d \in Days : <<d, e>> \in marks.missed
    BY <1>7, <2>2
  <2>3. CASE \E i \in job.rows : topic[i].event = e /\ topic[i].occurred \in job.place
    <3>1. PICK i \in job.rows : topic[i].event = e /\ topic[i].occurred \in job.place
      BY <2>3
    <3>2. CASE topic[i].occurred = day
      <4>1. copies[e] = 1
        BY <1>4, <3>1, <3>2
      <4>2. silver'[day][e] > 0
        BY <1>8, <1>9, <4>1
      <4> QED
        BY <4>2 DEF Held
    <3>3. CASE topic[i].occurred # day
      BY <1>6, <3>1, <3>3
    <3> QED
      BY <3>2, <3>3
  <2> QED
    BY <2>1, <2>2, <2>3 DEF Inv, DamageHasACause, LossesAreExplained
<1>17. CopiesAreExplained'
  <2> SUFFICES ASSUME NEW e \in Events, Twice(e)'
               PROVE  e \in marks'.ahead \cup marks'.repeated
    BY DEF CopiesAreExplained
  <2>1. CASE copies[e] = 0
    <3>1. \A d \in Days : silver'[d][e] = silver[d][e]
      BY <1>8, <1>9, <2>1
    <3>2. Twice(e)
      BY <3>1 DEF Twice
    <3> QED
      BY <1>7, <3>2 DEF Inv, DamageHasACause, CopiesAreExplained
  <2>2. CASE copies[e] = 1 /\ Held(e)
    BY <1>7, <2>2
  <2>3. CASE copies[e] = 1 /\ ~ Held(e)
    <3>1. \A d \in Days : silver[d][e] = 0
      BY <1>8, <2>3 DEF Held
    <3>2. \A d \in Days : silver'[d][e] = IF d = day THEN 1 ELSE 0
      BY <1>9, <2>3, <3>1
    <3> QED
      BY <3>2 DEF Twice
  <2> QED
    BY <1>4, <2>1, <2>2, <2>3
<1> QED
  BY <1>10, <1>12, <1>13, <1>14, <1>15, <1>16, <1>17 DEF Inv, DamageHasACause

\* A backfill ends with nothing left to do.
LEMMA FinishInv == Inv /\ Finish => Inv'
<1> SUFFICES ASSUME Inv, Finish PROVE Inv'
  OBVIOUS
<1>1. job' = NoJob /\ UNCHANGED <<topic, bronze, stream, silver, backfills, marks>>
  BY DEF Finish
<1>0. /\ UNCHANGED <<curated, planned, written, attempts, seen>> /\ Open' = Open
      /\ \A e \in Events : Loaded(e)' = Loaded(e)
  BY <1>1, SameStream
<1>2. job.place = {}
  BY DEF Finish
<1>3. Types' /\ Reads' /\ Known' /\ Rebuilding' /\ Taken'
  BY <1>0, <1>1 DEF Inv, Types, Reads, Known, Rebuilding, Taken
<1>4. DamageHasACause'
  BY <1>0, <1>1, <1>2 DEF Inv, DamageHasACause, LossesAreExplained, CopiesAreExplained, Held, Twice
<1> QED
  BY <1>3, <1>4 DEF Inv

\* A backfill dies over partitions that it has removed.
LEMMA FailInv == Inv /\ Fail => Inv'
<1> SUFFICES ASSUME Inv, Fail PROVE Inv'
  OBVIOUS
<1> DEFINE gone == {<<day, e>> : day \in job.place, e \in Events}
<1>1. job' = NoJob /\ UNCHANGED <<topic, bronze, stream, silver, backfills>>
  BY DEF Fail
<1>0. /\ UNCHANGED <<curated, planned, written, attempts, seen>> /\ Open' = Open
      /\ \A e \in Events : Loaded(e)' = Loaded(e)
  BY <1>1, SameStream
<1>2. job # NoJob /\ job \in Jobs
  BY DEF Fail, NoJob, Inv, Types
<1>3. /\ marks'.missed = marks.missed \cup gone /\ marks'.ahead = marks.ahead
      /\ marks'.repeated = marks.repeated
      /\ marks' \in Causes
  <2>1. marks \in Causes
    BY DEF Inv, Types
  <2>2. marks' = [marks EXCEPT !.missed = @ \cup gone]
    BY DEF Fail
  <2>3. gone \subseteq Days \X Events
    BY <1>2 DEF Jobs
  <2> HIDE DEF gone
  <2> QED
    BY <2>1, <2>2, <2>3 DEF Causes
<1>4. Types' /\ Reads' /\ Rebuilding' /\ Taken'
  BY <1>0, <1>1, <1>3 DEF Inv, Types, Reads, Rebuilding, Taken
<1>5. Known'
  BY <1>0, <1>1, <1>3 DEF Inv, Known
<1>6. LossesAreExplained'
  <2> SUFFICES ASSUME NEW e \in Events, Loaded(e)
               PROVE  Held(e) \/ \E day \in Days : <<day, e>> \in marks'.missed
    BY <1>0, <1>1 DEF LossesAreExplained, Held
  <2>1. CASE \E i \in job.rows : topic[i].event = e /\ topic[i].occurred \in job.place
    <3>1. PICK day \in job.place : TRUE
      BY <2>1
    <3>2. <<day, e>> \in gone /\ day \in Days
      BY <1>2 DEF Jobs
    <3> HIDE DEF gone
    <3> QED
      BY <1>3, <3>2
  <2>2. CASE ~ \E i \in job.rows : topic[i].event = e /\ topic[i].occurred \in job.place
    BY <1>3, <2>2 DEF Inv, DamageHasACause, LossesAreExplained
  <2> QED
    BY <2>1, <2>2
<1>7. CopiesAreExplained'
  BY <1>1, <1>3 DEF Inv, DamageHasACause, CopiesAreExplained, Twice
<1> QED
  BY <1>4, <1>5, <1>6, <1>7 DEF Inv, DamageHasACause

\* Every step keeps the invariant.
LEMMA InvNext == Inv /\ [Next]_vars => Inv'
<1>1. ASSUME Inv, UNCHANGED vars PROVE Inv'
  <2>1. UNCHANGED <<topic, bronze, stream, silver, job, backfills, marks>>
    BY <1>1 DEF vars
  <2>0. /\ UNCHANGED <<curated, planned, written, attempts, seen>> /\ Open' = Open
        /\ \A e \in Events : Loaded(e)' = Loaded(e)
    BY <2>1, SameStream
  <2>2. /\ Replaced(job.rows)' = Replaced(job.rows)
        /\ \A d \in Days : Copies(job.rows, d)' = Copies(job.rows, d)
        /\ Empty' = Empty
    BY <2>1, SameRows DEF Empty
  <2>3. Types' /\ Known' /\ Taken' /\ DamageHasACause'
    BY <1>1, <2>0, <2>1 DEF Inv, Types, Known, Taken, DamageHasACause, LossesAreExplained,
                            CopiesAreExplained, Held, Twice
  <2>4. Reads'
    BY <1>1, <2>1, <2>2 DEF Inv, Reads
  <2>5. job # NoJob => Replaced(job.rows) \subseteq Days
    BY <1>1, ReplacedDays DEF Inv
  <2>6. Rebuilding'
    BY <1>1, <2>0, <2>1, <2>2, <2>5 DEF Inv, Rebuilding
  <2> QED
    BY <2>3, <2>4, <2>6 DEF Inv
<1> QED
  BY <1>1, RetainInv, TryInv, CommitInv, StartInv, RemoveInv, PlaceInv, FinishInv, FailInv DEF Next

\* The invariant holds in every state.
LEMMA InvAlways == Spec => []Inv
BY InvInit, InvNext, PTL DEF Spec

-----------------------------------------------------------------------------

\* Whatever is redelivered, and however stream and backfills interleave: an
\* event that the stream loaded is lost from silver only where a backfill
\* replaced its partition or died over it, and is there twice only if its
\* micro-batch was tried again or a backfill wrote it before the stream had
\* committed it or where silver still had it.
THEOREM DamageIsExplained == Spec => []DamageHasACause
<1>1. Inv => DamageHasACause
  BY DEF Inv
<1> QED
  BY <1>1, InvAlways, PTL

\* A backfill that ends has written every event it read, once in its partition,
\* if the stream wrote nothing meanwhile.
LEMMA RebuiltAtTheEnd ==
    ASSUME Inv, job # NoJob, job.remove = {}, job.place = {},
           job.from = 1, job.to = MaxDay, curated <= job.read, attempts = job.since
    PROVE  /\ \A e \in seen : Held(e)
           /\ \A day \in Replaced(job.rows), e \in Events : silver[day][e] <= 1
<1>1. Types /\ Reads
  BY DEF Inv
<1>2. /\ job \in Jobs /\ Replaced(job.rows) \subseteq Days /\ bronze <= Len(topic)
      /\ bronze \in Nat /\ job.read \in Nat
      /\ \A i \in job.rows : topic[i].event \in Events /\ topic[i].occurred \in Days
  BY <1>1, ReplacedDays
<1>3. \A day \in Replaced(job.rows) : silver[day] = Copies(job.rows, day)
  BY DEF Inv, Rebuilding
<1>4. \A day \in Days : /\ Copies(job.rows, day) \in [Events -> {0, 1}]
                        /\ \A e \in Events : Copies(job.rows, day)[e] = 1 <=>
                               \E i \in job.rows : topic[i].event = e /\ topic[i].occurred = day
  BY <1>1, JobCopies
<1>5. \A day \in Replaced(job.rows), e \in Events : silver[day][e] <= 1
  <2>1. \A day \in Replaced(job.rows), e \in Events : silver[day][e] \in {0, 1}
    BY <1>2, <1>3, <1>4
  <2> QED
    BY <2>1
<1>6. ASSUME NEW e \in seen PROVE Held(e)
  <2>1. PICK i \in 1 .. curated : topic[i].event = e
    BY DEF Inv, Taken
  <2>2. i \in 1 .. job.read /\ i \in 1 .. Len(topic)
    BY <1>1, <1>2 DEF Types, Jobs, Reads
  <2>3. topic[i] \in Messages
    BY <1>1, <2>2 DEF Types
  <2>4. topic[i].arrived \in job.from .. job.to
    BY <2>3 DEF Messages, Days
  <2>5. PICK j \in job.rows : topic[j].event = e
    BY <2>1, <2>2, <2>4 DEF Inv, Rebuilding
  <2> DEFINE day == topic[j].occurred
  <2>6. day \in Replaced(job.rows) /\ day \in Days /\ e \in Events
    BY <1>2, <2>5 DEF Replaced
  <2>7. Copies(job.rows, day)[e] = 1
    BY <1>4, <2>5, <2>6
  <2>8. silver[day][e] > 0
    BY <1>3, <2>6, <2>7
  <2> QED
    BY <2>6, <2>8 DEF Held
<1> QED
  BY <1>5, <1>6

\* A backfill of every day that has read all the stream has committed, and during
\* which the stream appends nothing, leaves each committed event in silver, and
\* once at most in each partition, whatever earlier ones and repeated
\* micro-batches had done.
THEOREM RebuildsRestore == Spec => RebuildRestores
<1>1. Inv /\ [Next]_vars =>
          [/\ job # NoJob /\ job' = NoJob /\ job.remove = {} /\ job.place = {}
           /\ job.from = 1 /\ job.to = MaxDay /\ curated <= job.read /\ attempts = job.since
           => /\ \A e \in seen : Held(e)
              /\ \A day \in Replaced(job.rows), e \in Events : silver[day][e] <= 1]_vars
  BY RebuiltAtTheEnd
<1> QED
  BY <1>1, InvAlways, PTL DEF Spec, RebuildRestores

\* Type correctness, and that a backfill reads from bronze only.
THEOREM LakehouseTypes == Spec => []LakehouseTypeOK
<1>1. Inv => LakehouseTypeOK
  BY DEF Inv, Types, Reads, LakehouseTypeOK
<1> QED
  BY <1>1, InvAlways, PTL
=============================================================================
