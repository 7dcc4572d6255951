--------------------------- MODULE WorkspaceProofs ---------------------------
(***************************************************************************)
(* Theorems about Workspace and about WorkspaceTx, which takes its requests *)
(* apart, for every value of the limits and seed sizes.                    *)
(* Sound is inductive: initialize() establishes it, and the operations of  *)
(* the sandbox preserve it.  Each operation has a lemma that says what it  *)
(* does to the rows, from which the parts of Sound follow without looking  *)
(* at the operation again.                                                 *)
(***************************************************************************)
EXTENDS WorkspaceLedger, WorkspaceTx,
        FiniteSetTheorems, SequenceTheorems, WellFoundedInduction, TLAPS

-----------------------------------------------------------------------------
(* Sets of row numbers.                                                     *)

\* Every number below the size of a set of naturals is the rank of one of its
\* elements: the source that simulate() takes for the k-th duplicate exists.
LEMMA NthInSet ==
    ASSUME NEW S, IsFiniteSet(S), S \subseteq Nat,
           NEW k \in Nat, k < Cardinality(S)
    PROVE  Nth(S, k) \in S
<1> DEFINE Below(i) == {j \in S : j < i}
           n == Cardinality(S)
           Rank == [i \in S |-> Cardinality(Below(i))]
<1>0. \A x \in S : x \in Nat
  OBVIOUS
<1>1. n \in Nat
  BY FS_CardinalityType
<1>2. ASSUME NEW i \in S
      PROVE  /\ IsFiniteSet(Below(i))
             /\ Cardinality(Below(i)) \in Nat
             /\ Cardinality(Below(i)) < n
  <2>1. IsFiniteSet(Below(i)) /\ Cardinality(Below(i)) <= n
        /\ (Cardinality(Below(i)) = n => S = Below(i))
    BY FS_Subset, Below(i) \in SUBSET S
  <2>2. i \notin Below(i)
    BY <1>0
  <2>3. Cardinality(Below(i)) \in Nat
    BY <2>1, FS_CardinalityType
  <2>. QED
    BY <1>1, <2>1, <2>2, <2>3
<1>3. ASSUME NEW i \in S, NEW j \in S, i < j
      PROVE  Rank[i] < Rank[j]
  <2>1. ASSUME NEW x \in Below(i) PROVE x \in Below(j)
    BY <1>0, <1>3
  <2>2. i \in Below(j) /\ i \notin Below(i)
    BY <1>0, <1>3
  <2>3. Cardinality(Below(i)) <= Cardinality(Below(j))
        /\ (Cardinality(Below(i)) = Cardinality(Below(j)) => Below(j) = Below(i))
    <3>1. Below(i) \in SUBSET Below(j)
      BY <2>1
    <3>. QED
      BY <1>2, <3>1, FS_Subset
  <2>. QED
    BY <1>2, <2>2, <2>3
<1>4. Rank \in [S -> 0..(n - 1)]
  BY <1>1, <1>2
<1>5. Rank \in Injection(S, 0..(n - 1))
  <2>1. ASSUME NEW i \in S, NEW j \in S, Rank[i] = Rank[j]
        PROVE  i = j
    <3>1. Rank[i] \in Nat /\ Rank[j] \in Nat
      BY <1>2
    <3>2. ~(i < j) /\ ~(j < i)
      BY <1>3, <2>1, <3>1
    <3>. QED
      BY <1>0, <3>2
  <2>. QED
    <3>. HIDE DEF Rank
    <3>1. IsInjective(Rank)
      BY <1>4, <2>1 DEF IsInjective
    <3>. QED
      BY <1>4, <3>1 DEF Injection
<1>6. IsFiniteSet(0..(n - 1)) /\ Cardinality(0..(n - 1)) = n
  <2>. HIDE DEF n
  <2>1. 0 \in Int /\ n - 1 \in Int
    BY <1>1
  <2>. QED
    BY <1>1, <2>1, FS_Interval
<1>7. Rank \in Surjection(S, 0..(n - 1))
  BY <1>5, <1>6, FS_Injection
<1>8. PICK i \in S : Rank[i] = k
  <2>1. k \in 0..(n - 1)
    BY <1>1
  <2>. HIDE DEF Rank
  <2>. QED
    BY <1>7, <2>1 DEF Surjection
<1>. QED
  BY <1>8 DEF Nth

\* The rows of a warehouse are numbered 1..n, and each holds a delivery.
LEMMA RowsOfWarehouse ==
    ASSUME NEW w \in Warehouse
    PROVE  /\ Len(w.deliveries) \in Nat
           /\ Rows(w) = 1..Len(w.deliveries)
           /\ IsFiniteSet(Rows(w))
           /\ \A i \in Rows(w) : w.deliveries[i] \in Delivery
           /\ \A statuses : /\ WithStatus(w, statuses) \subseteq Rows(w)
                            /\ IsFiniteSet(WithStatus(w, statuses))
           /\ OpenCorrections(w) \subseteq Rows(w)
           /\ IsFiniteSet(OpenCorrections(w))
           /\ Cardinality(OpenCorrections(w)) \in Nat
<1>1. w.deliveries \in Seq(Delivery)
  BY DEF Warehouse
<1>2. Len(w.deliveries) \in Nat /\ Rows(w) = 1..Len(w.deliveries)
  BY <1>1 DEF Rows
<1>3. \A i \in Rows(w) : w.deliveries[i] \in Delivery
  BY <1>1, <1>2
<1>4. IsFiniteSet(Rows(w))
  BY <1>2, FS_Interval
<1>5. \A statuses : WithStatus(w, statuses) \in SUBSET Rows(w)
  BY DEF WithStatus
<1>6. OpenCorrections(w) \in SUBSET Rows(w)
  BY <1>5 DEF OpenCorrections
<1>. QED
  BY <1>2, <1>3, <1>4, <1>5, <1>6, FS_Subset, FS_CardinalityType

\* The sources of a duplicate batch are accepted deliveries, one for every k.
LEMMA SourceIsAccepted ==
    ASSUME NEW w \in Warehouse, Sources(w) # {}, NEW k \in Nat
    PROVE  Nth(Sources(w), k % Cardinality(Sources(w))) \in WithStatus(w, {"accepted"})
<1>1. Sources(w) \in SUBSET WithStatus(w, {"accepted"})
  BY DEF Sources
<1>2. Sources(w) \in SUBSET Rows(w)
  BY <1>1, RowsOfWarehouse
<1>3. IsFiniteSet(Sources(w)) /\ Sources(w) \subseteq Nat
  BY <1>2, RowsOfWarehouse, FS_Subset
<1>4. Cardinality(Sources(w)) \in Nat \ {0}
  BY <1>3, FS_CardinalityType, FS_EmptySet
<1>5. /\ k % Cardinality(Sources(w)) \in Nat
      /\ k % Cardinality(Sources(w)) < Cardinality(Sources(w))
  BY <1>4
<1>6. Nth(Sources(w), k % Cardinality(Sources(w))) \in Sources(w)
  BY <1>3, <1>5, NthInSet
<1>. QED
  BY <1>1, <1>6

-----------------------------------------------------------------------------
(* Staging a batch.                                                         *)

\* A staged row is a pending delivery with the event and envelopes given.
LEMMA StagedRow ==
    ASSUME NEW event \in Nat, NEW raw \in Raw, NEW corrected \in Raw \cup {"none"}
    PROVE  /\ Staged(event, raw, corrected) \in Delivery
           /\ Staged(event, raw, corrected).event = event
           /\ Staged(event, raw, corrected).raw = raw
           /\ Staged(event, raw, corrected).corrected = corrected
           /\ Staged(event, raw, corrected).status = "pending"
           /\ Staged(event, raw, corrected).replay = 0
           /\ Staged(event, raw, corrected).run = 0
BY DEF Staged, Delivery, Statuses

\* What simulate() stages is pending, and is either a copy of an accepted
\* delivery or carries an event the generator had not drawn yet.
LEMMA SimulatedRow ==
    ASSUME NEW w \in Warehouse, StatusFollowsRaw(w),
           NEW scenario \in Scenarios, NEW k \in Nat,
           scenario = "duplicates" => Sources(w) # {}
    PROVE  LET d == Simulated(w, scenario, k) IN
           /\ d \in Delivery
           /\ d.status = "pending" /\ d.replay = 0 /\ d.run = 0
           /\ scenario = "duplicates" =>
                /\ \E i \in WithStatus(w, {"accepted"}) :
                      d.event = w.deliveries[i].event /\ d.raw = w.deliveries[i].raw
                /\ d.raw \in Clean /\ d.corrected = "none"
           /\ scenario # "duplicates" => d.event = w.cursor + k + 1
           /\ scenario = "invalid" => d.raw \in Broken /\ d.corrected = "good"
           /\ scenario \in {"late", "normal"} => d.raw \in Clean /\ d.corrected = "none"
<1>1. w.cursor + k + 1 \in Nat
  BY DEF Warehouse
<1>0. Clean \subseteq Raw /\ Broken \subseteq Raw /\ "good" \in Clean /\ "late" \in Clean
  BY DEF Raw, Clean, Broken
<1>2. CASE scenario = "duplicates"
  <2>1. PICK i \in WithStatus(w, {"accepted"}) :
            i = Nth(Sources(w), k % Cardinality(Sources(w)))
    BY <1>2, SourceIsAccepted
  <2>2. /\ w.deliveries[i] \in Delivery
        /\ w.deliveries[i].raw \in Clean
    BY RowsOfWarehouse DEF WithStatus, StatusFollowsRaw
  <2>4. w.deliveries[i].event \in Nat
    BY <2>2 DEF Delivery
  <2>3. Simulated(w, scenario, k)
          = Staged(w.deliveries[i].event, w.deliveries[i].raw, "none")
    BY <1>2, <2>1 DEF Simulated
  <2>. QED
    BY <1>0, <1>2, <2>2, <2>3, <2>4, StagedRow
<1>3. CASE scenario = "invalid"
  <2>1. Defect(k) \in Broken
    BY DEF Defect, Broken
  <2>2. Simulated(w, scenario, k) = Staged(w.cursor + k + 1, Defect(k), "good")
    BY <1>3 DEF Simulated
  <2>. QED
    BY <1>0, <1>1, <1>3, <2>1, <2>2, StagedRow
<1>4. CASE scenario = "late"
  <2>1. Simulated(w, scenario, k) = Staged(w.cursor + k + 1, "late", "none")
    BY <1>4 DEF Simulated
  <2>. QED
    BY <1>0, <1>1, <1>4, <2>1, StagedRow
<1>5. CASE scenario = "normal"
  <2>1. Simulated(w, scenario, k) = Staged(w.cursor + k + 1, "good", "none")
    BY <1>5 DEF Simulated
  <2>. QED
    BY <1>0, <1>1, <1>5, <2>1, StagedRow
<1>. QED
  BY <1>2, <1>3, <1>4, <1>5 DEF Scenarios

\* simulate() appends its rows, and leaves the rows before them and the facts.
LEMMA BatchRows ==
    ASSUME NEW w \in Warehouse, StatusFollowsRaw(w),
           NEW scenario \in Scenarios, NEW count \in Nat,
           scenario = "duplicates" => Sources(w) # {}
    PROVE  LET b == Batch(w, scenario, count)
               n == Len(w.deliveries)
           IN  /\ b \in Warehouse
               /\ Len(b.deliveries) = n + count
               /\ Rows(b) = 1..(n + count)
               /\ \A i \in Rows(w) : b.deliveries[i] = w.deliveries[i]
               /\ \A k \in 1..count :
                     b.deliveries[n + k] = Simulated(w, scenario, k - 1)
               /\ b.cursor = IF scenario = "duplicates" THEN w.cursor
                                                        ELSE w.cursor + count
               /\ b.facts = w.facts /\ b.runs = w.runs
               /\ b.audit = w.audit /\ b.revision = w.revision
<1> DEFINE new == NewRows(w, scenario, count)
           b == Batch(w, scenario, count)
           n == Len(w.deliveries)
<1>1. w.deliveries \in Seq(Delivery) /\ n \in Nat /\ w.cursor \in Nat
  BY DEF Warehouse
<1>2. \A k \in 1..count : Simulated(w, scenario, k - 1) \in Delivery
  <2>1. \A k \in 1..count : k - 1 \in Nat
    OBVIOUS
  <2>. QED
    BY <2>1, SimulatedRow
<1>3. /\ new \in Seq(Delivery) /\ Len(new) = count
      /\ \A k \in 1..count : new[k] = Simulated(w, scenario, k - 1)
  BY <1>2, IsASeq DEF NewRows
<1>4. /\ w.deliveries \o new \in Seq(Delivery)
      /\ Len(w.deliveries \o new) = n + count
      /\ \A i \in 1..n : (w.deliveries \o new)[i] = w.deliveries[i]
      /\ \A k \in 1..count : (w.deliveries \o new)[n + k] = new[k]
  <2>1. /\ Len(w.deliveries \o new) = n + count
        /\ \A i \in 1..(n + count) : (w.deliveries \o new)[i] =
              IF i <= n THEN w.deliveries[i] ELSE new[i - n]
    <3>1. /\ Len(w.deliveries \o new) = n + Len(new)
          /\ \A i \in 1..(n + Len(new)) : (w.deliveries \o new)[i] =
                IF i <= n THEN w.deliveries[i] ELSE new[i - n]
      BY <1>1, <1>3, ConcatProperties
    <3>. QED
      BY <1>3, <3>1
  <2>2. \A k \in 1..count :
            n + k \in 1..(n + count) /\ ~(n + k <= n) /\ (n + k) - n = k
    BY <1>1
  <2>3. \A i \in 1..n : i \in 1..(n + count) /\ i <= n
    BY <1>1
  <2>4. w.deliveries \o new \in Seq(Delivery)
    BY <1>1, <1>3, ConcatProperties
  <2>. QED
    BY <2>1, <2>2, <2>3, <2>4
<1>5. /\ b.deliveries = w.deliveries \o new
      /\ b.cursor = IF scenario = "duplicates" THEN w.cursor ELSE w.cursor + count
      /\ b.facts = w.facts /\ b.runs = w.runs
      /\ b.audit = w.audit /\ b.revision = w.revision
  BY DEF Batch, Warehouse
<1>6. b \in Warehouse
  <2>1. (IF scenario = "duplicates" THEN w.cursor ELSE w.cursor + count) \in Nat
    BY <1>1
  <2>. QED
    BY <1>4, <2>1 DEF Batch, Warehouse
<1>7. Rows(b) = 1..(n + count) /\ Rows(w) = 1..n
  BY <1>4, <1>5, <1>6, RowsOfWarehouse
<1>. QED
  BY <1>3, <1>4, <1>5, <1>6, <1>7

\* The parts of Sound that the tables alone decide, limits aside.
Tables(w) ==
    /\ DrawnFromGenerator(w)
    /\ StatusFollowsRaw(w)
    /\ FactsFollowDeliveries(w)
    /\ AwaitsAlone(w)
    /\ ReplayedOnce(w)

\* They hold of any warehouse with the same deliveries, facts and cursor.
LEMMA SameTables ==
    ASSUME NEW v, NEW w, v.deliveries = w.deliveries, v.facts = w.facts,
           v.cursor = w.cursor
    PROVE  /\ Tables(w) => Tables(v)
           /\ Rows(v) = Rows(w)
           /\ OpenCorrections(v) = OpenCorrections(w)
           /\ \A statuses : WithStatus(v, statuses) = WithStatus(w, statuses)
<1>1. Rows(v) = Rows(w)
  BY DEF Rows
<1>2. \A statuses : WithStatus(v, statuses) = WithStatus(w, statuses)
  BY <1>1 DEF WithStatus
<1>3. OpenCorrections(v) = OpenCorrections(w)
  BY <1>2 DEF OpenCorrections
<1>4. DrawnFromGenerator(w) => DrawnFromGenerator(v)
  BY <1>1 DEF DrawnFromGenerator
<1>5. StatusFollowsRaw(w) => StatusFollowsRaw(v)
  BY <1>1 DEF StatusFollowsRaw
<1>6. FactsFollowDeliveries(w) => FactsFollowDeliveries(v)
  BY <1>2 DEF FactsFollowDeliveries
<1>7. AwaitsAlone(w) => AwaitsAlone(v)
  BY <1>1 DEF AwaitsAlone
<1>8. ReplayedOnce(w) => ReplayedOnce(v)
  BY <1>2 DEF ReplayedOnce
<1>. QED
  BY <1>1, <1>2, <1>3, <1>4, <1>5, <1>6, <1>7, <1>8 DEF Tables

\* A batch is new to every part: its rows are pending, and those that do not copy
\* an accepted delivery carry events that no delivery carried before.
LEMMA BatchTables ==
    ASSUME NEW w \in Warehouse, Tables(w),
           NEW scenario \in Scenarios, NEW count \in Nat,
           scenario = "duplicates" => Sources(w) # {}
    PROVE  Tables(Batch(w, scenario, count))
<1> DEFINE b == Batch(w, scenario, count)
           n == Len(w.deliveries)
<1>1. /\ b \in Warehouse /\ n \in Nat /\ w.cursor \in Nat
      /\ Rows(b) = 1..(n + count) /\ Rows(w) = 1..n
      /\ \A i \in Rows(w) : b.deliveries[i] = w.deliveries[i]
      /\ b.cursor = IF scenario = "duplicates" THEN w.cursor ELSE w.cursor + count
      /\ b.facts = w.facts
  <2>1. StatusFollowsRaw(w)
    BY DEF Tables
  <2>2. n \in Nat /\ w.cursor \in Nat /\ Rows(w) = 1..n
    BY RowsOfWarehouse DEF Warehouse
  <2>. QED
    BY <2>1, <2>2, BatchRows
<1>2. \A i \in Rows(b) : i \in Rows(w) \/ \E k \in 1..count : i = n + k
  <2>1. \A i \in Rows(b) : i \in 1..n \/ (i - n \in 1..count /\ i = n + (i - n))
    BY <1>1
  <2>. QED
    BY <1>1, <2>1
<1>3. ASSUME NEW k \in 1..count
      PROVE  LET d == b.deliveries[n + k] IN
             /\ d.status = "pending" /\ d.replay = 0
             /\ scenario = "duplicates" =>
                  /\ \E i \in WithStatus(w, {"accepted"}) : d.event = w.deliveries[i].event
                  /\ d.raw \in Clean /\ d.corrected = "none"
             /\ scenario # "duplicates" => d.event = w.cursor + k
             /\ scenario = "invalid" => d.raw \in Broken /\ d.corrected = "good"
             /\ scenario \in {"late", "normal"} => d.raw \in Clean /\ d.corrected = "none"
  <2>1. k - 1 \in Nat /\ w.cursor + (k - 1) + 1 = w.cursor + k
    BY <1>1
  <2>2. b.deliveries[n + k] = Simulated(w, scenario, k - 1)
    BY BatchRows DEF Tables
  <2>. QED
    BY <2>1, <2>2, SimulatedRow DEF Tables
<1>4. \A k \in 1..count : n + k \in Rows(b) /\ n + k \notin Rows(w)
  BY <1>1
<1>5. \A statuses : "pending" \notin statuses =>
          WithStatus(b, statuses) = WithStatus(w, statuses)
  <2> SUFFICES ASSUME NEW statuses, "pending" \notin statuses
               PROVE  WithStatus(b, statuses) = WithStatus(w, statuses)
    OBVIOUS
  <2>1. \A k \in 1..count : b.deliveries[n + k].status = "pending"
    BY <1>3
  <2>2. \A i \in Rows(b) : b.deliveries[i].status \in statuses => i \in Rows(w)
    BY <1>2, <2>1
  <2>3. Rows(w) \subseteq Rows(b)
    BY <1>1
  <2>. HIDE DEF b, n
  <2>. QED
    BY <1>1, <2>2, <2>3 DEF WithStatus
<1>. HIDE DEF b, n
<1>6. DrawnFromGenerator(b)
  <2> SUFFICES ASSUME NEW i \in Rows(b)
               PROVE  b.deliveries[i].event \in 1..b.cursor
    BY DEF DrawnFromGenerator
  <2>1. \A j \in Rows(w) : w.deliveries[j].event \in 1..w.cursor
    BY DEF Tables, DrawnFromGenerator
  <2>2. CASE i \in Rows(w)
    BY <1>1, <2>1, <2>2
  <2>3. ASSUME NEW k \in 1..count, i = n + k
        PROVE  b.deliveries[i].event \in 1..b.cursor
    <3>1. CASE scenario = "duplicates"
      BY <1>1, <1>3, <2>1, <2>3, <3>1 DEF WithStatus
    <3>2. CASE scenario # "duplicates"
      <4>1. b.deliveries[i].event = w.cursor + k
        BY <1>3, <2>3, <3>2
      <4>. QED
        BY <1>1, <3>2, <4>1
    <3>. QED
      BY <3>1, <3>2
  <2>. QED
    BY <1>2, <2>2, <2>3
<1>7. StatusFollowsRaw(b)
  <2> SUFFICES ASSUME NEW i \in Rows(b)
               PROVE  LET d == b.deliveries[i] IN
                      /\ d.status \in {"accepted", "duplicate"} => d.raw \in Clean
                      /\ d.status \in {"quarantined", "replayed"} => d.raw \in Broken
                      /\ d.raw \in Broken => d.corrected = "good"
                      /\ d.raw \in Clean => d.corrected = "none"
                      /\ d.status # "replayed" => d.replay = 0
    BY DEF StatusFollowsRaw
  <2>1. CASE i \in Rows(w)
    BY <1>1, <2>1 DEF Tables, StatusFollowsRaw
  <2>2. ASSUME NEW k \in 1..count, i = n + k
        PROVE  LET d == b.deliveries[i] IN
               /\ d.status = "pending" /\ d.replay = 0
               /\ \/ d.raw \in Broken /\ d.corrected = "good"
                  \/ d.raw \in Clean /\ d.corrected = "none"
    <3>1. CASE scenario = "duplicates"
      BY <1>3, <2>2, <3>1
    <3>2. CASE scenario = "invalid"
      BY <1>3, <2>2, <3>2
    <3>3. CASE scenario \in {"late", "normal"}
      BY <1>3, <2>2, <3>3
    <3>. QED
      BY <3>1, <3>2, <3>3 DEF Scenarios
  <2>3. Clean \cap Broken = {}
    BY DEF Clean, Broken
  <2>. QED
    BY <1>2, <2>1, <2>2, <2>3
<1>8. FactsFollowDeliveries(b)
  <2>1. WithStatus(b, {"accepted"}) = WithStatus(w, {"accepted"})
    BY <1>5
  <2>2. \A i \in WithStatus(w, {"accepted"}) : b.deliveries[i] = w.deliveries[i]
    BY <1>1 DEF WithStatus
  <2>. QED
    BY <1>1, <2>1, <2>2 DEF Tables, FactsFollowDeliveries
<1>9. AwaitsAlone(b)
  <2> SUFFICES ASSUME NEW i \in Rows(b), NEW j \in Rows(b), i # j,
                      b.deliveries[i].raw \in Broken, b.deliveries[i].status # "replayed"
               PROVE  b.deliveries[i].event # b.deliveries[j].event
    BY DEF AwaitsAlone
  <2>1. \A x \in Rows(w) : w.deliveries[x].event \in 1..w.cursor
    BY DEF Tables, DrawnFromGenerator
  <2>2. CASE i \in Rows(w) /\ j \in Rows(w)
    BY <1>1, <2>2 DEF Tables, AwaitsAlone
  <2>3. ASSUME i \in Rows(w), NEW k \in 1..count, j = n + k
        PROVE  b.deliveries[i].event # b.deliveries[j].event
    <3>1. CASE scenario = "duplicates"
      <4>1. PICK x \in WithStatus(w, {"accepted"}) :
                b.deliveries[j].event = w.deliveries[x].event
        BY <1>3, <2>3, <3>1
      <4>2. x \in Rows(w) /\ w.deliveries[x].status = "accepted"
        BY DEF WithStatus
      <4>3. w.deliveries[x].raw \in Clean
        BY <4>2 DEF Tables, StatusFollowsRaw
      <4>4. x # i
        BY <1>1, <2>3, <4>3 DEF Clean, Broken
      <4>. QED
        BY <1>1, <2>3, <4>1, <4>2, <4>4 DEF Tables, AwaitsAlone
    <3>2. CASE scenario # "duplicates"
      <4>1. b.deliveries[j].event = w.cursor + k
        BY <1>3, <2>3, <3>2
      <4>2. b.deliveries[i].event \in 1..w.cursor
        BY <1>1, <2>1, <2>3
      <4>. QED
        BY <1>1, <4>1, <4>2
    <3>. QED
      BY <3>1, <3>2
  <2>4. ASSUME NEW k \in 1..count, i = n + k
        PROVE  b.deliveries[i].event # b.deliveries[j].event
    <3>1. scenario = "invalid" /\ b.deliveries[i].event = w.cursor + k
      BY <1>3, <2>4 DEF Scenarios, Clean, Broken
    <3>2. CASE j \in Rows(w)
      BY <1>1, <2>1, <3>1, <3>2
    <3>3. ASSUME NEW l \in 1..count, j = n + l
          PROVE  b.deliveries[i].event # b.deliveries[j].event
      <4>1. b.deliveries[j].event = w.cursor + l
        BY <1>3, <3>1, <3>3
      <4>2. k # l
        BY <2>4, <3>3
      <4>. QED
        BY <1>1, <3>1, <4>1, <4>2
    <3>. QED
      BY <1>2, <3>2, <3>3
  <2>. QED
    BY <1>2, <2>2, <2>3, <2>4
<1>10. ReplayedOnce(b)
  <2>1. /\ WithStatus(b, {"replayed"}) = WithStatus(w, {"replayed"})
        /\ WithStatus(b, {"accepted"}) = WithStatus(w, {"accepted"})
    BY <1>5
  <2>2. ReplayedOnce(w)
    BY DEF Tables
  <2>3. /\ WithStatus(w, {"replayed"}) \in SUBSET Rows(w)
        /\ WithStatus(w, {"accepted"}) \in SUBSET Rows(w)
    BY DEF WithStatus
  <2>4. \A i \in Rows(w) : b.deliveries[i] = w.deliveries[i]
    BY <1>1
  <2>. HIDE DEF b
  <2>. QED
    BY <2>1, <2>2, <2>3, <2>4 DEF ReplayedOnce
<1>. QED
  BY <1>6, <1>7, <1>8, <1>9, <1>10 DEF Tables, b

\* audit() keeps at most MaxAudit entries.
LEMMA LoggedBounded ==
    ASSUME NEW log \in Seq(AuditActions), NEW action \in AuditActions
    PROVE  /\ Logged(log, action) \in Seq(AuditActions)
           /\ Len(log) <= MaxAudit => Len(Logged(log, action)) <= MaxAudit
<1>1. Len(log) \in Nat /\ MaxAudit \in Nat \ {0}
  BY LimitsAssumption
<1>2. CASE Len(log) < MaxAudit
  BY <1>1, <1>2, AppendProperties DEF Logged
<1>3. CASE ~(Len(log) < MaxAudit)
  <2>1. log # <<>>
    BY <1>1, <1>3
  <2>2. Tail(log) \in Seq(AuditActions) /\ Len(Tail(log)) = Len(log) - 1
    BY <2>1, HeadTailProperties
  <2>3. /\ Append(Tail(log), action) \in Seq(AuditActions)
        /\ Len(Append(Tail(log), action)) = Len(log)
    BY <1>1, <2>2, AppendProperties
  <2>. QED
    BY <1>1, <1>3, <2>3 DEF Logged
<1>. QED
  BY <1>2, <1>3

\* audit() drops the oldest entry when there are MaxAudit, and no other.
LEMMA LoggedEnds ==
    ASSUME NEW log \in Seq(AuditActions), Len(log) <= MaxAudit, NEW action \in AuditActions
    PROVE  IsEndOf(Logged(log, action), log \o <<action>>)
<1>1. Len(log) \in Nat /\ MaxAudit \in Nat \ {0}
  BY LimitsAssumption
<1> DEFINE all == log \o <<action>>
<1>2. /\ Len(all) = Len(log) + 1
      /\ \A i \in 1..Len(log) : all[i] = log[i]
      /\ all[Len(log) + 1] = action
  BY <1>1
<1>3. CASE Len(log) < MaxAudit
  <2>1. Logged(log, action) = Append(log, action) /\ Append(log, action) = all
    BY <1>3 DEF Logged
  <2>2. Len(all) <= MaxAudit
    BY <1>1, <1>2, <1>3
  <2> HIDE DEF all
  <2>. QED
    BY <1>1, <1>2, <2>1, <2>2 DEF IsEndOf
<1>4. CASE ~ (Len(log) < MaxAudit)
  <2>1. Len(log) = MaxAudit /\ log # <<>>
    BY <1>1, <1>4
  <2>2. /\ Tail(log) \in Seq(AuditActions) /\ Len(Tail(log)) = MaxAudit - 1
        /\ \A i \in 1..MaxAudit - 1 : Tail(log)[i] = log[i + 1]
    BY <1>1, <2>1, HeadTailProperties
  <2> DEFINE kept == Append(Tail(log), action)
  <2>3. /\ Len(kept) = MaxAudit
        /\ \A i \in 1..MaxAudit - 1 : kept[i] = log[i + 1]
        /\ kept[MaxAudit] = action
    BY <1>1, <2>2, AppendProperties
  <2>4. Logged(log, action) = kept
    BY <1>4 DEF Logged
  <2> HIDE DEF all, kept
  <2>5. ASSUME NEW i \in 1..MaxAudit PROVE kept[i] = all[1 + i]
    <3>1. CASE i = MaxAudit
      BY <1>1, <1>2, <2>1, <2>3, <3>1
    <3>2. CASE i # MaxAudit
      BY <1>1, <1>2, <2>1, <2>3, <3>2
    <3>. QED
      BY <3>1, <3>2
  <2>6. Len(all) - Len(kept) = 1 /\ ~ (Len(all) < MaxAudit)
    BY <1>1, <1>2, <2>1, <2>3
  <2>. QED
    BY <1>1, <2>3, <2>4, <2>5, <2>6 DEF IsEndOf, all
<1>. QED
  BY <1>3, <1>4

\* Likewise when it is called twice.
LEMMA LoggedTwiceEnds ==
    ASSUME NEW log \in Seq(AuditActions), Len(log) <= MaxAudit,
           NEW first \in AuditActions, NEW second \in AuditActions
    PROVE  IsEndOf(Logged(Logged(log, first), second), log \o <<first, second>>)
<1> DEFINE one == Logged(log, first)
           two == Logged(one, second)
           all == log \o <<first, second>>
<1>1. one \in Seq(AuditActions) /\ Len(one) <= MaxAudit
  BY LoggedBounded
<1>2. IsEndOf(one, log \o <<first>>)
  BY LoggedEnds
<1> HIDE DEF one
<1>3. IsEndOf(two, one \o <<second>>)
  BY <1>1, LoggedEnds
<1> HIDE DEF two
<1> DEFINE upto == log \o <<first>>
           after == one \o <<second>>
<1>4. Len(log) \in Nat /\ Len(one) \in Nat /\ MaxAudit \in Nat \ {0}
  BY <1>1, LimitsAssumption
<1>5. /\ Len(upto) = Len(log) + 1 /\ Len(after) = Len(one) + 1
      /\ Len(all) = Len(log) + 2 /\ all[Len(log) + 2] = second
      /\ \A i \in 1..Len(log) + 1 : all[i] = upto[i]
      /\ \A i \in 1..Len(one) : after[i] = one[i]
      /\ after[Len(one) + 1] = second
  BY <1>1, <1>4
<1>6. IsEndOf(one, upto) /\ IsEndOf(two, after)
  BY <1>2, <1>3
<1> HIDE DEF all, upto, after
<1>7. /\ Len(one) = IF Len(upto) < MaxAudit THEN Len(upto) ELSE MaxAudit
      /\ \A i \in 1..Len(one) : one[i] = upto[Len(upto) - Len(one) + i]
      /\ Len(two) = IF Len(after) < MaxAudit THEN Len(after) ELSE MaxAudit
      /\ \A i \in 1..Len(two) : two[i] = after[Len(after) - Len(two) + i]
  BY <1>6 DEF IsEndOf
<1>8. Len(two) = IF Len(all) < MaxAudit THEN Len(all) ELSE MaxAudit
  BY <1>4, <1>5, <1>7
<1>9. Len(two) \in Nat /\ Len(two) <= Len(one) + 1 /\ Len(one) <= Len(log) + 1
  BY <1>4, <1>5, <1>7
<1>10. ASSUME NEW i \in 1..Len(two) PROVE two[i] = all[Len(all) - Len(two) + i]
  <2> DEFINE k == Len(one) + 1 - Len(two) + i
  <2>1. k \in 1..Len(one) + 1 /\ two[i] = after[k]
    <3>1. k \in 1..Len(one) + 1 /\ k = Len(after) - Len(two) + i
      BY <1>4, <1>5, <1>9
    <3>2. two[i] = after[Len(after) - Len(two) + i]
      BY <1>7
    <3> HIDE DEF k
    <3>. QED
      BY <3>1, <3>2
  <2>2. CASE k = Len(one) + 1
    <3>1. Len(all) - Len(two) + i = Len(log) + 2
      BY <1>4, <1>5, <1>9, <2>2
    <3>. QED
      BY <1>5, <2>1, <2>2, <3>1
  <2>3. CASE k # Len(one) + 1
    <3>1. k \in 1..Len(one)
      BY <1>4, <2>1, <2>3
    <3>2. two[i] = upto[Len(log) + 1 - Len(one) + k]
      <4>1. two[i] = one[k]
        BY <1>5, <2>1, <3>1
      <4>2. one[k] = upto[Len(upto) - Len(one) + k]
        BY <1>7, <3>1
      <4>3. Len(upto) = Len(log) + 1
        BY <1>5
      <4>. QED
        BY <4>1, <4>2, <4>3
    <3>3. /\ Len(log) + 1 - Len(one) + k \in 1..Len(log) + 1
          /\ Len(log) + 1 - Len(one) + k = Len(all) - Len(two) + i
      BY <1>4, <1>5, <1>9, <3>1
    <3>. QED
      BY <1>5, <3>2, <3>3
  <2>. QED
    BY <2>2, <2>3
<1>. QED
  BY <1>8, <1>10 DEF IsEndOf, one, two, all

\* The corrections a batch opens: as many as its rows, when they are defective.
LEMMA BatchOpens ==
    ASSUME NEW w \in Warehouse, StatusFollowsRaw(w),
           NEW scenario \in Scenarios, NEW count \in Nat,
           scenario = "duplicates" => Sources(w) # {}
    PROVE  LET b == Batch(w, scenario, count) IN
           /\ Len(b.deliveries) = Len(w.deliveries) + count
           /\ Cardinality(OpenCorrections(b)) = Cardinality(OpenCorrections(w))
                                                + (IF scenario = "invalid" THEN count ELSE 0)
<1> DEFINE b == Batch(w, scenario, count)
           n == Len(w.deliveries)
           new == (n + 1)..(n + count)
<1>1. /\ b \in Warehouse /\ n \in Nat /\ Len(b.deliveries) = n + count
      /\ Rows(b) = 1..(n + count) /\ Rows(w) = 1..n
      /\ \A i \in Rows(w) : b.deliveries[i] = w.deliveries[i]
  <2>1. n \in Nat /\ Rows(w) = 1..n
    BY RowsOfWarehouse
  <2>. QED
    BY <2>1, BatchRows
<1>2. /\ IsFiniteSet(OpenCorrections(w)) /\ OpenCorrections(w) \subseteq Rows(w)
      /\ Cardinality(OpenCorrections(w)) \in Nat
  BY RowsOfWarehouse
<1>3. ASSUME NEW i \in new
      PROVE  /\ b.deliveries[i].status = "pending"
             /\ b.deliveries[i].corrected # "none" <=> scenario = "invalid"
  <2>0. \A m \in Nat : \A j \in (m + 1)..(m + count) :
            j - m \in 1..count /\ j = m + (j - m)
    OBVIOUS
  <2>1. PICK k \in 1..count : i = n + k
    BY <1>1, <2>0
  <2>4. k - 1 \in Nat
    OBVIOUS
  <2>2. b.deliveries[i] = Simulated(w, scenario, k - 1)
    BY <2>1, BatchRows
  <2>3. /\ b.deliveries[i].status = "pending"
        /\ scenario = "duplicates" => b.deliveries[i].corrected = "none"
        /\ scenario = "invalid" => b.deliveries[i].corrected = "good"
        /\ scenario \in {"late", "normal"} => b.deliveries[i].corrected = "none"
    BY <2>2, <2>4, SimulatedRow
  <2>. QED
    BY <2>3 DEF Scenarios
<1>4. Rows(b) = Rows(w) \cup new /\ Rows(w) \cap new = {}
  BY <1>1
<1>5. IsFiniteSet(new) /\ Cardinality(new) = count
  <2>1. n + 1 \in Int /\ n + count \in Int
    BY <1>1
  <2>2. /\ IsFiniteSet(new)
        /\ Cardinality(new) = IF n + 1 > n + count THEN 0 ELSE (n + count) - (n + 1) + 1
    BY <2>1, FS_Interval
  <2>. QED
    BY <1>1, <2>2
<1>. HIDE DEF b, n, new
<1>6. CASE scenario = "invalid"
  <2>1. OpenCorrections(b) = OpenCorrections(w) \cup new
    BY <1>1, <1>3, <1>4, <1>6 DEF OpenCorrections, WithStatus
  <2>2. OpenCorrections(w) \cap new = {}
    BY <1>2, <1>4
  <2>3. Cardinality(OpenCorrections(b)) = Cardinality(OpenCorrections(w)) + count
    <3>1. Cardinality(OpenCorrections(w) \cup new) =
            Cardinality(OpenCorrections(w)) + Cardinality(new) - Cardinality({})
      BY <1>2, <1>5, <2>2, FS_Union
    <3>2. Cardinality({}) = 0
      BY FS_EmptySet
    <3>. QED
      BY <1>2, <1>5, <2>1, <3>1, <3>2
  <2>. QED
    BY <1>1, <1>6, <2>3 DEF b, n
<1>7. CASE scenario # "invalid"
  <2>1. OpenCorrections(b) = OpenCorrections(w)
    BY <1>1, <1>3, <1>4, <1>7 DEF OpenCorrections, WithStatus
  <2>. QED
    BY <1>1, <1>2, <1>7, <2>1 DEF b, n
<1>. QED
  BY <1>6, <1>7

\* The room that simulate() requires pays for its rows and for the corrections
\* they open.
LEMMA BatchRoom ==
    ASSUME NEW w \in Warehouse, StatusFollowsRaw(w), RoomForCorrections(w),
           NEW scenario \in Scenarios, NEW count \in Nat,
           scenario = "duplicates" => Sources(w) # {},
           Len(w.deliveries) + Required(w, scenario, count) <= MaxEvents
    PROVE  /\ Len(Batch(w, scenario, count).deliveries) <= MaxEvents
           /\ RoomForCorrections(Batch(w, scenario, count))
<1> DEFINE b == Batch(w, scenario, count)
           opened == IF scenario = "invalid" THEN count ELSE 0
<1>1. /\ Len(b.deliveries) = Len(w.deliveries) + count
      /\ Cardinality(OpenCorrections(b)) = Cardinality(OpenCorrections(w)) + opened
  BY BatchOpens
<1>2. /\ Len(w.deliveries) \in Nat /\ Cardinality(OpenCorrections(w)) \in Nat
      /\ opened \in Nat
  BY RowsOfWarehouse
<1>3. Len(w.deliveries) + (count + Cardinality(OpenCorrections(w)) + opened) <= MaxEvents
  BY DEF Required
<1>. HIDE DEF b, opened
<1>4. Len(b.deliveries) <= MaxEvents
  BY <1>1, <1>2, <1>3, LimitsAssumption
<1>5. RoomForCorrections(b)
  BY <1>1, <1>2, <1>3, LimitsAssumption DEF RoomForCorrections
<1>. QED
  BY <1>4, <1>5 DEF b

\* A simulation that fits preserves everything.
LEMMA SimulateSound ==
    ASSUME NEW w, Sound(w), NEW scenario \in Scenarios, NEW count \in Nat,
           scenario = "duplicates" => Sources(w) # {},
           Len(w.deliveries) + Required(w, scenario, count) <= MaxEvents
    PROVE  LET v == AfterSimulate(w, scenario, count) IN
           /\ Sound(v)
           /\ v.runs = w.runs
           /\ Len(v.deliveries) = Len(w.deliveries) + count
           /\ Cardinality(OpenCorrections(v)) = Cardinality(OpenCorrections(w))
                                                + (IF scenario = "invalid" THEN count ELSE 0)
<1> DEFINE b == Batch(w, scenario, count)
           v == AfterSimulate(w, scenario, count)
<1>1. /\ w \in Warehouse /\ Tables(w) /\ RoomForCorrections(w)
      /\ Len(w.runs) <= MaxRuns /\ Len(w.audit) <= MaxAudit
  BY DEF Sound, Tables, WellTyped
<1>2. /\ b \in Warehouse /\ b.runs = w.runs /\ b.audit = w.audit
  BY <1>1, BatchRows DEF Tables
<1>3. Tables(b)
  BY <1>1, BatchTables
<1>4. Len(b.deliveries) <= MaxEvents /\ RoomForCorrections(b)
  BY <1>1, BatchRoom DEF Tables
<1>10. /\ Len(b.deliveries) = Len(w.deliveries) + count
       /\ Cardinality(OpenCorrections(b)) = Cardinality(OpenCorrections(w))
                                             + (IF scenario = "invalid" THEN count ELSE 0)
  BY <1>1, BatchOpens DEF Tables
<1>5. Logged(b.audit, "staged") \in Seq(AuditActions)
      /\ Len(Logged(b.audit, "staged")) <= MaxAudit
  BY <1>1, <1>2, LoggedBounded DEF Warehouse, AuditActions
<1>. HIDE DEF b
<1>6. /\ v.deliveries = b.deliveries /\ v.facts = b.facts /\ v.cursor = b.cursor
      /\ v.runs = b.runs /\ v.audit = Logged(b.audit, "staged")
      /\ v \in Warehouse
  <2>1. b.revision + 1 \in Nat
    BY <1>2 DEF Warehouse
  <2>2. v = [b EXCEPT !.revision = b.revision + 1, !.audit = Logged(b.audit, "staged")]
    BY DEF AfterSimulate, b
  <2>. HIDE DEF v
  <2>. QED
    BY <1>2, <1>5, <2>1, <2>2 DEF Warehouse
<1>. HIDE DEF v
<1>7. Tables(v) /\ OpenCorrections(v) = OpenCorrections(b)
  BY <1>3, <1>6, SameTables
<1>8. WellTyped(v)
  BY <1>1, <1>2, <1>4, <1>5, <1>6 DEF WellTyped
<1>9. RoomForCorrections(v)
  BY <1>4, <1>6, <1>7 DEF RoomForCorrections
<1>. QED
  BY <1>2, <1>6, <1>7, <1>8, <1>9, <1>10 DEF Sound, Tables, v

-----------------------------------------------------------------------------
(* Processing pending deliveries.                                           *)

\* The three outcomes, and what each says about the row.
LEMMA OutcomeCases ==
    ASSUME NEW w \in Warehouse, NEW selected \in SUBSET Rows(w), NEW i \in selected
    PROVE  /\ Outcome(w, selected, i) \in {"accepted", "duplicate", "quarantined"}
           /\ Outcome(w, selected, i) = "accepted" =>
                w.deliveries[i].raw \in Clean /\ ~AlreadyLoaded(w, selected, i)
           /\ Outcome(w, selected, i) = "duplicate" => AlreadyLoaded(w, selected, i)
           /\ Outcome(w, selected, i) = "quarantined" => w.deliveries[i].raw \in Broken
           /\ w.deliveries[i].raw \in Clean /\ ~AlreadyLoaded(w, selected, i) =>
                Outcome(w, selected, i) = "accepted"
<1>1. w.deliveries[i].raw \in Clean \cup Broken
  BY RowsOfWarehouse DEF Delivery, Raw
<1>. QED
  BY <1>1 DEF Outcome, FailsContract, FailsRules, Clean, Broken

\* process() writes status, run and late of the selected rows, and nothing else
\* in bronze; it appends one run and adds the accepted envelopes to the facts.
LEMMA ProcessRows ==
    ASSUME NEW w \in Warehouse, NEW trigger \in Triggers,
           NEW selected \in SUBSET Rows(w)
    PROVE  LET q == AfterProcess(w, trigger, selected) IN
           /\ q \in Warehouse
           /\ Rows(q) = Rows(w) /\ Len(q.deliveries) = Len(w.deliveries)
           /\ \A i \in Rows(w) :
                /\ q.deliveries[i].event = w.deliveries[i].event
                /\ q.deliveries[i].raw = w.deliveries[i].raw
                /\ q.deliveries[i].corrected = w.deliveries[i].corrected
                /\ q.deliveries[i].replay = w.deliveries[i].replay
                /\ i \in selected =>
                     /\ q.deliveries[i].status = Outcome(w, selected, i)
                     /\ q.deliveries[i].run = Len(w.runs) + 1
                     /\ q.deliveries[i].late = (Outcome(w, selected, i) = "accepted"
                                                  /\ IsLate(w.deliveries[i].raw))
                /\ i \notin selected => q.deliveries[i] = w.deliveries[i]
           /\ q.facts = w.facts \cup
                {[event |-> w.deliveries[i].event, raw |-> w.deliveries[i].raw] :
                    i \in {j \in selected : Outcome(w, selected, j) = "accepted"}}
           /\ q.cursor = w.cursor
           /\ Len(q.runs) = Len(w.runs) + 1
           /\ q.runs = Append(w.runs, RunRecord(w, trigger, selected))
           /\ RunRecord(w, trigger, selected) \in Run
           /\ q.audit = Logged(w.audit, "completed")
<1> DEFINE q == AfterProcess(w, trigger, selected)
           rows == [i \in Rows(w) |-> IF i \in selected THEN Settled(w, selected, i)
                                                       ELSE w.deliveries[i]]
           added == {[event |-> w.deliveries[i].event, raw |-> w.deliveries[i].raw] :
                       i \in {j \in selected : Outcome(w, selected, j) = "accepted"}}
           run == RunRecord(w, trigger, selected)
<1>1. /\ w.deliveries \in Seq(Delivery) /\ w.facts \in SUBSET Fact
      /\ w.runs \in Seq(Run) /\ w.cursor \in Nat /\ w.revision \in Nat
      /\ w.audit \in Seq(AuditActions)
  BY DEF Warehouse
<1>2. /\ Len(w.deliveries) \in Nat /\ Rows(w) = 1..Len(w.deliveries)
      /\ IsFiniteSet(Rows(w))
      /\ \A i \in Rows(w) : w.deliveries[i] \in Delivery
  BY RowsOfWarehouse
<1>3. ASSUME NEW i \in selected
      PROVE  LET s == Settled(w, selected, i)
                 d == w.deliveries[i]
             IN  /\ s \in Delivery
                 /\ s.event = d.event /\ s.raw = d.raw /\ s.corrected = d.corrected
                 /\ s.replay = d.replay /\ s.status = Outcome(w, selected, i)
                 /\ s.run = Len(w.runs) + 1
                 /\ s.late = (Outcome(w, selected, i) = "accepted" /\ IsLate(d.raw))
  <2>1. w.deliveries[i] \in Delivery
    BY <1>2
  <2>2. Outcome(w, selected, i) \in Statuses
    BY OutcomeCases DEF Statuses
  <2>3. Len(w.runs) + 1 \in Nat
    BY <1>1
  <2>. QED
    BY <2>1, <2>2, <2>3 DEF Settled, Delivery
<1>4. /\ rows \in Seq(Delivery) /\ Len(rows) = Len(w.deliveries)
      /\ \A i \in Rows(w) : rows[i] = IF i \in selected THEN Settled(w, selected, i)
                                                        ELSE w.deliveries[i]
  <2>1. \A i \in Rows(w) : (IF i \in selected THEN Settled(w, selected, i)
                                             ELSE w.deliveries[i]) \in Delivery
    BY <1>2, <1>3
  <2>2. rows \in [1..Len(w.deliveries) -> Delivery]
    BY <1>2, <2>1
  <2>. QED
    BY <1>2, <2>2
<1>5. added \in SUBSET Fact
  BY <1>2 DEF Fact, Delivery
<1>6. run \in Run
  <2>1. \A S \in SUBSET selected : Cardinality(S) \in Nat
    BY <1>2, FS_Subset, FS_CardinalityType
  <2>. DEFINE Of(outcome) == {i \in selected : Outcome(w, selected, i) = outcome}
  <2>2. \A outcome : Cardinality(Of(outcome)) \in Nat
    BY <2>1
  <2>3. Cardinality({i \in Of("accepted") : IsLate(w.deliveries[i].raw)}) \in Nat
    BY <2>1
  <2>. QED
    BY <2>1, <2>2, <2>3 DEF RunRecord, Run
<1>. HIDE DEF rows, added, run
<1>7. q = [w EXCEPT !.deliveries = rows, !.facts = w.facts \cup added,
                    !.runs = Append(w.runs, run), !.revision = w.revision + 1,
                    !.audit = Logged(w.audit, "completed")]
  BY DEF AfterProcess, rows, added, run
<1>. HIDE DEF q
<1>8. Append(w.runs, run) \in Seq(Run) /\ Len(Append(w.runs, run)) = Len(w.runs) + 1
  BY <1>1, <1>6, AppendProperties
<1>9. Logged(w.audit, "completed") \in Seq(AuditActions)
  BY <1>1, LoggedBounded DEF AuditActions
<1>10. /\ q.deliveries = rows /\ q.facts = w.facts \cup added
       /\ q.runs = Append(w.runs, run) /\ q.cursor = w.cursor
       /\ q.audit = Logged(w.audit, "completed")
  BY <1>7 DEF Warehouse
<1>11. q \in Warehouse
  <2>1. w.facts \cup added \in SUBSET Fact /\ w.revision + 1 \in Nat
    BY <1>1, <1>5
  <2>. QED
    BY <1>4, <1>7, <1>8, <1>9, <2>1 DEF Warehouse
<1>12. Rows(q) = Rows(w)
  BY <1>2, <1>4, <1>10 DEF Rows
<1>13. \A i \in Rows(w) :
          /\ q.deliveries[i].event = w.deliveries[i].event
          /\ q.deliveries[i].raw = w.deliveries[i].raw
          /\ q.deliveries[i].corrected = w.deliveries[i].corrected
          /\ q.deliveries[i].replay = w.deliveries[i].replay
          /\ i \in selected =>
               /\ q.deliveries[i].status = Outcome(w, selected, i)
               /\ q.deliveries[i].run = Len(w.runs) + 1
               /\ q.deliveries[i].late = (Outcome(w, selected, i) = "accepted"
                                            /\ IsLate(w.deliveries[i].raw))
          /\ i \notin selected => q.deliveries[i] = w.deliveries[i]
  BY <1>3, <1>4, <1>10
<1>. QED
  BY <1>4, <1>6, <1>8, <1>10, <1>11, <1>12, <1>13 DEF q, added, run

\* Two rows of one event are the same row.
Alone(w, i) ==
    \A j \in Rows(w) \ {i} : w.deliveries[j].event # w.deliveries[i].event

\* Processing keeps every part of Tables, provided the defective rows it selects
\* are alone with their event.  It needs AwaitsAlone of no other row, which a
\* replay does without while the correction stands beside the defect.
LEMMA ProcessTables ==
    ASSUME NEW w \in Warehouse, NEW trigger \in Triggers,
           NEW selected \in SUBSET Pending(w),
           DrawnFromGenerator(w), StatusFollowsRaw(w), FactsFollowDeliveries(w),
           ReplayedOnce(w),
           \A i \in selected : w.deliveries[i].raw \in Broken => Alone(w, i)
    PROVE  LET q == AfterProcess(w, trigger, selected) IN
           /\ DrawnFromGenerator(q) /\ StatusFollowsRaw(q)
           /\ FactsFollowDeliveries(q) /\ ReplayedOnce(q)
           /\ AwaitsAlone(w) => AwaitsAlone(q)
           /\ OpenCorrections(q) \subseteq OpenCorrections(w)
<1> DEFINE q == AfterProcess(w, trigger, selected)
           taken == {j \in selected : Outcome(w, selected, j) = "accepted"}
           Envelope(i) == [event |-> w.deliveries[i].event, raw |-> w.deliveries[i].raw]
<1>1. /\ selected \in SUBSET Rows(w)
      /\ \A i \in selected : w.deliveries[i].status = "pending"
  BY DEF Pending, WithStatus
<1>2. /\ q \in Warehouse /\ Rows(q) = Rows(w) /\ q.cursor = w.cursor
      /\ \A i \in Rows(w) :
            /\ q.deliveries[i].event = w.deliveries[i].event
            /\ q.deliveries[i].raw = w.deliveries[i].raw
            /\ q.deliveries[i].corrected = w.deliveries[i].corrected
            /\ q.deliveries[i].replay = w.deliveries[i].replay
            /\ i \in selected => q.deliveries[i].status = Outcome(w, selected, i)
            /\ i \notin selected => q.deliveries[i] = w.deliveries[i]
      /\ q.facts = w.facts \cup {Envelope(i) : i \in taken}
  BY <1>1, ProcessRows
<1>3. \A i \in selected :
          /\ Outcome(w, selected, i) \in {"accepted", "duplicate", "quarantined"}
          /\ Outcome(w, selected, i) = "accepted" =>
               w.deliveries[i].raw \in Clean /\ ~AlreadyLoaded(w, selected, i)
          /\ Outcome(w, selected, i) = "duplicate" => AlreadyLoaded(w, selected, i)
          /\ Outcome(w, selected, i) = "quarantined" => w.deliveries[i].raw \in Broken
          /\ w.deliveries[i].raw \in Clean /\ ~AlreadyLoaded(w, selected, i) =>
               Outcome(w, selected, i) = "accepted"
  BY <1>1, OutcomeCases
<1>4. /\ w.facts = {Envelope(i) : i \in WithStatus(w, {"accepted"})}
      /\ \A i, j \in WithStatus(w, {"accepted"}) :
            w.deliveries[i].event = w.deliveries[j].event => i = j
  BY DEF FactsFollowDeliveries
<1>5. \A e : e \in Loaded(w) <=>
          \E i \in WithStatus(w, {"accepted"}) : w.deliveries[i].event = e
  <2>1. \A f : f \in w.facts <=> \E i \in WithStatus(w, {"accepted"}) : f = Envelope(i)
    BY <1>4
  <2>2. \A i : Envelope(i).event = w.deliveries[i].event
    OBVIOUS
  <2>3. \A e : e \in Loaded(w) <=> \E f \in w.facts : e = f.event
    BY DEF Loaded
  <2>. HIDE DEF Envelope
  <2>. QED
    BY <2>1, <2>2, <2>3
<1>6. \A i \in selected : w.deliveries[i].raw \in Broken =>
          ~AlreadyLoaded(w, selected, i)
  <2> SUFFICES ASSUME NEW i \in selected, w.deliveries[i].raw \in Broken,
                      AlreadyLoaded(w, selected, i)
               PROVE  FALSE
    OBVIOUS
  <2>1. \A j \in Rows(w) \ {i} : w.deliveries[j].event # w.deliveries[i].event
    BY DEF Alone
  <2>2. i \in Nat
    BY <1>1, RowsOfWarehouse
  <2>3. CASE w.deliveries[i].event \in Loaded(w)
    BY <1>1, <1>5, <2>1, <2>3 DEF WithStatus
  <2>4. CASE \E j \in selected : j < i /\ w.deliveries[j].event = w.deliveries[i].event
    <3>1. PICK j \in selected : j < i /\ w.deliveries[j].event = w.deliveries[i].event
      BY <2>4
    <3>2. j \in Rows(w) /\ j \in Nat
      BY <1>1, RowsOfWarehouse
    <3>. QED
      BY <2>1, <2>2, <3>1, <3>2
  <2>. QED
    BY <2>3, <2>4 DEF AlreadyLoaded
<1>. HIDE DEF q, taken, Envelope
<1>7. WithStatus(q, {"accepted"}) = WithStatus(w, {"accepted"}) \cup taken
  BY <1>1, <1>2, <1>3 DEF WithStatus, taken
<1>8. WithStatus(q, {"replayed"}) = WithStatus(w, {"replayed"})
  BY <1>1, <1>2, <1>3 DEF WithStatus
<1>9. DrawnFromGenerator(q)
  BY <1>2 DEF DrawnFromGenerator
<1>10. StatusFollowsRaw(q)
  <2> SUFFICES ASSUME NEW i \in Rows(w)
               PROVE  LET d == q.deliveries[i] IN
                      /\ d.status \in {"accepted", "duplicate"} => d.raw \in Clean
                      /\ d.status \in {"quarantined", "replayed"} => d.raw \in Broken
                      /\ d.raw \in Broken => d.corrected = "good"
                      /\ d.raw \in Clean => d.corrected = "none"
                      /\ d.status # "replayed" => d.replay = 0
    BY <1>2 DEF StatusFollowsRaw
  <2>1. CASE i \notin selected
    BY <1>2, <2>1 DEF StatusFollowsRaw
  <2>2. CASE i \in selected
    <3>1. w.deliveries[i].raw \in Clean \cup Broken
      BY RowsOfWarehouse DEF Delivery, Raw
    <3>2. /\ w.deliveries[i].status = "pending" /\ w.deliveries[i].replay = 0
          /\ w.deliveries[i].raw \in Broken => w.deliveries[i].corrected = "good"
          /\ w.deliveries[i].raw \in Clean => w.deliveries[i].corrected = "none"
      BY <1>1, <2>2 DEF StatusFollowsRaw
    <3>. QED
      BY <1>2, <1>3, <1>6, <2>2, <3>1, <3>2
  <2>. QED
    BY <2>1, <2>2
<1>11. FactsFollowDeliveries(q)
  <2>1. q.facts = {[event |-> q.deliveries[i].event, raw |-> q.deliveries[i].raw] :
                     i \in WithStatus(q, {"accepted"})}
    <3>1. taken \subseteq Rows(w) /\ WithStatus(w, {"accepted"}) \subseteq Rows(w)
      BY <1>1, RowsOfWarehouse DEF taken
    <3>2. \A i \in Rows(w) : Envelope(i) =
             [event |-> q.deliveries[i].event, raw |-> q.deliveries[i].raw]
      BY <1>2 DEF Envelope
    <3>3. q.facts = {Envelope(i) : i \in WithStatus(q, {"accepted"})}
      BY <1>2, <1>4, <1>7
    <3>. QED
      BY <1>7, <3>1, <3>2, <3>3
  <2>2. ASSUME NEW i \in WithStatus(q, {"accepted"}), NEW j \in WithStatus(q, {"accepted"}),
               q.deliveries[i].event = q.deliveries[j].event
        PROVE  i = j
    <3>1. /\ i \in Rows(w) /\ j \in Rows(w) /\ i \in Nat /\ j \in Nat
          /\ w.deliveries[i].event = w.deliveries[j].event
      BY <1>2, <2>2, RowsOfWarehouse DEF WithStatus
    <3>2. CASE i \in WithStatus(w, {"accepted"}) /\ j \in WithStatus(w, {"accepted"})
      BY <1>4, <3>1, <3>2
    <3>3. CASE i \in taken /\ j \in WithStatus(w, {"accepted"})
      BY <1>3, <1>5, <3>1, <3>3 DEF taken, AlreadyLoaded
    <3>4. CASE i \in WithStatus(w, {"accepted"}) /\ j \in taken
      BY <1>3, <1>5, <3>1, <3>4 DEF taken, AlreadyLoaded
    <3>5. CASE i \in taken /\ j \in taken
      <4>1. ~(i < j) /\ ~(j < i)
        BY <1>3, <3>1, <3>5 DEF taken, AlreadyLoaded
      <4>. QED
        BY <3>1, <4>1
    <3>. QED
      BY <1>7, <2>2, <3>2, <3>3, <3>4, <3>5
  <2>. QED
    BY <2>1, <2>2 DEF FactsFollowDeliveries
<1>12. ReplayedOnce(q)
  <2> SUFFICES ASSUME NEW i \in WithStatus(w, {"replayed"})
               PROVE  LET d == q.deliveries[i] IN
                      /\ d.replay \in WithStatus(q, {"accepted"})
                      /\ q.deliveries[d.replay].event = d.event
                      /\ q.deliveries[d.replay].raw = d.corrected
    BY <1>8 DEF ReplayedOnce
  <2>1. i \in Rows(w)
    BY DEF WithStatus
  <2>2. /\ w.deliveries[i].replay \in WithStatus(w, {"accepted"})
        /\ w.deliveries[w.deliveries[i].replay].event = w.deliveries[i].event
        /\ w.deliveries[w.deliveries[i].replay].raw = w.deliveries[i].corrected
    BY DEF ReplayedOnce
  <2>3. w.deliveries[i].replay \in Rows(w)
    BY <2>2 DEF WithStatus
  <2>. QED
    BY <1>2, <1>7, <2>1, <2>2, <2>3
<1>13. AwaitsAlone(w) => AwaitsAlone(q)
  <2> SUFFICES ASSUME AwaitsAlone(w), NEW i \in Rows(w), NEW j \in Rows(w) \ {i},
                      q.deliveries[i].raw \in Broken, q.deliveries[i].status # "replayed"
               PROVE  q.deliveries[j].event # q.deliveries[i].event
    BY <1>2 DEF AwaitsAlone
  <2>1. w.deliveries[i].status # "replayed"
    BY <1>1, <1>2
  <2>. QED
    BY <1>2, <2>1 DEF AwaitsAlone
<1>14. OpenCorrections(q) \subseteq OpenCorrections(w)
  BY <1>1, <1>2 DEF OpenCorrections, WithStatus
<1>. QED
  BY <1>9, <1>10, <1>11, <1>12, <1>13, <1>14 DEF q

\* A pipeline run that the run limit allows preserves everything.
LEMMA ProcessSound ==
    ASSUME NEW w, Sound(w), NEW trigger \in Triggers,
           NEW selected \in SUBSET Pending(w), Len(w.runs) < MaxRuns
    PROVE  Sound(AfterProcess(w, trigger, selected))
<1> DEFINE q == AfterProcess(w, trigger, selected)
<1>1. w \in Warehouse /\ Tables(w) /\ WellTyped(w) /\ RoomForCorrections(w)
  BY DEF Sound, Tables, WellTyped
<1>2. selected \in SUBSET Rows(w)
  BY DEF Pending, WithStatus
<1>3. /\ q \in Warehouse /\ Len(q.deliveries) = Len(w.deliveries)
      /\ Len(q.runs) = Len(w.runs) + 1 /\ q.audit = Logged(w.audit, "completed")
  BY <1>1, <1>2, ProcessRows
<1>4. \A i \in selected : w.deliveries[i].raw \in Broken => Alone(w, i)
  BY <1>1, <1>2 DEF Tables, AwaitsAlone, Alone, Pending, WithStatus
<1>5. Tables(q) /\ OpenCorrections(q) \in SUBSET OpenCorrections(w)
  BY <1>1, <1>4, ProcessTables DEF Tables
<1>. HIDE DEF q
<1>6. WellTyped(q)
  <2>1. Len(q.audit) <= MaxAudit
    BY <1>1, <1>3, LoggedBounded DEF WellTyped, Warehouse, AuditActions
  <2>2. Len(w.runs) \in Nat /\ MaxRuns \in Nat
    BY <1>1, LimitsAssumption DEF Warehouse
  <2>. QED
    BY <1>1, <1>3, <2>1, <2>2 DEF WellTyped
<1>7. RoomForCorrections(q)
  <2>1. /\ IsFiniteSet(OpenCorrections(w)) /\ Cardinality(OpenCorrections(w)) \in Nat
        /\ Cardinality(OpenCorrections(q)) \in Nat
        /\ Len(w.deliveries) \in Nat
    BY <1>1, <1>3, RowsOfWarehouse
  <2>2. Cardinality(OpenCorrections(q)) <= Cardinality(OpenCorrections(w))
    BY <1>5, <2>1, FS_Subset
  <2>. QED
    BY <1>1, <1>3, <2>1, <2>2, LimitsAssumption DEF RoomForCorrections
<1>. QED
  BY <1>5, <1>6, <1>7 DEF Sound, Tables, q

-----------------------------------------------------------------------------
(* Replaying a quarantined delivery.                                        *)

\* The run of a replay: it takes one delivery and accepts it.
OneAccepted == [trigger |-> "approved_replay", received |-> 1, accepted |-> 1,
                quarantined |-> 0, duplicates |-> 0, late |-> 0]

\* The rows of a warehouse after a replay: the defective delivery is closed and
\* names the new last row, which its own run accepted; the others are untouched.
LEMMA ReplayRows ==
    ASSUME NEW w, Sound(w), NEW i, ReplayAllowed(w, i)
    PROVE  LET r == AfterReplay(w, i)
               new == Len(w.deliveries) + 1
           IN  /\ r \in Warehouse /\ Rows(r) = 1..new /\ Rows(w) = 1..(new - 1)
               /\ \A j \in Rows(w) \ {i} : r.deliveries[j] = w.deliveries[j]
               /\ r.deliveries[i] = [w.deliveries[i] EXCEPT !.status = "replayed",
                                                            !.replay = new]
               /\ r.deliveries[new].event = w.deliveries[i].event
               /\ r.deliveries[new].raw = "good"
               /\ r.deliveries[new].corrected = "none"
               /\ r.deliveries[new].status = "accepted"
               /\ r.deliveries[new].replay = 0
               /\ r.deliveries[new].run = Len(w.runs) + 1
               /\ r.deliveries[new].late = FALSE
               /\ r.facts = w.facts \cup
                    {[event |-> w.deliveries[i].event, raw |-> "good"]}
               /\ r.cursor = w.cursor
               /\ Len(r.runs) = Len(w.runs) + 1
               /\ r.runs = Append(w.runs, OneAccepted)
               /\ Len(r.audit) <= MaxAudit
<1> DEFINE new == Len(w.deliveries) + 1
           v == WithCorrection(w, i)
           q == AfterProcess(v, "approved_replay", {new})
           r == AfterReplay(w, i)
           row == Staged(w.deliveries[i].event, w.deliveries[i].corrected, "none")
<1>1. /\ w \in Warehouse /\ w.deliveries \in Seq(Delivery)
      /\ Len(w.deliveries) \in Nat /\ Rows(w) = 1..Len(w.deliveries)
      /\ i \in Rows(w) /\ w.deliveries[i] \in Delivery
      /\ w.deliveries[i].event \in Nat
      /\ Len(w.audit) <= MaxAudit
  <2>1. w \in Warehouse /\ i \in Rows(w) /\ Len(w.audit) <= MaxAudit
    BY DEF Sound, WellTyped, ReplayAllowed, Replayable
  <2>2. w.deliveries[i] \in Delivery
    BY <2>1, RowsOfWarehouse
  <2>. QED
    BY <2>1, <2>2, RowsOfWarehouse DEF Warehouse, Delivery
<1>2. w.deliveries[i].corrected = "good"
  BY <1>1 DEF Sound, StatusFollowsRaw, ReplayAllowed, Replayable
<1>3. /\ row \in Delivery /\ row.event = w.deliveries[i].event /\ row.raw = "good"
      /\ row.corrected = "none" /\ row.status = "pending" /\ row.replay = 0
  <2>1. "good" \in Raw /\ "none" \in Raw \cup {"none"}
    BY DEF Raw, Clean
  <2>2. row = Staged(w.deliveries[i].event, "good", "none")
    BY <1>2
  <2>. HIDE DEF row
  <2>. QED
    BY <1>1, <2>1, <2>2, StagedRow
<1>. HIDE DEF row
<1>4. /\ Append(w.deliveries, row) \in Seq(Delivery)
      /\ Len(Append(w.deliveries, row)) = new
      /\ \A j \in Rows(w) : Append(w.deliveries, row)[j] = w.deliveries[j]
      /\ Append(w.deliveries, row)[new] = row
  BY <1>1, <1>3, AppendProperties
<1>5. v = [w EXCEPT !.deliveries = Append(w.deliveries, row)]
  BY DEF WithCorrection, row
<1>. HIDE DEF v
<1>6. /\ v.deliveries = Append(w.deliveries, row) /\ v.facts = w.facts
      /\ v.cursor = w.cursor /\ v.runs = w.runs /\ v.audit = w.audit
      /\ v \in Warehouse
  BY <1>1, <1>4, <1>5 DEF Warehouse
<1>7. Rows(v) = 1..new /\ {new} \in SUBSET Rows(v)
  BY <1>1, <1>4, <1>6, RowsOfWarehouse
<1>8. /\ q \in Warehouse /\ Rows(q) = 1..new
      /\ \A j \in Rows(w) : q.deliveries[j] = v.deliveries[j]
      /\ q.deliveries[new].event = v.deliveries[new].event
      /\ q.deliveries[new].raw = v.deliveries[new].raw
      /\ q.deliveries[new].corrected = v.deliveries[new].corrected
      /\ q.deliveries[new].replay = v.deliveries[new].replay
      /\ q.deliveries[new].status = Outcome(v, {new}, new)
      /\ q.deliveries[new].run = Len(v.runs) + 1
      /\ q.deliveries[new].late = (Outcome(v, {new}, new) = "accepted"
                                     /\ IsLate(v.deliveries[new].raw))
      /\ q.facts = v.facts \cup
           {[event |-> v.deliveries[j].event, raw |-> v.deliveries[j].raw] :
               j \in {k \in {new} : Outcome(v, {new}, k) = "accepted"}}
      /\ q.cursor = v.cursor
      /\ Len(q.runs) = Len(v.runs) + 1
      /\ q.runs = Append(v.runs, RunRecord(v, "approved_replay", {new}))
      /\ q.audit = Logged(v.audit, "completed")
  <2>1. "approved_replay" \in Triggers
    BY DEF Triggers
  <2>2. new \in Rows(v) /\ \A j \in Rows(w) : j \in Rows(v) /\ j \notin {new}
    BY <1>1, <1>7
  <2>3. /\ q \in Warehouse /\ Rows(q) = Rows(v)
        /\ \A j \in Rows(v) :
             /\ q.deliveries[j].event = v.deliveries[j].event
             /\ q.deliveries[j].raw = v.deliveries[j].raw
             /\ q.deliveries[j].corrected = v.deliveries[j].corrected
             /\ q.deliveries[j].replay = v.deliveries[j].replay
             /\ j \in {new} =>
                  /\ q.deliveries[j].status = Outcome(v, {new}, j)
                  /\ q.deliveries[j].run = Len(v.runs) + 1
                  /\ q.deliveries[j].late = (Outcome(v, {new}, j) = "accepted"
                                               /\ IsLate(v.deliveries[j].raw))
             /\ j \notin {new} => q.deliveries[j] = v.deliveries[j]
        /\ q.facts = v.facts \cup
             {[event |-> v.deliveries[j].event, raw |-> v.deliveries[j].raw] :
                 j \in {k \in {new} : Outcome(v, {new}, k) = "accepted"}}
        /\ q.cursor = v.cursor /\ Len(q.runs) = Len(v.runs) + 1
        /\ q.runs = Append(v.runs, RunRecord(v, "approved_replay", {new}))
        /\ q.audit = Logged(v.audit, "completed")
    <3>1. v \in Warehouse /\ {new} \in SUBSET Rows(v)
      BY <1>6, <1>7
    <3>. QED
      BY <2>1, <3>1, ProcessRows, ZenonT(40)
  <2>. HIDE DEF q, new
  <2>. QED
    BY <1>7, <2>2, <2>3
<1>9. Outcome(v, {new}, new) = "accepted"
  <2>1. v.deliveries[new].event \notin Loaded(v)
    BY <1>3, <1>4, <1>6 DEF ReplayAllowed, Replayable, Loaded
  <2>2. ~AlreadyLoaded(v, {new}, new)
    BY <1>1, <2>1 DEF AlreadyLoaded
  <2>3. v.deliveries[new].raw \in Clean
    BY <1>3, <1>4, <1>6 DEF Clean
  <2>. QED
    BY <1>6, <1>7, <2>2, <2>3, OutcomeCases
<1>10. q.facts = w.facts \cup {[event |-> w.deliveries[i].event, raw |-> "good"]}
  <2>1. {k \in {new} : Outcome(v, {new}, k) = "accepted"} = {new}
    BY <1>9
  <2>2. v.deliveries[new].event = w.deliveries[i].event /\ v.deliveries[new].raw = "good"
    BY <1>3, <1>4, <1>6
  <2>3. {[event |-> v.deliveries[j].event, raw |-> v.deliveries[j].raw] : j \in {new}}
          = {[event |-> v.deliveries[new].event, raw |-> v.deliveries[new].raw]}
    OBVIOUS
  <2>4. q.facts = v.facts \cup
          {[event |-> v.deliveries[j].event, raw |-> v.deliveries[j].raw] : j \in {new}}
    BY <1>8, <2>1
  <2>. HIDE DEF q, new
  <2>. QED
    BY <1>6, <2>2, <2>3, <2>4
<1>21. RunRecord(v, "approved_replay", {new}) = OneAccepted
  <2>. DEFINE Of(outcome) == {k \in {new} : Outcome(v, {new}, k) = outcome}
  <2>1. /\ Of("accepted") = {new} /\ Of("quarantined") = {} /\ Of("duplicate") = {}
    BY <1>9
  <2>2. {k \in Of("accepted") : IsLate(v.deliveries[k].raw)} = {}
    BY <1>3, <1>4, <1>6, <2>1 DEF IsLate
  <2>3. Cardinality({new}) = 1 /\ Cardinality({}) = 0
    BY FS_Singleton, FS_EmptySet
  <2>. QED
    BY <2>1, <2>2, <2>3 DEF RunRecord, OneAccepted
<1>22. q.runs = Append(w.runs, OneAccepted) /\ q.deliveries[new].run = Len(w.runs) + 1
       /\ q.deliveries[new].late = FALSE
  BY <1>3, <1>4, <1>6, <1>8, <1>21 DEF IsLate
<1>. HIDE DEF q
<1> DEFINE closed == [w.deliveries[i] EXCEPT !.status = "replayed", !.replay = new]
           log == Logged(q.audit, "approved")
<1>11. closed \in Delivery
  <2>1. "replayed" \in Statuses /\ new \in Nat
    BY <1>1 DEF Statuses
  <2>. HIDE DEF new
  <2>. QED
    BY <1>1, <2>1 DEF Delivery
<1>12. q.deliveries \in Seq(Delivery) /\ Len(q.deliveries) = new
  <2>1. q.deliveries \in Seq(Delivery)
    BY <1>8 DEF Warehouse
  <2>2. Rows(q) = 1..Len(q.deliveries) /\ Len(q.deliveries) \in Nat
    BY <1>8, RowsOfWarehouse
  <2>. QED
    BY <1>1, <1>8, <2>1, <2>2
<1>13. r = [q EXCEPT !.deliveries = [q.deliveries EXCEPT ![i] = closed], !.audit = log]
  <2>1. q.deliveries[i] = w.deliveries[i]
    BY <1>1, <1>4, <1>6, <1>8
  <2>2. r = [q EXCEPT
              !.deliveries[i] = [q.deliveries[i] EXCEPT !.status = "replayed", !.replay = new],
              !.audit = log]
    BY DEF AfterReplay, q, v
  <2>3. r = [q EXCEPT !.deliveries[i] = closed, !.audit = log]
    BY <2>1, <2>2
  <2>. HIDE DEF r, closed, log
  <2>. QED
    BY <2>3
<1>14. log \in Seq(AuditActions) /\ Len(log) <= MaxAudit
  <2>1. w.audit \in Seq(AuditActions)
    BY <1>1 DEF Warehouse
  <2>2. q.audit \in Seq(AuditActions) /\ Len(q.audit) <= MaxAudit
    BY <1>1, <1>6, <1>8, <2>1, LoggedBounded DEF AuditActions
  <2>. QED
    BY <2>2, LoggedBounded DEF AuditActions
<1>. HIDE DEF r, closed, log
<1> DEFINE rows == [q.deliveries EXCEPT ![i] = closed]
<1>15. /\ rows \in Seq(Delivery) /\ Len(rows) = new
       /\ rows[i] = closed /\ \A j \in 1..new : j # i => rows[j] = q.deliveries[j]
  <2>1. i \in 1..Len(q.deliveries) /\ i # new
    BY <1>1, <1>12
  <2>. QED
    BY <1>1, <1>11, <1>12, <2>1, ExceptSeq
<1>. HIDE DEF rows
<1>16. /\ r \in Warehouse /\ r.deliveries = rows /\ r.facts = q.facts
       /\ r.cursor = q.cursor /\ r.runs = q.runs /\ r.audit = log
  BY <1>8, <1>13, <1>14, <1>15 DEF Warehouse, rows
<1>17. Rows(r) = 1..new /\ new - 1 = Len(w.deliveries) /\ i # new /\ new \in 1..new
  BY <1>1, <1>15, <1>16, RowsOfWarehouse
<1>18. /\ Rows(w) = 1..(new - 1)
       /\ \A j \in Rows(w) \ {i} : r.deliveries[j] = w.deliveries[j]
       /\ r.deliveries[i] = closed
       /\ r.deliveries[new] = q.deliveries[new]
  <2>1. Rows(w) = 1..(new - 1) /\ \A j \in Rows(w) : j \in 1..new
    BY <1>1
  <2>2. \A j \in Rows(w) : q.deliveries[j] = w.deliveries[j]
    BY <1>4, <1>6, <1>8
  <2>. HIDE DEF new
  <2>. QED
    BY <1>15, <1>16, <1>17, <2>1, <2>2
<1>19. /\ r.deliveries[new].event = w.deliveries[i].event
       /\ r.deliveries[new].raw = "good"
       /\ r.deliveries[new].corrected = "none"
       /\ r.deliveries[new].status = "accepted"
       /\ r.deliveries[new].replay = 0
       /\ r.deliveries[new].run = Len(w.runs) + 1
       /\ r.deliveries[new].late = FALSE
  BY <1>3, <1>4, <1>6, <1>8, <1>9, <1>18, <1>22
<1>20. Len(r.audit) <= MaxAudit /\ Len(r.runs) = Len(w.runs) + 1
       /\ r.runs = Append(w.runs, OneAccepted)
       /\ r.cursor = w.cursor
       /\ r.facts = w.facts \cup {[event |-> w.deliveries[i].event, raw |-> "good"]}
  BY <1>6, <1>8, <1>10, <1>14, <1>16, <1>22
<1>. HIDE DEF new
<1>. QED
  BY <1>16, <1>17, <1>18, <1>19, <1>20 DEF r, closed, new

\* An approval leaves two entries: its run's, and its own.
LEMMA ReplayTrail ==
    ASSUME NEW w, Sound(w), NEW i, ReplayAllowed(w, i)
    PROVE  AfterReplay(w, i).audit = Logged(Logged(w.audit, "completed"), "approved")
<1> DEFINE new == Len(w.deliveries) + 1
           v == WithCorrection(w, i)
           q == AfterProcess(v, "approved_replay", {new})
           row == Staged(w.deliveries[i].event, w.deliveries[i].corrected, "none")
<1>1. w \in Warehouse /\ i \in Rows(w) /\ w.deliveries[i].corrected # "none"
  BY DEF Sound, WellTyped, ReplayAllowed, Replayable
<1>2. /\ w.deliveries \in Seq(Delivery) /\ Len(w.deliveries) \in Nat
      /\ w.deliveries[i] \in Delivery
  BY <1>1, RowsOfWarehouse DEF Warehouse
<1>3. row \in Delivery
  BY <1>1, <1>2, StagedRow DEF Delivery
<1> HIDE DEF row
<1>4. /\ Append(w.deliveries, row) \in Seq(Delivery)
      /\ Len(Append(w.deliveries, row)) = new
  BY <1>2, <1>3, AppendProperties
<1>5. v = [w EXCEPT !.deliveries = Append(w.deliveries, row)]
  BY DEF WithCorrection, row
<1> HIDE DEF v
<1>6. v \in Warehouse /\ v.audit = w.audit /\ v.deliveries = Append(w.deliveries, row)
  BY <1>1, <1>4, <1>5 DEF Warehouse
<1>7. {new} \in SUBSET Rows(v) /\ "approved_replay" \in Triggers
  BY <1>2, <1>4, <1>6, RowsOfWarehouse DEF Triggers
<1>8. q \in Warehouse /\ q.audit = Logged(w.audit, "completed")
  BY <1>6, <1>7, ProcessRows
<1> HIDE DEF q
<1>9. AfterReplay(w, i) = [q EXCEPT !.deliveries[i] = [@ EXCEPT !.status = "replayed",
                                                              !.replay = new],
                                    !.audit = Logged(@, "approved")]
  BY DEF AfterReplay, q, v
<1>. QED
  BY <1>8, <1>9 DEF Warehouse

\* An approved replay preserves everything: the new delivery takes the room that
\* was kept for it, and its event was nowhere among the facts.
LEMMA ReplaySound ==
    ASSUME NEW w, Sound(w), NEW i, ReplayAllowed(w, i)
    PROVE  Sound(AfterReplay(w, i))
<1> DEFINE r == AfterReplay(w, i)
           new == Len(w.deliveries) + 1
<1>1. /\ r \in Warehouse /\ Rows(r) = 1..new /\ Rows(w) = 1..(new - 1)
      /\ \A j \in Rows(w) \ {i} : r.deliveries[j] = w.deliveries[j]
      /\ r.deliveries[i] = [w.deliveries[i] EXCEPT !.status = "replayed", !.replay = new]
      /\ r.deliveries[new].event = w.deliveries[i].event
      /\ r.deliveries[new].raw = "good"
      /\ r.deliveries[new].corrected = "none"
      /\ r.deliveries[new].status = "accepted"
      /\ r.deliveries[new].replay = 0
      /\ r.deliveries[new].run = Len(w.runs) + 1
      /\ r.deliveries[new].late = FALSE
      /\ r.facts = w.facts \cup {[event |-> w.deliveries[i].event, raw |-> "good"]}
      /\ r.cursor = w.cursor
      /\ Len(r.runs) = Len(w.runs) + 1
      /\ r.runs = Append(w.runs, OneAccepted)
      /\ Len(r.audit) <= MaxAudit
  BY ReplayRows
<1>2. /\ w \in Warehouse /\ Tables(w) /\ WellTyped(w) /\ RoomForCorrections(w)
      /\ Len(w.deliveries) \in Nat /\ new \in Nat /\ new - 1 = Len(w.deliveries)
      /\ new \notin Rows(w) /\ i # new
      /\ i \in Rows(w) /\ w.deliveries[i] \in Delivery
      /\ w.deliveries[i].status = "quarantined"
      /\ w.deliveries[i].corrected # "none"
      /\ w.deliveries[i].event \notin Loaded(w)
  <2>1. /\ w \in Warehouse /\ Tables(w) /\ WellTyped(w) /\ RoomForCorrections(w)
        /\ i \in Rows(w)
    BY DEF Sound, Tables, WellTyped, ReplayAllowed, Replayable
  <2>2. /\ Len(w.deliveries) \in Nat /\ Rows(w) = 1..Len(w.deliveries)
        /\ w.deliveries[i] \in Delivery
    BY <2>1, RowsOfWarehouse
  <2>. QED
    BY <2>1, <2>2 DEF ReplayAllowed, Replayable
<1>. HIDE DEF r, new
<1>3. /\ Rows(r) = Rows(w) \cup {new}
      /\ r.deliveries[i].status = "replayed" /\ r.deliveries[i].replay = new
      /\ r.deliveries[i].event = w.deliveries[i].event
      /\ r.deliveries[i].raw = w.deliveries[i].raw
      /\ r.deliveries[i].corrected = w.deliveries[i].corrected
  <2>1. Rows(r) = Rows(w) \cup {new}
    BY <1>1, <1>2
  <2>. QED
    BY <1>1, <1>2, <2>1 DEF Delivery
<1>4. /\ w.deliveries[i].raw \in Broken /\ w.deliveries[i].corrected = "good"
      /\ \A j \in Rows(w) \ {i} : w.deliveries[j].event # w.deliveries[i].event
      /\ "good" \in Clean /\ Clean \cap Broken = {}
  <2>1. "good" \in Clean /\ Clean \cap Broken = {}
    BY DEF Clean, Broken
  <2>2. w.deliveries[i].raw \in Broken /\ w.deliveries[i].corrected = "good"
    BY <1>2 DEF Tables, StatusFollowsRaw
  <2>. QED
    BY <1>2, <2>1, <2>2 DEF Tables, AwaitsAlone
<1>5. /\ WithStatus(r, {"accepted"}) = WithStatus(w, {"accepted"}) \cup {new}
      /\ WithStatus(r, {"replayed"}) = WithStatus(w, {"replayed"}) \cup {i}
  <2>1. \A j \in Rows(r) : j = i \/ j = new \/ j \in Rows(w) \ {i}
    BY <1>3
  <2>2. /\ i \in Rows(r) /\ new \in Rows(r) /\ new \notin Rows(w) /\ i \in Rows(w)
        /\ \A j \in Rows(w) : j \in Rows(r)
    BY <1>2, <1>3
  <2>3. /\ \A j \in Rows(w) \ {i} : r.deliveries[j].status = w.deliveries[j].status
        /\ r.deliveries[i].status = "replayed" /\ r.deliveries[new].status = "accepted"
        /\ w.deliveries[i].status = "quarantined"
    BY <1>1, <1>2, <1>3
  <2>4. \A j : j \in WithStatus(r, {"accepted"}) <=>
                   j \in WithStatus(w, {"accepted"}) \/ j = new
    BY <2>1, <2>2, <2>3 DEF WithStatus
  <2>5. \A j : j \in WithStatus(r, {"replayed"}) <=>
                   j \in WithStatus(w, {"replayed"}) \/ j = i
    BY <2>1, <2>2, <2>3 DEF WithStatus
  <2>. QED
    BY <2>4, <2>5
<1>6. DrawnFromGenerator(r)
  BY <1>1, <1>2, <1>3, ZenonT(40) DEF Tables, DrawnFromGenerator
<1>7. StatusFollowsRaw(r)
  <2> SUFFICES ASSUME NEW j \in Rows(r)
               PROVE  LET d == r.deliveries[j] IN
                      /\ d.status \in {"accepted", "duplicate"} => d.raw \in Clean
                      /\ d.status \in {"quarantined", "replayed"} => d.raw \in Broken
                      /\ d.raw \in Broken => d.corrected = "good"
                      /\ d.raw \in Clean => d.corrected = "none"
                      /\ d.status # "replayed" => d.replay = 0
    BY DEF StatusFollowsRaw
  <2>1. CASE j = i
    BY <1>3, <1>4, <2>1
  <2>2. CASE j = new
    BY <1>1, <1>4, <2>2
  <2>3. CASE j \in Rows(w) \ {i}
    BY <1>1, <1>2, <2>3 DEF Tables, StatusFollowsRaw
  <2>. QED
    BY <1>3, <2>1, <2>2, <2>3
<1>8. FactsFollowDeliveries(r)
  <2> DEFINE Envelope(x, j) == [event |-> x.deliveries[j].event, raw |-> x.deliveries[j].raw]
  <2>1. /\ w.facts = {Envelope(w, j) : j \in WithStatus(w, {"accepted"})}
        /\ \A j, k \in WithStatus(w, {"accepted"}) :
              w.deliveries[j].event = w.deliveries[k].event => j = k
    BY <1>2 DEF Tables, FactsFollowDeliveries
  <2>2. \A j \in WithStatus(w, {"accepted"}) :
            /\ r.deliveries[j] = w.deliveries[j]
            /\ w.deliveries[j].event # w.deliveries[i].event
            /\ j \in Rows(w)
    BY <1>1, <1>2, <1>4 DEF WithStatus
  <2>3. r.facts = {Envelope(r, j) : j \in WithStatus(r, {"accepted"})}
    BY <1>1, <1>5, <2>1, <2>2
  <2>4. \A j, k \in WithStatus(r, {"accepted"}) :
            r.deliveries[j].event = r.deliveries[k].event => j = k
    BY <1>1, <1>5, <2>1, <2>2
  <2>. QED
    BY <2>3, <2>4 DEF FactsFollowDeliveries
<1>9. AwaitsAlone(r)
  <2> SUFFICES ASSUME NEW j \in Rows(r), NEW k \in Rows(r) \ {j},
                      r.deliveries[j].raw \in Broken, r.deliveries[j].status # "replayed"
               PROVE  r.deliveries[k].event # r.deliveries[j].event
    BY DEF AwaitsAlone
  <2>1. j \in Rows(w) \ {i}
    <3>1. j # new
      BY <1>1, <1>4
    <3>2. j # i
      BY <1>3
    <3>. QED
      BY <1>3, <3>1, <3>2
  <2>2. \A x \in Rows(w) \ {j} : w.deliveries[x].event # w.deliveries[j].event
    BY <1>1, <1>2, <2>1 DEF Tables, AwaitsAlone
  <2>3. r.deliveries[j].event = w.deliveries[j].event
    BY <1>1, <2>1
  <2>4. CASE k = new
    BY <1>1, <1>2, <2>1, <2>2, <2>3, <2>4
  <2>5. CASE k = i
    BY <1>3, <1>2, <2>1, <2>2, <2>3, <2>5
  <2>6. CASE k \in Rows(w) \ {i}
    BY <1>1, <2>2, <2>3, <2>6
  <2>. QED
    BY <1>3, <2>4, <2>5, <2>6
<1>10. ReplayedOnce(r)
  <2> SUFFICES ASSUME NEW j \in WithStatus(r, {"replayed"})
               PROVE  LET d == r.deliveries[j] IN
                      /\ d.replay \in WithStatus(r, {"accepted"})
                      /\ r.deliveries[d.replay].event = d.event
                      /\ r.deliveries[d.replay].raw = d.corrected
    BY DEF ReplayedOnce
  <2>1. CASE j = i
    BY <1>1, <1>3, <1>4, <1>5, <2>1
  <2>2. CASE j # i
    <3>1. j \in WithStatus(w, {"replayed"}) /\ j \in Rows(w) \ {i}
      BY <1>5, <2>2 DEF WithStatus
    <3>2. /\ w.deliveries[j].replay \in WithStatus(w, {"accepted"})
          /\ w.deliveries[w.deliveries[j].replay].event = w.deliveries[j].event
          /\ w.deliveries[w.deliveries[j].replay].raw = w.deliveries[j].corrected
      BY <1>2, <3>1 DEF Tables, ReplayedOnce
    <3>3. w.deliveries[j].replay \in Rows(w) \ {i}
      BY <1>2, <3>2 DEF WithStatus
    <3>. QED
      BY <1>1, <1>5, <3>1, <3>2, <3>3
  <2>. QED
    BY <2>1, <2>2
<1>11. RoomForCorrections(r) /\ Len(r.deliveries) = new /\ new <= MaxEvents
  <2>1. Len(r.deliveries) = new
    BY <1>1, <1>2, RowsOfWarehouse
  <2>2. OpenCorrections(r) = OpenCorrections(w) \ {i}
    <3>1. \A j \in Rows(r) : j = i \/ j = new \/ j \in Rows(w) \ {i}
      BY <1>3
    <3>2. i \notin OpenCorrections(r) /\ new \notin OpenCorrections(r)
      BY <1>1, <1>3 DEF OpenCorrections, WithStatus
    <3>3. \A j \in Rows(w) \ {i} : j \in Rows(r) /\ r.deliveries[j] = w.deliveries[j]
      BY <1>1, <1>3
    <3>4. \A j \in Rows(w) \ {i} : j \in OpenCorrections(r) <=> j \in OpenCorrections(w)
      BY <3>3 DEF OpenCorrections, WithStatus
    <3>5. OpenCorrections(r) \subseteq Rows(r) /\ OpenCorrections(w) \subseteq Rows(w)
      BY DEF OpenCorrections, WithStatus
    <3>. QED
      BY <3>1, <3>2, <3>4, <3>5
  <2>3. i \in OpenCorrections(w)
    BY <1>2 DEF OpenCorrections, WithStatus
  <2>4. /\ IsFiniteSet(OpenCorrections(w)) /\ Cardinality(OpenCorrections(w)) \in Nat
    BY <1>2, RowsOfWarehouse
  <2>5. Cardinality(OpenCorrections(r)) = Cardinality(OpenCorrections(w)) - 1
    BY <2>2, <2>3, <2>4, FS_RemoveElement
  <2>6. Len(w.deliveries) < MaxEvents
    BY DEF ReplayAllowed, Replayable
  <2>. QED
    BY <1>2, <2>1, <2>4, <2>5, <2>6, LimitsAssumption DEF RoomForCorrections
<1>12. WellTyped(r)
  <2>1. Len(w.runs) < MaxRuns /\ Len(w.runs) \in Nat
    BY <1>2 DEF ReplayAllowed, Replayable, Warehouse
  <2>. QED
    BY <1>1, <1>11, <2>1, LimitsAssumption DEF WellTyped
<1>. QED
  BY <1>6, <1>7, <1>8, <1>9, <1>10, <1>11, <1>12 DEF Sound, r

-----------------------------------------------------------------------------
(* Downloads.                                                               *)

\* A download touches the audit alone.
LEMMA ExportSound ==
    ASSUME NEW w, Sound(w)
    PROVE  Sound([w EXCEPT !.audit = Logged(w.audit, "exported")])
<1> DEFINE log == Logged(w.audit, "exported")
           v == [w EXCEPT !.audit = log]
<1>1. w \in Warehouse /\ Tables(w) /\ WellTyped(w) /\ RoomForCorrections(w)
  BY DEF Sound, Tables, WellTyped
<1>2. log \in Seq(AuditActions) /\ Len(log) <= MaxAudit
  BY <1>1, LoggedBounded DEF WellTyped, Warehouse, AuditActions
<1>. HIDE DEF log
<1>3. /\ v \in Warehouse /\ v.audit = log
      /\ v.deliveries = w.deliveries /\ v.facts = w.facts /\ v.cursor = w.cursor
      /\ v.runs = w.runs
  BY <1>1, <1>2 DEF Warehouse
<1>. HIDE DEF v
<1>4. Tables(v) /\ OpenCorrections(v) = OpenCorrections(w)
  BY <1>1, <1>3, SameTables
<1>5. WellTyped(v) /\ RoomForCorrections(v)
  BY <1>1, <1>2, <1>3, <1>4 DEF WellTyped, RoomForCorrections
<1>. QED
  BY <1>4, <1>5 DEF Sound, Tables, v, log

-----------------------------------------------------------------------------
(* What the deliveries, the runs and the approvals say of one another.      *)

\* A delivery names its run from the moment it is settled.
Claims(w) ==
    \A i \in Rows(w) :
        /\ w.deliveries[i].run <= Len(w.runs)
        /\ w.deliveries[i].status = "pending" <=> w.deliveries[i].run = 0

\* An accepted delivery of the same event stands before row i.
HasOriginal(w, i) ==
    \E j \in WithStatus(w, {"accepted"}) :
        j < i /\ w.deliveries[j].event = w.deliveries[i].event

\* Suppressed deliveries have their original, and so have the pending ones that
\* can only be suppressed.
Originals(w) ==
    \A i \in Rows(w) :
        \/ w.deliveries[i].status = "duplicate"
        \/ w.deliveries[i].status = "pending" /\ w.deliveries[i].event \in Loaded(w)
        => HasOriginal(w, i)

\* The deliveries of some statuses that name run r.
Named(w, statuses, r) == {i \in WithStatus(w, statuses) : w.deliveries[i].run = r}

\* The counters of run r are those of the deliveries that name it.
RunTells(w, r) ==
    /\ w.runs[r].received = Cardinality(Named(w, Statuses, r))
    /\ w.runs[r].accepted = Cardinality(Named(w, {"accepted"}, r))
    /\ w.runs[r].duplicates = Cardinality(Named(w, {"duplicate"}, r))
    /\ w.runs[r].quarantined = Cardinality(Named(w, {"quarantined", "replayed"}, r))
    /\ w.runs[r].late =
         Cardinality({i \in Named(w, {"accepted"}, r) : w.deliveries[i].late})

Counted(w) == \A r \in DOMAIN w.runs : RunTells(w, r)

ApprovalRuns(w) == {r \in DOMAIN w.runs : w.runs[r].trigger = "approved_replay"}

\* Every approval had a run of its own, later than that of the defect.
Approved(w) ==
    /\ \A i \in WithStatus(w, {"replayed"}) :
          LET replacement == w.deliveries[w.deliveries[i].replay]
          IN  /\ w.runs[replacement.run].trigger = "approved_replay"
              /\ w.runs[replacement.run].received = 1
              /\ w.deliveries[i].run < replacement.run
    /\ Cardinality(ApprovalRuns(w)) = Cardinality(WithStatus(w, {"replayed"}))

Linked(w) == Claims(w) /\ Originals(w) /\ Counted(w) /\ Approved(w)

\* It is a matter of the deliveries, the facts and the runs.
LEMMA SameLinks ==
    ASSUME NEW v, NEW w, v.deliveries = w.deliveries, v.facts = w.facts,
           v.runs = w.runs, Linked(w)
    PROVE  Linked(v)
<1>1. /\ Rows(v) = Rows(w) /\ Loaded(v) = Loaded(w)
      /\ ApprovalRuns(v) = ApprovalRuns(w)
  BY DEF Rows, Loaded, ApprovalRuns
<1>2. \A statuses : WithStatus(v, statuses) = WithStatus(w, statuses)
  BY <1>1 DEF WithStatus
<1>3. \A statuses, r : Named(v, statuses, r) = Named(w, statuses, r)
  BY <1>2 DEF Named
<1>4. Claims(v)
  BY <1>1 DEF Linked, Claims
<1>5. Originals(v)
  BY <1>1, <1>2 DEF Linked, Originals, HasOriginal
<1>6. Counted(v)
  <2> SUFFICES ASSUME NEW r \in DOMAIN w.runs PROVE RunTells(v, r)
    BY DEF Counted
  <2>1. RunTells(w, r)
    BY DEF Linked, Counted
  <2>2. {i \in Named(v, {"accepted"}, r) : v.deliveries[i].late}
          = {i \in Named(w, {"accepted"}, r) : w.deliveries[i].late}
    BY <1>3
  <2>. QED
    BY <1>3, <2>1, <2>2 DEF RunTells
<1>7. Approved(v)
  BY <1>1, <1>2 DEF Linked, Approved
<1>. QED
  BY <1>4, <1>5, <1>6, <1>7 DEF Linked

\* A warehouse without deliveries and runs.
LEMMA NothingLinked == Linked(Empty)
<1>1. /\ Rows(Empty) = {} /\ DOMAIN Empty.runs = {}
      /\ WithStatus(Empty, {"replayed"}) = {} /\ ApprovalRuns(Empty) = {}
  BY DEF Empty, Rows, WithStatus, ApprovalRuns
<1>. QED
  BY <1>1 DEF Linked, Claims, Originals, Counted, Approved

\* A batch names no run, and its rows of loaded events are copies of accepted ones.
LEMMA BatchLinked ==
    ASSUME NEW w \in Warehouse, Tables(w), Linked(w),
           NEW scenario \in Scenarios, NEW count \in Nat,
           scenario = "duplicates" => Sources(w) # {}
    PROVE  Linked(Batch(w, scenario, count))
<1> DEFINE b == Batch(w, scenario, count)
           n == Len(w.deliveries)
<1>1. /\ b \in Warehouse /\ n \in Nat /\ w.cursor \in Nat
      /\ Rows(b) = 1..(n + count) /\ Rows(w) = 1..n
      /\ \A i \in Rows(w) : b.deliveries[i] = w.deliveries[i]
      /\ \A i \in Rows(w) : w.deliveries[i] \in Delivery
      /\ b.facts = w.facts /\ b.runs = w.runs
      /\ Len(w.runs) \in Nat /\ DOMAIN w.runs = 1..Len(w.runs)
  <2>1. StatusFollowsRaw(w)
    BY DEF Tables
  <2>2. /\ n \in Nat /\ w.cursor \in Nat /\ Rows(w) = 1..n
        /\ \A i \in Rows(w) : w.deliveries[i] \in Delivery
    BY RowsOfWarehouse DEF Warehouse
  <2>3. Len(w.runs) \in Nat /\ DOMAIN w.runs = 1..Len(w.runs)
    BY DEF Warehouse
  <2>. QED
    BY <2>1, <2>2, <2>3, BatchRows
<1>2. \A i \in Rows(b) : i \in Rows(w) \/ \E k \in 1..count : i = n + k
  <2>1. \A i \in Rows(b) : i \in 1..n \/ (i - n \in 1..count /\ i = n + (i - n))
    BY <1>1
  <2>. QED
    BY <1>1, <2>1
<1>3. ASSUME NEW k \in 1..count
      PROVE  LET d == b.deliveries[n + k] IN
             /\ d.status = "pending" /\ d.run = 0
             /\ \/ \E i \in WithStatus(w, {"accepted"}) : d.event = w.deliveries[i].event
                \/ d.event = w.cursor + k
  <2>1. k - 1 \in Nat /\ w.cursor + (k - 1) + 1 = w.cursor + k
    BY <1>1
  <2>2. b.deliveries[n + k] = Simulated(w, scenario, k - 1)
    BY BatchRows DEF Tables
  <2>. QED
    BY <2>1, <2>2, SimulatedRow DEF Tables
<1>4. \A i \in Rows(w) : i \in Rows(b) /\ \A k \in 1..count : i < n + k
  BY <1>1
<1>. HIDE DEF b, n
<1>5. \A statuses : "pending" \notin statuses =>
          WithStatus(b, statuses) = WithStatus(w, statuses)
  BY <1>1, <1>2, <1>3, <1>4, ZenonT(40) DEF WithStatus
<1>6. Claims(b)
  <2> SUFFICES ASSUME NEW i \in Rows(b)
               PROVE  /\ b.deliveries[i].run <= Len(b.runs)
                      /\ b.deliveries[i].status = "pending" <=> b.deliveries[i].run = 0
    BY DEF Claims
  <2>1. CASE i \in Rows(w)
    <3>1. /\ w.deliveries[i].run <= Len(w.runs)
          /\ w.deliveries[i].status = "pending" <=> w.deliveries[i].run = 0
      BY <2>1 DEF Linked, Claims
    <3>2. b.deliveries[i] = w.deliveries[i] /\ b.runs = w.runs
      BY <1>1, <2>1
    <3>. QED
      BY <3>1, <3>2
  <2>2. ASSUME NEW k \in 1..count, i = n + k
        PROVE  /\ b.deliveries[i].run <= Len(b.runs)
               /\ b.deliveries[i].status = "pending" <=> b.deliveries[i].run = 0
    <3>1. b.deliveries[i].status = "pending" /\ b.deliveries[i].run = 0
      BY <1>3, <2>2
    <3>2. Len(b.runs) \in Nat
      BY <1>1
    <3>. QED
      BY <3>1, <3>2
  <2>. QED
    BY <1>2, <2>1, <2>2
<1>7. Loaded(b) = Loaded(w)
  BY <1>1 DEF Loaded
<1>8. \A e \in Loaded(w) : e \in 1..w.cursor
  BY <1>1 DEF Loaded, Tables, FactsFollowDeliveries, DrawnFromGenerator, WithStatus
<1>9. Originals(b)
  <2> SUFFICES ASSUME NEW i \in Rows(b),
                      \/ b.deliveries[i].status = "duplicate"
                      \/ b.deliveries[i].status = "pending" /\ b.deliveries[i].event \in Loaded(b)
               PROVE  HasOriginal(b, i)
    BY DEF Originals
  <2>1. \A j \in WithStatus(w, {"accepted"}) :
           j \in WithStatus(b, {"accepted"}) /\ j \in Rows(w)
    BY <1>5 DEF WithStatus
  <2>2. CASE i \in Rows(w)
    BY <1>1, <1>7, <2>1, <2>2 DEF Linked, Originals, HasOriginal
  <2>3. ASSUME NEW k \in 1..count, i = n + k
        PROVE  HasOriginal(b, i)
    <3>1. b.deliveries[i].event # w.cursor + k
      <4>1. b.deliveries[i].event \in 1..w.cursor
        BY <1>3, <1>7, <1>8, <2>3
      <4>. QED
        BY <1>1, <4>1
    <3>2. PICK j \in WithStatus(w, {"accepted"}) :
              b.deliveries[i].event = w.deliveries[j].event
      BY <1>3, <2>3, <3>1
    <3>. QED
      BY <1>1, <1>4, <2>1, <2>3, <3>2 DEF HasOriginal
  <2>. QED
    BY <1>2, <2>2, <2>3
<1>10. \A statuses, r : r \in DOMAIN w.runs => Named(b, statuses, r) = Named(w, statuses, r)
  <2>1. \A r \in DOMAIN w.runs : r # 0
    BY <1>1
  <2>. QED
    BY <1>1, <1>2, <1>3, <1>4, <2>1 DEF Named, WithStatus
<1>11. Counted(b)
  <2> SUFFICES ASSUME NEW r \in DOMAIN w.runs PROVE RunTells(b, r)
    BY <1>1 DEF Counted
  <2>1. RunTells(w, r)
    BY DEF Linked, Counted
  <2>2. {i \in Named(b, {"accepted"}, r) : b.deliveries[i].late}
          = {i \in Named(w, {"accepted"}, r) : w.deliveries[i].late}
    <3>1. \A i \in Named(w, {"accepted"}, r) : b.deliveries[i] = w.deliveries[i]
      BY <1>1 DEF Named, WithStatus
    <3>2. Named(b, {"accepted"}, r) = Named(w, {"accepted"}, r)
      BY <1>10
    <3>. QED
      BY <3>1, <3>2
  <2>. QED
    BY <1>1, <1>10, <2>1, <2>2, ZenonT(40) DEF RunTells
<1>12. Approved(b)
  <2>1. WithStatus(b, {"replayed"}) = WithStatus(w, {"replayed"})
    BY <1>5
  <2>2. ApprovalRuns(b) = ApprovalRuns(w)
    BY <1>1 DEF ApprovalRuns
  <2>3. \A i \in WithStatus(w, {"replayed"}) :
           /\ b.deliveries[i] = w.deliveries[i]
           /\ b.deliveries[w.deliveries[i].replay] = w.deliveries[w.deliveries[i].replay]
    <3>1. \A i \in WithStatus(w, {"replayed"}) :
             i \in Rows(w) /\ w.deliveries[i].replay \in Rows(w)
      BY DEF Tables, ReplayedOnce, WithStatus
    <3>. QED
      BY <1>1, <3>1
  <2>4. Approved(w)
    BY DEF Linked
  <2>5. ASSUME NEW i \in WithStatus(w, {"replayed"})
        PROVE  LET at == b.deliveries[b.deliveries[i].replay].run
               IN  /\ b.runs[at].trigger = "approved_replay"
                   /\ b.runs[at].received = 1
                   /\ b.deliveries[i].run < at
    <3>. DEFINE at == w.deliveries[w.deliveries[i].replay].run
    <3>1. /\ w.runs[at].trigger = "approved_replay" /\ w.runs[at].received = 1
          /\ w.deliveries[i].run < at
      BY <2>4 DEF Approved
    <3>2. /\ b.deliveries[b.deliveries[i].replay].run = at
          /\ b.deliveries[i].run = w.deliveries[i].run
      BY <2>3
    <3>3. b.runs = w.runs
      BY <1>1
    <3>. QED
      BY <3>1, <3>2, <3>3
  <2>6. Cardinality(ApprovalRuns(w)) = Cardinality(WithStatus(w, {"replayed"}))
    BY <2>4 DEF Approved
  <2>. QED
    BY <2>1, <2>2, <2>5, <2>6 DEF Approved
<1>. QED
  BY <1>6, <1>9, <1>11, <1>12 DEF Linked, b

\* The first of a run's clean rows of an event that was not loaded is accepted.
LEMMA FirstClean ==
    ASSUME NEW w \in Warehouse, NEW selected \in SUBSET Rows(w), NEW i \in selected,
           w.deliveries[i].raw \in Clean, w.deliveries[i].event \notin Loaded(w)
    PROVE  \E j \in selected : /\ j <= i
                               /\ w.deliveries[j].event = w.deliveries[i].event
                               /\ Outcome(w, selected, j) = "accepted"
<1> DEFINE R == {p \in Nat \X Nat : p[1] < p[2]}
           T == {j \in selected : /\ w.deliveries[j].event = w.deliveries[i].event
                                  /\ w.deliveries[j].raw \in Clean}
<1>1. IsWellFoundedOn(R, Nat)
  <2>1. R = OpToRel(<, Nat)
    BY DEF OpToRel
  <2>. QED
    BY <2>1, NatLessThanWellFounded
<1>2. \A j \in selected : j \in Nat
  BY RowsOfWarehouse
<1>3. T \subseteq Nat /\ T # {}
  BY <1>2
<1>4. PICK m \in T : \A y \in T : ~ (<<y, m>> \in R)
  <2> HIDE DEF R, T
  <2>. QED
    BY <1>1, <1>3, WFMin
<1>5. \A y \in T : ~ (y < m)
  BY <1>3, <1>4
<1>6. ~AlreadyLoaded(w, selected, m)
  BY <1>5 DEF AlreadyLoaded
<1>7. Outcome(w, selected, m) = "accepted"
  BY <1>6, OutcomeCases
<1>8. m <= i
  BY <1>2, <1>5
<1>. QED
  BY <1>7, <1>8

\* A run that takes everything pending settles it under its own number, and
\* suppresses a delivery only behind one it accepted or found accepted.
LEMMA ProcessLinked ==
    ASSUME NEW w, Sound(w), Linked(w),
           NEW trigger \in Triggers, trigger # "approved_replay"
    PROVE  Linked(AfterProcess(w, trigger, Pending(w)))
<1> DEFINE selected == Pending(w)
           q == AfterProcess(w, trigger, selected)
           n == Len(w.runs)
           run == RunRecord(w, trigger, selected)
<1>1. /\ w \in Warehouse /\ Tables(w) /\ selected \in SUBSET Rows(w)
      /\ Claims(w) /\ Originals(w) /\ Counted(w) /\ Approved(w)
  BY DEF Sound, Tables, WellTyped, Linked, Pending, WithStatus
<1>2. /\ Rows(q) = Rows(w)
      /\ \A i \in Rows(w) :
           /\ q.deliveries[i].event = w.deliveries[i].event
           /\ i \in selected =>
                /\ q.deliveries[i].status = Outcome(w, selected, i)
                /\ q.deliveries[i].run = n + 1
                /\ q.deliveries[i].late = (Outcome(w, selected, i) = "accepted"
                                            /\ IsLate(w.deliveries[i].raw))
           /\ i \notin selected => q.deliveries[i] = w.deliveries[i]
      /\ q.runs = Append(w.runs, run) /\ run \in Run
  BY <1>1, ProcessRows
<1>3. /\ n \in Nat /\ w.runs \in Seq(Run)
      /\ DOMAIN w.runs = 1..n /\ DOMAIN q.runs = 1..(n + 1) /\ Len(q.runs) = n + 1
      /\ \A r \in 1..n : q.runs[r] = w.runs[r]
      /\ q.runs[n + 1] = run
  <2>1. n \in Nat /\ w.runs \in Seq(Run) /\ DOMAIN w.runs = 1..n
    BY <1>1 DEF Warehouse
  <2>. HIDE DEF run, q
  <2>. QED
    BY <1>2, <2>1, AppendProperties
<1>4. \A i \in Rows(w) : i \in selected <=> w.deliveries[i].status = "pending"
  BY DEF Pending, WithStatus
<1>5. \A i \in selected : Outcome(w, selected, i) \in {"accepted", "duplicate", "quarantined"}
  BY <1>1, OutcomeCases
<1>. HIDE DEF q, n, run, selected
<1>6. \A i \in Rows(w) : /\ w.deliveries[i].run <= n
                         /\ w.deliveries[i].run \in Nat
                         /\ i \in selected <=> w.deliveries[i].run = 0
  <2>1. \A i \in Rows(w) : w.deliveries[i].run \in Nat
    BY <1>1, RowsOfWarehouse DEF Delivery
  <2>. QED
    BY <1>1, <1>4, <2>1 DEF Claims, n
<1>7. Claims(q)
  <2> SUFFICES ASSUME NEW i \in Rows(w)
               PROVE  /\ q.deliveries[i].run <= Len(q.runs)
                      /\ q.deliveries[i].status = "pending" <=> q.deliveries[i].run = 0
    BY <1>2 DEF Claims
  <2>1. CASE i \in selected
    <3>1. q.deliveries[i].run = n + 1 /\ q.deliveries[i].status # "pending"
      BY <1>2, <1>5, <2>1
    <3>. QED
      BY <1>3, <3>1
  <2>2. CASE i \notin selected
    <3>1. q.deliveries[i] = w.deliveries[i] /\ w.deliveries[i].status # "pending"
      BY <1>2, <1>4, <2>2
    <3>2. w.deliveries[i].run <= n /\ w.deliveries[i].run \in Nat \ {0}
      BY <1>6, <2>2
    <3>. QED
      BY <1>3, <3>1, <3>2
  <2>. QED
    BY <2>1, <2>2
<1>8. Originals(q)
  <2>1. \A i \in WithStatus(w, {"accepted"}) :
           /\ i \in WithStatus(q, {"accepted"})
           /\ q.deliveries[i].event = w.deliveries[i].event
    BY <1>2, <1>4 DEF WithStatus
  <2>2. \A i \in Rows(w) : HasOriginal(w, i) => HasOriginal(q, i)
    BY <1>2, <2>1 DEF HasOriginal
  <2>3. \A i \in Rows(w) : q.deliveries[i].status # "pending"
    BY <1>2, <1>4, <1>5
  <2> SUFFICES ASSUME NEW i \in Rows(w), q.deliveries[i].status = "duplicate"
               PROVE  HasOriginal(q, i)
    BY <1>2, <2>3 DEF Originals
  <2>4. CASE i \notin selected
    BY <1>1, <1>2, <2>2, <2>4 DEF Originals
  <2>5. CASE i \in selected /\ w.deliveries[i].event \in Loaded(w)
    BY <1>1, <1>4, <2>2, <2>5 DEF Originals
  <2>6. CASE i \in selected /\ w.deliveries[i].event \notin Loaded(w)
    <3>1. AlreadyLoaded(w, selected, i)
      BY <1>1, <1>2, <2>6, OutcomeCases
    <3>2. PICK j \in selected : /\ j < i
                                /\ w.deliveries[j].event = w.deliveries[i].event
                                /\ w.deliveries[j].raw \in Clean
      BY <2>6, <3>1 DEF AlreadyLoaded
    <3>3. PICK k \in selected : /\ k <= j
                                /\ w.deliveries[k].event = w.deliveries[j].event
                                /\ Outcome(w, selected, k) = "accepted"
      BY <1>1, <2>6, <3>2, FirstClean
    <3>4. k \in Rows(w) /\ k < i
      BY <1>1, <3>2, <3>3, RowsOfWarehouse
    <3>5. k \in WithStatus(q, {"accepted"})
      BY <1>2, <3>3, <3>4 DEF WithStatus
    <3>. QED
      BY <1>2, <3>2, <3>3, <3>4, <3>5 DEF HasOriginal
  <2>. QED
    BY <2>4, <2>5, <2>6
<1>9. Counted(q)
  <2> SUFFICES ASSUME NEW r \in 1..(n + 1) PROVE RunTells(q, r)
    BY <1>3 DEF Counted
  <2>1. CASE r \in 1..n
    <3>1. \A i \in Rows(w) : i \in selected =>
             w.deliveries[i].run # r /\ q.deliveries[i].run # r
      <4>1. r # 0 /\ r # n + 1
        BY <1>3, <2>1
      <4>. QED
        BY <1>2, <1>6, <4>1
    <3>2. \A statuses : Named(q, statuses, r) = Named(w, statuses, r)
      BY <1>2, <3>1 DEF Named, WithStatus
    <3>3. \A i \in Named(w, {"accepted"}, r) : q.deliveries[i] = w.deliveries[i]
      BY <1>2, <3>1 DEF Named, WithStatus
    <3>4. {i \in Named(q, {"accepted"}, r) : q.deliveries[i].late}
            = {i \in Named(w, {"accepted"}, r) : w.deliveries[i].late}
      BY <3>2, <3>3
    <3>5. RunTells(w, r) /\ q.runs[r] = w.runs[r]
      BY <1>1, <1>3, <2>1 DEF Counted
    <3>. QED
      BY <3>2, <3>4, <3>5 DEF RunTells
  <2>2. CASE r = n + 1
    <3>. DEFINE Of(outcome) == {i \in selected : Outcome(w, selected, i) = outcome}
    <3>1. \A i \in Rows(w) : i \in selected <=> q.deliveries[i].run = r
      <4>1. \A i \in Rows(w) : w.deliveries[i].run # n + 1
        BY <1>3, <1>6
      <4>. QED
        BY <1>2, <2>2, <4>1
    <3>2. \A statuses : Named(q, statuses, r)
             = {i \in selected : Outcome(w, selected, i) \in statuses}
      BY <1>1, <1>2, <3>1 DEF Named, WithStatus
    <3>3. /\ Named(q, {"accepted"}, r) = Of("accepted")
          /\ Named(q, {"duplicate"}, r) = Of("duplicate")
      BY <3>2
    <3>4. Named(q, {"quarantined", "replayed"}, r) = Of("quarantined")
      BY <1>5, <3>2
    <3>5. Named(q, Statuses, r) = selected
      BY <1>5, <3>2 DEF Statuses
    <3>6. {i \in Named(q, {"accepted"}, r) : q.deliveries[i].late}
            = {i \in Of("accepted") : IsLate(w.deliveries[i].raw)}
      <4>1. \A i \in Of("accepted") :
               q.deliveries[i].late <=> IsLate(w.deliveries[i].raw)
        BY <1>1, <1>2
      <4>. QED
        BY <3>3, <4>1
    <3>7. /\ run.received = Cardinality(selected)
          /\ run.accepted = Cardinality(Of("accepted"))
          /\ run.quarantined = Cardinality(Of("quarantined"))
          /\ run.duplicates = Cardinality(Of("duplicate"))
          /\ run.late = Cardinality({i \in Of("accepted") : IsLate(w.deliveries[i].raw)})
      BY DEF run, RunRecord
    <3>. HIDE DEF Of
    <3>. QED
      BY <1>3, <2>2, <3>3, <3>4, <3>5, <3>6, <3>7 DEF RunTells
  <2>. QED
    BY <1>3, <2>1, <2>2
<1>10. Approved(q)
  <2>1. WithStatus(q, {"replayed"}) = WithStatus(w, {"replayed"})
    BY <1>2, <1>4, <1>5 DEF WithStatus
  <2>2. ApprovalRuns(q) = ApprovalRuns(w)
    <3>1. run.trigger # "approved_replay"
      BY DEF run, RunRecord
    <3>. QED
      BY <1>3, <3>1 DEF ApprovalRuns
  <2>3. ASSUME NEW i \in WithStatus(w, {"replayed"})
        PROVE  /\ q.deliveries[i] = w.deliveries[i]
               /\ q.deliveries[w.deliveries[i].replay] = w.deliveries[w.deliveries[i].replay]
               /\ q.runs[w.deliveries[w.deliveries[i].replay].run]
                    = w.runs[w.deliveries[w.deliveries[i].replay].run]
    <3>1. /\ i \in Rows(w) \ selected
          /\ w.deliveries[i].replay \in Rows(w) \ selected
      BY <1>1, <1>4 DEF Tables, ReplayedOnce, WithStatus
    <3>2. w.deliveries[w.deliveries[i].replay].run \in 1..n
      BY <1>3, <1>6, <3>1
    <3>. QED
      BY <1>2, <1>3, <3>1, <3>2
  <2>4. ASSUME NEW i \in WithStatus(w, {"replayed"})
        PROVE  LET at == q.deliveries[q.deliveries[i].replay].run
               IN  /\ q.runs[at].trigger = "approved_replay"
                   /\ q.runs[at].received = 1
                   /\ q.deliveries[i].run < at
    <3>. DEFINE at == w.deliveries[w.deliveries[i].replay].run
    <3>1. /\ w.runs[at].trigger = "approved_replay" /\ w.runs[at].received = 1
          /\ w.deliveries[i].run < at
      BY <1>1 DEF Approved
    <3>2. /\ q.deliveries[q.deliveries[i].replay].run = at
          /\ q.runs[at] = w.runs[at] /\ q.deliveries[i].run = w.deliveries[i].run
      BY <2>3
    <3>. QED
      BY <3>1, <3>2
  <2>5. Cardinality(ApprovalRuns(w)) = Cardinality(WithStatus(w, {"replayed"}))
    BY <1>1 DEF Approved
  <2>. QED
    BY <2>1, <2>2, <2>4, <2>5 DEF Approved
<1>. QED
  BY <1>7, <1>8, <1>9, <1>10 DEF Linked, q, selected

\* A replay closes one defect and opens nothing: its delivery is the only one of
\* its run, and nobody waits behind the event it loads.
LEMMA ReplayLinked ==
    ASSUME NEW w, Sound(w), Linked(w), NEW i, ReplayAllowed(w, i)
    PROVE  Linked(AfterReplay(w, i))
<1> DEFINE r == AfterReplay(w, i)
           new == Len(w.deliveries) + 1
           n == Len(w.runs)
<1>1. /\ r \in Warehouse /\ Rows(r) = 1..new /\ Rows(w) = 1..(new - 1)
      /\ \A j \in Rows(w) \ {i} : r.deliveries[j] = w.deliveries[j]
      /\ r.deliveries[i] = [w.deliveries[i] EXCEPT !.status = "replayed", !.replay = new]
      /\ r.deliveries[new].event = w.deliveries[i].event
      /\ r.deliveries[new].raw = "good"
      /\ r.deliveries[new].corrected = "none"
      /\ r.deliveries[new].status = "accepted"
      /\ r.deliveries[new].replay = 0
      /\ r.deliveries[new].run = n + 1
      /\ r.deliveries[new].late = FALSE
      /\ r.facts = w.facts \cup {[event |-> w.deliveries[i].event, raw |-> "good"]}
      /\ r.cursor = w.cursor
      /\ Len(r.runs) = n + 1
      /\ r.runs = Append(w.runs, OneAccepted)
      /\ Len(r.audit) <= MaxAudit
  BY ReplayRows
<1>2. /\ w \in Warehouse /\ Tables(w)
      /\ Claims(w) /\ Originals(w) /\ Counted(w) /\ Approved(w)
      /\ i \in Rows(w) /\ w.deliveries[i].status = "quarantined"
  BY DEF Sound, Tables, WellTyped, Linked, ReplayAllowed, Replayable
<1>3. /\ n \in Nat /\ w.runs \in Seq(Run) /\ OneAccepted \in Run
      /\ DOMAIN w.runs = 1..n /\ DOMAIN r.runs = 1..(n + 1) /\ Len(r.runs) = n + 1
      /\ \A k \in 1..n : r.runs[k] = w.runs[k]
      /\ r.runs[n + 1] = OneAccepted
  <2>1. n \in Nat /\ w.runs \in Seq(Run) /\ DOMAIN w.runs = 1..n
    BY <1>2 DEF Warehouse
  <2>2. OneAccepted \in Run
    BY DEF OneAccepted, Run, Triggers
  <2>. HIDE DEF r
  <2>. QED
    BY <1>1, <2>1, <2>2, AppendProperties
<1>4. /\ new \in Nat /\ \A j \in Rows(w) : j < new /\ j \in Nat
      /\ new \in Rows(r) /\ \A j \in Rows(r) : j \in Rows(w) \/ j = new
      /\ Rows(w) \subseteq Rows(r) /\ new \notin Rows(w) /\ i # new
  <2>1. new \in Nat /\ new - 1 \in Nat
    BY <1>2, RowsOfWarehouse
  <2>2. Rows(r) = 1..new /\ Rows(w) = 1..(new - 1) /\ i \in Rows(w)
    BY <1>1, <1>2
  <2>. HIDE DEF r, new
  <2>. QED
    BY <2>1, <2>2
<1>. HIDE DEF r, new, n
<1>5. /\ r.deliveries[i].status = "replayed" /\ r.deliveries[i].replay = new
      /\ r.deliveries[i].event = w.deliveries[i].event
      /\ r.deliveries[i].run = w.deliveries[i].run
  <2>1. w.deliveries[i] \in Delivery
    BY <1>2, RowsOfWarehouse
  <2>. QED
    BY <1>1, <2>1 DEF Delivery
<1>6. \A j \in Rows(w) : /\ w.deliveries[j].run <= n
                         /\ w.deliveries[j].run \in Nat
                         /\ w.deliveries[j].status = "pending" <=> w.deliveries[j].run = 0
  <2>1. \A j \in Rows(w) : w.deliveries[j].run \in Nat
    BY <1>2, RowsOfWarehouse DEF Delivery
  <2>. QED
    BY <1>2, <2>1 DEF Claims, n
<1>7. Claims(r)
  <2> SUFFICES ASSUME NEW j \in Rows(r)
               PROVE  /\ r.deliveries[j].run <= Len(r.runs)
                      /\ r.deliveries[j].status = "pending" <=> r.deliveries[j].run = 0
    BY DEF Claims
  <2>1. CASE j = new
    <3>1. r.deliveries[j].run = n + 1 /\ r.deliveries[j].status = "accepted"
      BY <1>1, <2>1
    <3>. QED
      BY <1>3, <3>1
  <2>2. CASE j = i
    <3>1. /\ r.deliveries[j].run = w.deliveries[i].run /\ r.deliveries[j].status = "replayed"
          /\ w.deliveries[i].run <= n /\ w.deliveries[i].run \in Nat \ {0}
      BY <1>2, <1>5, <1>6, <2>2
    <3>. QED
      BY <1>3, <3>1
  <2>3. CASE j \in Rows(w) \ {i}
    <3>1. r.deliveries[j] = w.deliveries[j]
      BY <1>1, <2>3
    <3>2. /\ w.deliveries[j].run <= n /\ w.deliveries[j].run \in Nat
          /\ w.deliveries[j].status = "pending" <=> w.deliveries[j].run = 0
      BY <1>6, <2>3
    <3>. QED
      BY <1>3, <3>1, <3>2
  <2>. QED
    BY <1>4, <2>1, <2>2, <2>3
<1>8. \A statuses : /\ WithStatus(r, statuses) \subseteq Rows(r)
                    /\ WithStatus(w, statuses) \subseteq Rows(w)
  BY DEF WithStatus
<1>9. Originals(r)
  <2>1. \A j \in WithStatus(w, {"accepted"}) :
           j \in WithStatus(r, {"accepted"}) /\ r.deliveries[j] = w.deliveries[j]
    BY <1>1, <1>2, <1>4 DEF WithStatus
  <2>2. \A j \in Rows(w) \ {i} : HasOriginal(w, j) => HasOriginal(r, j)
    BY <1>1, <2>1 DEF HasOriginal
  <2> SUFFICES ASSUME NEW j \in Rows(r),
                      \/ r.deliveries[j].status = "duplicate"
                      \/ r.deliveries[j].status = "pending" /\ r.deliveries[j].event \in Loaded(r)
               PROVE  HasOriginal(r, j)
    BY DEF Originals
  <2>3. j \in Rows(w) \ {i} /\ r.deliveries[j] = w.deliveries[j]
    BY <1>1, <1>4, <1>5
  <2>4. w.deliveries[j].event # w.deliveries[i].event
    <3>1. w.deliveries[i].raw \in Broken
      BY <1>2 DEF Tables, StatusFollowsRaw
    <3>. QED
      BY <1>2, <2>3, <3>1 DEF Tables, AwaitsAlone
  <2>5. w.deliveries[j].event \in Loaded(r) => w.deliveries[j].event \in Loaded(w)
    BY <1>1, <2>4 DEF Loaded
  <2>6. HasOriginal(w, j)
    BY <1>2, <2>3, <2>5 DEF Originals
  <2>. QED
    BY <2>2, <2>3, <2>6
<1>10. Counted(r)
  <2> SUFFICES ASSUME NEW k \in 1..(n + 1) PROVE RunTells(r, k)
    BY <1>3 DEF Counted
  <2>1. CASE k \in 1..n
    <3>1. k # n + 1
      BY <1>3, <2>1
    <3>2. \A statuses :
             ("quarantined" \in statuses <=> "replayed" \in statuses) =>
                 Named(r, statuses, k) = Named(w, statuses, k)
      <4> SUFFICES ASSUME NEW statuses, "quarantined" \in statuses <=> "replayed" \in statuses,
                          NEW j
                   PROVE  j \in Named(r, statuses, k) <=> j \in Named(w, statuses, k)
        OBVIOUS
      <4>1. CASE j \in Rows(w) \ {i}
        BY <1>1, <1>4, <4>1 DEF Named, WithStatus
      <4>2. CASE j = i
        BY <1>2, <1>4, <1>5, <4>2 DEF Named, WithStatus
      <4>3. CASE j = new
        BY <1>1, <1>4, <3>1, <4>3 DEF Named, WithStatus
      <4>4. CASE j \notin Rows(r)
        BY <1>4, <4>4 DEF Named, WithStatus
      <4>. QED
        BY <1>4, <4>1, <4>2, <4>3, <4>4
    <3>3. /\ Named(r, Statuses, k) = Named(w, Statuses, k)
          /\ Named(r, {"accepted"}, k) = Named(w, {"accepted"}, k)
          /\ Named(r, {"duplicate"}, k) = Named(w, {"duplicate"}, k)
          /\ Named(r, {"quarantined", "replayed"}, k)
               = Named(w, {"quarantined", "replayed"}, k)
      BY <3>2 DEF Statuses
    <3>4. \A j \in Named(w, {"accepted"}, k) : r.deliveries[j] = w.deliveries[j]
      BY <1>1, <1>2 DEF Named, WithStatus
    <3>5. {j \in Named(r, {"accepted"}, k) : r.deliveries[j].late}
            = {j \in Named(w, {"accepted"}, k) : w.deliveries[j].late}
      BY <3>3, <3>4
    <3>6. RunTells(w, k) /\ r.runs[k] = w.runs[k]
      BY <1>2, <1>3, <2>1 DEF Counted
    <3>. QED
      BY <3>3, <3>5, <3>6 DEF RunTells
  <2>2. CASE k = n + 1
    <3>1. \A j \in Rows(w) : r.deliveries[j].run # k
      <4>1. \A j \in Rows(w) : w.deliveries[j].run # n + 1
        BY <1>3, <1>6
      <4>2. r.deliveries[i].run # n + 1
        BY <1>2, <1>5, <4>1
      <4>3. \A j \in Rows(w) \ {i} : r.deliveries[j].run # n + 1
        BY <1>1, <4>1
      <4>. QED
        BY <2>2, <4>2, <4>3
    <3>2. \A statuses : Named(r, statuses, k) = IF "accepted" \in statuses THEN {new} ELSE {}
      BY <1>1, <1>4, <2>2, <3>1 DEF Named, WithStatus
    <3>3. /\ Named(r, Statuses, k) = {new} /\ Named(r, {"accepted"}, k) = {new}
          /\ Named(r, {"duplicate"}, k) = {}
          /\ Named(r, {"quarantined", "replayed"}, k) = {}
      BY <3>2 DEF Statuses
    <3>4. {j \in Named(r, {"accepted"}, k) : r.deliveries[j].late} = {}
      BY <1>1, <3>3
    <3>5. Cardinality({new}) = 1 /\ Cardinality({}) = 0
      BY FS_Singleton, FS_EmptySet
    <3>6. r.runs[k] = OneAccepted
      BY <1>3, <2>2
    <3>7. /\ r.runs[k].received = 1 /\ r.runs[k].accepted = 1
          /\ r.runs[k].quarantined = 0 /\ r.runs[k].duplicates = 0
          /\ r.runs[k].late = 0
      BY <3>6 DEF OneAccepted
    <3>. QED
      BY <3>3, <3>4, <3>5, <3>7, ZenonT(40) DEF RunTells
  <2>. QED
    BY <1>3, <2>1, <2>2
<1>11. Approved(r)
  <2>1. WithStatus(r, {"replayed"}) = WithStatus(w, {"replayed"}) \cup {i}
    BY <1>1, <1>2, <1>4, <1>5, ZenonT(40) DEF WithStatus
  <2>2. i \notin WithStatus(w, {"replayed"})
    BY <1>2 DEF WithStatus
  <2>3. ASSUME NEW j \in WithStatus(w, {"replayed"})
        PROVE  LET at == r.deliveries[r.deliveries[j].replay].run
               IN  /\ r.runs[at].trigger = "approved_replay"
                   /\ r.runs[at].received = 1
                   /\ r.deliveries[j].run < at
    <3>. DEFINE at == w.deliveries[w.deliveries[j].replay].run
    <3>1. /\ w.runs[at].trigger = "approved_replay" /\ w.runs[at].received = 1
          /\ w.deliveries[j].run < at
      BY <1>2 DEF Approved
    <3>2. /\ j \in Rows(w) /\ j # i
          /\ w.deliveries[j].replay \in Rows(w) /\ w.deliveries[j].replay # i
          /\ w.deliveries[w.deliveries[j].replay].status = "accepted"
      BY <1>2 DEF Tables, ReplayedOnce, WithStatus
    <3>3. at \in 1..n
      BY <1>3, <1>6, <3>2
    <3>4. /\ r.deliveries[j] = w.deliveries[j]
          /\ r.deliveries[w.deliveries[j].replay] = w.deliveries[w.deliveries[j].replay]
          /\ r.runs[at] = w.runs[at]
      BY <1>1, <1>3, <3>2, <3>3
    <3>. QED
      BY <3>1, <3>4
  <2>4. LET at == r.deliveries[r.deliveries[i].replay].run
        IN  /\ r.runs[at].trigger = "approved_replay"
            /\ r.runs[at].received = 1
            /\ r.deliveries[i].run < at
    <3>1. r.deliveries[r.deliveries[i].replay].run = n + 1
      BY <1>1, <1>5
    <3>2. w.deliveries[i].run \in Nat /\ w.deliveries[i].run <= n
      BY <1>2, <1>6
    <3>3. r.deliveries[i].run < n + 1
      BY <1>3, <1>5, <3>2
    <3>. QED
      BY <1>3, <3>1, <3>3 DEF OneAccepted
  <2>5. Cardinality(ApprovalRuns(r)) = Cardinality(WithStatus(r, {"replayed"}))
    <3>1. ApprovalRuns(r) = ApprovalRuns(w) \cup {n + 1} /\ n + 1 \notin ApprovalRuns(w)
      <4>1. n + 1 \notin DOMAIN w.runs /\ DOMAIN r.runs = DOMAIN w.runs \cup {n + 1}
        BY <1>3
      <4>2. r.runs[n + 1].trigger = "approved_replay"
        BY <1>3 DEF OneAccepted
      <4>. QED
        BY <1>3, <4>1, <4>2 DEF ApprovalRuns
    <3>2. IsFiniteSet(ApprovalRuns(w)) /\ IsFiniteSet(WithStatus(w, {"replayed"}))
      <4>1. ApprovalRuns(w) \in SUBSET (1..n)
        BY <1>3 DEF ApprovalRuns
      <4>2. IsFiniteSet(1..n)
        BY <1>3, FS_Interval
      <4>. QED
        BY <1>2, <4>1, <4>2, FS_Subset, RowsOfWarehouse
    <3>3. Cardinality(ApprovalRuns(r)) = Cardinality(ApprovalRuns(w)) + 1
      BY <3>1, <3>2, FS_AddElement
    <3>4. Cardinality(WithStatus(r, {"replayed"})) = Cardinality(WithStatus(w, {"replayed"})) + 1
      BY <2>1, <2>2, <3>2, FS_AddElement
    <3>. QED
      BY <1>2, <3>3, <3>4 DEF Approved
  <2>. QED
    BY <2>1, <2>3, <2>4, <2>5 DEF Approved
<1>. QED
  BY <1>7, <1>9, <1>10, <1>11 DEF Linked, r

-----------------------------------------------------------------------------
(* The sample workspace, and the theorems.                                  *)

\* initialize() raises nothing on its way: its three rehearsal batches fit, there
\* is an accepted delivery to duplicate, and a run to spare.
LEMMA SeedSteps ==
    LET staged == Batch(Empty, "normal", SeedNormal)
        s1 == AfterSimulate(FirstRun, "duplicates", SeedDuplicates)
        s2 == AfterSimulate(s1, "invalid", SeedInvalid)
        s3 == AfterSimulate(s2, "late", SeedLate)
    IN  /\ Empty \in Warehouse /\ Tables(Empty) /\ Rows(Empty) = {}
        /\ Len(Empty.runs) = 0
        /\ Sound(staged)
        /\ FirstRun = AfterProcess(staged, "initial_seed", Pending(staged))
        /\ Sound(FirstRun) /\ Sources(FirstRun) # {}
        /\ Sound(s1) /\ Sound(s2) /\ Sound(s3)
        /\ Seeded = AfterProcess(s3, "quality_rehearsal", Pending(s3))
        /\ Len(s3.runs) < MaxRuns
<1> DEFINE staged == Batch(Empty, "normal", SeedNormal)
           s1 == AfterSimulate(FirstRun, "duplicates", SeedDuplicates)
           s2 == AfterSimulate(s1, "invalid", SeedInvalid)
           s3 == AfterSimulate(s2, "late", SeedLate)
<1>1. /\ SeedNormal \in Nat \ {0} /\ SeedDuplicates \in Nat /\ SeedInvalid \in Nat
      /\ SeedLate \in Nat /\ MaxEvents \in Nat /\ MaxRuns \in Nat /\ MaxRuns >= 2
      /\ MaxAudit \in Nat \ {0} /\ SourceLimit \in Nat \ {0}
      /\ SeedNormal + SeedDuplicates + SeedInvalid + SeedInvalid + SeedLate <= MaxEvents
  BY SeedAssumption, LimitsAssumption
<1>2. /\ "normal" \in Scenarios /\ "duplicates" \in Scenarios
      /\ "invalid" \in Scenarios /\ "late" \in Scenarios
      /\ "initial_seed" \in Triggers /\ "quality_rehearsal" \in Triggers
  BY DEF Scenarios, Triggers
<1>3. /\ Empty \in Warehouse /\ Rows(Empty) = {} /\ Len(Empty.deliveries) = 0
      /\ Len(Empty.runs) = 0 /\ Len(Empty.audit) = 0 /\ Empty.facts = {}
      /\ OpenCorrections(Empty) = {} /\ WithStatus(Empty, {"accepted"}) = {}
      /\ WithStatus(Empty, {"replayed"}) = {}
  BY DEF Empty, Warehouse, Rows, OpenCorrections, WithStatus
<1>4. Tables(Empty) /\ StatusFollowsRaw(Empty)
  BY <1>3 DEF Tables, DrawnFromGenerator, StatusFollowsRaw, FactsFollowDeliveries,
              AwaitsAlone, ReplayedOnce
<1>5. Cardinality(OpenCorrections(Empty)) = 0
  BY <1>3, FS_EmptySet
<1>6. /\ staged \in Warehouse /\ Tables(staged)
      /\ Len(staged.deliveries) = SeedNormal /\ Rows(staged) = 1..SeedNormal
      /\ \A k \in 1..SeedNormal : staged.deliveries[k] = Simulated(Empty, "normal", k - 1)
      /\ staged.facts = {} /\ Len(staged.runs) = 0 /\ Len(staged.audit) = 0
      /\ Cardinality(OpenCorrections(staged)) = 0
  <2>0. SeedNormal \in Nat /\ ("normal" = "duplicates" => Sources(Empty) # {})
    BY <1>1
  <2>7. Empty \in Warehouse /\ StatusFollowsRaw(Empty) /\ "normal" \in Scenarios
    BY <1>2, <1>3, <1>4
  <2>1. /\ staged \in Warehouse
        /\ Len(staged.deliveries) = Len(Empty.deliveries) + SeedNormal
        /\ Rows(staged) = 1..(Len(Empty.deliveries) + SeedNormal)
        /\ \A k \in 1..SeedNormal :
              staged.deliveries[Len(Empty.deliveries) + k] = Simulated(Empty, "normal", k - 1)
        /\ staged.facts = Empty.facts /\ staged.runs = Empty.runs
        /\ staged.audit = Empty.audit
    BY <2>0, <2>7, BatchRows
  <2>2. Tables(staged)
    BY <1>2, <1>3, <1>4, <2>0, BatchTables
  <2>3. Cardinality(OpenCorrections(staged))
          = Cardinality(OpenCorrections(Empty)) + (IF "normal" = "invalid" THEN SeedNormal ELSE 0)
    BY <1>2, <1>3, <1>4, <2>0, BatchOpens
  <2>4. Cardinality(OpenCorrections(staged)) = 0
    BY <1>5, <2>3
  <2>5. \A k \in 1..SeedNormal : Len(Empty.deliveries) + k = k
    BY <1>1, <1>3
  <2>6. Len(Empty.deliveries) + SeedNormal = SeedNormal
    BY <1>1, <1>3
  <2>. HIDE DEF staged
  <2>. QED
    BY <1>3, <2>1, <2>2, <2>4, <2>5, <2>6
<1>. HIDE DEF staged
<1>7. Sound(staged)
  BY <1>1, <1>6 DEF Sound, Tables, WellTyped, RoomForCorrections
<1>8. FirstRun = AfterProcess(staged, "initial_seed", Pending(staged))
  BY DEF FirstRun, staged
<1>9. /\ Pending(staged) \in SUBSET Pending(staged) /\ Pending(staged) \in SUBSET Rows(staged)
      /\ 1 \in Pending(staged) /\ 1 \in Rows(staged) /\ staged.deliveries[1].raw = "good"
  <2>1. 1 \in 1..SeedNormal
    BY <1>1
  <2>2. staged.deliveries[1] = Simulated(Empty, "normal", 1 - 1)
    BY <1>6, <2>1
  <2>3. staged.deliveries[1].raw = "good" /\ staged.deliveries[1].status = "pending"
    BY <2>2 DEF Simulated, Staged
  <2>. QED
    BY <1>6, <2>1, <2>3 DEF Pending, WithStatus
<1>10. /\ Sound(FirstRun) /\ Len(FirstRun.deliveries) = SeedNormal
       /\ Len(FirstRun.runs) = 1 /\ Rows(FirstRun) = 1..SeedNormal
       /\ FirstRun.deliveries[1].status = Outcome(staged, Pending(staged), 1)
       /\ OpenCorrections(FirstRun) \in SUBSET OpenCorrections(staged)
  <2>1. Len(staged.runs) < MaxRuns
    BY <1>1, <1>6
  <2>2. Sound(FirstRun)
    BY <1>2, <1>7, <1>8, <1>9, <2>1, ProcessSound
  <2>3. /\ Rows(FirstRun) = Rows(staged)
        /\ Len(FirstRun.deliveries) = Len(staged.deliveries)
        /\ \A i \in Rows(staged) :
             i \in Pending(staged) =>
               FirstRun.deliveries[i].status = Outcome(staged, Pending(staged), i)
        /\ Len(FirstRun.runs) = Len(staged.runs) + 1
    <3>1. staged \in Warehouse
      BY <1>6
    <3>2. "initial_seed" \in Triggers
      BY <1>2
    <3>3. Pending(staged) \in SUBSET Rows(staged)
      BY <1>9
    <3>. QED
      BY <1>8, <3>1, <3>2, <3>3, ProcessRows
  <2>4. \A i \in Pending(staged) : staged.deliveries[i].raw \in Broken => Alone(staged, i)
    BY <1>6 DEF Tables, AwaitsAlone, Alone, Pending, WithStatus
  <2>5. OpenCorrections(FirstRun) \subseteq OpenCorrections(staged)
    BY <1>2, <1>6, <1>8, <1>9, <2>4, ProcessTables DEF Tables
  <2>. QED
    BY <1>6, <1>9, <2>2, <2>3, <2>5
<1>11. Cardinality(OpenCorrections(FirstRun)) = 0
  <2>1. OpenCorrections(staged) = {}
    BY <1>6, RowsOfWarehouse, FS_EmptySet
  <2>. QED
    BY <1>10, <2>1, FS_EmptySet
<1>12. Sources(FirstRun) # {}
  <2>1. ~AlreadyLoaded(staged, Pending(staged), 1)
    <3>1. Loaded(staged) = {}
      BY <1>6 DEF Loaded
    <3>2. \A j \in Pending(staged) : ~(j < 1)
      BY <1>1, <1>6, <1>9
    <3>. QED
      BY <3>1, <3>2 DEF AlreadyLoaded
  <2>2. FirstRun.deliveries[1].status = "accepted"
    BY <1>6, <1>9, <1>10, <2>1, OutcomeCases DEF Clean
  <2>3. 1 \in WithStatus(FirstRun, {"accepted"})
    BY <1>1, <1>10, <2>2 DEF WithStatus
  <2>4. {j \in WithStatus(FirstRun, {"accepted"}) : j < 1} = {}
    BY <1>1, <1>10 DEF WithStatus
  <2>5. Cardinality({j \in WithStatus(FirstRun, {"accepted"}) : j < 1}) < SourceLimit
    BY <1>1, <2>4, FS_EmptySet
  <2>. QED
    BY <2>3, <2>5 DEF Sources
<1>13. /\ Sound(s1) /\ s1.runs = FirstRun.runs
       /\ Len(s1.deliveries) = SeedNormal + SeedDuplicates
       /\ Cardinality(OpenCorrections(s1)) = 0
  <2>1. Required(FirstRun, "duplicates", SeedDuplicates) = SeedDuplicates
    BY <1>1, <1>11 DEF Required
  <2>2. Len(FirstRun.deliveries) + Required(FirstRun, "duplicates", SeedDuplicates)
          <= MaxEvents
    BY <1>1, <1>10, <2>1
  <2>3. SeedDuplicates \in Nat
    BY <1>1
  <2>4. /\ Sound(s1) /\ s1.runs = FirstRun.runs
        /\ Len(s1.deliveries) = Len(FirstRun.deliveries) + SeedDuplicates
        /\ Cardinality(OpenCorrections(s1)) = Cardinality(OpenCorrections(FirstRun))
             + (IF "duplicates" = "invalid" THEN SeedDuplicates ELSE 0)
    BY <1>2, <1>10, <1>12, <2>2, <2>3, SimulateSound
  <2>. QED
    BY <1>10, <1>11, <2>4
<1>. HIDE DEF s1
<1>14. /\ Sound(s2) /\ s2.runs = s1.runs
       /\ Len(s2.deliveries) = SeedNormal + SeedDuplicates + SeedInvalid
       /\ Cardinality(OpenCorrections(s2)) = SeedInvalid
  <2>1. Required(s1, "invalid", SeedInvalid) = SeedInvalid + SeedInvalid
    BY <1>1, <1>13 DEF Required
  <2>2. Len(s1.deliveries) + Required(s1, "invalid", SeedInvalid) <= MaxEvents
    BY <1>1, <1>13, <2>1
  <2>3. SeedInvalid \in Nat /\ ("invalid" = "duplicates" => Sources(s1) # {})
    BY <1>1
  <2>4. /\ Sound(s2) /\ s2.runs = s1.runs
        /\ Len(s2.deliveries) = Len(s1.deliveries) + SeedInvalid
        /\ Cardinality(OpenCorrections(s2)) = Cardinality(OpenCorrections(s1))
             + (IF "invalid" = "invalid" THEN SeedInvalid ELSE 0)
    BY <1>2, <1>13, <2>2, <2>3, SimulateSound
  <2>. QED
    BY <1>1, <1>13, <2>4
<1>. HIDE DEF s2
<1>15. Sound(s3) /\ s3.runs = s2.runs
  <2>1. Required(s2, "late", SeedLate) = SeedLate + SeedInvalid
    BY <1>1, <1>14 DEF Required
  <2>2. Len(s2.deliveries) + Required(s2, "late", SeedLate) <= MaxEvents
    BY <1>1, <1>14, <2>1
  <2>3. SeedLate \in Nat /\ ("late" = "duplicates" => Sources(s2) # {})
    BY <1>1
  <2>. QED
    BY <1>2, <1>14, <2>2, <2>3, SimulateSound
<1>. HIDE DEF s3
<1>16. Seeded = AfterProcess(s3, "quality_rehearsal", Pending(s3))
  BY DEF Seeded, Rehearsal, s1, s2, s3
<1>17. Len(s3.runs) < MaxRuns
  <2>1. s3.runs = FirstRun.runs
    BY <1>13, <1>14, <1>15
  <2>2. Len(s3.runs) = 1
    BY <1>10, <2>1
  <2>. QED
    BY <1>1, <2>2
<1>. QED
  BY <1>3, <1>4, <1>7, <1>8, <1>10, <1>12, <1>13, <1>14, <1>15, <1>16, <1>17
     DEF staged, s1, s2, s3

\* So the sample workspace is sound.
LEMMA SeededSound == Sound(Seeded)
<1> DEFINE s3 == Rehearsal
<1>1. /\ Sound(s3) /\ Len(s3.runs) < MaxRuns
      /\ Seeded = AfterProcess(s3, "quality_rehearsal", Pending(s3))
  BY SeedSteps DEF Rehearsal
<1>2. "quality_rehearsal" \in Triggers /\ Pending(s3) \in SUBSET Pending(s3)
  BY DEF Triggers
<1>. HIDE DEF s3
<1>. QED
  BY <1>1, <1>2, ProcessSound

\* A simulation is a batch, as far as the links go.
LEMMA SimulateLinked ==
    ASSUME NEW w, Sound(w), Linked(w), NEW scenario \in Scenarios, NEW count \in Nat,
           scenario = "duplicates" => Sources(w) # {}
    PROVE  Linked(AfterSimulate(w, scenario, count))
<1> DEFINE b == Batch(w, scenario, count)
           v == AfterSimulate(w, scenario, count)
<1>1. w \in Warehouse /\ Tables(w) /\ StatusFollowsRaw(w)
  BY DEF Sound, Tables, WellTyped
<1>2. Linked(b) /\ b \in Warehouse
  BY <1>1, BatchLinked, BatchRows
<1>. HIDE DEF b
<1>3. v = [b EXCEPT !.revision = b.revision + 1, !.audit = Logged(b.audit, "staged")]
  BY DEF AfterSimulate, b
<1>. HIDE DEF v
<1>4. v.deliveries = b.deliveries /\ v.facts = b.facts /\ v.runs = b.runs
  BY <1>2, <1>3 DEF Warehouse
<1>. QED
  BY <1>2, <1>4, SameLinks DEF v

\* The sample workspace is linked like any other: initialize() goes through the
\* operations of the sandbox.
LEMMA SeededLinked == Linked(Seeded)
<1> DEFINE staged == Batch(Empty, "normal", SeedNormal)
           s1 == AfterSimulate(FirstRun, "duplicates", SeedDuplicates)
           s2 == AfterSimulate(s1, "invalid", SeedInvalid)
           s3 == AfterSimulate(s2, "late", SeedLate)
<1>1. /\ Empty \in Warehouse /\ Tables(Empty)
      /\ Sound(staged)
      /\ FirstRun = AfterProcess(staged, "initial_seed", Pending(staged))
      /\ Sound(FirstRun) /\ Sources(FirstRun) # {}
      /\ Sound(s1) /\ Sound(s2) /\ Sound(s3)
      /\ Seeded = AfterProcess(s3, "quality_rehearsal", Pending(s3))
  BY SeedSteps
<1>2. /\ "normal" \in Scenarios /\ "duplicates" \in Scenarios
      /\ "invalid" \in Scenarios /\ "late" \in Scenarios
      /\ "initial_seed" \in Triggers /\ "quality_rehearsal" \in Triggers
      /\ SeedNormal \in Nat /\ SeedDuplicates \in Nat /\ SeedInvalid \in Nat /\ SeedLate \in Nat
  BY SeedAssumption, LimitsAssumption DEF Scenarios, Triggers
<1>3. Linked(staged)
  BY <1>1, <1>2, NothingLinked, BatchLinked
<1>. HIDE DEF staged
<1>4. Linked(FirstRun)
  BY <1>1, <1>2, <1>3, ProcessLinked
<1>5. Linked(s1)
  BY <1>1, <1>2, <1>4, SimulateLinked
<1>. HIDE DEF s1
<1>6. Linked(s2)
  BY <1>1, <1>2, <1>5, SimulateLinked
<1>. HIDE DEF s2
<1>7. Linked(s3)
  BY <1>1, <1>2, <1>6, SimulateLinked
<1>. HIDE DEF s3
<1>. QED
  BY <1>1, <1>2, <1>7, ProcessLinked

\* Every request of the service keeps the invariant, one step per request.
LEMMA NextSound == Inv /\ [Next]_db => Inv'
<1> SUFFICES ASSUME Inv, [Next]_db
             PROVE  Inv'
  OBVIOUS
<1> USE DEF Inv
<1>1. ASSUME NEW scenario \in Scenarios, NEW count \in 1..MaxBatch,
             Simulate(scenario, count)
      PROVE  Inv'
  <2>1. count \in Nat
    BY LimitsAssumption
  <2>2. /\ db' = AfterSimulate(db, scenario, count)
        /\ Len(db.deliveries) + Required(db, scenario, count) <= MaxEvents
        /\ scenario = "duplicates" => Sources(db) # {}
    BY <1>1 DEF Simulate, SimulateAllowed
  <2>3. Sound(AfterSimulate(db, scenario, count))
    BY <2>1, <2>2, SimulateSound
  <2>. QED
    BY <2>2, <2>3
<1>2. CASE RunPipeline
  <2>1. Len(db.runs) < MaxRuns /\ db' = AfterProcess(db, "manual", Pending(db))
    BY <1>2 DEF RunPipeline, ProcessAllowed
  <2>2. "manual" \in Triggers
    BY DEF Triggers
  <2>3. Pending(db) \in SUBSET Pending(db)
    OBVIOUS
  <2>4. Sound(AfterProcess(db, "manual", Pending(db)))
    BY <2>1, <2>2, <2>3, ProcessSound
  <2>. QED
    BY <2>1, <2>4
<1>3. ASSUME NEW i \in Rows(db), Replay(i)
      PROVE  Inv'
  BY <1>3, ReplaySound DEF Replay
<1>4. CASE Reset
  BY <1>4, SeededSound DEF Reset
<1>5. CASE Export
  BY <1>5, ExportSound DEF Export
<1>6. CASE UNCHANGED db
  BY <1>6
<1>. QED
  BY <1>1, <1>2, <1>3, <1>4, <1>5, <1>6 DEF Next

\* The invariant, and with it every named part: types and limits, facts that
\* follow the accepted deliveries, replays that name their replacement, and room
\* for the corrections.
THEOREM Soundness == Spec => []Inv
<1>1. Init => Inv
  BY SeededSound DEF Init, Inv
<1>. QED
  BY <1>1, NextSound, PTL DEF Spec

\* The columns keep their types, and no table outgrows its limit.
THEOREM TypeCorrect == Spec => []TypeOK
<1>1. Inv => TypeOK
  BY DEF Inv, Sound, TypeOK
<1>. QED
  BY <1>1, Soundness, PTL

\* simulate() never spends the room of a correction that is still open.
THEOREM RoomKept == Spec => []RoomForEveryCorrection
<1>1. Inv => RoomForEveryCorrection
  BY DEF Inv, Sound, RoomForEveryCorrection
<1>. QED
  BY <1>1, Soundness, PTL

\* An event is loaded once, by the one delivery of it that was accepted.
THEOREM FactsOnce == Spec => []FactsMatchAccepted
<1>1. Inv => FactsMatchAccepted
  BY DEF Inv, Sound, FactsMatchAccepted
<1>. QED
  BY <1>1, Soundness, PTL

\* Of the conditions of an approval only the run limit can fail for a delivery in
\* quarantine whose correction is known.
THEOREM ApprovalsBlockedByRunsOnly == Spec => []OnlyRunsCanBlockReplay
<1>1. Inv => OnlyRunsCanBlockReplay
  <2> SUFFICES ASSUME Inv,
                      NEW i \in OpenCorrections(db) \cap WithStatus(db, {"quarantined"}),
                      Len(db.runs) # MaxRuns
               PROVE  ReplayAllowed(db, i)
    BY DEF OnlyRunsCanBlockReplay
  <2>1. /\ db \in Warehouse /\ Len(db.runs) < MaxRuns
        /\ StatusFollowsRaw(db) /\ FactsFollowDeliveries(db)
        /\ AwaitsAlone(db) /\ RoomForCorrections(db)
    <3>1. Len(db.runs) \in Nat /\ Len(db.runs) <= MaxRuns
      BY DEF Inv, Sound, WellTyped, Warehouse
    <3>2. Len(db.runs) < MaxRuns
      BY <3>1, LimitsAssumption
    <3>. QED
      BY <3>2 DEF Inv, Sound, WellTyped
  <2>2. /\ i \in Rows(db) /\ i \in OpenCorrections(db)
        /\ db.deliveries[i].status = "quarantined"
    BY DEF WithStatus
  <2>3. /\ db.deliveries[i].raw \in Broken /\ db.deliveries[i].corrected = "good"
        /\ db.deliveries[i].replay = 0
    BY <2>1, <2>2 DEF StatusFollowsRaw
  <2>4. db.deliveries[i].event \notin Loaded(db)
    <3> SUFFICES ASSUME db.deliveries[i].event \in Loaded(db)
                 PROVE  FALSE
      OBVIOUS
    <3>1. PICK j \in WithStatus(db, {"accepted"}) :
            db.deliveries[j].event = db.deliveries[i].event
      BY <2>1 DEF Loaded, FactsFollowDeliveries
    <3>2. j \in Rows(db) /\ db.deliveries[j].status = "accepted"
      BY DEF WithStatus
    <3>. QED
      BY <2>1, <2>2, <2>3, <3>1, <3>2 DEF AwaitsAlone
  <2>5. Len(db.deliveries) < MaxEvents
    <3>1. /\ IsFiniteSet(OpenCorrections(db)) /\ Len(db.deliveries) \in Nat
          /\ Cardinality(OpenCorrections(db)) \in Nat
      BY <2>1, RowsOfWarehouse
    <3>2. Cardinality(OpenCorrections(db)) # 0
      BY <2>2, <3>1, FS_EmptySet
    <3>. QED
      BY <2>1, <3>1, <3>2, LimitsAssumption DEF RoomForCorrections
  <2>. QED
    BY <2>1, <2>2, <2>3, <2>4, <2>5 DEF ReplayAllowed, Replayable, FailsContract, FailsRules
<1>. QED
  BY <1>1, Soundness, PTL

\* Deliveries, runs and approvals agree with one another in every state.
LEMMA LinksHold == Spec => []Linked(db)
<1>1. Init => Linked(db)
  BY SeededLinked DEF Init
<1>2. Inv /\ Linked(db) /\ [Next]_db => Linked(db)'
  <2> SUFFICES ASSUME Inv, Linked(db), [Next]_db
               PROVE  Linked(db')
    OBVIOUS
  <2> USE DEF Inv
  <2>1. ASSUME NEW scenario \in Scenarios, NEW count \in 1..MaxBatch,
               Simulate(scenario, count)
        PROVE  Linked(db')
    <3>1. count \in Nat
      BY LimitsAssumption
    <3>. QED
      BY <2>1, <3>1, SimulateLinked DEF Simulate, SimulateAllowed
  <2>2. CASE RunPipeline
    <3>1. "manual" \in Triggers
      BY DEF Triggers
    <3>. QED
      BY <2>2, <3>1, ProcessLinked DEF RunPipeline
  <2>3. ASSUME NEW i \in Rows(db), Replay(i)
        PROVE  Linked(db')
    BY <2>3, ReplayLinked DEF Replay
  <2>4. CASE Reset
    BY <2>4, SeededLinked DEF Reset
  <2>5. CASE Export
    <3>1. db \in Warehouse
      BY DEF Sound, WellTyped
    <3>2. db'.deliveries = db.deliveries /\ db'.facts = db.facts /\ db'.runs = db.runs
      BY <2>5, <3>1 DEF Export, Warehouse
    <3>. QED
      BY <3>2, SameLinks
  <2>6. CASE UNCHANGED db
    BY <2>6
  <2>. QED
    BY <2>1, <2>2, <2>3, <2>4, <2>5, <2>6 DEF Next
<1>. QED
  BY <1>1, <1>2, Soundness, PTL DEF Spec

\* Nothing is suppressed in favour of an event that was not loaded before it.
THEOREM SuppressionJustified == Spec => []SuppressedBehindOriginal
<1>1. Linked(db) => SuppressedBehindOriginal
  BY DEF Linked, Originals, HasOriginal, SuppressedBehindOriginal, WithStatus
<1>. QED
  BY <1>1, LinksHold, PTL

\* An approval leads from one defect to one accepted delivery through one run.
THEOREM ApprovalsTraceable == Spec => []EveryReplayHasItsRun
<1>1. Inv /\ Linked(db) => EveryReplayHasItsRun
  BY DEF Inv, Sound, Linked, Approved, ApprovalRuns, EveryReplayHasItsRun
<1>. QED
  BY <1>1, Soundness, LinksHold, PTL

\* Disjoint sets add up.
LEMMA DisjointUnion ==
    ASSUME NEW S, IsFiniteSet(S), NEW T, IsFiniteSet(T), S \cap T = {}
    PROVE  /\ IsFiniteSet(S \cup T)
           /\ Cardinality(S \cup T) = Cardinality(S) + Cardinality(T)
<1>1. Cardinality(S) \in Nat /\ Cardinality(T) \in Nat /\ Cardinality(S \cap T) = 0
  BY FS_CardinalityType, FS_EmptySet
<1>2. /\ IsFiniteSet(S \cup T)
      /\ Cardinality(S \cup T) = Cardinality(S) + Cardinality(T) - Cardinality(S \cap T)
  BY FS_Union
<1>3. Cardinality(S) + Cardinality(T) - 0 = Cardinality(S) + Cardinality(T)
  BY <1>1
<1>. QED
  BY <1>1, <1>2, <1>3

\* There are as many facts as accepted deliveries.
LEMMA FactsCounted ==
    ASSUME NEW w, Sound(w)
    PROVE  /\ IsFiniteSet(w.facts)
           /\ Cardinality(w.facts) = Cardinality(WithStatus(w, {"accepted"}))
<1> DEFINE S == WithStatus(w, {"accepted"})
           Envelope(i) == [event |-> w.deliveries[i].event, raw |-> w.deliveries[i].raw]
           f == [i \in S |-> Envelope(i)]
<1>1. /\ w.facts = {Envelope(i) : i \in S}
      /\ \A i, j \in S : w.deliveries[i].event = w.deliveries[j].event => i = j
  BY DEF Sound, FactsFollowDeliveries
<1>2. IsFiniteSet(S)
  BY RowsOfWarehouse DEF Sound, WellTyped
<1>. HIDE DEF S
<1>3. f \in [S -> w.facts]
  BY <1>1
<1>4. ASSUME NEW i \in S, NEW j \in S, f[i] = f[j] PROVE i = j
  <2>1. Envelope(i).event = Envelope(j).event
    BY <1>4
  <2>. QED
    BY <1>1, <2>1
<1>5. \A x \in w.facts : \E i \in S : f[i] = x
  BY <1>1
<1>. HIDE DEF f
<1>6. f \in Bijection(S, w.facts)
  BY <1>3, <1>4, <1>5 DEF Bijection, Injection, Surjection, IsInjective
<1>. QED
  BY <1>2, <1>6, FS_Bijection DEF ExistsBijection, S

\* The reports of the runs and the stats of snapshot() are counts of the same
\* deliveries.
THEOREM ReportsAgree == Spec => []CountersAgree
<1>1. Inv /\ Linked(db) => CountersAgree
  <2> SUFFICES ASSUME Inv, Linked(db) PROVE CountersAgree
    OBVIOUS
  <2>1. \A r \in DOMAIN db.runs : RunTells(db, r)
    BY DEF Linked, Counted
  <2> DEFINE A == WithStatus(db, {"accepted"})
             D == WithStatus(db, {"duplicate"})
             Q == WithStatus(db, {"quarantined", "replayed"})
             P == Pending(db)
  <2>2. /\ IsFiniteSet(A) /\ IsFiniteSet(D) /\ IsFiniteSet(Q) /\ IsFiniteSet(P)
        /\ Rows(db) = 1..Len(db.deliveries) /\ Len(db.deliveries) \in Nat
        /\ \A i \in Rows(db) : db.deliveries[i].status \in Statuses
    <3>1. db \in Warehouse
      BY DEF Inv, Sound, WellTyped
    <3>2. /\ IsFiniteSet(A) /\ IsFiniteSet(D) /\ IsFiniteSet(Q) /\ IsFiniteSet(P)
      BY <3>1, RowsOfWarehouse DEF Pending
    <3>. QED
      BY <3>1, <3>2, RowsOfWarehouse DEF Delivery
  <2>3. Rows(db) = ((A \cup D) \cup Q) \cup P
    BY <2>2 DEF Statuses, Pending, WithStatus
  <2>4. A \cap D = {} /\ (A \cup D) \cap Q = {} /\ ((A \cup D) \cup Q) \cap P = {}
    BY DEF Pending, WithStatus
  <2>. HIDE DEF A, D, Q, P
  <2>5. /\ IsFiniteSet(A \cup D) /\ Cardinality(A \cup D) = Cardinality(A) + Cardinality(D)
    BY <2>2, <2>4, DisjointUnion
  <2>6. /\ IsFiniteSet((A \cup D) \cup Q)
        /\ Cardinality((A \cup D) \cup Q) = Cardinality(A) + Cardinality(D) + Cardinality(Q)
    BY <2>2, <2>4, <2>5, DisjointUnion
  <2>7. Cardinality(Rows(db))
          = Cardinality(A) + Cardinality(D) + Cardinality(Q) + Cardinality(P)
    BY <2>2, <2>3, <2>4, <2>6, DisjointUnion
  <2>8. Cardinality(Rows(db)) = Len(db.deliveries)
    <3>1. Cardinality(1..Len(db.deliveries)) = Len(db.deliveries)
      BY <2>2, FS_Interval
    <3>. QED
      BY <2>2, <3>1
  <2>9. Cardinality(db.facts) = Cardinality(A)
    BY FactsCounted DEF Inv, A
  <2>. QED
    BY <2>1, <2>7, <2>8, <2>9 DEF CountersAgree, RunTells, Named, A, D, Q, P
<1>. QED
  BY <1>1, Soundness, LinksHold, PTL

\* A batch, a run and an approval add to bronze and to the facts, and rewrite no
\* more of a delivery than its fate; the audit of engine.py tells the newest of them.
THEOREM HistoryKept == Spec => HistoryIsKept
<1>1. ASSUME Inv, Inv', Linked(db), [Next]_db
      PROVE  [db' = Seeded \/ (BronzeKept(db, db') /\ FactsKept(db, db') /\ AuditKept(db, db'))]_db
  <2>1. /\ db \in Warehouse /\ StatusFollowsRaw(db) /\ Claims(db)
        /\ Sound(db) /\ Sound(db')
    BY <1>1 DEF Inv, Sound, WellTyped, Linked
  <2>2. /\ IsFiniteSet(db.facts) /\ IsFiniteSet(db'.facts)
        /\ Cardinality(db.facts) = Cardinality(WithStatus(db, {"accepted"}))
        /\ Cardinality(db'.facts) = Cardinality(WithStatus(db', {"accepted"}))
        /\ IsFiniteSet(WithStatus(db, {"accepted"}))
    BY <2>1, FactsCounted, RowsOfWarehouse
  <2>3. ASSUME NEW scenario \in Scenarios, NEW count \in 1..MaxBatch,
               Simulate(scenario, count)
        PROVE  BronzeKept(db, db') /\ FactsKept(db, db') /\ AuditKept(db, db')
    <3> DEFINE b == Batch(db, scenario, count)
    <3>1. count \in Nat /\ (scenario = "duplicates" => Sources(db) # {})
      BY <2>3, LimitsAssumption DEF Simulate, SimulateAllowed
    <3>2. /\ b \in Warehouse /\ Len(b.deliveries) = Len(db.deliveries) + count
          /\ \A i \in Rows(db) : b.deliveries[i] = db.deliveries[i]
          /\ b.facts = db.facts /\ b.runs = db.runs
      BY <2>1, <3>1, BatchRows
    <3> HIDE DEF b
    <3>3. db'.deliveries = b.deliveries /\ db'.facts = b.facts /\ db'.runs = b.runs
      <4>1. db' = [b EXCEPT !.revision = b.revision + 1, !.audit = Logged(b.audit, "staged")]
        BY <2>3 DEF Simulate, AfterSimulate, b
      <4>. QED
        BY <3>2, <4>1 DEF Warehouse
    <3>4. Len(db'.deliveries) > Len(db.deliveries) /\ Len(db'.runs) = Len(db.runs)
      BY <2>1, <2>3, <3>1, <3>2, <3>3, RowsOfWarehouse
    <3>5. db'.audit = Logged(db.audit, "staged")
      <4>1. db' = [b EXCEPT !.revision = b.revision + 1, !.audit = Logged(b.audit, "staged")]
        BY <2>3 DEF Simulate, AfterSimulate, b
      <4>2. b.audit = db.audit
        BY <2>1 DEF b, Batch, Warehouse
      <4>. QED
        BY <3>2, <4>1, <4>2 DEF Warehouse
    <3>6. AuditKept(db, db')
      <4>1. Traces(db, db') = <<"staged">>
        BY <3>4 DEF Traces
      <4>. QED
        BY <2>1, <3>5, <4>1, LoggedEnds DEF AuditKept, Sound, WellTyped, Warehouse, AuditActions
    <3>7. Len(db'.deliveries) >= Len(db.deliveries)
      BY <2>1, <3>4, RowsOfWarehouse
    <3>. QED
      BY <3>2, <3>3, <3>6, <3>7 DEF BronzeKept, FactsKept
  <2>4. CASE RunPipeline
    <3> DEFINE P == Pending(db)
               taken == {j \in P : Outcome(db, P, j) = "accepted"}
    <3>1. /\ db' = AfterProcess(db, "manual", P) /\ P \in SUBSET Rows(db)
          /\ "manual" \in Triggers
      BY <2>4 DEF RunPipeline, Pending, WithStatus, Triggers
    <3>2. /\ Rows(db') = Rows(db) /\ Len(db'.deliveries) = Len(db.deliveries)
          /\ \A i \in Rows(db) :
               /\ db'.deliveries[i].event = db.deliveries[i].event
               /\ db'.deliveries[i].raw = db.deliveries[i].raw
               /\ db'.deliveries[i].corrected = db.deliveries[i].corrected
               /\ i \in P => db'.deliveries[i].status = Outcome(db, P, i)
               /\ i \notin P => db'.deliveries[i] = db.deliveries[i]
          /\ db.facts \subseteq db'.facts
          /\ db'.runs = Append(db.runs, RunRecord(db, "manual", P))
          /\ RunRecord(db, "manual", P) \in Run
          /\ db'.audit = Logged(db.audit, "completed")
      BY <2>1, <3>1, ProcessRows
    <3>3. \A i \in Rows(db) : i \in P <=> db.deliveries[i].status = "pending"
      BY DEF Pending, WithStatus
    <3>4. \A i \in P : Outcome(db, P, i) \in {"accepted", "duplicate", "quarantined"}
      BY <2>1, <3>1, OutcomeCases
    <3>5. RunRecord(db, "manual", P).accepted = Cardinality(taken)
      BY DEF RunRecord
    <3> HIDE DEF P, taken
    <3>6. BronzeKept(db, db')
      <4>1. Len(db'.deliveries) >= Len(db.deliveries)
        BY <2>1, <3>2, RowsOfWarehouse
      <4>2. ASSUME NEW i \in Rows(db)
            PROVE  LET d == db.deliveries[i]
                       e == db'.deliveries[i]
                   IN  /\ e.event = d.event /\ e.raw = d.raw /\ e.corrected = d.corrected
                       /\ e.status # d.status => d.status = "pending" /\ e.status # "replayed"
                       /\ d.run # 0 => e.run = d.run
        <5>1. CASE i \in P
          <6>1. db.deliveries[i].run = 0
            BY <2>1, <3>3, <5>1 DEF Claims
          <6>. QED
            BY <3>2, <3>3, <3>4, <5>1, <6>1
        <5>2. CASE i \notin P
          BY <3>2, <5>2
        <5>. QED
          BY <5>1, <5>2
      <4>. QED
        BY <4>1, <4>2 DEF BronzeKept
    <3>7. WithStatus(db', {"accepted"}) = WithStatus(db, {"accepted"}) \cup taken
      BY <3>1, <3>2, <3>3 DEF WithStatus, taken
    <3>8. WithStatus(db, {"accepted"}) \cap taken = {}
      BY <3>1, <3>3 DEF WithStatus, taken
    <3>9. IsFiniteSet(taken)
      <4>1. taken \in SUBSET Rows(db)
        BY <3>1 DEF taken
      <4>. QED
        BY <2>1, <4>1, RowsOfWarehouse, FS_Subset
    <3>10. Cardinality(db'.facts) = Cardinality(db.facts) + Cardinality(taken)
      BY <2>2, <3>7, <3>8, <3>9, DisjointUnion
    <3>11. Len(db'.runs) = Len(db.runs) + 1 /\ db'.runs[Len(db'.runs)] = RunRecord(db, "manual", P)
      <4>1. db.runs \in Seq(Run)
        BY <2>1 DEF Warehouse
      <4>. QED
        BY <3>2, <4>1, AppendProperties
    <3>12. AuditKept(db, db')
      <4>1. Len(db.runs) \in Nat /\ Len(db.deliveries) \in Nat
        BY <2>1, RowsOfWarehouse DEF Warehouse
      <4>2. Traces(db, db') = <<"completed">>
        BY <3>2, <3>11, <4>1 DEF Traces
      <4>. QED
        BY <2>1, <3>2, <4>2, LoggedEnds DEF AuditKept, Sound, WellTyped, Warehouse, AuditActions
    <3>. QED
      BY <3>2, <3>5, <3>6, <3>10, <3>11, <3>12 DEF FactsKept
  <2>5. ASSUME NEW i \in Rows(db), Replay(i)
        PROVE  BronzeKept(db, db') /\ FactsKept(db, db') /\ AuditKept(db, db')
    <3> DEFINE new == Len(db.deliveries) + 1
    <3>1. ReplayAllowed(db, i) /\ db' = AfterReplay(db, i)
      BY <2>5 DEF Replay
    <3>2. /\ Rows(db') = 1..new /\ Rows(db) = 1..(new - 1)
          /\ \A j \in Rows(db) \ {i} : db'.deliveries[j] = db.deliveries[j]
          /\ db'.deliveries[i] = [db.deliveries[i] EXCEPT !.status = "replayed",
                                                          !.replay = new]
          /\ db'.deliveries[new].status = "accepted"
          /\ db'.facts = db.facts \cup {[event |-> db.deliveries[i].event, raw |-> "good"]}
          /\ db'.runs = Append(db.runs, OneAccepted)
      <4> DEFINE r == AfterReplay(db, i)
      <4>1. /\ r \in Warehouse /\ Rows(r) = 1..new /\ Rows(db) = 1..(new - 1)
            /\ \A j \in Rows(db) \ {i} : r.deliveries[j] = db.deliveries[j]
            /\ r.deliveries[i] = [db.deliveries[i] EXCEPT !.status = "replayed",
                                                         !.replay = new]
            /\ r.deliveries[new].event = db.deliveries[i].event
            /\ r.deliveries[new].raw = "good"
            /\ r.deliveries[new].corrected = "none"
            /\ r.deliveries[new].status = "accepted"
            /\ r.deliveries[new].replay = 0
            /\ r.deliveries[new].run = Len(db.runs) + 1
            /\ r.deliveries[new].late = FALSE
            /\ r.facts = db.facts \cup {[event |-> db.deliveries[i].event, raw |-> "good"]}
            /\ r.cursor = db.cursor
            /\ Len(r.runs) = Len(db.runs) + 1
            /\ r.runs = Append(db.runs, OneAccepted)
            /\ Len(r.audit) <= MaxAudit
        BY <2>1, <3>1, ReplayRows
      <4>2. db' = r
        BY <3>1
      <4> HIDE DEF r, new
      <4>. QED
        BY <4>1, <4>2
    <3>3. new \in Nat /\ Len(db'.deliveries) \in Nat /\ Rows(db') = 1..Len(db'.deliveries)
          /\ db.deliveries[i] \in Delivery
      BY <2>1, RowsOfWarehouse DEF Sound, WellTyped
    <3>4. Len(db'.deliveries) >= Len(db.deliveries)
      <4>1. new \in 1..Len(db'.deliveries)
        BY <3>2, <3>3
      <4>. QED
        BY <2>1, <3>3, <4>1, RowsOfWarehouse
    <3>5. db.deliveries[i].status = "quarantined"
      BY <3>1 DEF ReplayAllowed, Replayable
    <3>6. /\ db'.deliveries[i].event = db.deliveries[i].event
          /\ db'.deliveries[i].raw = db.deliveries[i].raw
          /\ db'.deliveries[i].corrected = db.deliveries[i].corrected
          /\ db'.deliveries[i].run = db.deliveries[i].run
          /\ db'.deliveries[i].status = "replayed"
      BY <3>2, <3>3 DEF Delivery
    <3>7. /\ new \notin Rows(db) /\ new \in Rows(db')
          /\ \A j \in Rows(db') : j \in Rows(db) \/ j = new
          /\ Rows(db) \subseteq Rows(db')
      BY <3>2, <3>3
    <3> HIDE DEF new
    <3>8. BronzeKept(db, db')
      BY <3>2, <3>4, <3>5, <3>6 DEF BronzeKept
    <3>9. WithStatus(db', {"accepted"}) = WithStatus(db, {"accepted"}) \cup {new}
      BY <3>2, <3>5, <3>6, <3>7 DEF WithStatus
    <3>10. new \notin WithStatus(db, {"accepted"})
      BY <3>7 DEF WithStatus
    <3>11. Cardinality(db'.facts) = Cardinality(db.facts) + 1
      BY <2>2, <3>9, <3>10, FS_AddElement
    <3>12. Len(db'.runs) = Len(db.runs) + 1 /\ db'.runs[Len(db'.runs)] = OneAccepted
      <4>1. db.runs \in Seq(Run) /\ OneAccepted \in Run
        BY <2>1 DEF Warehouse, OneAccepted, Run, Triggers
      <4>. QED
        BY <3>2, <4>1, AppendProperties
    <3>13. db.facts \subseteq db'.facts
      BY <3>2
    <3>14. db'.audit = Logged(Logged(db.audit, "completed"), "approved")
      BY <2>1, <3>1, ReplayTrail
    <3>15. AuditKept(db, db')
      <4>1. Len(db.runs) \in Nat /\ Len(db.deliveries) \in Nat
        BY <2>1, RowsOfWarehouse DEF Warehouse
      <4>2. Len(db'.deliveries) > Len(db.deliveries)
        BY <3>2, <3>3, <3>4, <3>7, <4>1, RowsOfWarehouse, <2>1
      <4>3. Traces(db, db') = <<"completed", "approved">>
        BY <3>12, <4>1, <4>2 DEF Traces
      <4>. QED
        BY <2>1, <3>14, <4>3, LoggedTwiceEnds
        DEF AuditKept, Sound, WellTyped, Warehouse, AuditActions
    <3>. QED
      BY <3>8, <3>11, <3>12, <3>13, <3>15 DEF FactsKept, OneAccepted
  <2>6. CASE Reset
    BY <2>6 DEF Reset
  <2>7. CASE Export
    <3>1. db'.deliveries = db.deliveries /\ db'.facts = db.facts /\ db'.runs = db.runs
      BY <2>1, <2>7 DEF Export, Warehouse
    <3>2. Len(db.deliveries) \in Nat
      BY <2>1, RowsOfWarehouse
    <3>3. db'.audit = Logged(db.audit, "exported")
      BY <2>1, <2>7 DEF Export, Warehouse
    <3>4. AuditKept(db, db')
      <4>1. Len(db.runs) \in Nat
        BY <2>1 DEF Warehouse
      <4>2. Traces(db, db') = <<"exported">>
        BY <3>1, <3>2, <4>1 DEF Traces
      <4>. QED
        BY <2>1, <3>3, <4>2, LoggedEnds DEF AuditKept, Sound, WellTyped, Warehouse, AuditActions
    <3>. QED
      BY <3>1, <3>2, <3>4 DEF BronzeKept, FactsKept
  <2>. QED
    BY <1>1, <2>3, <2>4, <2>5, <2>6, <2>7 DEF Next
<1>2. Inv /\ Inv' /\ Linked(db) /\ [Next]_db =>
        [db' = Seeded \/ (BronzeKept(db, db') /\ FactsKept(db, db') /\ AuditKept(db, db'))]_db
  BY <1>1
<1>. QED
  BY <1>2, Soundness, LinksHold, PTL DEF Spec, HistoryIsKept

-----------------------------------------------------------------------------
(* The warehouse implements the ledger.                                     *)

\* Some delivery of event e has the status given.
Has(w, e, status) ==
    \E i \in Rows(w) : w.deliveries[i].status = status /\ w.deliveries[i].event = e

\* The phase of an event is one of four, each with its own condition.
LEMMA PhaseCases ==
    ASSUME NEW w, NEW e
    PROVE  /\ PhaseOf(w, e) \in {"unseen", "waiting", "held", "loaded"}
           /\ PhaseOf(w, e) = "loaded" <=> e \in Loaded(w)
           /\ PhaseOf(w, e) = "held" <=> e \notin Loaded(w) /\ Has(w, e, "quarantined")
           /\ PhaseOf(w, e) = "waiting" <=>
                e \notin Loaded(w) /\ ~Has(w, e, "quarantined") /\ Has(w, e, "pending")
<1> DEFINE Delivered(statuses) ==
               \E i \in WithStatus(w, statuses) : w.deliveries[i].event = e
<1>1. /\ Delivered({"quarantined"}) <=> Has(w, e, "quarantined")
      /\ Delivered({"pending"}) <=> Has(w, e, "pending")
  BY DEF WithStatus, Has
<1>2. PhaseOf(w, e) = CASE e \in Loaded(w) -> "loaded"
                        [] e \notin Loaded(w) /\ Delivered({"quarantined"}) -> "held"
                        [] e \notin Loaded(w) /\ ~Delivered({"quarantined"})
                             /\ Delivered({"pending"}) -> "waiting"
                        [] OTHER -> "unseen"
  BY DEF PhaseOf
<1>. HIDE DEF Delivered
<1>. QED
  BY <1>1, <1>2

\* It is a matter of the deliveries and the facts.
LEMMA SamePhase ==
    ASSUME NEW v, NEW w, v.deliveries = w.deliveries, v.facts = w.facts
    PROVE  PhasesOf(v) = PhasesOf(w)
<1>1. Rows(v) = Rows(w) /\ Loaded(v) = Loaded(w)
  BY DEF Rows, Loaded
<1>2. \A statuses : WithStatus(v, statuses) = WithStatus(w, statuses)
  BY <1>1 DEF WithStatus
<1>3. \A e : PhaseOf(v, e) = PhaseOf(w, e)
  BY <1>1, <1>2 DEF PhaseOf
<1>. QED
  BY <1>3 DEF PhasesOf

\* A batch lets events wait that nobody had seen.
LEMMA BatchPhase ==
    ASSUME NEW w \in Warehouse, Tables(w), NEW scenario \in Scenarios, NEW count \in Nat,
           scenario = "duplicates" => Sources(w) # {}, NEW e,
           PhaseOf(Batch(w, scenario, count), e) # PhaseOf(w, e)
    PROVE  /\ PhaseOf(w, e) = "unseen"
           /\ PhaseOf(Batch(w, scenario, count), e) = "waiting"
<1> DEFINE b == Batch(w, scenario, count)
           n == Len(w.deliveries)
<1>1. /\ n \in Nat /\ Rows(b) = 1..(n + count) /\ Rows(w) = 1..n
      /\ \A i \in Rows(w) : b.deliveries[i] = w.deliveries[i]
      /\ \A k \in 1..count : b.deliveries[n + k] = Simulated(w, scenario, k - 1)
      /\ b.facts = w.facts
  BY BatchRows, RowsOfWarehouse DEF Tables
<1>2. \A k \in 1..count : b.deliveries[n + k].status = "pending"
  <2>1. \A k \in 1..count : k - 1 \in Nat
    OBVIOUS
  <2>. QED
    BY <1>1, <2>1, SimulatedRow DEF Tables
<1>3. \A i \in Rows(b) : i \in Rows(w) \/ \E k \in 1..count : i = n + k
  <2>1. \A i \in Rows(b) : i \in 1..n \/ (i - n \in 1..count /\ i = n + (i - n))
    BY <1>1
  <2>. QED
    BY <1>1, <2>1
<1>4. Rows(w) \subseteq Rows(b)
  BY <1>1
<1>. HIDE DEF b, n
<1>5. Loaded(b) = Loaded(w)
  BY <1>1 DEF Loaded
<1>6. Has(b, e, "quarantined") <=> Has(w, e, "quarantined")
  BY <1>1, <1>2, <1>3, <1>4 DEF Has
<1>7. Has(w, e, "pending") => Has(b, e, "pending")
  BY <1>1, <1>4 DEF Has
<1>. QED
  BY <1>5, <1>6, <1>7, PhaseCases DEF b

\* A run decides every event that waits, and no other.
LEMMA ProcessPhase ==
    ASSUME NEW w, Sound(w), NEW trigger \in Triggers, NEW e
    PROVE  LET q == AfterProcess(w, trigger, Pending(w)) IN
           /\ PhaseOf(q, e) # "waiting"
           /\ PhaseOf(q, e) # PhaseOf(w, e) =>
                PhaseOf(w, e) = "waiting" /\ PhaseOf(q, e) \in {"loaded", "held"}
<1> DEFINE selected == Pending(w)
           q == AfterProcess(w, trigger, selected)
<1>1. /\ w \in Warehouse /\ Tables(w) /\ selected \in SUBSET Rows(w)
  BY DEF Sound, Tables, WellTyped, Pending, WithStatus
<1>2. /\ Rows(q) = Rows(w)
      /\ \A i \in Rows(w) :
           /\ q.deliveries[i].event = w.deliveries[i].event
           /\ i \in selected => q.deliveries[i].status = Outcome(w, selected, i)
           /\ i \notin selected => q.deliveries[i] = w.deliveries[i]
      /\ q.facts = w.facts \cup
           {[event |-> w.deliveries[i].event, raw |-> w.deliveries[i].raw] :
               i \in {j \in selected : Outcome(w, selected, j) = "accepted"}}
  BY <1>1, ProcessRows
<1>3. \A i \in Rows(w) : i \in selected <=> w.deliveries[i].status = "pending"
  BY DEF Pending, WithStatus
<1>4. \A i \in selected : Outcome(w, selected, i) \in {"accepted", "duplicate", "quarantined"}
  BY <1>1, OutcomeCases
<1>. HIDE DEF q, selected
<1>5. ~Has(q, e, "pending")
  BY <1>2, <1>3, <1>4 DEF Has
<1>6. Loaded(w) \subseteq Loaded(q)
  BY <1>2 DEF Loaded
<1>7. ASSUME e \in Loaded(q), e \notin Loaded(w)
      PROVE  \E i \in selected : w.deliveries[i].event = e
  BY <1>2, <1>7 DEF Loaded
<1>8. ASSUME NEW i \in selected, Outcome(w, selected, i) = "accepted"
      PROVE  w.deliveries[i].event \in Loaded(q)
  <2>1. [event |-> w.deliveries[i].event, raw |-> w.deliveries[i].raw] \in q.facts
    BY <1>2, <1>8
  <2>2. [event |-> w.deliveries[i].event, raw |-> w.deliveries[i].raw].event
          = w.deliveries[i].event
    OBVIOUS
  <2>. QED
    BY <2>1, <2>2 DEF Loaded
<1>9. Has(w, e, "quarantined") => Has(q, e, "quarantined")
  BY <1>2, <1>3 DEF Has
<1>10. ASSUME Has(w, e, "quarantined")
       PROVE  \A i \in selected : w.deliveries[i].event # e
  <2>1. PICK j \in Rows(w) : w.deliveries[j].status = "quarantined" /\ w.deliveries[j].event = e
    BY <1>10 DEF Has
  <2>2. w.deliveries[j].raw \in Broken
    BY <1>1, <2>1 DEF Tables, StatusFollowsRaw
  <2>3. \A i \in Rows(w) \ {j} : w.deliveries[i].event # e
    BY <1>1, <2>1, <2>2 DEF Tables, AwaitsAlone
  <2>. QED
    BY <1>1, <1>3, <2>1, <2>3
<1>11. ASSUME NEW i \in selected, w.deliveries[i].event = e, e \notin Loaded(w)
       PROVE  e \in Loaded(q) \/ Has(q, e, "quarantined")
  <2>1. CASE Outcome(w, selected, i) = "accepted"
    BY <1>8, <1>11, <2>1
  <2>2. CASE Outcome(w, selected, i) = "quarantined"
    BY <1>1, <1>2, <1>11, <2>2 DEF Has
  <2>3. CASE Outcome(w, selected, i) = "duplicate"
    <3>1. AlreadyLoaded(w, selected, i)
      BY <1>1, <2>3, OutcomeCases
    <3>2. PICK j \in selected : /\ w.deliveries[j].event = w.deliveries[i].event
                                /\ w.deliveries[j].raw \in Clean
      BY <1>11, <3>1 DEF AlreadyLoaded
    <3>3. PICK k \in selected : /\ w.deliveries[k].event = w.deliveries[j].event
                                /\ Outcome(w, selected, k) = "accepted"
      BY <1>1, <1>11, <3>2, FirstClean
    <3>. QED
      BY <1>8, <1>11, <3>2, <3>3
  <2>. QED
    BY <1>4, <2>1, <2>2, <2>3
<1>12. ASSUME Has(q, e, "quarantined"), ~Has(w, e, "quarantined")
       PROVE  \E i \in selected : w.deliveries[i].event = e
  BY <1>2, <1>3, <1>12 DEF Has
<1>13. Has(w, e, "pending") <=> \E i \in selected : w.deliveries[i].event = e
  BY <1>1, <1>3 DEF Has
<1>14. PhaseOf(q, e) # "waiting"
  BY <1>5, PhaseCases
<1>15. CASE e \in Loaded(w)
  <2>1. PhaseOf(w, e) = "loaded" /\ PhaseOf(q, e) = "loaded"
    BY <1>6, <1>15, PhaseCases
  <2>. QED
    BY <2>1 DEF q, selected
<1>16. CASE e \notin Loaded(w) /\ Has(w, e, "quarantined")
  <2>1. e \notin Loaded(q)
    BY <1>7, <1>10, <1>16
  <2>2. PhaseOf(w, e) = "held" /\ PhaseOf(q, e) = "held"
    BY <1>9, <1>16, <2>1, PhaseCases
  <2>. QED
    BY <2>2 DEF q, selected
<1>17. CASE e \notin Loaded(w) /\ ~Has(w, e, "quarantined") /\ Has(w, e, "pending")
  <2>1. e \in Loaded(q) \/ Has(q, e, "quarantined")
    BY <1>11, <1>13, <1>17
  <2>2. PhaseOf(w, e) = "waiting" /\ PhaseOf(q, e) \in {"loaded", "held"}
    BY <1>17, <2>1, PhaseCases
  <2>. QED
    BY <1>14, <2>2 DEF q, selected
<1>18. CASE e \notin Loaded(w) /\ ~Has(w, e, "quarantined") /\ ~Has(w, e, "pending")
  <2>1. e \notin Loaded(q) /\ ~Has(q, e, "quarantined")
    BY <1>7, <1>12, <1>13, <1>18
  <2>2. PhaseOf(w, e) = "unseen" /\ PhaseOf(q, e) = "unseen"
    BY <1>5, <1>18, <2>1, PhaseCases
  <2>. QED
    BY <2>2 DEF q, selected
<1>. QED
  BY <1>15, <1>16, <1>17, <1>18

\* A replay loads the event it releases, and leaves the others where they are.
LEMMA ReplayPhase ==
    ASSUME NEW w, Sound(w), NEW i, ReplayAllowed(w, i), NEW e
    PROVE  LET r == AfterReplay(w, i) IN
           IF e = w.deliveries[i].event
           THEN PhaseOf(w, e) = "held" /\ PhaseOf(r, e) = "loaded"
           ELSE PhaseOf(r, e) = PhaseOf(w, e)
<1> DEFINE r == AfterReplay(w, i)
           new == Len(w.deliveries) + 1
<1>1. /\ r \in Warehouse /\ Rows(r) = 1..new /\ Rows(w) = 1..(new - 1)
      /\ \A j \in Rows(w) \ {i} : r.deliveries[j] = w.deliveries[j]
      /\ r.deliveries[i] = [w.deliveries[i] EXCEPT !.status = "replayed", !.replay = new]
      /\ r.deliveries[new].event = w.deliveries[i].event
      /\ r.deliveries[new].raw = "good"
      /\ r.deliveries[new].corrected = "none"
      /\ r.deliveries[new].status = "accepted"
      /\ r.deliveries[new].replay = 0
      /\ r.deliveries[new].run = Len(w.runs) + 1
      /\ r.deliveries[new].late = FALSE
      /\ r.facts = w.facts \cup {[event |-> w.deliveries[i].event, raw |-> "good"]}
      /\ r.cursor = w.cursor
      /\ Len(r.runs) = Len(w.runs) + 1
      /\ r.runs = Append(w.runs, OneAccepted)
      /\ Len(r.audit) <= MaxAudit
  BY ReplayRows
<1>2. /\ w \in Warehouse /\ i \in Rows(w) /\ w.deliveries[i] \in Delivery
      /\ w.deliveries[i].status = "quarantined" /\ w.deliveries[i].event \notin Loaded(w)
  <2>1. w \in Warehouse /\ i \in Rows(w)
    BY DEF Sound, WellTyped, ReplayAllowed, Replayable
  <2>. QED
    BY <2>1, RowsOfWarehouse DEF ReplayAllowed, Replayable
<1>3. /\ new \in Rows(r) /\ \A j \in Rows(r) : j \in Rows(w) \/ j = new
      /\ Rows(w) \subseteq Rows(r)
  <2>1. new \in Nat /\ new - 1 \in Nat
    BY <1>2, RowsOfWarehouse
  <2>2. Rows(r) = 1..new /\ Rows(w) = 1..(new - 1)
    BY <1>1
  <2>. HIDE DEF r, new
  <2>. QED
    BY <2>1, <2>2
<1>. HIDE DEF r, new
<1>4. r.deliveries[i].status = "replayed" /\ r.deliveries[i].event = w.deliveries[i].event
  BY <1>1, <1>2 DEF Delivery
<1>5. Loaded(r) = Loaded(w) \cup {w.deliveries[i].event}
  <2> DEFINE fact == [event |-> w.deliveries[i].event, raw |-> "good"]
  <2>1. r.facts = w.facts \cup {fact}
    BY <1>1
  <2>2. fact.event = w.deliveries[i].event
    OBVIOUS
  <2>. HIDE DEF fact
  <2>3. \A x : x \in Loaded(r) <=> x \in Loaded(w) \/ x = fact.event
    BY <2>1, Zenon DEF Loaded
  <2>. QED
    BY <2>2, <2>3
<1>6. CASE e = w.deliveries[i].event
  <2>1. Has(w, e, "quarantined") /\ e \notin Loaded(w) /\ e \in Loaded(r)
    BY <1>2, <1>5, <1>6 DEF Has
  <2>2. PhaseOf(w, e) = "held" /\ PhaseOf(r, e) = "loaded"
    BY <2>1, PhaseCases
  <2>. QED
    BY <1>6, <2>2 DEF r
<1>7. CASE e # w.deliveries[i].event
  <2>1. \A status : Has(r, e, status) <=> Has(w, e, status)
    <3>1. \A j \in Rows(w) \ {i} : r.deliveries[j] = w.deliveries[j]
      BY <1>1
    <3>2. r.deliveries[new].event # e /\ r.deliveries[i].event # e
      BY <1>1, <1>4, <1>7
    <3>3. ASSUME NEW status, NEW j \in Rows(r),
                 r.deliveries[j].event = e, r.deliveries[j].status = status
          PROVE  Has(w, e, status)
      <4>1. j \in Rows(w) \ {i}
        BY <1>3, <3>2, <3>3
      <4>. QED
        BY <3>1, <3>3, <4>1 DEF Has
    <3>4. ASSUME NEW status, NEW j \in Rows(w),
                 w.deliveries[j].event = e, w.deliveries[j].status = status
          PROVE  Has(r, e, status)
      <4>1. j # i /\ j \in Rows(r)
        BY <1>3, <1>7, <3>4
      <4>. QED
        BY <3>1, <3>4, <4>1 DEF Has
    <3>. QED
      BY <3>3, <3>4 DEF Has
  <2>2. e \in Loaded(r) <=> e \in Loaded(w)
    BY <1>5, <1>7
  <2>3. PhaseOf(r, e) = PhaseOf(w, e)
    BY <2>1, <2>2, PhaseCases
  <2>. QED
    BY <1>7, <2>3 DEF r
<1>. QED
  BY <1>6, <1>7

\* Every request of the sandbox is one step of the ledger, or none: an event is
\* loaded at most once, by the run that settles it or by an approval.
THEOREM WarehouseImplementsLedger == Spec => ImplementsLedger
<1>1. Init => Ledger!Init
  BY DEF Init, Ledger!Init
<1>2. ASSUME Inv, [Next]_db
      PROVE  Ledger!Next \/ PhasesOf(db') = PhasesOf(db)
  <2>1. Sound(db) /\ db \in Warehouse /\ Tables(db)
    BY <1>2 DEF Inv, Sound, Tables, WellTyped
  <2>2. PhasesOf(db') \in [EventNumbers -> Ledger!Phases]
    <3>1. \A e \in EventNumbers : PhaseOf(db', e) \in Ledger!Phases
      BY PhaseCases DEF Ledger!Phases
    <3>. QED
      BY <3>1 DEF PhasesOf
  <2>3. \A e \in EventNumbers : /\ PhasesOf(db)[e] = PhaseOf(db, e)
                                /\ PhasesOf(db')[e] = PhaseOf(db', e)
    BY DEF PhasesOf
  <2>4. ASSUME NEW scenario \in Scenarios, NEW count \in 1..MaxBatch,
               Simulate(scenario, count)
        PROVE  Ledger!Offer
    <3> DEFINE b == Batch(db, scenario, count)
    <3>1. count \in Nat /\ (scenario = "duplicates" => Sources(db) # {})
      BY <2>4, LimitsAssumption DEF Simulate, SimulateAllowed
    <3>2. b \in Warehouse
      BY <2>1, <3>1, BatchRows DEF Tables
    <3>3. PhasesOf(db') = PhasesOf(b)
      <4> HIDE DEF b
      <4>1. db' = [b EXCEPT !.revision = b.revision + 1, !.audit = Logged(b.audit, "staged")]
        BY <2>4 DEF Simulate, AfterSimulate, b
      <4>2. db'.deliveries = b.deliveries /\ db'.facts = b.facts
        BY <3>2, <4>1 DEF Warehouse
      <4>. QED
        BY <4>2, SamePhase
    <3>4. \A e \in EventNumbers : PhasesOf(b)[e] = PhaseOf(b, e)
      BY DEF PhasesOf
    <3>5. \A e \in EventNumbers : PhaseOf(b, e) # PhaseOf(db, e) =>
             PhaseOf(db, e) = "unseen" /\ PhaseOf(b, e) = "waiting"
      BY <2>1, <3>1, BatchPhase
    <3> HIDE DEF b
    <3>6. \A e \in EventNumbers : PhasesOf(db')[e] # PhasesOf(db)[e] =>
             PhasesOf(db)[e] \in {"unseen"} /\ PhasesOf(db')[e] \in {"waiting"}
      BY <2>3, <3>3, <3>4, <3>5
    <3>. QED
      BY <2>2, <3>6 DEF Ledger!Offer, Ledger!Moving
  <2>5. CASE RunPipeline
    <3>1. db' = AfterProcess(db, "manual", Pending(db)) /\ "manual" \in Triggers
      BY <2>5 DEF RunPipeline, Triggers
    <3>2. \A e \in EventNumbers :
            /\ PhaseOf(db', e) # "waiting"
            /\ PhaseOf(db', e) # PhaseOf(db, e) =>
                 PhaseOf(db, e) = "waiting" /\ PhaseOf(db', e) \in {"loaded", "held"}
      BY <2>1, <3>1, ProcessPhase
    <3>3. \A e \in EventNumbers :
            /\ PhasesOf(db')[e] # "waiting"
            /\ PhasesOf(db')[e] # PhasesOf(db)[e] =>
                 PhasesOf(db)[e] \in {"waiting"} /\ PhasesOf(db')[e] \in {"loaded", "held"}
      BY <2>3, <3>2
    <3>. QED
      BY <2>2, <3>3 DEF Ledger!Next, Ledger!Settle, Ledger!Moving
  <2>6. ASSUME NEW i \in Rows(db), Replay(i)
        PROVE  Ledger!Release \/ PhasesOf(db') = PhasesOf(db)
    <3> DEFINE e == db.deliveries[i].event
    <3>1. ReplayAllowed(db, i) /\ db' = AfterReplay(db, i)
      BY <2>6 DEF Replay
    <3>2. /\ PhaseOf(db, e) = "held" /\ PhaseOf(db', e) = "loaded"
          /\ \A d : d # e => PhaseOf(db', d) = PhaseOf(db, d)
      BY <2>1, <3>1, ReplayPhase
    <3> HIDE DEF e
    <3>3. CASE e \in EventNumbers
      <4>1. PhasesOf(db') = [PhasesOf(db) EXCEPT ![e] = "loaded"]
        BY <3>2, <3>3 DEF PhasesOf
      <4>2. PhasesOf(db)[e] = "held"
        BY <2>3, <3>2, <3>3
      <4>. QED
        BY <3>3, <4>1, <4>2 DEF Ledger!Release
    <3>4. CASE e \notin EventNumbers
      BY <3>2, <3>4 DEF PhasesOf
    <3>. QED
      BY <3>3, <3>4
  <2>7. CASE Reset
    BY <2>7 DEF Reset, Ledger!Next, Ledger!Restart
  <2>8. CASE Export
    <3>1. db'.deliveries = db.deliveries /\ db'.facts = db.facts
      BY <2>1, <2>8 DEF Export, Warehouse
    <3>. QED
      BY <3>1, SamePhase
  <2>9. CASE UNCHANGED db
    BY <2>9
  <2>. QED
    BY <1>2, <2>4, <2>5, <2>6, <2>7, <2>8, <2>9 DEF Next, Ledger!Next
<1>3. Inv /\ [Next]_db => [Ledger!Next]_(PhasesOf(db))
  BY <1>2
<1>. QED
  BY <1>1, <1>3, Soundness, PTL DEF Spec, ImplementsLedger, Ledger!Spec


-----------------------------------------------------------------------------
(* A request inside its transaction (WorkspaceTx).  The invariant TxInv says *)
(* of every step how the working copy follows from the committed warehouse:  *)
(* part of a batch, a run of which some rows are settled, or the outcome.    *)

\* A run of which only some rows are settled, and what it has counted of them.
HalfRows(w, selected, done) ==
    [i \in Rows(w) |-> IF i \in done THEN Settled(w, selected, i) ELSE w.deliveries[i]]

HalfFacts(w, selected, done) ==
    w.facts \cup {[event |-> w.deliveries[i].event, raw |-> w.deliveries[i].raw] :
                     i \in {j \in done : Outcome(w, selected, j) = "accepted"}}

HalfRun(w, selected, done) ==
    [w EXCEPT !.deliveries = HalfRows(w, selected, done),
              !.facts = HalfFacts(w, selected, done)]

CountedSoFar(w, selected, done, received) ==
    LET Of(outcome) == {i \in done : Outcome(w, selected, i) = outcome}
    IN  [received |-> Cardinality(received),
         accepted |-> Cardinality(Of("accepted")),
         quarantined |-> Cardinality(Of("quarantined")),
         duplicates |-> Cardinality(Of("duplicate")),
         late |-> Cardinality({i \in Of("accepted") : IsLate(w.deliveries[i].raw)})]

\* A batch of which the first k rows are staged; the generator is already past it.
PartBatch(w, scenario, count, k) ==
    [w EXCEPT !.deliveries = @ \o NewRows(w, scenario, k),
              !.cursor = IF scenario = "duplicates" THEN @ ELSE @ + count]

\* What the run of a request starts from, the rows it takes, and those of them that
\* pass the contract.
Base(w, request) == IF request.op = "replay" THEN WithCorrection(w, request.row) ELSE w
Chosen(w, request) == IF request.op = "replay" THEN {Len(w.deliveries) + 1} ELSE Pending(w)
Readable(w, request) ==
    {i \in Chosen(w, request) : ~ FailsContract(Base(w, request).deliveries[i].raw)}

\* The request is one that runs the pipeline, and so far nothing is in its way.
Prepared(w, request) == /\ request.op \in {"run", "replay"}
                        /\ request.op = "replay" => Replayable(w, request.row)

Running(w, request) == /\ Prepared(w, request)
                       /\ ProcessAllowed(Base(w, request), Chosen(w, request))

Result(w, request) ==
    CASE request.op = "simulate" -> AfterSimulate(w, request.scenario, request.count)
      [] request.op = "run"    -> AfterProcess(w, "manual", Pending(w))
      [] request.op = "replay" -> AfterReplay(w, request.row)
      [] request.op = "reset"  -> Seeded
      [] request.op = "export" -> [w EXCEPT !.audit = Logged(@, "exported")]

(* The invariant: at each step, how the working copy follows from the       *)
(* committed warehouse.                                                     *)

FillSteps == {"fill", "first run", "duplicates", "invalid", "late", "rehearsal"}

Steps == {"idle", "admit", "stage", "approve", "select", "contract", "quality",
          "close", "wipe", "note", "commit"} \cup FillSteps

Typed ==
    /\ tx.step \in Steps
    /\ At("idle") => tx = Idle
    /\ ~ At("idle") =>
          /\ tx = [step |-> tx.step, request |-> tx.request, todo |-> tx.todo,
                   parsed |-> tx.parsed, report |-> tx.report]
          /\ tx.request \in Requests

Starting ==
    /\ At("idle") \/ At("admit") \/ At("approve") \/ At("note") => work = db
    /\ At("admit") => tx.request.op = "simulate"
    /\ At("approve") => tx.request.op = "replay" /\ tx.parsed = {} /\ tx.report = NoReport
    /\ At("note") => tx.request.op = "export"
    /\ At("wipe") \/ tx.step \in FillSteps => tx.request.op = "reset"

\* initialize() is at one of its operations: the sample so far.
Filling ==
    /\ At("fill") => work = Empty
    /\ At("first run") => work = Batch(Empty, "normal", SeedNormal)
    /\ At("duplicates") => work = FirstRun
    /\ At("invalid") => work = AfterSimulate(FirstRun, "duplicates", SeedDuplicates)
    /\ At("late") => work = AfterSimulate(AfterSimulate(FirstRun, "duplicates", SeedDuplicates),
                                         "invalid", SeedInvalid)
    /\ At("rehearsal") => work = Rehearsal

Staging ==
    At("stage") =>
        /\ tx.request.op = "simulate"
        /\ SimulateAllowed(db, tx.request.scenario, tx.request.count)
        /\ \E k \in 0..tx.request.count :
              /\ tx.todo = (k + 1)..tx.request.count
              /\ work = PartBatch(db, tx.request.scenario, tx.request.count, k)

Selecting ==
    At("select") =>
        /\ Prepared(db, tx.request)
        /\ work = Base(db, tx.request)
        /\ tx.parsed = {} /\ tx.report = NoReport

ReadingRows ==
    At("contract") =>
        LET taken == Chosen(db, tx.request) \ tx.todo
            refused == taken \ Readable(db, tx.request)
        IN  /\ Running(db, tx.request)
            /\ tx.todo \subseteq Chosen(db, tx.request)
            /\ tx.parsed = taken \cap Readable(db, tx.request)
            /\ work = HalfRun(Base(db, tx.request), Chosen(db, tx.request), refused)
            /\ tx.report = CountedSoFar(Base(db, tx.request), Chosen(db, tx.request),
                                        refused, taken)

Judging ==
    At("quality") =>
        LET done == Chosen(db, tx.request) \ tx.todo
        IN  /\ Running(db, tx.request)
            /\ tx.todo \subseteq Readable(db, tx.request)
            /\ \A i \in done \cap Readable(db, tx.request), j \in tx.todo : i < j
            /\ work = HalfRun(Base(db, tx.request), Chosen(db, tx.request), done)
            /\ tx.report = CountedSoFar(Base(db, tx.request), Chosen(db, tx.request),
                                        done, Chosen(db, tx.request))

Finishing ==
    /\ At("close") =>
          /\ tx.request.op = "replay" /\ ReplayAllowed(db, tx.request.row)
          /\ work = AfterProcess(Base(db, tx.request), "approved_replay",
                                 Chosen(db, tx.request))
    /\ At("commit") => Permitted(db, tx.request) /\ work = Result(db, tx.request)

TxInv == /\ Sound(db)
         /\ Typed /\ Starting /\ Filling
         /\ Staging /\ Selecting /\ ReadingRows /\ Judging /\ Finishing


-----------------------------------------------------------------------------
(* The loops, on warehouse values.                                          *)

\* The loops take the least row there is.
LEMMA FirstIsLeast ==
    ASSUME NEW S, S \subseteq Nat, S # {}
    PROVE  First(S) \in S /\ \A j \in S : First(S) <= j
<1> DEFINE R == {p \in Nat \X Nat : p[1] < p[2]}
<1>1. IsWellFoundedOn(R, Nat)
  <2>1. R = OpToRel(<, Nat)
    BY DEF OpToRel
  <2>. QED
    BY <2>1, NatLessThanWellFounded
<1>2. PICK m \in S : \A y \in S : ~ (<<y, m>> \in R)
  <2> HIDE DEF R
  <2>. QED
    BY <1>1, WFMin
<1>3. ASSUME NEW y \in S PROVE m <= y
  <2>1. y \in Nat /\ m \in Nat /\ ~ (<<y, m>> \in R)
    BY <1>2
  <2>2. <<y, m>> \in Nat \X Nat /\ <<y, m>>[1] = y /\ <<y, m>>[2] = m
    BY <2>1
  <2>3. ~ (y < m)
    BY <2>1, <2>2
  <2>. QED
    BY <2>1, <2>3
<1>4. \E i \in S : \A j \in S : i <= j
  BY <1>3
<1>. QED
  BY <1>4 DEF First

\* What the loops write for one row, and what they count.
Marked(v, i, status, late) ==
    [v EXCEPT !.deliveries[i] =
        [@ EXCEPT !.status = status, !.run = Len(v.runs) + 1, !.late = late]]

WithFact(v, event, raw) == [v EXCEPT !.facts = @ \cup {[event |-> event, raw |-> raw]}]

OneReceived(c) == [c EXCEPT !.received = @ + 1]
OneLoaded(c, late) == [c EXCEPT !.accepted = @ + 1, !.late = IF late THEN @ + 1 ELSE @]
OneSuppressed(c) == [c EXCEPT !.duplicates = @ + 1]
OneHeldBack(c) == [c EXCEPT !.quarantined = @ + 1]

\* Before the first row nothing is settled and nothing counted.
LEMMA NothingTaken ==
    ASSUME NEW w \in Warehouse, NEW selected
    PROVE  HalfRun(w, selected, {}) = w /\ CountedSoFar(w, selected, {}, {}) = NoReport
<1>1. HalfRows(w, selected, {}) = w.deliveries
  BY DEF Warehouse, Rows, HalfRows
<1>2. HalfFacts(w, selected, {}) = w.facts
  BY DEF HalfFacts
<1>3. HalfRun(w, selected, {}) = w
  BY <1>1, <1>2 DEF HalfRun, Warehouse
<1>4. CountedSoFar(w, selected, {}, {}) = NoReport
  BY FS_EmptySet DEF CountedSoFar, NoReport
<1>. QED
  BY <1>3, <1>4

\* A run that has settled some of its rows: what its warehouse looks like.
LEMMA HalfRunRows ==
    ASSUME NEW w \in Warehouse, NEW selected \in SUBSET Rows(w), NEW done \in SUBSET selected
    PROVE  LET v == HalfRun(w, selected, done) IN
           /\ v.deliveries = HalfRows(w, selected, done)
           /\ v.facts = HalfFacts(w, selected, done)
           /\ v.runs = w.runs /\ v.revision = w.revision /\ v.audit = w.audit
           /\ v.cursor = w.cursor
           /\ \A i \in Rows(w) : /\ v.deliveries[i].event = w.deliveries[i].event
                                 /\ v.deliveries[i].raw = w.deliveries[i].raw
           /\ \A i \in Rows(w) \ done : v.deliveries[i] = w.deliveries[i]
<1> DEFINE v == HalfRun(w, selected, done)
           rows == HalfRows(w, selected, done)
<1>1. \A i \in Rows(w) : w.deliveries[i] \in Delivery
  BY RowsOfWarehouse
<1>2. \A i \in Rows(w) : Settled(w, selected, i).event = w.deliveries[i].event
                         /\ Settled(w, selected, i).raw = w.deliveries[i].raw
  BY <1>1 DEF Settled, Delivery
<1>3. \A i \in Rows(w) : rows[i].event = w.deliveries[i].event /\ rows[i].raw = w.deliveries[i].raw
  BY <1>2 DEF HalfRows
<1>4. \A i \in Rows(w) \ done : rows[i] = w.deliveries[i]
  BY DEF HalfRows
<1>5. /\ v.deliveries = rows /\ v.facts = HalfFacts(w, selected, done)
      /\ v.runs = w.runs /\ v.revision = w.revision /\ v.audit = w.audit
      /\ v.cursor = w.cursor
  BY DEF HalfRun, Warehouse
<1>. HIDE DEF v, rows
<1>. QED
  BY <1>3, <1>4, <1>5 DEF v, rows

\* Settling one row more, as the loops write it.
LEMMA SettleOne ==
    ASSUME NEW w \in Warehouse, NEW selected \in SUBSET Rows(w), NEW done \in SUBSET selected,
           NEW i \in selected \ done
    PROVE  LET v == HalfRun(w, selected, done)
           IN  /\ Outcome(w, selected, i) = "accepted" =>
                    WithFact(Marked(v, i, "accepted", IsLate(w.deliveries[i].raw)),
                             w.deliveries[i].event, w.deliveries[i].raw)
                      = HalfRun(w, selected, done \cup {i})
               /\ Outcome(w, selected, i) # "accepted" =>
                    Marked(v, i, Outcome(w, selected, i), FALSE)
                      = HalfRun(w, selected, done \cup {i})
<1> DEFINE v == HalfRun(w, selected, done)
           late == (Outcome(w, selected, i) = "accepted") /\ IsLate(w.deliveries[i].raw)
           row == [v.deliveries[i] EXCEPT !.status = Outcome(w, selected, i),
                                          !.run = Len(v.runs) + 1, !.late = late]
           rows == [v.deliveries EXCEPT ![i] = row]
           marked == [v EXCEPT !.deliveries = rows]
           h == HalfRun(w, selected, done \cup {i})
           fact == [event |-> w.deliveries[i].event, raw |-> w.deliveries[i].raw]
<1>1. i \in Rows(w) /\ i \notin done /\ done \cup {i} \in SUBSET selected
  OBVIOUS
<1>2. /\ v.deliveries = HalfRows(w, selected, done)
      /\ v.facts = HalfFacts(w, selected, done)
      /\ v.runs = w.runs
      /\ v.deliveries[i] = w.deliveries[i]
  BY <1>1, HalfRunRows
<1>3. v = [w EXCEPT !.deliveries = HalfRows(w, selected, done),
                    !.facts = HalfFacts(w, selected, done)]
  BY DEF HalfRun
<1>4. h = [w EXCEPT !.deliveries = HalfRows(w, selected, done \cup {i}),
                    !.facts = HalfFacts(w, selected, done \cup {i})]
  BY DEF HalfRun
<1>. HIDE DEF v, h
<1>5. row = Settled(w, selected, i)
  BY <1>2 DEF Settled
<1>. HIDE DEF row
<1>6. rows = HalfRows(w, selected, done \cup {i})
  BY <1>1, <1>2, <1>5 DEF HalfRows
<1>. HIDE DEF rows
<1>7. marked = [w EXCEPT !.deliveries = HalfRows(w, selected, done \cup {i}),
                         !.facts = HalfFacts(w, selected, done)]
  BY <1>3, <1>6 DEF Warehouse
<1>8. CASE Outcome(w, selected, i) = "accepted"
  <2>1. late = IsLate(w.deliveries[i].raw)
    BY <1>8 DEF IsLate
  <2>2. {k \in done \cup {i} : Outcome(w, selected, k) = "accepted"}
            = {k \in done : Outcome(w, selected, k) = "accepted"} \cup {i}
    BY <1>8
  <2>3. HalfFacts(w, selected, done) \cup
            {[event |-> w.deliveries[i].event, raw |-> w.deliveries[i].raw]}
          = HalfFacts(w, selected, done \cup {i})
    BY <2>2 DEF HalfFacts
  <2>4. HalfFacts(w, selected, done) \cup {fact} = HalfFacts(w, selected, done \cup {i})
    BY <2>3
  <2>. HIDE DEF fact
  <2>5. marked.facts = HalfFacts(w, selected, done)
    BY <1>7 DEF Warehouse
  <2>6. [marked EXCEPT !.facts = marked.facts \cup {fact}] = h
    BY <1>4, <1>7, <2>4, <2>5 DEF Warehouse
  <2>7. marked = Marked(v, i, "accepted", IsLate(w.deliveries[i].raw))
    BY <1>8, <2>1 DEF Marked, rows, row
  <2>8. WithFact(marked, w.deliveries[i].event, w.deliveries[i].raw) = h
    BY <2>6 DEF WithFact, fact
  <2>. QED
    BY <1>8, <2>7, <2>8 DEF v, h
<1>9. CASE Outcome(w, selected, i) # "accepted"
  <2>1. {k \in done \cup {i} : Outcome(w, selected, k) = "accepted"}
            = {k \in done : Outcome(w, selected, k) = "accepted"}
    BY <1>9
  <2>2. HalfFacts(w, selected, done) = HalfFacts(w, selected, done \cup {i})
    BY <2>1 DEF HalfFacts
  <2>3. marked = h
    BY <1>4, <1>7, <2>2
  <2>4. late = FALSE
    BY <1>9
  <2>5. marked = Marked(v, i, Outcome(w, selected, i), FALSE)
    BY <2>4 DEF Marked, rows, row
  <2>. QED
    BY <1>9, <2>3, <2>5 DEF v, h
<1>. QED
  BY <1>8, <1>9

\* Counting one row more.
LEMMA CountOne ==
    ASSUME NEW w \in Warehouse, NEW selected \in SUBSET Rows(w), NEW done \in SUBSET selected,
           NEW i \in selected \ done, NEW received
    PROVE  LET c == CountedSoFar(w, selected, done, received)
               d == CountedSoFar(w, selected, done \cup {i}, received)
           IN  /\ Outcome(w, selected, i) = "accepted" =>
                      d = OneLoaded(c, IsLate(w.deliveries[i].raw))
               /\ Outcome(w, selected, i) = "duplicate" => d = OneSuppressed(c)
               /\ Outcome(w, selected, i) = "quarantined" => d = OneHeldBack(c)
<1> DEFINE Of(outcome) == {j \in done : Outcome(w, selected, j) = outcome}
           More(outcome) == {j \in done \cup {i} : Outcome(w, selected, j) = outcome}
           OfLate == {j \in Of("accepted") : IsLate(w.deliveries[j].raw)}
           MoreLate == {j \in More("accepted") : IsLate(w.deliveries[j].raw)}
           c == CountedSoFar(w, selected, done, received)
           d == CountedSoFar(w, selected, done \cup {i}, received)
<1>1. \A T \in SUBSET done : /\ IsFiniteSet(T) /\ i \notin T
                             /\ Cardinality(T \cup {i}) = Cardinality(T) + 1
  <2>1. \A T \in SUBSET done : IsFiniteSet(T) /\ i \notin T
    BY RowsOfWarehouse, FS_Subset
  <2>. QED
    BY <2>1, FS_AddElement
<1>2. \A outcome : Of(outcome) \in SUBSET done
  OBVIOUS
<1>3. OfLate \in SUBSET done
  OBVIOUS
<1>4. \A outcome : More(outcome) = IF Outcome(w, selected, i) = outcome
                                   THEN Of(outcome) \cup {i} ELSE Of(outcome)
  OBVIOUS
<1>5. MoreLate = IF Outcome(w, selected, i) = "accepted" /\ IsLate(w.deliveries[i].raw)
                 THEN OfLate \cup {i} ELSE OfLate
  OBVIOUS
<1>6. c = [received |-> Cardinality(received),
           accepted |-> Cardinality(Of("accepted")),
           quarantined |-> Cardinality(Of("quarantined")),
           duplicates |-> Cardinality(Of("duplicate")),
           late |-> Cardinality(OfLate)]
  BY DEF CountedSoFar
<1>7. d = [received |-> Cardinality(received),
           accepted |-> Cardinality(More("accepted")),
           quarantined |-> Cardinality(More("quarantined")),
           duplicates |-> Cardinality(More("duplicate")),
           late |-> Cardinality(MoreLate)]
  BY DEF CountedSoFar
<1>. HIDE DEF Of, More, OfLate, MoreLate
<1>8. \A outcome : Cardinality(More(outcome)) = IF Outcome(w, selected, i) = outcome
                     THEN Cardinality(Of(outcome)) + 1 ELSE Cardinality(Of(outcome))
  BY <1>1, <1>2, <1>4
<1>9. Cardinality(MoreLate)
        = IF Outcome(w, selected, i) = "accepted" /\ IsLate(w.deliveries[i].raw)
          THEN Cardinality(OfLate) + 1 ELSE Cardinality(OfLate)
  BY <1>1, <1>3, <1>5
<1>. HIDE DEF c, d
<1>10. ASSUME Outcome(w, selected, i) = "accepted"
       PROVE  d = [c EXCEPT !.accepted = @ + 1,
                            !.late = IF IsLate(w.deliveries[i].raw) THEN @ + 1 ELSE @]
  <2> DEFINE r == Cardinality(received)
             n == Cardinality(Of("accepted"))
             q == Cardinality(Of("quarantined"))
             u == Cardinality(Of("duplicate"))
             l == Cardinality(OfLate)
             more == Cardinality(MoreLate)
  <2>1. c = [received |-> r, accepted |-> n, quarantined |-> q, duplicates |-> u, late |-> l]
    BY <1>6
  <2>2. d = [received |-> r, accepted |-> n + 1, quarantined |-> q, duplicates |-> u,
             late |-> more]
    BY <1>7, <1>8, <1>10
  <2>3. IsLate(w.deliveries[i].raw) => more = l + 1
    BY <1>9, <1>10
  <2>4. ~ IsLate(w.deliveries[i].raw) => more = l
    BY <1>9, <1>10
  <2>. HIDE DEF r, n, q, u, l, more
  <2>5. c.accepted = n /\ c.late = l
    BY <2>1
  <2>6. [c EXCEPT !.accepted = n + 1]
          = [received |-> r, accepted |-> n + 1, quarantined |-> q, duplicates |-> u, late |-> l]
    BY <2>1
  <2>7. d = [[c EXCEPT !.accepted = n + 1] EXCEPT !.late = more]
    <3> DEFINE half == [c EXCEPT !.accepted = n + 1]
    <3>1. half = [received |-> r, accepted |-> n + 1, quarantined |-> q, duplicates |-> u,
                  late |-> l]
      BY <2>6
    <3>. HIDE DEF half
    <3>2. [half EXCEPT !.late = more]
            = [received |-> r, accepted |-> n + 1, quarantined |-> q, duplicates |-> u,
               late |-> more]
      BY <3>1
    <3>3. d = [half EXCEPT !.late = more]
      BY <2>2, <3>2
    <3>. QED
      BY <3>3 DEF half
  <2>8. d = [c EXCEPT !.accepted = n + 1, !.late = more]
    BY <2>7
  <2>9. d = [c EXCEPT !.accepted = c.accepted + 1, !.late = more]
    BY <2>5, <2>8
  <2>. QED
    BY <2>3, <2>4, <2>5, <2>9
<1>11. ASSUME Outcome(w, selected, i) = "duplicate" PROVE d = [c EXCEPT !.duplicates = @ + 1]
  BY <1>6, <1>7, <1>8, <1>9, <1>11
<1>12. ASSUME Outcome(w, selected, i) = "quarantined" PROVE d = [c EXCEPT !.quarantined = @ + 1]
  BY <1>6, <1>7, <1>8, <1>9, <1>12
<1>. QED
  BY <1>10, <1>11, <1>12 DEF c, d, OneLoaded, OneSuppressed, OneHeldBack

\* Receiving one row more.
LEMMA ReceiveOne ==
    ASSUME NEW w, NEW selected, NEW done, NEW received, IsFiniteSet(received),
           NEW i, i \notin received
    PROVE  CountedSoFar(w, selected, done, received \cup {i})
             = OneReceived(CountedSoFar(w, selected, done, received))
<1>1. Cardinality(received \cup {i}) = Cardinality(received) + 1
  BY FS_AddElement
<1> DEFINE Of(outcome) == {j \in done : Outcome(w, selected, j) = outcome}
           a == Cardinality(Of("accepted"))
           q == Cardinality(Of("quarantined"))
           d == Cardinality(Of("duplicate"))
           l == Cardinality({j \in Of("accepted") : IsLate(w.deliveries[j].raw)})
<1>2. \A S : CountedSoFar(w, selected, done, S)
              = [received |-> Cardinality(S), accepted |-> a, quarantined |-> q,
                 duplicates |-> d, late |-> l]
  BY DEF CountedSoFar
<1>. HIDE DEF a, q, d, l
<1>. QED
  BY <1>1, <1>2 DEF OneReceived

\* When its turn comes, the event of a row is in event_fact if and only if the row is
\* a duplicate in the sense of the whole run: what the run has loaded so far
\* are the events of the rows before it.
LEMMA LookedUp ==
    ASSUME NEW w \in Warehouse, NEW selected \in SUBSET Rows(w), NEW done \in SUBSET selected,
           NEW i \in selected \ done,
           \A j \in done : ~ FailsContract(w.deliveries[j].raw) => j < i,
           \A j \in selected \ done : ~ FailsContract(w.deliveries[j].raw) /\ i <= j
    PROVE  w.deliveries[i].event \in Loaded(HalfRun(w, selected, done))
             <=> AlreadyLoaded(w, selected, i)
<1> DEFINE v == HalfRun(w, selected, done)
           e == w.deliveries[i].event
<1>1. \A x : x \in Loaded(v) <=>
          \/ x \in Loaded(w)
          \/ \E j \in done : /\ Outcome(w, selected, j) = "accepted"
                             /\ w.deliveries[j].event = x
  <2>1. v.facts = HalfFacts(w, selected, done)
    BY HalfRunRows
  <2>. HIDE DEF v
  <2>2. ASSUME NEW x, x \in Loaded(v)
        PROVE  \/ x \in Loaded(w)
               \/ \E j \in done : Outcome(w, selected, j) = "accepted" /\ w.deliveries[j].event = x
    <3>1. PICK f \in HalfFacts(w, selected, done) : f.event = x
      BY <2>1, <2>2 DEF Loaded
    <3>2. CASE f \in w.facts
      BY <3>1, <3>2 DEF Loaded
    <3>3. CASE f \notin w.facts
      <4>1. PICK j \in done : /\ Outcome(w, selected, j) = "accepted"
                              /\ f = [event |-> w.deliveries[j].event, raw |-> w.deliveries[j].raw]
        BY <3>1, <3>3 DEF HalfFacts
      <4>2. f.event = w.deliveries[j].event
        BY <4>1
      <4>. QED
        BY <3>1, <4>1, <4>2
    <3>. QED
      BY <3>2, <3>3
  <2>3. ASSUME NEW x, x \in Loaded(w) PROVE x \in Loaded(v)
    BY <2>1, <2>3 DEF Loaded, HalfFacts
  <2>4. ASSUME NEW j \in done, Outcome(w, selected, j) = "accepted"
        PROVE  w.deliveries[j].event \in Loaded(v)
    <3> DEFINE f == [event |-> w.deliveries[j].event, raw |-> w.deliveries[j].raw]
    <3>1. f \in v.facts
      BY <2>1, <2>4 DEF HalfFacts
    <3>2. f.event = w.deliveries[j].event
      OBVIOUS
    <3>. HIDE DEF f
    <3>. QED
      BY <3>1, <3>2 DEF Loaded
  <2>. QED
    BY <2>2, <2>3, <2>4
<1>2. ASSUME AlreadyLoaded(w, selected, i), e \notin Loaded(w) PROVE e \in Loaded(v)
  <2>1. PICK j \in selected : /\ j < i /\ w.deliveries[j].event = e
                              /\ w.deliveries[j].raw \in Clean
    BY <1>2 DEF AlreadyLoaded
  <2>2. PICK k \in selected : /\ k <= j /\ w.deliveries[k].event = w.deliveries[j].event
                              /\ Outcome(w, selected, k) = "accepted"
    BY <1>2, <2>1, FirstClean
  <2>3. k < i /\ ~ (i <= k)
    <3>1. i \in Nat /\ j \in Nat /\ k \in Nat
      BY <2>1, <2>2, RowsOfWarehouse
    <3>. QED
      BY <2>1, <2>2, <3>1
  <2>4. k \in done
    BY <2>3
  <2>. QED
    BY <1>1, <2>1, <2>2, <2>4
<1>3. ASSUME NEW j \in done, Outcome(w, selected, j) = "accepted", w.deliveries[j].event = e
      PROVE  AlreadyLoaded(w, selected, i)
  <2>1. w.deliveries[j].raw \in Clean
    BY <1>3, OutcomeCases
  <2>2. j < i
    BY <2>1 DEF Clean, FailsContract
  <2>. QED
    BY <1>3, <2>1, <2>2 DEF AlreadyLoaded
<1>4. e \in Loaded(w) => AlreadyLoaded(w, selected, i)
  BY DEF AlreadyLoaded
<1>. HIDE DEF v
<1>5. e \in Loaded(v) <=> AlreadyLoaded(w, selected, i)
  BY <1>1, <1>2, <1>3, <1>4
<1>. QED
  BY <1>5 DEF v

\* Once every row is settled, the report and the stamps make it a whole run.
LEMMA RunDone ==
    ASSUME NEW w \in Warehouse, NEW selected \in SUBSET Rows(w), NEW trigger
    PROVE  LET v == HalfRun(w, selected, selected)
               c == CountedSoFar(w, selected, selected, selected)
               run == [trigger |-> trigger, received |-> c.received, accepted |-> c.accepted,
                       quarantined |-> c.quarantined, duplicates |-> c.duplicates,
                       late |-> c.late]
           IN  [v EXCEPT !.runs = Append(@, run), !.revision = @ + 1,
                         !.audit = Logged(@, "completed")]
                 = AfterProcess(w, trigger, selected)
<1> DEFINE v == HalfRun(w, selected, selected)
           c == CountedSoFar(w, selected, selected, selected)
           run == [trigger |-> trigger, received |-> c.received, accepted |-> c.accepted,
                   quarantined |-> c.quarantined, duplicates |-> c.duplicates,
                   late |-> c.late]
           rows == [i \in Rows(w) |-> IF i \in selected THEN Settled(w, selected, i)
                                                       ELSE w.deliveries[i]]
           facts == w.facts \cup
                {[event |-> w.deliveries[i].event, raw |-> w.deliveries[i].raw] :
                    i \in {j \in selected : Outcome(w, selected, j) = "accepted"}}
<1>1. run = RunRecord(w, trigger, selected)
  BY DEF RunRecord, CountedSoFar
<1>2. v = [w EXCEPT !.deliveries = rows, !.facts = facts]
  BY DEF HalfRun, HalfRows, HalfFacts
<1>3. AfterProcess(w, trigger, selected) =
        [w EXCEPT !.deliveries = rows, !.facts = facts,
                  !.runs = Append(w.runs, RunRecord(w, trigger, selected)),
                  !.revision = w.revision + 1, !.audit = Logged(w.audit, "completed")]
  BY DEF AfterProcess
<1>. HIDE DEF v, run, rows, facts
<1>4. v.runs = w.runs /\ v.revision = w.revision /\ v.audit = w.audit
  BY <1>2 DEF Warehouse
<1>5. [v EXCEPT !.runs = Append(v.runs, run), !.revision = v.revision + 1,
                !.audit = Logged(v.audit, "completed")]
        = AfterProcess(w, trigger, selected)
  BY <1>1, <1>2, <1>3, <1>4 DEF Warehouse
<1>. QED
  BY <1>5 DEF v, run

\* Staging one row more.
LEMMA StageOne ==
    ASSUME NEW w \in Warehouse, StatusFollowsRaw(w), NEW scenario \in Scenarios,
           NEW count \in Nat, NEW k \in Nat, scenario = "duplicates" => Sources(w) # {}
    PROVE  LET p == PartBatch(w, scenario, count, k)
           IN  [p EXCEPT !.deliveries = Append(@, Simulated(w, scenario, k))]
                 = PartBatch(w, scenario, count, k + 1)
<1> DEFINE p == PartBatch(w, scenario, count, k)
           new == NewRows(w, scenario, k)
           more == NewRows(w, scenario, k + 1)
           cursor == IF scenario = "duplicates" THEN w.cursor ELSE w.cursor + count
<1>1. w.deliveries \in Seq(Delivery)
  BY DEF Warehouse
<1>2. \A j \in 1..(k + 1) : Simulated(w, scenario, j - 1) \in Delivery
  <2>1. \A j \in 1..(k + 1) : j - 1 \in Nat
    OBVIOUS
  <2>. QED
    BY <2>1, SimulatedRow
<1>3. /\ new \in Seq(Delivery) /\ Len(new) = k
      /\ \A j \in 1..k : new[j] = Simulated(w, scenario, j - 1)
  BY <1>2, IsASeq DEF NewRows
<1>4. /\ more \in Seq(Delivery) /\ Len(more) = k + 1
      /\ \A j \in 1..(k + 1) : more[j] = Simulated(w, scenario, j - 1)
  BY <1>2, IsASeq DEF NewRows
<1>5. more = Append(new, Simulated(w, scenario, k))
  <2> DEFINE x == Simulated(w, scenario, k)
  <2>1. x \in Delivery
    BY SimulatedRow
  <2>2. more[k + 1] = x
    BY <1>4
  <2>. HIDE DEF new, more, x
  <2>3. /\ Append(new, x) \in Seq(Delivery) /\ Len(Append(new, x)) = k + 1
        /\ \A j \in 1..k : Append(new, x)[j] = new[j]
        /\ Append(new, x)[k + 1] = x
    BY <1>3, <2>1, AppendProperties
  <2>4. \A j \in 1..(k + 1) : Append(new, x)[j] = more[j]
    BY <1>3, <1>4, <2>2, <2>3
  <2>. QED
    BY <1>4, <2>3, <2>4, SeqEqual DEF x
<1>6. Append(w.deliveries \o new, Simulated(w, scenario, k)) = w.deliveries \o more
  <2> DEFINE x == Simulated(w, scenario, k)
             old == w.deliveries
  <2>1. old \in Seq(Delivery) /\ new \in Seq(Delivery) /\ x \in Delivery
        /\ more = Append(new, x)
    BY <1>1, <1>3, <1>5, SimulatedRow
  <2>. HIDE DEF new, more, x, old
  <2>2. old \o new \in Seq(Delivery) /\ <<x>> \in Seq(Delivery)
    BY <2>1, ConcatProperties
  <2>3. Append(old \o new, x) = (old \o new) \o <<x>> /\ Append(new, x) = new \o <<x>>
    BY <2>1, <2>2, AppendIsConcat
  <2>4. (old \o new) \o <<x>> = old \o (new \o <<x>>)
    BY <2>1, <2>2, ConcatAssociative
  <2>5. Append(old \o new, x) = old \o more
    BY <2>1, <2>3, <2>4
  <2>. QED
    BY <2>5 DEF x, old
<1>7. p = [w EXCEPT !.deliveries = w.deliveries \o new, !.cursor = cursor]
  BY DEF PartBatch
<1>8. PartBatch(w, scenario, count, k + 1)
        = [w EXCEPT !.deliveries = w.deliveries \o more, !.cursor = cursor]
  BY DEF PartBatch
<1>. HIDE DEF p, new, more, cursor
<1>9. p.deliveries = w.deliveries \o new
  BY <1>7 DEF Warehouse
<1>10. [p EXCEPT !.deliveries = Append(p.deliveries, Simulated(w, scenario, k))]
         = PartBatch(w, scenario, count, k + 1)
  BY <1>6, <1>7, <1>8, <1>9 DEF Warehouse
<1>. QED
  BY <1>10 DEF p
-----------------------------------------------------------------------------
(* The steps.                                                               *)

\* What a request may be.
LEMMA RequestKinds ==
    ASSUME NEW r \in Requests
    PROVE  /\ r.op \in {"simulate", "run", "replay", "reset", "export"}
           /\ r.op = "simulate" => r.scenario \in Scenarios /\ r.count \in 1..MaxBatch
           /\ r.op = "replay" => r.row \in 1..MaxEvents
BY DEF Requests

\* What a run starts from is a warehouse that holds the rows it takes.
LEMMA RunStarts ==
    ASSUME NEW w, Sound(w), NEW r \in Requests, Prepared(w, r)
    PROVE  /\ Base(w, r) \in Warehouse
           /\ Base(w, r).runs = w.runs
           /\ Chosen(w, r) \in SUBSET Rows(Base(w, r))
           /\ r.op = "replay" =>
                /\ Len(Base(w, r).deliveries) = Len(w.deliveries) + 1
                /\ Readable(w, r) = Chosen(w, r)
           /\ Running(w, r) <=> Permitted(w, r)
<1>1. w \in Warehouse
  BY DEF Sound, WellTyped
<1>2. CASE r.op = "run"
  <2>1. Base(w, r) = w /\ Chosen(w, r) = Pending(w)
    BY <1>2 DEF Base, Chosen
  <2>2. Pending(w) \subseteq Rows(w)
    BY <1>1, RowsOfWarehouse DEF Pending
  <2>. QED
    BY <1>1, <1>2, <2>1, <2>2 DEF Running, Prepared, Permitted
<1>3. CASE r.op = "replay"
  <2> DEFINE i == r.row
             n == Len(w.deliveries)
             row == Staged(w.deliveries[i].event, w.deliveries[i].corrected, "none")
             b == Base(w, r)
  <2>1. Replayable(w, i)
    BY <1>3 DEF Prepared
  <2>2. w.deliveries[i] \in Delivery /\ w.deliveries[i].corrected \in Raw
        /\ w.deliveries \in Seq(Delivery) /\ n \in Nat
    BY <1>1, <2>1, RowsOfWarehouse DEF Replayable, Delivery, Warehouse
  <2>3. row \in Delivery /\ row.raw = w.deliveries[i].corrected
    <3>1. w.deliveries[i].event \in Nat
      BY <2>2 DEF Delivery
    <3>. QED
      BY <2>2, <3>1, StagedRow
  <2>4. b = [w EXCEPT !.deliveries = Append(w.deliveries, row)]
    BY <1>3 DEF Base, WithCorrection
  <2>. HIDE DEF row, b
  <2>5. /\ Append(w.deliveries, row) \in Seq(Delivery)
        /\ Len(Append(w.deliveries, row)) = n + 1
        /\ Append(w.deliveries, row)[n + 1] = row
    BY <2>2, <2>3, AppendProperties
  <2>6. b \in Warehouse /\ b.runs = w.runs /\ b.deliveries = Append(w.deliveries, row)
    BY <1>1, <2>4, <2>5 DEF Warehouse
  <2>7. Rows(b) = 1..(n + 1)
    BY <2>5, <2>6, RowsOfWarehouse
  <2>8. Chosen(w, r) = {n + 1}
    BY <1>3 DEF Chosen
  <2>9. ~ FailsContract(b.deliveries[n + 1].raw)
    BY <2>1, <2>3, <2>5, <2>6 DEF Replayable
  <2>10. Readable(w, r) = Chosen(w, r)
    BY <2>8, <2>9 DEF Readable, b
  <2>11. Running(w, r) <=> Permitted(w, r)
    BY <1>3, <2>1, <2>6, <2>8
    DEF Running, Prepared, ProcessAllowed, Permitted, ReplayAllowed, b
  <2>. QED
    BY <2>2, <2>5, <2>6, <2>7, <2>8, <2>10, <2>11 DEF b
<1>. QED
  BY <1>2, <1>3 DEF Prepared

\* A transaction begins on a copy of what is committed.
LEMMA BeginKeeps ==
    ASSUME TxInv, NEW r \in Requests, Begin(r)
    PROVE  TxInv'
<1>1. /\ db' = db /\ work' = db
      /\ tx'.step = FirstStep(r.op) /\ tx'.request = r
      /\ tx'.parsed = {} /\ tx'.report = NoReport
      /\ tx' = [step |-> tx'.step, request |-> tx'.request, todo |-> tx'.todo,
                parsed |-> tx'.parsed, report |-> tx'.report]
  BY DEF Begin
<1>2. r.op \in {"simulate", "run", "replay", "reset", "export"}
  BY RequestKinds
<1>3. /\ r.op = "simulate" => tx'.step = "admit"
      /\ r.op = "run" => tx'.step = "select"
      /\ r.op = "replay" => tx'.step = "approve"
      /\ r.op = "reset" => tx'.step = "wipe"
      /\ r.op = "export" => tx'.step = "note"
  BY <1>1 DEF FirstStep
<1>4. Sound(db)'
  BY <1>1 DEF TxInv
<1>5. Typed'
  BY <1>1, <1>2, <1>3 DEF Typed, Steps, FillSteps, At
<1>6. Starting'
  BY <1>1, <1>2, <1>3 DEF Starting, FillSteps, At
<1>7. Selecting'
  BY <1>1, <1>2, <1>3 DEF Selecting, At, Prepared, Base
<1>8. tx'.step \notin {"stage", "contract", "quality", "close", "commit"}
  BY <1>2, <1>3
<1>9. (Staging /\ ReadingRows /\ Judging /\ Finishing)'
  BY <1>8 DEF Staging, ReadingRows, Judging, Finishing, At
<1>10. Filling'
  BY <1>2, <1>3 DEF Filling, At
<1>. QED
  BY <1>4, <1>5, <1>6, <1>7, <1>9, <1>10 DEF TxInv

\* A step inside a transaction leaves db and the request alone: only what the
\* invariant says of the step reached is left to show.
LEMMA Inside ==
    ASSUME TxInv, ~ At("idle"), db' = db, tx'.request = tx.request,
           tx' = [step |-> tx'.step, request |-> tx'.request, todo |-> tx'.todo,
                  parsed |-> tx'.parsed, report |-> tx'.report],
           tx'.step \in Steps \ {"idle"}
    PROVE  /\ Sound(db)' /\ Typed'
           /\ tx'.step \in {"stage"} /\ Staging' => TxInv'
           /\ tx'.step \in {"select"} /\ Selecting' => TxInv'
           /\ tx'.step \in {"contract"} /\ ReadingRows' => TxInv'
           /\ tx'.step \in {"quality"} /\ Judging' => TxInv'
           /\ tx'.step \in {"close", "commit"} /\ Finishing' => TxInv'
           /\ tx'.step \in FillSteps /\ Starting' /\ Filling' => TxInv'
<1>1. Sound(db)'
  BY DEF TxInv
<1>2. Typed'
  BY DEF Typed, TxInv, At
<1>3. tx'.step \notin {"idle", "admit", "approve", "note", "wipe"} \cup FillSteps => Starting'
  BY DEF Starting, At
<1>4. /\ tx'.step # "stage" => Staging'
      /\ tx'.step # "select" => Selecting'
      /\ tx'.step # "contract" => ReadingRows'
      /\ tx'.step # "quality" => Judging'
      /\ tx'.step \notin {"close", "commit"} => Finishing'
  BY DEF Staging, Selecting, ReadingRows, Judging, Finishing, At
<1>5. tx'.step \notin FillSteps => Filling'
  BY DEF FillSteps, Filling, At
<1>. QED
  BY <1>1, <1>2, <1>3, <1>4, <1>5 DEF TxInv, FillSteps

\* simulate() passes its limits and moves the generator on.
LEMMA AdmitKeeps ==
    ASSUME TxInv, Admit
    PROVE  TxInv'
<1> DEFINE scenario == tx.request.scenario
           count == tx.request.count
<1>1. At("admit") /\ work = db /\ tx.request.op = "simulate" /\ tx.request \in Requests
      /\ db \in Warehouse /\ StatusFollowsRaw(db)
  BY DEF Admit, TxInv, Typed, Starting, At, Sound, WellTyped
<1>2. scenario \in Scenarios /\ count \in 1..MaxBatch
  BY <1>1, RequestKinds
<1>3. /\ db' = db /\ tx'.step = "stage" /\ tx'.request = tx.request /\ tx'.todo = 1..count
      /\ tx' = [step |-> tx'.step, request |-> tx'.request, todo |-> tx'.todo,
                parsed |-> tx'.parsed, report |-> tx'.report]
  BY <1>1 DEF Admit, TxInv, Typed, At
<1>4. work' = PartBatch(db, scenario, count, 0)
  <2> DEFINE cursor == IF scenario = "duplicates" THEN db.cursor ELSE db.cursor + count
  <2>1. work' = [db EXCEPT !.cursor = cursor]
    BY <1>1 DEF Admit
  <2>2. NewRows(db, scenario, 0) = << >>
    BY DEF NewRows
  <2>3. PartBatch(db, scenario, count, 0)
          = [db EXCEPT !.deliveries = db.deliveries \o << >>, !.cursor = cursor]
    BY <2>2 DEF PartBatch
  <2>4. db.deliveries \o << >> = db.deliveries
    BY <1>1, ConcatEmptySeq DEF Warehouse
  <2>. HIDE DEF cursor
  <2>. QED
    BY <1>1, <2>1, <2>3, <2>4 DEF Warehouse
<1>5. SimulateAllowed(db, scenario, count)
  BY <1>1 DEF Admit
<1>6. 0 \in 0..count /\ (0 + 1)..count = 1..count
  BY <1>2
<1>7. Staging'
  BY <1>1, <1>3, <1>4, <1>5, <1>6 DEF Staging
<1>. QED
  BY <1>1, <1>3, <1>7, Inside DEF Steps, FillSteps, At

\* One more row of the batch is staged, with the number it has in the batch.
LEMMA StageRowKeeps ==
    ASSUME TxInv, StageRow
    PROVE  TxInv'
<1> DEFINE scenario == tx.request.scenario
           count == tx.request.count
<1>1. At("stage") /\ tx.request.op = "simulate" /\ tx.request \in Requests /\ tx.todo # {}
      /\ db \in Warehouse /\ StatusFollowsRaw(db) /\ SimulateAllowed(db, scenario, count)
  BY DEF StageRow, TxInv, Typed, Staging, At, Sound, WellTyped
<1>2. scenario \in Scenarios /\ count \in 1..MaxBatch /\ count \in Nat
      /\ (scenario = "duplicates" => Sources(db) # {})
  BY <1>1, RequestKinds DEF SimulateAllowed
<1>3. PICK k \in 0..count : /\ tx.todo = (k + 1)..count
                            /\ work = PartBatch(db, scenario, count, k)
  BY <1>1 DEF TxInv, Staging
<1>4. k \in Nat /\ k + 1 \in 0..count
  BY <1>1, <1>2, <1>3
<1>5. First(tx.todo) = k + 1
  <2>1. tx.todo \subseteq Nat
    BY <1>3, <1>4
  <2>2. First(tx.todo) \in tx.todo /\ \A j \in tx.todo : First(tx.todo) <= j
    BY <1>1, <2>1, FirstIsLeast
  <2>3. k + 1 \in tx.todo
    BY <1>2, <1>3, <1>4
  <2>. QED
    BY <1>2, <1>3, <1>4, <2>2, <2>3
<1>6. /\ db' = db /\ tx'.step = "stage" /\ tx'.request = tx.request
      /\ tx'.todo = tx.todo \ {k + 1}
      /\ tx' = [step |-> tx'.step, request |-> tx'.request, todo |-> tx'.todo,
                parsed |-> tx'.parsed, report |-> tx'.report]
  BY <1>1, <1>5 DEF StageRow, TxInv, Typed, At
<1>7. work' = PartBatch(db, scenario, count, k + 1)
  <2>1. (k + 1) - 1 = k
    BY <1>4
  <2>2. work' = [work EXCEPT !.deliveries = Append(@, Simulated(db, scenario, k))]
    BY <1>5, <2>1 DEF StageRow
  <2>3. [PartBatch(db, scenario, count, k)
          EXCEPT !.deliveries = Append(@, Simulated(db, scenario, k))]
          = PartBatch(db, scenario, count, k + 1)
    <3>1. /\ db \in Warehouse /\ StatusFollowsRaw(db) /\ scenario \in Scenarios
          /\ count \in Nat /\ k \in Nat
          /\ scenario = "duplicates" => Sources(db) # {}
      BY <1>1, <1>2, <1>4
    <3> HIDE DEF scenario, count
    <3>. QED
      BY <3>1, StageOne
  <2> HIDE DEF scenario, count
  <2>. QED
    BY <1>3, <2>2, <2>3
<1>8. tx'.todo = ((k + 1) + 1)..count
  BY <1>2, <1>3, <1>4, <1>6
<1>9. Staging'
  BY <1>1, <1>4, <1>6, <1>7, <1>8 DEF Staging
<1>. QED
  BY <1>1, <1>6, <1>9, Inside DEF Steps, FillSteps, At

\* The batch is complete.
LEMMA StampKeeps ==
    ASSUME TxInv, Stamp
    PROVE  TxInv'
<1> DEFINE scenario == tx.request.scenario
           count == tx.request.count
<1>1. At("stage") /\ tx.request.op = "simulate" /\ tx.request \in Requests /\ tx.todo = {}
      /\ SimulateAllowed(db, scenario, count)
  BY DEF Stamp, TxInv, Typed, Staging, At
<1>2. count \in Nat
  BY <1>1, RequestKinds
<1>3. PICK k \in 0..count : /\ tx.todo = (k + 1)..count
                            /\ work = PartBatch(db, scenario, count, k)
  BY <1>1 DEF TxInv, Staging
<1>4. k = count
  <2>1. k \in Nat /\ k <= count /\ k + 1 \in Nat
    BY <1>2
  <2>2. k + 1 \notin (k + 1)..count
    BY <1>1, <1>3
  <2>. QED
    BY <1>2, <2>1, <2>2
<1>5. /\ db' = db /\ tx'.step = "commit" /\ tx'.request = tx.request
      /\ tx' = [step |-> tx'.step, request |-> tx'.request, todo |-> tx'.todo,
                parsed |-> tx'.parsed, report |-> tx'.report]
  BY <1>1 DEF Stamp, TxInv, Typed, At
<1>6. work' = AfterSimulate(db, scenario, count)
  BY <1>3, <1>4 DEF Stamp, PartBatch, AfterSimulate, Batch
<1>7. Finishing'
  BY <1>1, <1>5, <1>6 DEF Finishing, At, Permitted, Result
<1>. QED
  BY <1>1, <1>5, <1>7, Inside DEF Steps, FillSteps, At

\* replay() stages its correction.
LEMMA ApproveKeeps ==
    ASSUME TxInv, Approve
    PROVE  TxInv'
<1>1. At("approve") /\ work = db /\ tx.request.op = "replay"
      /\ tx.parsed = {} /\ tx.report = NoReport
  BY DEF Approve, TxInv, Starting
<1>2. /\ db' = db /\ tx'.step = "select" /\ tx'.request = tx.request
      /\ tx'.parsed = tx.parsed /\ tx'.report = tx.report
      /\ tx' = [step |-> tx'.step, request |-> tx'.request, todo |-> tx'.todo,
                parsed |-> tx'.parsed, report |-> tx'.report]
  BY <1>1 DEF Approve, TxInv, Typed, At
<1>3. Replayable(db, tx.request.row) /\ work' = WithCorrection(db, tx.request.row)
  BY <1>1 DEF Approve
<1>4. Selecting'
  BY <1>1, <1>2, <1>3 DEF Selecting, Prepared, Base
<1>. QED
  BY <1>1, <1>2, <1>4, Inside DEF Steps, FillSteps, At

\* process() takes its rows.
LEMMA SelectKeeps ==
    ASSUME TxInv, Select
    PROVE  TxInv'
<1> DEFINE r == tx.request
           b == Base(db, r)
           rows == Chosen(db, r)
<1>1. /\ At("select") /\ Prepared(db, r) /\ work = b /\ r \in Requests /\ Sound(db)
      /\ tx.parsed = {} /\ tx.report = NoReport
  BY DEF Select, TxInv, Typed, Selecting, At
<1>2. b \in Warehouse /\ rows \in SUBSET Rows(b)
      /\ (r.op = "replay" => Len(b.deliveries) = Len(db.deliveries) + 1)
  BY <1>1, RunStarts
<1>3. Selection = rows
  BY <1>1, <1>2 DEF Selection, Chosen, Base
<1>4. ProcessAllowed(b, rows)
  BY <1>1, <1>3 DEF Select
<1>5. Running(db, r)
  BY <1>1, <1>4 DEF Running
<1>6. /\ db' = db /\ work' = work /\ tx'.step = "contract" /\ tx'.request = tx.request
      /\ tx'.todo = rows /\ tx'.parsed = {} /\ tx'.report = NoReport
      /\ tx' = [step |-> tx'.step, request |-> tx'.request, todo |-> tx'.todo,
                parsed |-> tx'.parsed, report |-> tx'.report]
  BY <1>1, <1>3 DEF Select, TxInv, Typed, At
<1>7. HalfRun(b, rows, {}) = b /\ CountedSoFar(b, rows, {}, {}) = NoReport
  BY <1>2, NothingTaken
<1>. HIDE DEF b, rows
<1>8. rows \ tx'.todo = {}
  BY <1>6
<1>9. ReadingRows'
  BY <1>1, <1>5, <1>6, <1>7, <1>8 DEF ReadingRows, b, rows
<1>. QED
  BY <1>1, <1>6, <1>9, Inside DEF Steps, FillSteps, At

\* One row more is judged by the contract, and is held back or read.
LEMMA ContractKeeps ==
    ASSUME TxInv, Contract
    PROVE  TxInv'
<1> DEFINE r == tx.request
           b == Base(db, r)
           rows == Chosen(db, r)
           read == Readable(db, r)
           taken == rows \ tx.todo
           done == taken \ read
           i == First(tx.todo)
<1>1. /\ At("contract") /\ Running(db, r) /\ r \in Requests /\ Sound(db) /\ tx.todo # {}
      /\ tx.todo \subseteq rows /\ tx.parsed = taken \cap read
      /\ work = HalfRun(b, rows, done)
      /\ tx.report = CountedSoFar(b, rows, done, taken)
  BY DEF Contract, TxInv, Typed, ReadingRows, At
<1>2. b \in Warehouse /\ rows \in SUBSET Rows(b)
  BY <1>1, RunStarts DEF Running
<1>3. rows \subseteq Nat /\ IsFiniteSet(taken)
  BY <1>2, RowsOfWarehouse, FS_Subset
<1>4. i \in tx.todo
  BY <1>1, <1>3, FirstIsLeast
<1>5. i \in rows \ done /\ i \notin taken /\ done \in SUBSET rows /\ i \in Rows(b)
  BY <1>1, <1>2, <1>4
<1>6. work.deliveries[i].raw = b.deliveries[i].raw
  <2>. HIDE DEF b, rows, done, i
  <2>1. HalfRun(b, rows, done).deliveries[i].raw = b.deliveries[i].raw
    BY <1>2, <1>5, HalfRunRows
  <2>. QED
    BY <1>1, <2>1
<1>7. FailsContract(b.deliveries[i].raw) <=> i \notin read
  BY <1>5 DEF Readable
<1>8. /\ db' = db /\ tx'.step = "contract" /\ tx'.request = tx.request
      /\ tx'.todo = tx.todo \ {i}
      /\ tx' = [step |-> tx'.step, request |-> tx'.request, todo |-> tx'.todo,
                parsed |-> tx'.parsed, report |-> tx'.report]
  BY <1>1 DEF Contract, TxInv, Typed, At
<1>9. rows \ tx'.todo = taken \cup {i}
  BY <1>1, <1>4, <1>5, <1>8
<1>10. CountedSoFar(b, rows, done, taken \cup {i})
         = OneReceived(tx.report)
  <2>. HIDE DEF b, rows, done, taken, i
  <2>1. CountedSoFar(b, rows, done, taken \cup {i})
          = OneReceived(CountedSoFar(b, rows, done, taken))
    BY <1>3, <1>5, ReceiveOne
  <2>. QED
    BY <1>1, <2>1
<1>. HIDE DEF b, rows, read, taken, done, i
<1>11. CASE i \notin read
  <2>1. work' = Mark(i, "quarantined", FALSE) /\ tx'.parsed = tx.parsed
    BY <1>1, <1>6, <1>7, <1>11 DEF Contract, TxInv, Typed, At, i
  <2>2. tx'.report = OneHeldBack(OneReceived(tx.report))
    <3> DEFINE c == tx.report
    <3>1. tx'.report = [c EXCEPT !.received = c.received + 1,
                                 !.quarantined = c.quarantined + 1]
      BY <1>1, <1>6, <1>7, <1>11 DEF Contract, TxInv, Typed, At, i, CountedSoFar
    <3>2. OneReceived(c).quarantined = c.quarantined
      BY <1>1 DEF CountedSoFar, OneReceived
    <3>. HIDE DEF c
    <3>3. OneHeldBack(OneReceived(c))
            = [[c EXCEPT !.received = c.received + 1] EXCEPT !.quarantined = c.quarantined + 1]
      BY <3>2 DEF OneHeldBack, OneReceived
    <3>. QED
      BY <3>1, <3>3 DEF c
  <2>3. Outcome(b, rows, i) = "quarantined"
    BY <1>7, <1>11 DEF Outcome
  <2>4. Mark(i, "quarantined", FALSE) = HalfRun(b, rows, done \cup {i})
    <3>1. Marked(HalfRun(b, rows, done), i, Outcome(b, rows, i), FALSE)
            = HalfRun(b, rows, done \cup {i})
      BY <1>2, <1>5, <2>3, SettleOne
    <3>. QED
      BY <1>1, <2>3, <3>1 DEF Mark, Marked
  <2>5. CountedSoFar(b, rows, done \cup {i}, taken \cup {i}) = tx'.report
    <3>1. CountedSoFar(b, rows, done \cup {i}, taken \cup {i})
            = OneHeldBack(CountedSoFar(b, rows, done, taken \cup {i}))
      BY <1>2, <1>5, <2>3, CountOne
    <3>. QED
      BY <1>10, <2>2, <3>1
  <2>6. (taken \cup {i}) \ read = done \cup {i} /\ (taken \cup {i}) \cap read = taken \cap read
    BY <1>11 DEF done
  <2>7. ReadingRows'
    BY <1>1, <1>8, <1>9, <2>1, <2>4, <2>5, <2>6 DEF ReadingRows, b, rows, read
  <2>. QED
    BY <1>1, <1>8, <2>7, Inside DEF Steps, FillSteps, At
<1>12. CASE i \in read
  <2>1. work' = work /\ tx'.parsed = tx.parsed \cup {i}
    BY <1>1, <1>6, <1>7, <1>12 DEF Contract, TxInv, Typed, At, i
  <2>2. tx'.report = OneReceived(tx.report)
    BY <1>1, <1>6, <1>7, <1>12
    DEF Contract, TxInv, Typed, At, i, CountedSoFar, OneReceived
  <2>3. (taken \cup {i}) \ read = done
        /\ (taken \cup {i}) \cap read = (taken \cap read) \cup {i}
    BY <1>12 DEF done
  <2>4. ReadingRows'
    BY <1>1, <1>8, <1>9, <1>10, <2>1, <2>2, <2>3 DEF ReadingRows, b, rows, read
  <2>. QED
    BY <1>1, <1>8, <2>4, Inside DEF Steps, FillSteps, At
<1>. QED
  BY <1>11, <1>12

\* All rows are judged by the contract; those that were read remain.
LEMMA StartQualityKeeps ==
    ASSUME TxInv, StartQuality
    PROVE  TxInv'
<1> DEFINE r == tx.request
           b == Base(db, r)
           rows == Chosen(db, r)
           read == Readable(db, r)
<1>1. /\ At("contract") /\ Running(db, r) /\ tx.todo = {}
      /\ tx.parsed = (rows \ tx.todo) \cap read
      /\ work = HalfRun(b, rows, (rows \ tx.todo) \ read)
      /\ tx.report = CountedSoFar(b, rows, (rows \ tx.todo) \ read, rows \ tx.todo)
  BY DEF StartQuality, TxInv, Typed, ReadingRows, At
<1>2. read \subseteq rows
  BY DEF Readable
<1>3. /\ db' = db /\ work' = work /\ tx'.step = "quality" /\ tx'.request = tx.request
      /\ tx'.todo = tx.parsed /\ tx'.report = tx.report
      /\ tx' = [step |-> tx'.step, request |-> tx'.request, todo |-> tx'.todo,
                parsed |-> tx'.parsed, report |-> tx'.report]
  BY <1>1 DEF StartQuality, TxInv, Typed, At
<1>. HIDE DEF b, rows, read
<1>4. tx'.todo = read /\ rows \ tx.todo = rows
  BY <1>1, <1>2, <1>3
<1>5. (rows \ tx'.todo) \cap read = {} /\ rows \ tx'.todo = rows \ read
  BY <1>4
<1>6. Judging'
  BY <1>1, <1>3, <1>4, <1>5 DEF Judging, b, rows, read
<1>. QED
  BY <1>1, <1>3, <1>6, Inside DEF Steps, FillSteps, At

\* The row whose turn it is in the second loop, and what becomes of it.
LEMMA Turn ==
    ASSUME TxInv, At("quality"), tx.todo # {}
    PROVE  LET r == tx.request
               b == Base(db, r)
               rows == Chosen(db, r)
               i == First(tx.todo)
           IN  /\ b \in Warehouse /\ rows \in SUBSET Rows(b)
               /\ i \in tx.todo /\ i \in rows /\ \A j \in tx.todo : i <= j
               /\ work.deliveries[i].raw = b.deliveries[i].raw
               /\ work.deliveries[i].event \in Loaded(work) =>
                    Outcome(b, rows, i) = "duplicate"
               /\ work.deliveries[i].event \notin Loaded(work)
                    /\ FailsRules(work.deliveries[i].raw) =>
                       Outcome(b, rows, i) = "quarantined"
               /\ work.deliveries[i].event \notin Loaded(work)
                    /\ ~ FailsRules(work.deliveries[i].raw) =>
                       Outcome(b, rows, i) = "accepted"
<1> DEFINE r == tx.request
           b == Base(db, r)
           rows == Chosen(db, r)
           read == Readable(db, r)
           done == rows \ tx.todo
           i == First(tx.todo)
<1>1. /\ Running(db, r) /\ r \in Requests /\ Sound(db)
      /\ tx.todo \subseteq read /\ work = HalfRun(b, rows, done)
      /\ \A j \in done \cap read, k \in tx.todo : j < k
  BY DEF TxInv, Typed, Judging, At
<1>2. b \in Warehouse /\ rows \in SUBSET Rows(b) /\ read \subseteq rows
  BY <1>1, RunStarts DEF Running, Readable
<1>3. tx.todo \subseteq Nat
  BY <1>1, <1>2, RowsOfWarehouse
<1>4. i \in tx.todo /\ \A j \in tx.todo : i <= j
  BY <1>3, FirstIsLeast
<1>5. i \in rows \ done /\ done \in SUBSET rows /\ i \in Rows(b)
  BY <1>1, <1>2, <1>4
<1>6. work.deliveries[i].raw = b.deliveries[i].raw
      /\ work.deliveries[i].event = b.deliveries[i].event
  BY <1>1, <1>2, <1>5, HalfRunRows
<1>7. ~ FailsContract(b.deliveries[i].raw)
  BY <1>1, <1>4 DEF Readable
<1>8. \A j \in done : ~ FailsContract(b.deliveries[j].raw) => j < i
  BY <1>1, <1>4 DEF Readable
<1>9. \A j \in rows \ done : ~ FailsContract(b.deliveries[j].raw) /\ i <= j
  BY <1>1, <1>4 DEF Readable
<1>10. work.deliveries[i].event \in Loaded(work) <=> AlreadyLoaded(b, rows, i)
  <2>. HIDE DEF b, rows, read, done, i
  <2>1. b.deliveries[i].event \in Loaded(HalfRun(b, rows, done))
          <=> AlreadyLoaded(b, rows, i)
    BY <1>2, <1>5, <1>8, <1>9, LookedUp
  <2>. QED
    BY <1>1, <1>6, <2>1
<1>11. /\ AlreadyLoaded(b, rows, i) => Outcome(b, rows, i) = "duplicate"
       /\ ~ AlreadyLoaded(b, rows, i) /\ FailsRules(b.deliveries[i].raw) =>
             Outcome(b, rows, i) = "quarantined"
       /\ ~ AlreadyLoaded(b, rows, i) /\ ~ FailsRules(b.deliveries[i].raw) =>
             Outcome(b, rows, i) = "accepted"
  BY <1>7 DEF Outcome
<1>. HIDE DEF b, rows, read, done, i
<1>12. /\ work.deliveries[i].event \in Loaded(work) => Outcome(b, rows, i) = "duplicate"
       /\ work.deliveries[i].event \notin Loaded(work)
            /\ FailsRules(work.deliveries[i].raw) => Outcome(b, rows, i) = "quarantined"
       /\ work.deliveries[i].event \notin Loaded(work)
            /\ ~ FailsRules(work.deliveries[i].raw) => Outcome(b, rows, i) = "accepted"
  BY <1>6, <1>10, <1>11
<1>. QED
  BY <1>2, <1>4, <1>5, <1>6, <1>12 DEF b, rows, i

\* A row marked as its outcome says, and counted so, leaves the rest to judge.
LEMMA Judged ==
    ASSUME TxInv, At("quality"), tx.todo # {},
           db' = db, tx'.step = "quality", tx'.request = tx.request,
           tx'.todo = tx.todo \ {First(tx.todo)},
           tx' = [step |-> tx'.step, request |-> tx'.request, todo |-> tx'.todo,
                  parsed |-> tx'.parsed, report |-> tx'.report],
           work' = HalfRun(Base(db, tx.request), Chosen(db, tx.request),
                           (Chosen(db, tx.request) \ tx.todo) \cup {First(tx.todo)}),
           tx'.report = CountedSoFar(Base(db, tx.request), Chosen(db, tx.request),
                           (Chosen(db, tx.request) \ tx.todo) \cup {First(tx.todo)},
                           Chosen(db, tx.request))
    PROVE  TxInv'
<1> DEFINE r == tx.request
           b == Base(db, r)
           rows == Chosen(db, r)
           read == Readable(db, r)
           done == rows \ tx.todo
           i == First(tx.todo)
<1>1. /\ Running(db, r) /\ tx.todo \subseteq read
      /\ \A j \in done \cap read, k \in tx.todo : j < k
  BY DEF TxInv, Judging, At
<1>2. b \in Warehouse /\ rows \in SUBSET Rows(b) /\ i \in tx.todo /\ i \in rows
      /\ \A j \in tx.todo : i <= j
  BY Turn
<1>3. rows \subseteq Nat
  BY <1>2, RowsOfWarehouse
<1>4. read \subseteq rows
  BY DEF Readable
<1>5. tx'.todo = tx.todo \ {i} /\ tx'.todo \subseteq read
      /\ rows \ tx'.todo = done \cup {i}
  BY <1>1, <1>2, <1>4
<1>. HIDE DEF b, rows, read, i
<1>6. ASSUME NEW j \in (done \cup {i}) \cap read, NEW k \in tx'.todo PROVE j < k
  <2>1. CASE j \in done
    BY <1>1, <1>5, <1>6, <2>1
  <2>2. CASE j = i
    <3>1. i <= k /\ i # k /\ i \in Nat /\ k \in Nat
      BY <1>1, <1>2, <1>3, <1>4, <1>5, <1>6
    <3>. QED
      BY <2>2, <3>1
  <2>. QED
    BY <1>6, <2>1, <2>2
<1>7. Judging'
  BY <1>1, <1>5, <1>6 DEF Judging, b, rows, read, i
<1>. QED
  BY <1>7, Inside DEF Steps, FillSteps, At

\* The next row is of an event that is loaded: before this run or by it.
LEMMA SuppressKeeps ==
    ASSUME TxInv, Suppress
    PROVE  TxInv'
<1> DEFINE r == tx.request
           b == Base(db, r)
           rows == Chosen(db, r)
           done == rows \ tx.todo
           i == First(tx.todo)
<1>1. /\ At("quality") /\ tx.todo # {} /\ work.deliveries[i].event \in Loaded(work)
      /\ work = HalfRun(b, rows, done) /\ tx.report = CountedSoFar(b, rows, done, rows)
  BY DEF Suppress, TxInv, Judging
<1>2. b \in Warehouse /\ rows \in SUBSET Rows(b) /\ i \in tx.todo /\ i \in rows
      /\ Outcome(b, rows, i) = "duplicate"
  BY <1>1, Turn
<1>3. i \in rows \ done /\ done \in SUBSET rows
  BY <1>2
<1>4. /\ db' = db /\ tx'.step = "quality" /\ tx'.request = tx.request
      /\ tx'.todo = tx.todo \ {i} /\ tx'.report = OneSuppressed(tx.report)
      /\ tx' = [step |-> tx'.step, request |-> tx'.request, todo |-> tx'.todo,
                parsed |-> tx'.parsed, report |-> tx'.report]
  BY <1>1 DEF Suppress, TxInv, Typed, At, OneSuppressed
<1>5. work' = Marked(work, i, "duplicate", FALSE)
  BY DEF Suppress, Mark, Marked
<1>. HIDE DEF b, rows, done, i
<1>6. Marked(HalfRun(b, rows, done), i, Outcome(b, rows, i), FALSE)
        = HalfRun(b, rows, done \cup {i})
  BY <1>2, <1>3, SettleOne
<1>7. CountedSoFar(b, rows, done \cup {i}, rows)
        = OneSuppressed(CountedSoFar(b, rows, done, rows))
  BY <1>2, <1>3, CountOne
<1>8. work' = HalfRun(b, rows, done \cup {i})
      /\ tx'.report = CountedSoFar(b, rows, done \cup {i}, rows)
  BY <1>1, <1>2, <1>4, <1>5, <1>6, <1>7
<1>. QED
  BY <1>1, <1>4, <1>8, Judged DEF b, rows, done, i

\* The next row breaks a rule.
LEMMA HoldBackKeeps ==
    ASSUME TxInv, HoldBack
    PROVE  TxInv'
<1> DEFINE r == tx.request
           b == Base(db, r)
           rows == Chosen(db, r)
           done == rows \ tx.todo
           i == First(tx.todo)
<1>1. /\ At("quality") /\ tx.todo # {} /\ work.deliveries[i].event \notin Loaded(work)
      /\ FailsRules(work.deliveries[i].raw)
      /\ work = HalfRun(b, rows, done) /\ tx.report = CountedSoFar(b, rows, done, rows)
  BY DEF HoldBack, TxInv, Judging
<1>2. b \in Warehouse /\ rows \in SUBSET Rows(b) /\ i \in tx.todo /\ i \in rows
      /\ Outcome(b, rows, i) = "quarantined"
  BY <1>1, Turn
<1>3. i \in rows \ done /\ done \in SUBSET rows
  BY <1>2
<1>4. /\ db' = db /\ tx'.step = "quality" /\ tx'.request = tx.request
      /\ tx'.todo = tx.todo \ {i} /\ tx'.report = OneHeldBack(tx.report)
      /\ tx' = [step |-> tx'.step, request |-> tx'.request, todo |-> tx'.todo,
                parsed |-> tx'.parsed, report |-> tx'.report]
  BY <1>1 DEF HoldBack, TxInv, Typed, At, OneHeldBack
<1>5. work' = Marked(work, i, "quarantined", FALSE)
  BY DEF HoldBack, Mark, Marked
<1>. HIDE DEF b, rows, done, i
<1>6. Marked(HalfRun(b, rows, done), i, Outcome(b, rows, i), FALSE)
        = HalfRun(b, rows, done \cup {i})
  BY <1>2, <1>3, SettleOne
<1>7. CountedSoFar(b, rows, done \cup {i}, rows)
        = OneHeldBack(CountedSoFar(b, rows, done, rows))
  BY <1>2, <1>3, CountOne
<1>8. work' = HalfRun(b, rows, done \cup {i})
      /\ tx'.report = CountedSoFar(b, rows, done \cup {i}, rows)
  BY <1>1, <1>2, <1>4, <1>5, <1>6, <1>7
<1>. QED
  BY <1>1, <1>4, <1>8, Judged DEF b, rows, done, i

\* The next row is the first clean one of its event.
LEMMA LoadKeeps ==
    ASSUME TxInv, Load
    PROVE  TxInv'
<1> DEFINE r == tx.request
           b == Base(db, r)
           rows == Chosen(db, r)
           done == rows \ tx.todo
           i == First(tx.todo)
<1>1. /\ At("quality") /\ tx.todo # {} /\ work.deliveries[i].event \notin Loaded(work)
      /\ ~ FailsRules(work.deliveries[i].raw)
      /\ work = HalfRun(b, rows, done) /\ tx.report = CountedSoFar(b, rows, done, rows)
      /\ Running(db, r) /\ r \in Requests /\ Sound(db)
  BY DEF Load, TxInv, Judging, Typed, At
<1>2. b \in Warehouse /\ rows \in SUBSET Rows(b) /\ i \in tx.todo /\ i \in rows
      /\ Outcome(b, rows, i) = "accepted"
      /\ work.deliveries[i].raw = b.deliveries[i].raw
  BY <1>1, Turn
<1>3. i \in rows \ done /\ done \in SUBSET rows /\ i \in Rows(b)
  BY <1>2
<1>4. work.deliveries[i].event = b.deliveries[i].event
  <2>. HIDE DEF b, rows, done, i
  <2>1. HalfRun(b, rows, done).deliveries[i].event = b.deliveries[i].event
    BY <1>2, <1>3, HalfRunRows
  <2>. QED
    BY <1>1, <2>1
<1>5. /\ db' = db /\ tx'.step = "quality" /\ tx'.request = tx.request
      /\ tx'.todo = tx.todo \ {i}
      /\ tx' = [step |-> tx'.step, request |-> tx'.request, todo |-> tx'.todo,
                parsed |-> tx'.parsed, report |-> tx'.report]
  BY <1>1 DEF Load, TxInv, Typed, At
<1>6. tx'.report = OneLoaded(tx.report, IsLate(work.deliveries[i].raw))
  <2> DEFINE c == tx.report
             late == IsLate(work.deliveries[i].raw)
             s == [tx EXCEPT !.todo = tx.todo \ {i}]
             n == c.accepted + 1
             l == IF late THEN c.late + 1 ELSE c.late
  <2>1. tx' = [tx EXCEPT !.todo = tx.todo \ {i}, !.report = [c EXCEPT !.accepted = n, !.late = l]]
    BY <1>1 DEF Load, TxInv, Typed, At, CountedSoFar
  <2>2. tx'.report = [c EXCEPT !.accepted = n, !.late = l]
    BY <1>1, <2>1 DEF TxInv, Typed, At
  <2>. QED
    BY <2>2 DEF OneLoaded
<1>7. work' = WithFact(Marked(work, i, "accepted", IsLate(work.deliveries[i].raw)),
                       work.deliveries[i].event, work.deliveries[i].raw)
  BY DEF Load, Mark, Marked, WithFact
<1>. HIDE DEF b, rows, done, i
<1>8. WithFact(Marked(HalfRun(b, rows, done), i, "accepted", IsLate(b.deliveries[i].raw)),
               b.deliveries[i].event, b.deliveries[i].raw)
        = HalfRun(b, rows, done \cup {i})
  BY <1>2, <1>3, SettleOne
<1>9. CountedSoFar(b, rows, done \cup {i}, rows)
        = OneLoaded(CountedSoFar(b, rows, done, rows), IsLate(b.deliveries[i].raw))
  BY <1>2, <1>3, CountOne
<1>10. work' = HalfRun(b, rows, done \cup {i})
       /\ tx'.report = CountedSoFar(b, rows, done \cup {i}, rows)
  BY <1>1, <1>2, <1>4, <1>6, <1>7, <1>8, <1>9
<1>. QED
  BY <1>1, <1>5, <1>10, Judged DEF b, rows, done, i

\* All rows are settled: the run and its counters are those of the whole selection.
LEMMA RecordKeeps ==
    ASSUME TxInv, Record
    PROVE  TxInv'
<1> DEFINE r == tx.request
           b == Base(db, r)
           rows == Chosen(db, r)
           trigger == IF r.op = "replay" THEN "approved_replay" ELSE "manual"
           c == tx.report
           run == [trigger |-> trigger, received |-> c.received, accepted |-> c.accepted,
                   quarantined |-> c.quarantined, duplicates |-> c.duplicates,
                   late |-> c.late]
<1>1. /\ At("quality") /\ tx.todo = {} /\ Running(db, r) /\ r \in Requests /\ Sound(db)
      /\ work = HalfRun(b, rows, rows \ tx.todo)
      /\ c = CountedSoFar(b, rows, rows \ tx.todo, rows)
  BY DEF Record, TxInv, Judging, Typed, At
<1>2. b \in Warehouse /\ rows \in SUBSET Rows(b) /\ Permitted(db, r)
      /\ r.op \in {"run", "replay"}
  BY <1>1, RunStarts DEF Running, Prepared
<1>3. rows \ tx.todo = rows
  BY <1>1
<1>4. work' = AfterProcess(b, trigger, rows)
  <2>1. work' = [work EXCEPT !.runs = Append(@, run), !.revision = @ + 1,
                             !.audit = Logged(@, "completed")]
    BY DEF Record
  <2>2. work = HalfRun(b, rows, rows) /\ c = CountedSoFar(b, rows, rows, rows)
    BY <1>1, <1>3
  <2>. HIDE DEF b, rows
  <2>. QED
    BY <1>2, <2>1, <2>2, RunDone
<1>5. /\ db' = db /\ tx'.request = tx.request
      /\ tx'.step = IF r.op = "replay" THEN "close" ELSE "commit"
      /\ tx' = [step |-> tx'.step, request |-> tx'.request, todo |-> tx'.todo,
                parsed |-> tx'.parsed, report |-> tx'.report]
  BY <1>1 DEF Record, TxInv, Typed, At
<1>6. CASE r.op = "replay"
  <2>1. ReplayAllowed(db, r.row)
    BY <1>2, <1>6 DEF Permitted
  <2>2. Finishing'
    BY <1>4, <1>5, <1>6, <2>1 DEF Finishing, At
  <2>. QED
    BY <1>1, <1>5, <1>6, <2>2, Inside DEF Steps, FillSteps, At
<1>7. CASE r.op = "run"
  <2>1. b = db /\ rows = Pending(db)
    BY <1>7 DEF Base, Chosen
  <2>2. work' = AfterProcess(db, "manual", Pending(db))
    BY <1>4, <1>7, <2>1
  <2>3. Result(db, r) = AfterProcess(db, "manual", Pending(db))
    BY <1>7 DEF Result
  <2>4. Finishing'
    BY <1>2, <1>5, <1>7, <2>2, <2>3 DEF Finishing, At
  <2>. QED
    BY <1>1, <1>5, <1>7, <2>4, Inside DEF Steps, FillSteps, At
<1>. QED
  BY <1>2, <1>6, <1>7

\* replay() marks the defective delivery after the run of its correction.
LEMMA CloseKeeps ==
    ASSUME TxInv, Close
    PROVE  TxInv'
<1> DEFINE r == tx.request
           i == r.row
           b == Base(db, r)
           rows == Chosen(db, r)
           new == Len(db.deliveries) + 1
<1>1. /\ At("close") /\ r.op = "replay" /\ ReplayAllowed(db, i) /\ r \in Requests /\ Sound(db)
      /\ work = AfterProcess(b, "approved_replay", rows)
  BY DEF Close, TxInv, Typed, Finishing, At
<1>2. b = WithCorrection(db, i) /\ rows = {new}
  BY <1>1 DEF Base, Chosen
<1>3. Prepared(db, r)
  BY <1>1 DEF Prepared, ReplayAllowed
<1>4. b \in Warehouse /\ rows \in SUBSET Rows(b) /\ Len(b.deliveries) = new
  BY <1>1, <1>3, RunStarts
<1>5. Len(work.deliveries) = new
  <2>. HIDE DEF b, rows
  <2>1. Len(AfterProcess(b, "approved_replay", rows).deliveries) = Len(b.deliveries)
    BY <1>4, ProcessRows DEF Triggers
  <2>. QED
    BY <1>1, <1>4, <2>1
<1>6. work' = AfterReplay(db, i)
  BY <1>1, <1>2, <1>5 DEF Close, AfterReplay
<1>7. /\ db' = db /\ tx'.request = tx.request /\ tx'.step = "commit"
      /\ tx' = [step |-> tx'.step, request |-> tx'.request, todo |-> tx'.todo,
                parsed |-> tx'.parsed, report |-> tx'.report]
  BY <1>1 DEF Close, TxInv, Typed, At
<1>8. Finishing'
  BY <1>1, <1>6, <1>7 DEF Finishing, At, Permitted, Result
<1>. QED
  BY <1>1, <1>7, <1>8, Inside DEF Steps, FillSteps, At

\* A reset, and the note of an export.
LEMMA SmallStepsKeep ==
    ASSUME TxInv, Wipe \/ Fill \/ Note
    PROVE  TxInv'
<1>1. ASSUME ~ At("idle")
      PROVE  /\ tx = [step |-> tx.step, request |-> tx.request, todo |-> tx.todo,
                      parsed |-> tx.parsed, report |-> tx.report]
             /\ tx.request \in Requests
  BY <1>1 DEF TxInv, Typed
<1>2. CASE Wipe
  <2>1. At("wipe") /\ tx.request.op = "reset"
    BY <1>2 DEF Wipe, TxInv, Starting
  <2>2. /\ db' = db /\ tx'.request = tx.request /\ tx'.step = "fill" /\ work' = Empty
        /\ tx' = [step |-> tx'.step, request |-> tx'.request, todo |-> tx'.todo,
                  parsed |-> tx'.parsed, report |-> tx'.report]
    BY <1>1, <1>2, <2>1 DEF Wipe, At
  <2>3. Starting' /\ Filling'
    BY <2>1, <2>2 DEF Starting, Filling, At
  <2>. QED
    BY <2>1, <2>2, <2>3, Inside DEF Steps, FillSteps, At
<1>3. CASE Fill
  <2>1. tx.step \in FillSteps /\ tx.request.op = "reset" /\ Filling
    BY <1>3 DEF Fill, Filled, FillSteps, At, TxInv, Starting
  <2>2. /\ db' = db /\ tx'.request = tx.request
        /\ tx' = [step |-> tx'.step, request |-> tx'.request, todo |-> tx'.todo,
                  parsed |-> tx'.parsed, report |-> tx'.report]
    BY <1>1, <1>3, <2>1 DEF Fill, Filled, FillSteps, At
  <2>3. \/ tx'.step \in FillSteps /\ Starting' /\ Filling'
        \/ tx'.step = "commit" /\ work' = Seeded
    <3>1. CASE Filled("fill", "first run", Batch(work, "normal", SeedNormal))
      <4>1. tx'.step = "first run" /\ work' = Batch(Empty, "normal", SeedNormal)
        BY <1>1, <2>1, <3>1 DEF Filled, Filling, At
      <4>. QED
        BY <2>1, <2>2, <4>1 DEF Starting, Filling, FillSteps, At
    <3>2. CASE Filled("first run", "duplicates",
                      AfterProcess(work, "initial_seed", Pending(work)))
      <4>1. tx'.step = "duplicates" /\ work' = FirstRun
        BY <1>1, <2>1, <3>2 DEF Filled, Filling, FirstRun, At
      <4>. QED
        BY <2>1, <2>2, <4>1 DEF Starting, Filling, FillSteps, At
    <3>3. CASE Filled("duplicates", "invalid",
                      AfterSimulate(work, "duplicates", SeedDuplicates))
      <4>1. tx'.step = "invalid" /\ work' = AfterSimulate(FirstRun, "duplicates", SeedDuplicates)
        BY <1>1, <2>1, <3>3 DEF Filled, Filling, At
      <4>. QED
        BY <2>1, <2>2, <4>1 DEF Starting, Filling, FillSteps, At
    <3>4. CASE Filled("invalid", "late", AfterSimulate(work, "invalid", SeedInvalid))
      <4>1. /\ tx'.step = "late"
            /\ work' = AfterSimulate(AfterSimulate(FirstRun, "duplicates", SeedDuplicates),
                                     "invalid", SeedInvalid)
        BY <1>1, <2>1, <3>4 DEF Filled, Filling, At
      <4>. QED
        BY <2>1, <2>2, <4>1 DEF Starting, Filling, FillSteps, At
    <3>5. CASE Filled("late", "rehearsal", AfterSimulate(work, "late", SeedLate))
      <4>1. tx'.step = "rehearsal" /\ work' = Rehearsal
        BY <1>1, <2>1, <3>5 DEF Filled, Filling, Rehearsal, At
      <4>. QED
        BY <2>1, <2>2, <4>1 DEF Starting, Filling, FillSteps, At
    <3>6. CASE Filled("rehearsal", "commit",
                      AfterProcess(work, "quality_rehearsal", Pending(work)))
      BY <1>1, <2>1, <3>6 DEF Filled, Filling, Seeded, At
    <3>. QED
      BY <1>3, <3>1, <3>2, <3>3, <3>4, <3>5, <3>6 DEF Fill
  <2>4. CASE tx'.step = "commit" /\ work' = Seeded
    <3>1. Finishing'
      BY <2>1, <2>2, <2>4 DEF Finishing, At, Permitted, Result
    <3>. QED
      BY <2>1, <2>2, <2>4, <3>1, Inside DEF Steps, FillSteps, At
  <2>. QED
    BY <2>1, <2>2, <2>3, <2>4, Inside DEF Steps, FillSteps, At
<1>4. CASE Note
  <2>1. At("note") /\ tx.request.op = "export" /\ work = db
    BY <1>4 DEF Note, TxInv, Starting
  <2>2. /\ db' = db /\ tx'.request = tx.request /\ tx'.step = "commit"
        /\ work' = [db EXCEPT !.audit = Logged(@, "exported")]
        /\ tx' = [step |-> tx'.step, request |-> tx'.request, todo |-> tx'.todo,
                  parsed |-> tx'.parsed, report |-> tx'.report]
    BY <1>1, <1>4, <2>1 DEF Note, At
  <2>3. Finishing'
    BY <2>1, <2>2 DEF Finishing, At, Permitted, Result
  <2>. QED
    BY <2>1, <2>2, <2>3, Inside DEF Steps, FillSteps, At
<1>. QED
  BY <1>2, <1>3, <1>4

\* What is committed is the outcome of a request that the warehouse permits, so that
\* a commit is a step of Workspace.
LEMMA CommitIsNext ==
    ASSUME TxInv, Commit
    PROVE  Next /\ Permitted(db, tx.request) /\ db' = Result(db, tx.request)
<1> DEFINE r == tx.request
<1>1. Permitted(db, r) /\ db' = Result(db, r) /\ r \in Requests
  BY DEF Commit, TxInv, Typed, Finishing, At
<1>2. /\ r.op \in {"simulate", "run", "replay", "reset", "export"}
      /\ r.op = "simulate" => r.scenario \in Scenarios /\ r.count \in 1..MaxBatch
  BY <1>1, RequestKinds
<1>3. CASE r.op = "simulate"
  BY <1>1, <1>2, <1>3 DEF Permitted, Result, Next, Simulate
<1>4. CASE r.op = "run"
  BY <1>1, <1>4 DEF Permitted, Result, Next, RunPipeline
<1>5. CASE r.op = "replay"
  <2>1. ReplayAllowed(db, r.row) /\ db' = AfterReplay(db, r.row)
    BY <1>1, <1>5 DEF Permitted, Result
  <2>2. r.row \in Rows(db)
    BY <2>1 DEF ReplayAllowed, Replayable
  <2>. QED
    BY <1>1, <2>1, <2>2 DEF Next, Replay
<1>6. CASE r.op = "reset"
  BY <1>1, <1>6 DEF Result, Next, Reset
<1>7. CASE r.op = "export"
  BY <1>1, <1>7 DEF Result, Next, Export
<1>. QED
  BY <1>2, <1>3, <1>4, <1>5, <1>6, <1>7

\* A commit is a step of Workspace; a refusal or a fault leaves what was committed.
LEMMA EndKeeps ==
    ASSUME TxInv, Commit \/ Refuse \/ Fault
    PROVE  TxInv'
<1>1. tx' = Idle /\ work' = db'
  BY DEF Commit, Refuse, Fault, Rollback
<1>2. Sound(db)'
  <2>1. CASE Commit
    BY <2>1, CommitIsNext, NextSound DEF TxInv, Inv
  <2>2. CASE Refuse \/ Fault
    BY <2>2 DEF Refuse, Fault, Rollback, TxInv
  <2>. QED
    BY <2>1, <2>2
<1>3. tx'.step = "idle"
  BY <1>1 DEF Idle
<1>4. Typed' /\ Starting'
  BY <1>1, <1>3 DEF Typed, Starting, Steps, FillSteps, At
<1>5. (Filling /\ Staging /\ Selecting /\ ReadingRows /\ Judging /\ Finishing)'
  BY <1>3 DEF Filling, Staging, Selecting, ReadingRows, Judging, Finishing, At
<1>. QED
  BY <1>2, <1>4, <1>5 DEF TxInv

\* Every statement keeps the invariant.
LEMMA TxStepKeeps == TxInv /\ [TxNext]_txvars => TxInv'
<1> SUFFICES ASSUME TxInv, [TxNext]_txvars PROVE TxInv'
  OBVIOUS
<1>1. CASE UNCHANGED txvars
  <2>1. UNCHANGED <<db, work, tx>>
    BY <1>1 DEF txvars
  <2>2. (Sound(db) /\ Typed /\ Starting /\ Filling)'
    BY <2>1 DEF TxInv, Typed, Starting, Filling, At
  <2>3. (Staging /\ Selecting /\ Finishing)'
    BY <2>1 DEF TxInv, Staging, Selecting, Finishing, At
  <2>4. (ReadingRows /\ Judging)'
    BY <2>1 DEF TxInv, ReadingRows, Judging, At
  <2>. QED
    BY <2>2, <2>3, <2>4 DEF TxInv
<1>2. ASSUME NEW r \in Requests, Begin(r) PROVE TxInv'
  BY <1>2, BeginKeeps
<1>3. CASE Admit \/ StageRow \/ Stamp \/ Approve
  BY <1>3, AdmitKeeps, StageRowKeeps, StampKeeps, ApproveKeeps
<1>4. CASE Select \/ Contract \/ StartQuality
  BY <1>4, SelectKeeps, ContractKeeps, StartQualityKeeps
<1>5. CASE Suppress \/ HoldBack \/ Load \/ Record
  BY <1>5, SuppressKeeps, HoldBackKeeps, LoadKeeps, RecordKeeps
<1>6. CASE Close \/ Wipe \/ Fill \/ Note \/ Commit \/ Refuse \/ Fault
  BY <1>6, CloseKeeps, SmallStepsKeep, EndKeeps
<1>. QED
  BY <1>1, <1>2, <1>3, <1>4, <1>5, <1>6 DEF TxNext

\* The working copy follows from the committed warehouse at every statement.
THEOREM WorkFollowsRequest == TxSpec => []TxInv
<1>1. TxInit => TxInv
  <2> SUFFICES ASSUME TxInit PROVE TxInv
    OBVIOUS
  <2>1. Sound(db)
    BY SeededSound DEF TxInit, Init
  <2>2. tx = Idle /\ tx.step = "idle" /\ work = db
    BY DEF TxInit, Idle
  <2>3. Typed /\ Starting
    BY <2>2 DEF Typed, Starting, Steps, FillSteps, At
  <2>4. Filling /\ Staging /\ Selecting /\ ReadingRows /\ Judging /\ Finishing
    BY <2>2 DEF Filling, Staging, Selecting, ReadingRows, Judging, Finishing, At
  <2>. QED
    BY <2>1, <2>3, <2>4 DEF TxInv
<1>. QED
  BY <1>1, TxStepKeeps, PTL DEF TxSpec

\* Whatever the order of statements, rollbacks and faults, the committed warehouse
\* only ever changes as Workspace says: a request happens all at once or not at all.
THEOREM TransactionsImplementWorkspace == TxSpec => ImplementsWorkspace
<1>1. TxInit => Init
  BY DEF TxInit
<1>2. TxInv /\ [TxNext]_txvars => [Next]_db
  <2> SUFFICES ASSUME TxInv, [TxNext]_txvars PROVE [Next]_db
    OBVIOUS
  <2>1. CASE Commit
    BY <2>1, CommitIsNext
  <2>2. CASE ~ Commit
    <3>1. db' = db
      BY <2>2 DEF TxNext, txvars, Begin, Admit, StageRow, Stamp, Approve, Select, Contract,
            StartQuality, Suppress, HoldBack, Load, Record, Close, Wipe, Fill, Filled, Note,
            Refuse, Fault, Rollback
    <3>. QED
      BY <3>1
  <2>. QED
    BY <2>1, <2>2
<1>. QED
  BY <1>1, <1>2, WorkFollowsRequest, PTL DEF TxSpec, ImplementsWorkspace, Spec

\* A request is never refused half-way for a reason that was not there when its
\* transaction began.
THEOREM RefusalsHaveTheirCause == TxSpec => RefusedForAReason
<1>1. ASSUME TxInv, Refuse PROVE ~ Permitted(db, tx.request)
  <2> DEFINE r == tx.request
  <2>1. CASE At("admit") /\ ~SimulateAllowed(work, r.scenario, r.count)
    <3>1. work = db /\ r.op = "simulate"
      BY <1>1, <2>1 DEF TxInv, Starting
    <3>. QED
      BY <2>1, <3>1 DEF Permitted
  <2>2. CASE At("approve") /\ ~Replayable(work, r.row)
    <3>1. work = db /\ r.op = "replay"
      BY <1>1, <2>2 DEF TxInv, Starting
    <3>. QED
      BY <2>2, <3>1 DEF Permitted, ReplayAllowed
  <2>3. CASE At("select") /\ ~ProcessAllowed(work, Selection)
    <3>1. Prepared(db, r) /\ work = Base(db, r) /\ r \in Requests /\ Sound(db)
      BY <1>1, <2>3 DEF TxInv, Selecting, Typed, At
    <3>2. Selection = Chosen(db, r)
      <4>1. r.op = "replay" => Len(Base(db, r).deliveries) = Len(db.deliveries) + 1
        BY <3>1, RunStarts
      <4>. QED
        BY <3>1, <4>1 DEF Selection, Chosen, Base
    <3>3. ~ Running(db, r)
      BY <2>3, <3>1, <3>2 DEF Running
    <3>. QED
      BY <3>1, <3>3, RunStarts
  <2>. QED
    BY <1>1, <2>1, <2>2, <2>3 DEF Refuse, Refusing
<1>2. TxInv => [Refuse => ~Permitted(db, tx.request)]_txvars
  BY <1>1
<1>. QED
  BY <1>2, WorkFollowsRequest, PTL DEF TxSpec, RefusedForAReason

\* What a commit leaves is the warehouse its request asks for.
THEOREM CommitsAreAsAsked == TxSpec => CommitsWhatWasAsked
<1> DEFINE Asked ==
        /\ Permitted(db, tx.request)
        /\ db' = CASE tx.request.op = "simulate" ->
                        AfterSimulate(db, tx.request.scenario, tx.request.count)
                   [] tx.request.op = "run"    -> AfterProcess(db, "manual", Pending(db))
                   [] tx.request.op = "replay" -> AfterReplay(db, tx.request.row)
                   [] tx.request.op = "reset"  -> Seeded
                   [] tx.request.op = "export" -> [db EXCEPT !.audit = Logged(@, "exported")]
<1>1. TxInv /\ [TxNext]_txvars => [Commit => Asked]_txvars
  BY CommitIsNext DEF Result
<1>. QED
  BY <1>1, WorkFollowsRequest, PTL DEF TxSpec, CommitsWhatWasAsked
=============================================================================
