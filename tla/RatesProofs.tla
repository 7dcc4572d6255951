----------------------------- MODULE RatesProofs -----------------------------
(***************************************************************************)
(* Theorems about RateWindows, for every limit, every lifetime that is     *)
(* longer than a window, and every number of visitors, addresses and       *)
(* restarts.  The invariant relates each counter to the history it counts: *)
(* what lies in its window it counts exactly while the window lasts, and   *)
(* what the last minute still holds of earlier windows fits one limit more *)
(* - for an address, one more for every restart that lost a window.        *)
(***************************************************************************)
EXTENDS RateWindows, FiniteSetTheorems, TLAPS

Mark == [at : Nat, nth : Nat]
Row == [since : Nat, requests : Nat, mutations : Nat, expires : Nat]
Window == [since : Nat, count : Nat]

From(history, tick) == {m \in history : m.at >= tick}
Before(history, tick) == {m \in history : m.at < tick}
After(history, tick) == {m \in history : m.at > tick}

\* A history of the last minute, at a tick.
History(history, tick) ==
    /\ history \subseteq Mark /\ IsFiniteSet(history)
    /\ \A m \in history : m.at <= tick /\ tick < m.at + Minute
    /\ \A m \in history : m.at = tick => m.nth <= Cardinality(From(history, tick))

\* The count of a window against the history it counts: at most the limit in the
\* window, and at most the limit in what is left of the windows before it.
Tally(history, since, count, limit, tick) ==
    /\ since \in Nat /\ since <= tick /\ count \in Nat /\ count <= limit
    /\ \A m \in history : m.at < since + Minute
    /\ Cardinality(From(history, since)) <= count
    /\ tick < since + Minute => count <= Cardinality(From(history, since))
    /\ Cardinality(Before(history, since)) <= limit

\* A visitor's row, its history and the time of its last request.
RowTallied(row, requests, mutations, last, tick) ==
    /\ Tally(requests, row.since, row.requests, MaxRequests, tick)
    /\ Tally(mutations, row.since, row.mutations, MaxMutations, tick)
    /\ last # 0
    /\ row.expires >= row.since + Ttl
    /\ row.expires + Minute >= last + Ttl

\* A visitor without a row: never seen, or gone for good.
NoRow(requests, mutations, last, tick) ==
    /\ last = 0 => requests = {} /\ mutations = {}
    /\ Cardinality(requests) <= 2 * MaxRequests
    /\ Cardinality(mutations) <= 2 * MaxMutations
    /\ last # 0 => last + Ttl <= tick + Minute

VisitorTallied(table, v, requests, mutations, last, tick) ==
    IF v \in DOMAIN table
    THEN RowTallied(table[v], requests, mutations, last, tick)
    ELSE NoRow(requests, mutations, last, tick)

VisitorsInv ==
    /\ DOMAIN visitors \subseteq Visitors /\ visitors \in [DOMAIN visitors -> Row]
    /\ tried \in [Visitors -> Nat]
    /\ DOMAIN served = Visitors /\ DOMAIN mutated = Visitors
    /\ \A v \in Visitors :
          /\ History(served[v], clock) /\ History(mutated[v], clock)
          /\ VisitorTallied(visitors, v, served[v], mutated[v], tried[v], clock)

\* The window of an address, as far as the process remembers one.
WindowTallied(window, history, tick) ==
    /\ window.since <= tick /\ window.count \in 1..MaxNew
    /\ Cardinality(After(history, window.since)) <= window.count
    /\ tick < window.since + Minute => window.count <= Cardinality(From(history, window.since))

\* Since any tick of the last minute, an address has begun no more than a window full
\* for the window it had then, one for each restart, and what its window of now counts.
Spread(history, count, restarts, tick) ==
    \A c \in Nat : tick < c + Minute =>
        Cardinality(From(history, c)) <= (1 + Cardinality(From(restarts, c))) * MaxNew + count

CountOf(table, a) == IF a \in DOMAIN table THEN table[a].count ELSE 0

AddressTallied(table, a, history, restarts, tick) ==
    /\ a \in DOMAIN table => WindowTallied(table[a], history, tick)
    /\ Spread(history, CountOf(table, a), restarts, tick)

AddressesInv ==
    /\ DOMAIN windows \subseteq Addresses /\ windows \in [DOMAIN windows -> Window]
    /\ DOMAIN begun = Addresses /\ History(restarted, clock)
    /\ \A a \in Addresses :
          /\ History(begun[a], clock)
          /\ AddressTallied(windows, a, begun[a], restarted, clock)

RatesInv == clock \in Nat \ {0} /\ VisitorsInv /\ AddressesInv

-----------------------------------------------------------------------------
(* Histories.                                                               *)

\* A finite history falls into what lies before a tick and what does not.
LEMMA Parts ==
    ASSUME NEW h, h \subseteq Mark, IsFiniteSet(h), NEW t \in Nat
    PROVE  /\ IsFiniteSet(From(h, t)) /\ IsFiniteSet(Before(h, t)) /\ IsFiniteSet(After(h, t))
           /\ Cardinality(h) \in Nat
           /\ Cardinality(From(h, t)) \in Nat
           /\ Cardinality(Before(h, t)) \in Nat
           /\ Cardinality(After(h, t)) \in Nat
           /\ Cardinality(h) = Cardinality(From(h, t)) + Cardinality(Before(h, t))
           /\ Cardinality(After(h, t)) <= Cardinality(h)
<1>1. From(h, t) \subseteq h /\ Before(h, t) \subseteq h /\ After(h, t) \subseteq h
  BY DEF From, Before, After
<1>2. /\ IsFiniteSet(From(h, t)) /\ IsFiniteSet(Before(h, t)) /\ IsFiniteSet(After(h, t))
      /\ Cardinality(After(h, t)) <= Cardinality(h)
  BY <1>1, FS_Subset
<1>3. /\ Cardinality(h) \in Nat /\ Cardinality(From(h, t)) \in Nat
      /\ Cardinality(Before(h, t)) \in Nat /\ Cardinality(After(h, t)) \in Nat
  BY <1>2, FS_CardinalityType
<1>4. \A m \in h : m.at \in Nat
  BY DEF Mark
<1>5. h = From(h, t) \cup Before(h, t) /\ From(h, t) \cap Before(h, t) = {}
  BY <1>4 DEF From, Before
<1>6. Cardinality(From(h, t) \cup Before(h, t))
        = Cardinality(From(h, t)) + Cardinality(Before(h, t))
              - Cardinality(From(h, t) \cap Before(h, t))
  BY <1>2, FS_Union
<1>7. Cardinality(h) = Cardinality(From(h, t)) + Cardinality(Before(h, t))
  <2>1. Cardinality(From(h, t) \cap Before(h, t)) = 0
    BY <1>5, FS_EmptySet
  <2>2. Cardinality(From(h, t) \cup Before(h, t)) = Cardinality(h)
    BY <1>5
  <2>. QED
    BY <1>3, <1>6, <2>1, <2>2
<1>. QED
  BY <1>2, <1>3, <1>7

\* A mark made now adds one to every count that reaches up to now.
LEMMA NowAdds ==
    ASSUME NEW h, History(h, clock), clock \in Nat
    PROVE  /\ History(Now(h), clock)
           /\ h \subseteq Now(h)
           /\ Cardinality(Now(h)) = Cardinality(h) + 1
           /\ \A m \in Now(h) \ h : m.at = clock
           /\ \A t \in Nat : t <= clock =>
                 /\ Cardinality(From(Now(h), t)) = Cardinality(From(h, t)) + 1
                 /\ Before(Now(h), t) = Before(h, t)
           /\ \A t \in Nat : t < clock =>
                 Cardinality(After(Now(h), t)) = Cardinality(After(h, t)) + 1
           /\ \A t \in Nat : t >= clock => After(Now(h), t) = {}
<1> DEFINE n == Cardinality(From(h, clock))
           mark == [at |-> clock, nth |-> n + 1]
<1>1. /\ h \subseteq Mark /\ IsFiniteSet(h)
      /\ \A m \in h : m.at \in Nat /\ m.at <= clock /\ clock < m.at + Minute
      /\ \A m \in h : m.at = clock => m.nth \in Nat /\ m.nth <= n
  BY DEF History, Mark
<1>2. n \in Nat
  BY <1>1, Parts
<1>3. Now(h) = h \cup {mark}
  <2>1. {m \in h : m.at = clock} = From(h, clock)
    BY <1>1 DEF From
  <2>. QED
    BY <2>1 DEF Now
<1>4. mark \in Mark /\ mark.at = clock /\ mark.nth = n + 1
  BY <1>2 DEF Mark
<1>. HIDE DEF mark
<1>5. mark \notin h
  BY <1>1, <1>2, <1>4
<1>. HIDE DEF n
<1>6. \A S \in SUBSET h : /\ IsFiniteSet(S)
                          /\ Cardinality(S \cup {mark}) = Cardinality(S) + 1
  BY <1>1, <1>5, FS_Subset, FS_AddElement
<1>7. IsFiniteSet(Now(h)) /\ Cardinality(Now(h)) = Cardinality(h) + 1
  BY <1>1, <1>3, <1>6, FS_AddElement
<1>8. \A t \in Nat : t <= clock => /\ From(Now(h), t) = From(h, t) \cup {mark}
                                   /\ Before(Now(h), t) = Before(h, t)
  BY <1>3, <1>4 DEF From, Before
<1>9. \A t \in Nat : t < clock => After(Now(h), t) = After(h, t) \cup {mark}
  BY <1>3, <1>4 DEF After
<1>10. \A t \in Nat : t >= clock => After(Now(h), t) = {}
  BY <1>1, <1>3, <1>4 DEF After
<1>11. \A t \in Nat : From(h, t) \subseteq h /\ After(h, t) \subseteq h
  BY DEF From, After
<1>12. \A t \in Nat : t <= clock =>
                 /\ Cardinality(From(Now(h), t)) = Cardinality(From(h, t)) + 1
                 /\ Before(Now(h), t) = Before(h, t)
  BY <1>6, <1>8, <1>11
<1>13. \A t \in Nat : t < clock =>
                 Cardinality(After(Now(h), t)) = Cardinality(After(h, t)) + 1
  BY <1>6, <1>9, <1>11
<1>14. Cardinality(From(Now(h), clock)) = n + 1
  BY <1>12 DEF n
<1>15. clock < clock + Minute
  BY RateAssumption
<1>16. \A m \in Now(h) : /\ m \in Mark /\ m.at <= clock /\ clock < m.at + Minute
                         /\ m.at = clock => m.nth <= n + 1
  BY <1>1, <1>2, <1>3, <1>4, <1>15
<1>17. History(Now(h), clock)
  BY <1>7, <1>14, <1>16 DEF History
<1>. QED
  BY <1>3, <1>4, <1>7, <1>10, <1>12, <1>13, <1>17

\* A tick forgets what no window that still lasts can count.
LEMMA RecentKeeps ==
    ASSUME NEW t \in Nat, NEW h, History(h, t)
    PROVE  LET r == Recent(h, t + 1) IN
           /\ History(r, t + 1)
           /\ r \subseteq h
           /\ \A c \in Nat : t + 1 < c + Minute => From(r, c) = From(h, c)
           /\ \A c \in Nat : t + 1 <= c + Minute => After(r, c) = After(h, c)
           /\ \A c \in Nat : /\ Cardinality(From(r, c)) <= Cardinality(From(h, c))
                             /\ Cardinality(Before(r, c)) <= Cardinality(Before(h, c))
                             /\ Cardinality(After(r, c)) <= Cardinality(After(h, c))
<1> DEFINE r == Recent(h, t + 1)
<1>1. /\ h \subseteq Mark /\ IsFiniteSet(h)
      /\ \A m \in h : m.at \in Nat /\ m.at <= t
  BY DEF History, Mark
<1>2. r \subseteq h /\ \A m \in h : m \in r <=> m.at + Minute > t + 1
  BY DEF Recent
<1>3. IsFiniteSet(r)
  BY <1>1, <1>2, FS_Subset
<1>. HIDE DEF r
<1>4. Minute \in Nat
  BY RateAssumption
<1>5. \A m \in r : m.at <= t + 1 /\ t + 1 < m.at + Minute /\ m.at # t + 1
  BY <1>1, <1>2, <1>4
<1>6. History(r, t + 1)
  BY <1>1, <1>2, <1>3, <1>5 DEF History
<1>7. \A c \in Nat : t + 1 < c + Minute => From(r, c) = From(h, c)
  BY <1>1, <1>2, <1>4 DEF From
<1>8. \A c \in Nat : t + 1 <= c + Minute => After(r, c) = After(h, c)
  BY <1>1, <1>2, <1>4 DEF After
<1>9. \A c \in Nat : From(r, c) \subseteq From(h, c) /\ Before(r, c) \subseteq Before(h, c)
                    /\ After(r, c) \subseteq After(h, c)
  BY <1>2 DEF From, Before, After
<1>10. \A c \in Nat : IsFiniteSet(From(h, c)) /\ IsFiniteSet(Before(h, c))
                     /\ IsFiniteSet(After(h, c))
  BY <1>1, Parts
<1>11. \A c \in Nat : /\ Cardinality(From(r, c)) <= Cardinality(From(h, c))
                      /\ Cardinality(Before(r, c)) <= Cardinality(Before(h, c))
                      /\ Cardinality(After(r, c)) <= Cardinality(After(h, c))
  BY <1>9, <1>10, FS_Subset
<1>. QED
  BY <1>2, <1>6, <1>7, <1>8, <1>11 DEF r

-----------------------------------------------------------------------------
(* Windows of visitors.                                                     *)

\* Two limits bound a history; a window that lasts has seen what it counts.
LEMMA TallyBounds ==
    ASSUME NEW t \in Nat, NEW h, History(h, t), NEW since, NEW count, NEW limit \in Nat,
           Tally(h, since, count, limit, t)
    PROVE  /\ Cardinality(h) <= 2 * limit
           /\ t < since + Minute => count <= Cardinality(h)
<1>1. since \in Nat /\ count \in Nat /\ h \subseteq Mark /\ IsFiniteSet(h)
  BY DEF Tally, History
<1> DEFINE all == Cardinality(h)
           f == Cardinality(From(h, since))
           b == Cardinality(Before(h, since))
<1>2. all \in Nat /\ f \in Nat /\ b \in Nat /\ all = f + b
  BY <1>1, Parts
<1>3. /\ count <= limit /\ f <= count /\ b <= limit
      /\ t < since + Minute => count <= f
  BY DEF Tally
<1>. HIDE DEF all, f, b
<1>4. all <= 2 * limit /\ (t < since + Minute => count <= all)
  BY <1>1, <1>2, <1>3
<1>. QED
  BY <1>4 DEF all

\* A new row starts with an empty history.
LEMMA TallyFresh ==
    ASSUME NEW t \in Nat, NEW limit \in Nat
    PROVE  Tally({}, t, 0, limit, t)
<1>1. From({}, t) = {} /\ Before({}, t) = {}
  BY DEF From, Before
<1>. QED
  BY <1>1, FS_EmptySet DEF Tally

\* When a window has run out, a new one starts with everything before it.
LEMMA TallyReopens ==
    ASSUME NEW t \in Nat, NEW h, History(h, t), NEW since, NEW count, NEW limit \in Nat,
           Tally(h, since, count, limit, t), since + Minute <= t
    PROVE  Tally(h, t, 0, limit, t)
<1>1. /\ since \in Nat /\ count \in Nat /\ h \subseteq Mark /\ IsFiniteSet(h)
      /\ \A m \in h : m.at \in Nat /\ t < m.at + Minute /\ m.at < since + Minute
      /\ Cardinality(From(h, since)) <= count /\ count <= limit
  BY DEF Tally, History, Mark
<1>2. Minute \in Nat \ {0}
  BY RateAssumption
<1>3. From(h, t) = {} /\ Before(h, t) = h /\ From(h, since) = h
  BY <1>1, <1>2 DEF From, Before
<1>4. Cardinality(From(h, t)) = 0
  BY <1>3, FS_EmptySet
<1>5. Cardinality(Before(h, t)) <= limit
  <2>1. Cardinality(h) \in Nat
    BY <1>1, FS_CardinalityType
  <2>. QED
    BY <1>1, <1>3, <2>1
<1>6. \A m \in h : m.at < t + Minute
  BY <1>1, <1>2
<1>. QED
  BY <1>4, <1>5, <1>6 DEF Tally

\* A request that is let in adds one to its window and one to its history.
LEMMA TallyAdds ==
    ASSUME clock \in Nat, NEW h, History(h, clock), NEW since, NEW count, NEW limit \in Nat,
           Tally(h, since, count, limit, clock), clock < since + Minute, count < limit
    PROVE  Tally(Now(h), since, count + 1, limit, clock)
<1>1. /\ since \in Nat /\ count \in Nat /\ since <= clock /\ h \subseteq Mark /\ IsFiniteSet(h)
      /\ \A m \in h : m.at < since + Minute
      /\ Cardinality(From(h, since)) <= count
      /\ count <= Cardinality(From(h, since))
      /\ Cardinality(Before(h, since)) <= limit
  BY DEF Tally, History
<1>2. /\ Cardinality(From(Now(h), since)) = Cardinality(From(h, since)) + 1
      /\ Before(Now(h), since) = Before(h, since)
      /\ \A m \in Now(h) \ h : m.at = clock
  BY <1>1, NowAdds
<1>3. \A m \in Now(h) : m.at < since + Minute
  BY <1>1, <1>2
<1>4. Cardinality(From(h, since)) \in Nat
  BY <1>1, Parts
<1>. QED
  BY <1>1, <1>2, <1>3, <1>4 DEF Tally

\* As time passes, only the history of a tally shrinks, and with it the windows end.
LEMMA TallyAges ==
    ASSUME NEW t \in Nat, NEW h, History(h, t), NEW since, NEW count, NEW limit \in Nat,
           Tally(h, since, count, limit, t)
    PROVE  Tally(Recent(h, t + 1), since, count, limit, t + 1)
<1> DEFINE r == Recent(h, t + 1)
<1>1. /\ since \in Nat /\ count \in Nat /\ count <= limit /\ since <= t
      /\ h \subseteq Mark /\ IsFiniteSet(h)
      /\ \A m \in h : m.at < since + Minute
      /\ Cardinality(From(h, since)) <= count
      /\ t < since + Minute => count <= Cardinality(From(h, since))
      /\ Cardinality(Before(h, since)) <= limit
  BY DEF Tally, History
<1>2. /\ History(r, t + 1) /\ r \subseteq h
      /\ t + 1 < since + Minute => From(r, since) = From(h, since)
      /\ Cardinality(From(r, since)) <= Cardinality(From(h, since))
      /\ Cardinality(Before(r, since)) <= Cardinality(Before(h, since))
  BY <1>1, RecentKeeps
<1>3. /\ Cardinality(From(h, since)) \in Nat /\ Cardinality(Before(h, since)) \in Nat
      /\ Cardinality(From(r, since)) \in Nat /\ Cardinality(Before(r, since)) \in Nat
  BY <1>1, <1>2, Parts DEF History
<1>4. Minute \in Nat
  BY RateAssumption
<1>. HIDE DEF r
<1>5. /\ since <= t + 1
      /\ \A m \in r : m.at < since + Minute
      /\ Cardinality(From(r, since)) <= count
      /\ t + 1 < since + Minute => count <= Cardinality(From(r, since))
      /\ Cardinality(Before(r, since)) <= limit
  BY <1>1, <1>2, <1>3, <1>4
<1>. QED
  BY <1>1, <1>5 DEF Tally, r

-----------------------------------------------------------------------------
(* Rows of visitors.                                                        *)

RowCounts(row, requests, mutations, tick) ==
    /\ Tally(requests, row.since, row.requests, MaxRequests, tick)
    /\ Tally(mutations, row.since, row.mutations, MaxMutations, tick)

\* What a request is judged by counts the histories, in a window that lasts.
LEMMA CurrentCounts ==
    ASSUME clock \in Nat, NEW row \in Row, NEW s, History(s, clock), NEW u, History(u, clock),
           RowCounts(row, s, u, clock)
    PROVE  /\ Current(row) \in Row
           /\ RowCounts(Current(row), s, u, clock)
           /\ clock < Current(row).since + Minute
           /\ Over(row) => Current(row).requests = 0 /\ Current(row).mutations = 0
           /\ ~ Over(row) => Current(row) = row
<1>1. Minute \in Nat \ {0} /\ Ttl \in Nat /\ MaxRequests \in Nat /\ MaxMutations \in Nat
  BY RateAssumption
<1>2. row.since \in Nat
  BY DEF Row
<1>3. CASE Over(row)
  <2> DEFINE c == Current(row)
  <2>1. c = [since |-> clock, requests |-> 0, mutations |-> 0, expires |-> row.expires]
    BY <1>3 DEF Current, Fresh
  <2>2. row.since + Minute <= clock
    BY <1>3 DEF Over
  <2>3. /\ Tally(s, clock, 0, MaxRequests, clock)
        /\ Tally(u, clock, 0, MaxMutations, clock)
    BY <1>1, <2>2, TallyReopens DEF RowCounts
  <2>4. c \in Row
    BY <2>1 DEF Row
  <2>. HIDE DEF c
  <2>5. c.since = clock /\ c.requests = 0 /\ c.mutations = 0
    BY <2>1
  <2>6. RowCounts(c, s, u, clock)
    BY <2>3, <2>5 DEF RowCounts
  <2>7. clock < c.since + Minute
    BY <1>1, <2>5
  <2>. QED
    BY <1>3, <2>4, <2>5, <2>6, <2>7 DEF c
<1>4. CASE ~ Over(row)
  <2>1. Current(row) = row /\ clock < row.since + Minute
    BY <1>1, <1>2, <1>4 DEF Current, Over
  <2>. QED
    BY <1>4, <2>1
<1>. QED
  BY <1>3, <1>4

\* Counting a request that is let in.
LEMMA CountedCounts ==
    ASSUME clock \in Nat \ {0}, NEW row \in Row, NEW s, History(s, clock), NEW u, History(u, clock),
           RowCounts(row, s, u, clock), clock < row.since + Minute,
           NEW mutation \in BOOLEAN, Admits(row, mutation)
    PROVE  LET next == Counted(row, mutation)
               v == IF mutation THEN Now(u) ELSE u
           IN  /\ next \in Row
               /\ History(Now(s), clock) /\ History(v, clock)
               /\ RowTallied(next, Now(s), v, clock, clock)
<1>1. MaxRequests \in Nat /\ MaxMutations \in Nat /\ Ttl \in Nat /\ Minute \in Nat
  BY RateAssumption
<1>2. row.since \in Nat /\ row.requests \in Nat /\ row.mutations \in Nat /\ row.since <= clock
      /\ row.requests < MaxRequests /\ (mutation => row.mutations < MaxMutations)
  BY DEF Row, RowCounts, Tally, Admits
<1>3. Tally(Now(s), row.since, row.requests + 1, MaxRequests, clock)
  BY <1>1, <1>2, TallyAdds DEF RowCounts
<1>4. History(Now(s), clock) /\ History(Now(u), clock)
  BY NowAdds
<1> DEFINE next == Counted(row, mutation)
           v == IF mutation THEN Now(u) ELSE u
<1>5. History(v, clock)
  BY <1>4
<1>6. /\ next \in Row /\ next.since = row.since /\ next.requests = row.requests + 1
      /\ next.expires = clock + Ttl
      /\ next.mutations = IF mutation THEN row.mutations + 1 ELSE row.mutations
  <2> DEFINE more == row.mutations + (IF mutation THEN 1 ELSE 0)
  <2>1. next = [row EXCEPT !.requests = row.requests + 1, !.mutations = more,
                           !.expires = clock + Ttl]
    BY DEF Counted
  <2>2. more \in Nat /\ more = IF mutation THEN row.mutations + 1 ELSE row.mutations
    BY <1>2
  <2>3. row.requests + 1 \in Nat /\ clock + Ttl \in Nat
    BY <1>1, <1>2
  <2>. HIDE DEF more, next
  <2>4. /\ next \in Row /\ next.since = row.since /\ next.requests = row.requests + 1
        /\ next.expires = clock + Ttl /\ next.mutations = more
    BY <2>1, <2>2, <2>3 DEF Row
  <2>. QED
    BY <2>2, <2>4
<1>. HIDE DEF next
<1>7. Tally(v, next.since, next.mutations, MaxMutations, clock)
  <2>1. CASE mutation
    BY <1>1, <1>2, <1>6, <2>1, TallyAdds DEF RowCounts
  <2>2. CASE ~ mutation
    BY <1>6, <2>2 DEF RowCounts
  <2>. QED
    BY <2>1, <2>2
<1>. HIDE DEF v
<1>8. next.expires >= next.since + Ttl /\ next.expires + Minute >= clock + Ttl
  BY <1>1, <1>2, <1>6
<1>9. RowTallied(next, Now(s), v, clock, clock)
  BY <1>3, <1>6, <1>7, <1>8 DEF RowTallied
<1>. QED
  BY <1>4, <1>5, <1>6, <1>9 DEF next, v

\* A refused request finds a window that lasts and is full: its visitor is not yet
\* near the end of its session.
LEMMA RefusedStays ==
    ASSUME clock \in Nat \ {0}, NEW row \in Row, NEW s, History(s, clock),
           NEW u, History(u, clock), NEW last \in Nat, RowTallied(row, s, u, last, clock),
           NEW mutation \in BOOLEAN, ~ Admits(Current(row), mutation)
    PROVE  /\ RowTallied(row, s, u, clock, clock)
           /\ \/ Cardinality(s) >= MaxRequests
              \/ mutation /\ Cardinality(u) >= MaxMutations
<1>1. /\ MaxRequests \in Nat \ {0} /\ MaxMutations \in Nat \ {0} /\ Ttl \in Nat /\ Minute \in Nat
  BY RateAssumption
<1>2. RowCounts(row, s, u, clock)
  BY DEF RowTallied, RowCounts
<1>3. ~ Over(row) /\ Current(row) = row
  <2>1. Over(row) => Current(row).requests = 0 /\ Current(row).mutations = 0
    BY <1>2, CurrentCounts
  <2>2. ~ Over(row)
    BY <1>1, <2>1 DEF Admits
  <2>. QED
    BY <2>2 DEF Current
<1>4. /\ row.since \in Nat /\ row.expires \in Nat /\ row.requests \in Nat
      /\ row.mutations \in Nat /\ clock < row.since + Minute
  BY <1>1, <1>3 DEF Row, Over
<1>5. row.expires + Minute >= clock + Ttl
  BY <1>1, <1>4 DEF RowTallied
<1>6. row.requests <= Cardinality(s) /\ row.mutations <= Cardinality(u)
  BY <1>1, <1>2, <1>4, TallyBounds DEF RowCounts
<1>7. Cardinality(s) \in Nat /\ Cardinality(u) \in Nat
  BY FS_CardinalityType DEF History
<1>8. row.requests >= MaxRequests \/ (mutation /\ row.mutations >= MaxMutations)
  BY <1>1, <1>3, <1>4 DEF Admits
<1>9. Cardinality(s) >= MaxRequests \/ (mutation /\ Cardinality(u) >= MaxMutations)
  BY <1>1, <1>4, <1>6, <1>7, <1>8
<1>10. RowTallied(row, s, u, clock, clock)
  BY <1>5 DEF RowTallied
<1>. QED
  BY <1>9, <1>10

\* A visitor that is swept away has not been heard of for its lifetime, less a window.
LEMMA SweptIsGone ==
    ASSUME clock \in Nat, NEW row \in Row, NEW s, History(s, clock), NEW u, History(u, clock),
           NEW last \in Nat, RowTallied(row, s, u, last, clock), row.expires <= clock
    PROVE  NoRow(s, u, last, clock)
<1>1. MaxRequests \in Nat /\ MaxMutations \in Nat /\ Ttl \in Nat /\ Minute \in Nat
  BY RateAssumption
<1>2. Cardinality(s) <= 2 * MaxRequests /\ Cardinality(u) <= 2 * MaxMutations
  BY <1>1, TallyBounds DEF RowTallied
<1>3. row.expires \in Nat /\ row.expires + Minute >= last + Ttl /\ last # 0
  BY DEF Row, RowTallied
<1>4. last + Ttl <= clock + Minute
  BY <1>1, <1>3
<1>. QED
  BY <1>2, <1>3, <1>4 DEF NoRow

\* A row and its histories as time passes.
LEMMA RowAges ==
    ASSUME NEW t \in Nat, NEW row \in Row, NEW s, History(s, t), NEW u, History(u, t),
           NEW last \in Nat, RowTallied(row, s, u, last, t)
    PROVE  RowTallied(row, Recent(s, t + 1), Recent(u, t + 1), last, t + 1)
<1>1. MaxRequests \in Nat /\ MaxMutations \in Nat
  BY RateAssumption
<1>2. /\ Tally(Recent(s, t + 1), row.since, row.requests, MaxRequests, t + 1)
      /\ Tally(Recent(u, t + 1), row.since, row.mutations, MaxMutations, t + 1)
  BY <1>1, TallyAges DEF RowTallied
<1>. QED
  BY <1>2 DEF RowTallied

\* A visitor without a row as time passes: it is not taken for active again.
LEMMA NoRowAges ==
    ASSUME NEW t \in Nat, NEW s, History(s, t), NEW u, History(u, t),
           NEW last \in Nat, NoRow(s, u, last, t)
    PROVE  NoRow(Recent(s, t + 1), Recent(u, t + 1), last, t + 1)
<1>1. MaxRequests \in Nat /\ MaxMutations \in Nat /\ Minute \in Nat /\ Ttl \in Nat
  BY RateAssumption
<1>2. \A h : History(h, t) => /\ Recent(h, t + 1) \subseteq h
                             /\ Cardinality(Recent(h, t + 1)) <= Cardinality(h)
                             /\ Cardinality(Recent(h, t + 1)) \in Nat
                             /\ Cardinality(h) \in Nat
  <2> SUFFICES ASSUME NEW h, History(h, t)
               PROVE  /\ Recent(h, t + 1) \subseteq h
                      /\ Cardinality(Recent(h, t + 1)) <= Cardinality(h)
                      /\ Cardinality(Recent(h, t + 1)) \in Nat
                      /\ Cardinality(h) \in Nat
    OBVIOUS
  <2>1. Recent(h, t + 1) \subseteq h
    BY DEF Recent
  <2>. QED
    BY <2>1, FS_Subset, FS_CardinalityType DEF History
<1>3. last = 0 => Recent(s, t + 1) = {} /\ Recent(u, t + 1) = {}
  BY <1>2 DEF NoRow
<1>4. /\ Cardinality(Recent(s, t + 1)) <= 2 * MaxRequests
      /\ Cardinality(Recent(u, t + 1)) <= 2 * MaxMutations
  BY <1>1, <1>2 DEF NoRow
<1>5. last # 0 => last + Ttl <= (t + 1) + Minute
  BY <1>1 DEF NoRow
<1>. QED
  BY <1>3, <1>4, <1>5 DEF NoRow

-----------------------------------------------------------------------------
(* Windows of addresses.                                                    *)

\* Multiples of the limit, which the provers do not multiply out by themselves.
LEMMA Multiples ==
    ASSUME NEW n \in Nat
    PROVE  /\ MaxNew \in Nat \ {0}
           /\ (1 + n) * MaxNew \in Nat
           /\ (1 + n) * MaxNew >= MaxNew
           /\ (1 + (n + 1)) * MaxNew = (1 + n) * MaxNew + MaxNew
           /\ (2 + n) * MaxNew = (1 + n) * MaxNew + MaxNew
<1>1. MaxNew \in Nat \ {0}
  BY RateAssumption
<1>2. n * MaxNew \in Nat
  BY <1>1
<1>3. (1 + n) * MaxNew = MaxNew + n * MaxNew
  BY <1>1
<1>4. (2 + n) * MaxNew = MaxNew + MaxNew + n * MaxNew
  BY <1>1
<1>5. 1 + (n + 1) = 2 + n
  OBVIOUS
<1>. QED
  BY <1>1, <1>2, <1>3, <1>4, <1>5

\* Within a minute, an address has begun what two windows and the restarts allow.
LEMMA SpreadBounds ==
    ASSUME NEW t \in Nat, NEW h, History(h, t), NEW r, History(r, t),
           NEW count \in 0..MaxNew, Spread(h, count, r, t)
    PROVE  Cardinality(h) <= (2 + Cardinality(r)) * MaxNew
<1>1. Minute \in Nat \ {0} /\ MaxNew \in Nat
  BY RateAssumption
<1>2. PICK c \in Nat : t < c + Minute /\ \A n \in Nat : t < n + Minute => c <= n
  <2>1. CASE t < Minute
    <3>1. 0 \in Nat /\ t < 0 + Minute /\ \A n \in Nat : 0 <= n
      BY <1>1, <2>1
    <3>. QED
      BY <3>1
  <2>2. CASE ~ (t < Minute)
    <3> DEFINE d == t + 1 - Minute
    <3>1. d \in Nat /\ t < d + Minute /\ \A n \in Nat : t < n + Minute => d <= n
      BY <1>1, <2>2
    <3>. HIDE DEF d
    <3>. QED
      BY <3>1
  <2>. QED
    BY <2>1, <2>2
<1>3. From(h, c) = h /\ From(r, c) = r
  <2>1. \A m \in h : m.at \in Nat /\ t < m.at + Minute
    BY DEF History, Mark
  <2>2. \A m \in r : m.at \in Nat /\ t < m.at + Minute
    BY DEF History, Mark
  <2>. QED
    BY <1>2, <2>1, <2>2 DEF From
<1>4. Cardinality(h) <= (1 + Cardinality(r)) * MaxNew + count
  BY <1>2, <1>3 DEF Spread
<1>5. Cardinality(h) \in Nat /\ Cardinality(r) \in Nat
  BY FS_CardinalityType DEF History
<1>6. /\ (1 + Cardinality(r)) * MaxNew \in Nat
      /\ (2 + Cardinality(r)) * MaxNew = (1 + Cardinality(r)) * MaxNew + MaxNew
  BY <1>5, Multiples
<1>. QED
  BY <1>1, <1>4, <1>5, <1>6

\* A window that has run out need not be remembered.
LEMMA OverIsSpread ==
    ASSUME NEW t \in Nat, NEW h, History(h, t), NEW r, History(r, t), NEW window \in Window,
           WindowTallied(window, h, t), window.since + Minute <= t
    PROVE  Spread(h, 0, r, t)
<1>1. Minute \in Nat \ {0} /\ window.since \in Nat /\ window.count \in Nat /\ MaxNew \in Nat
      /\ window.count <= MaxNew
  BY RateAssumption DEF Window, WindowTallied
<1>2. h \subseteq Mark /\ IsFiniteSet(h) /\ r \subseteq Mark /\ IsFiniteSet(r)
      /\ \A m \in h : m.at \in Nat /\ t < m.at + Minute
  BY DEF History, Mark
<1>3. After(h, window.since) = h
  BY <1>1, <1>2 DEF After
<1>4. Cardinality(h) \in Nat /\ Cardinality(h) <= MaxNew
  <2>1. Cardinality(h) \in Nat /\ Cardinality(h) <= window.count
    BY <1>2, <1>3, FS_CardinalityType DEF WindowTallied
  <2>. QED
    BY <1>1, <2>1
<1>5. ASSUME NEW c \in Nat
      PROVE  Cardinality(From(h, c)) <= (1 + Cardinality(From(r, c))) * MaxNew + 0
  <2>1. Cardinality(From(h, c)) \in Nat /\ Cardinality(From(r, c)) \in Nat
    BY <1>2, Parts
  <2>2. Cardinality(From(h, c)) <= Cardinality(h)
    <3>1. From(h, c) \subseteq h
      BY DEF From
    <3>. QED
      BY <1>2, <3>1, FS_Subset
  <2>3. (1 + Cardinality(From(r, c))) * MaxNew \in Nat
        /\ (1 + Cardinality(From(r, c))) * MaxNew >= MaxNew
    BY <2>1, Multiples
  <2>. QED
    BY <1>1, <1>4, <2>1, <2>2, <2>3
<1>. QED
  BY <1>5 DEF Spread

\* One workspace more.
LEMMA SpreadGrows ==
    ASSUME clock \in Nat, NEW h, History(h, clock), NEW r, History(r, clock),
           NEW count \in Nat, Spread(h, count, r, clock)
    PROVE  Spread(Now(h), count + 1, r, clock)
<1> SUFFICES ASSUME NEW c \in Nat, clock < c + Minute
             PROVE  Cardinality(From(Now(h), c))
                      <= (1 + Cardinality(From(r, c))) * MaxNew + (count + 1)
  BY DEF Spread
<1>1. Cardinality(From(h, c)) \in Nat /\ Cardinality(From(r, c)) \in Nat
  BY Parts DEF History
<1>2. (1 + Cardinality(From(r, c))) * MaxNew \in Nat
  BY <1>1, Multiples
<1>3. CASE c <= clock
  <2>1. Cardinality(From(Now(h), c)) = Cardinality(From(h, c)) + 1
    BY <1>3, NowAdds
  <2>2. Cardinality(From(h, c)) <= (1 + Cardinality(From(r, c))) * MaxNew + count
    BY DEF Spread
  <2>. QED
    BY <1>1, <1>2, <2>1, <2>2
<1>4. CASE ~ (c <= clock)
  <2>1. \A m \in Now(h) : m.at \in Nat /\ m.at <= clock
    BY NowAdds DEF History, Mark
  <2>2. From(Now(h), c) = {}
    BY <1>4, <2>1 DEF From
  <2>3. Cardinality(From(Now(h), c)) = 0
    BY <2>2, FS_EmptySet
  <2>. QED
    BY <1>2, <2>3
<1>. QED
  BY <1>3, <1>4

\* A restart loses the window, whatever it counted.
LEMMA SpreadRestarts ==
    ASSUME clock \in Nat, NEW h, History(h, clock), NEW r, History(r, clock),
           NEW count \in 0..MaxNew, Spread(h, count, r, clock)
    PROVE  Spread(h, 0, Now(r), clock)
<1> SUFFICES ASSUME NEW c \in Nat, clock < c + Minute
             PROVE  Cardinality(From(h, c))
                      <= (1 + Cardinality(From(Now(r), c))) * MaxNew + 0
  BY DEF Spread
<1>1. Cardinality(From(h, c)) \in Nat /\ Cardinality(From(r, c)) \in Nat
      /\ Cardinality(From(Now(r), c)) \in Nat
  BY Parts, NowAdds DEF History
<1>2. /\ MaxNew \in Nat
      /\ (1 + Cardinality(From(r, c))) * MaxNew \in Nat
      /\ (1 + Cardinality(From(Now(r), c))) * MaxNew \in Nat
      /\ (1 + (Cardinality(From(r, c)) + 1)) * MaxNew
            = (1 + Cardinality(From(r, c))) * MaxNew + MaxNew
  BY <1>1, Multiples
<1>3. CASE c <= clock
  <2>1. Cardinality(From(Now(r), c)) = Cardinality(From(r, c)) + 1
    BY <1>3, NowAdds
  <2>2. Cardinality(From(h, c)) <= (1 + Cardinality(From(r, c))) * MaxNew + count
    BY DEF Spread
  <2>. QED
    BY <1>1, <1>2, <2>1, <2>2
<1>4. CASE ~ (c <= clock)
  <2>1. \A m \in h : m.at \in Nat /\ m.at <= clock
    BY DEF History, Mark
  <2>2. From(h, c) = {}
    BY <1>4, <2>1 DEF From
  <2>3. Cardinality(From(h, c)) = 0
    BY <2>2, FS_EmptySet
  <2>. QED
    BY <1>2, <2>3
<1>. QED
  BY <1>3, <1>4

\* The spread of an address as time passes.
LEMMA SpreadAges ==
    ASSUME NEW t \in Nat, NEW h, History(h, t), NEW r, History(r, t),
           NEW count, Spread(h, count, r, t)
    PROVE  Spread(Recent(h, t + 1), count, Recent(r, t + 1), t + 1)
<1> SUFFICES ASSUME NEW c \in Nat, t + 1 < c + Minute
             PROVE  Cardinality(From(Recent(h, t + 1), c))
                      <= (1 + Cardinality(From(Recent(r, t + 1), c))) * MaxNew + count
  BY DEF Spread
<1>1. t < c + Minute
  BY RateAssumption
<1>2. From(Recent(h, t + 1), c) = From(h, c) /\ From(Recent(r, t + 1), c) = From(r, c)
  BY RecentKeeps
<1>. QED
  BY <1>1, <1>2 DEF Spread

\* A workspace begun in a window that lasts.
LEMMA WindowGrows ==
    ASSUME clock \in Nat, NEW h, History(h, clock), NEW window \in Window,
           WindowTallied(window, h, clock), clock < window.since + Minute,
           window.count < MaxNew
    PROVE  WindowTallied([window EXCEPT !.count = @ + 1], Now(h), clock)
<1> DEFINE more == [window EXCEPT !.count = window.count + 1]
<1>1. /\ window.since \in Nat /\ window.count \in Nat /\ MaxNew \in Nat
      /\ window.since <= clock /\ window.count >= 1
  BY RateAssumption DEF Window, WindowTallied
<1>2. more.since = window.since /\ more.count = window.count + 1
  BY DEF Window
<1>. HIDE DEF more
<1>3. /\ Cardinality(From(h, window.since)) \in Nat /\ Cardinality(After(h, window.since)) \in Nat
      /\ window.count <= Cardinality(From(h, window.since))
      /\ Cardinality(After(h, window.since)) <= window.count
  BY <1>1, Parts DEF History, WindowTallied
<1>4. Cardinality(From(Now(h), window.since)) = Cardinality(From(h, window.since)) + 1
  BY <1>1, NowAdds
<1>5. Cardinality(After(Now(h), window.since)) <= window.count + 1
  <2>1. CASE window.since < clock
    <3>1. Cardinality(After(Now(h), window.since)) = Cardinality(After(h, window.since)) + 1
      BY <1>1, <2>1, NowAdds
    <3>. QED
      BY <1>1, <1>3, <3>1
  <2>2. CASE window.since >= clock
    <3>1. After(Now(h), window.since) = {}
      BY <1>1, <2>2, NowAdds
    <3>2. Cardinality(After(Now(h), window.since)) = 0
      BY <3>1, FS_EmptySet
    <3>. QED
      BY <1>1, <3>2
  <2>. QED
    BY <1>1, <2>1, <2>2
<1>6. WindowTallied(more, Now(h), clock)
  BY <1>1, <1>2, <1>3, <1>4, <1>5 DEF WindowTallied
<1>. QED
  BY <1>6 DEF more

\* The first workspace of a new window.
LEMMA WindowOpens ==
    ASSUME clock \in Nat, NEW h, History(h, clock)
    PROVE  WindowTallied([since |-> clock, count |-> 1], Now(h), clock)
<1>1. MaxNew \in Nat \ {0} /\ 1 \in 1..MaxNew
  BY RateAssumption
<1>2. Cardinality(After(Now(h), clock)) = 0
  <2>1. After(Now(h), clock) = {}
    BY NowAdds
  <2>. QED
    BY <2>1, FS_EmptySet
<1>3. Cardinality(From(Now(h), clock)) >= 1
  <2>1. Cardinality(From(h, clock)) \in Nat
    BY Parts DEF History
  <2>2. Cardinality(From(Now(h), clock)) = Cardinality(From(h, clock)) + 1
    BY NowAdds
  <2>. QED
    BY <2>1, <2>2
<1>. QED
  BY <1>1, <1>2, <1>3 DEF WindowTallied

\* The window of an address as time passes.
LEMMA WindowAges ==
    ASSUME NEW t \in Nat, NEW h, History(h, t), NEW window \in Window,
           WindowTallied(window, h, t)
    PROVE  WindowTallied(window, Recent(h, t + 1), t + 1)
<1> DEFINE r == Recent(h, t + 1)
           c == window.since
<1>1. c \in Nat /\ c <= t /\ Minute \in Nat /\ window.count \in Nat
  BY RateAssumption DEF Window, WindowTallied
<1>2. /\ History(r, t + 1)
      /\ t + 1 < c + Minute => From(r, c) = From(h, c)
      /\ Cardinality(After(r, c)) <= Cardinality(After(h, c))
  BY <1>1, RecentKeeps
<1>3. Cardinality(After(r, c)) \in Nat /\ Cardinality(After(h, c)) \in Nat
  BY <1>1, <1>2, Parts DEF History
<1>4. Cardinality(After(h, c)) <= window.count
  BY DEF WindowTallied
<1>. HIDE DEF r
<1>5. Cardinality(After(r, c)) <= window.count
  BY <1>1, <1>2, <1>3, <1>4
<1>6. t + 1 < c + Minute => window.count <= Cardinality(From(r, c))
  BY <1>1, <1>2 DEF WindowTallied
<1>. QED
  BY <1>1, <1>5, <1>6 DEF WindowTallied, r

\* The tables of windows, of one address after the other.
LEMMA PrunedKeeps ==
    ASSUME clock \in Nat, NEW table, DOMAIN table \subseteq Addresses,
           table \in [DOMAIN table -> Window]
    PROVE  LET p == Pruned(table) IN
           /\ DOMAIN p \subseteq DOMAIN table
           /\ p \in [DOMAIN p -> Window]
           /\ \A a \in DOMAIN p : p[a] = table[a] /\ clock < p[a].since + Minute
           /\ \A a, h, r : /\ History(h, clock) /\ History(r, clock)
                           /\ AddressTallied(table, a, h, r, clock)
                           => AddressTallied(p, a, h, r, clock)
<1> DEFINE p == Pruned(table)
<1>1. /\ DOMAIN p = {a \in DOMAIN table : ~ Over(table[a])}
      /\ \A a \in DOMAIN p : p[a] = table[a]
  BY DEF Pruned, Restrict
<1>2. p \in [DOMAIN p -> Window]
  BY <1>1 DEF Pruned, Restrict
<1>. HIDE DEF p
<1>3. \A a \in DOMAIN p : clock < p[a].since + Minute
  BY <1>1, RateAssumption DEF Over, Window
<1>4. ASSUME NEW a, NEW h, NEW r, History(h, clock), History(r, clock),
             AddressTallied(table, a, h, r, clock)
      PROVE  AddressTallied(p, a, h, r, clock)
  <2>1. CASE a \in DOMAIN p \/ a \notin DOMAIN table
    BY <1>1, <1>4, <2>1 DEF AddressTallied, CountOf
  <2>2. CASE a \in DOMAIN table \ DOMAIN p
    <3>1. table[a] \in Window /\ table[a].since + Minute <= clock
      BY <1>1, <2>2 DEF Over
    <3>2. Spread(h, 0, r, clock)
      BY <1>4, <2>2, <3>1, OverIsSpread DEF AddressTallied
    <3>. QED
      BY <2>2, <3>2 DEF AddressTallied, CountOf
  <2>. QED
    BY <2>1, <2>2
<1>5. DOMAIN p \subseteq DOMAIN table
  BY <1>1
<1>. QED
  BY <1>1, <1>2, <1>3, <1>4, <1>5 DEF p

\* An address that is admitted, in its window or a new one, keeps its tally.
LEMMA BegunKeeps ==
    ASSUME clock \in Nat, NEW table, table \in [DOMAIN table -> Window],
           NEW a, AddressAdmits(table, a),
           a \in DOMAIN table => clock < table[a].since + Minute,
           NEW h, History(h, clock), NEW r, History(r, clock),
           AddressTallied(table, a, h, r, clock)
    PROVE  LET b == Begun(table, a) IN
           /\ DOMAIN b = DOMAIN table \cup {a}
           /\ b \in [DOMAIN b -> Window]
           /\ \A x \in DOMAIN table \ {a} : b[x] = table[x]
           /\ AddressTallied(b, a, Now(h), r, clock)
<1> DEFINE b == Begun(table, a)
<1>1. CASE a \in DOMAIN table
  <2> DEFINE window == table[a]
             more == [window EXCEPT !.count = @ + 1]
  <2>1. window \in Window /\ window.count < MaxNew /\ window.count \in Nat
    BY <1>1 DEF AddressAdmits, Window
  <2>2. b = [table EXCEPT ![a] = more]
    BY <1>1 DEF Begun
  <2>3. more \in Window /\ more.count = window.count + 1
    BY <2>1 DEF Window
  <2>4. WindowTallied(more, Now(h), clock)
    BY <1>1, <2>1, WindowGrows DEF AddressTallied
  <2>5. Spread(Now(h), window.count + 1, r, clock)
    BY <1>1, <2>1, SpreadGrows DEF AddressTallied, CountOf
  <2>. HIDE DEF more, b
  <2>6. DOMAIN b = DOMAIN table \cup {a} /\ b[a] = more /\ b \in [DOMAIN b -> Window]
        /\ \A x \in DOMAIN table \ {a} : b[x] = table[x]
    BY <1>1, <2>2, <2>3
  <2>7. AddressTallied(b, a, Now(h), r, clock)
    BY <2>3, <2>4, <2>5, <2>6 DEF AddressTallied, CountOf
  <2>. QED
    BY <2>6, <2>7 DEF b
<1>2. CASE a \notin DOMAIN table
  <2> DEFINE new == [since |-> clock, count |-> 1]
  <2>1. b = [y \in DOMAIN table \cup {a} |-> IF y = a THEN new ELSE table[y]]
    BY <1>2 DEF Begun, WithRow
  <2>2. new \in Window /\ new.count = 1
    BY DEF Window
  <2>3. WindowTallied(new, Now(h), clock)
    BY WindowOpens
  <2>4. Spread(Now(h), 0 + 1, r, clock)
    BY <1>2, SpreadGrows DEF AddressTallied, CountOf
  <2>. HIDE DEF new, b
  <2>5. DOMAIN b = DOMAIN table \cup {a} /\ b[a] = new /\ b \in [DOMAIN b -> Window]
        /\ \A x \in DOMAIN table \ {a} : b[x] = table[x]
    BY <2>1, <2>2
  <2>6. AddressTallied(b, a, Now(h), r, clock)
    BY <2>2, <2>3, <2>4, <2>5 DEF AddressTallied, CountOf
  <2>. QED
    BY <2>5, <2>6 DEF b
<1>. QED
  BY <1>1, <1>2

-----------------------------------------------------------------------------
(* The steps.                                                               *)

\* The sweep that begins every call.
LEMMA SweptKeeps ==
    ASSUME clock \in Nat, VisitorsInv
    PROVE  LET rows == Swept(visitors) IN
           /\ DOMAIN rows \subseteq DOMAIN visitors /\ rows \in [DOMAIN rows -> Row]
           /\ \A v \in DOMAIN rows : rows[v] = visitors[v]
           /\ \A v \in Visitors :
                 VisitorTallied(rows, v, served[v], mutated[v], tried[v], clock)
<1> DEFINE rows == Swept(visitors)
<1>1. /\ DOMAIN rows = {v \in DOMAIN visitors : visitors[v].expires > clock}
      /\ \A v \in DOMAIN rows : rows[v] = visitors[v]
  BY DEF Swept, Restrict
<1>2. rows \in [DOMAIN rows -> Row]
  <2>1. rows = [v \in DOMAIN rows |-> visitors[v]]
    BY DEF Swept, Restrict
  <2>2. \A v \in DOMAIN rows : visitors[v] \in Row
    BY <1>1 DEF VisitorsInv
  <2>. HIDE DEF rows
  <2>. QED
    BY <2>1, <2>2
<1>. HIDE DEF rows
<1>3. ASSUME NEW v \in Visitors
      PROVE  VisitorTallied(rows, v, served[v], mutated[v], tried[v], clock)
  <2>1. /\ VisitorTallied(visitors, v, served[v], mutated[v], tried[v], clock)
        /\ History(served[v], clock) /\ History(mutated[v], clock) /\ tried[v] \in Nat
    BY DEF VisitorsInv
  <2>2. CASE v \in DOMAIN rows \/ v \notin DOMAIN visitors
    BY <1>1, <2>1, <2>2 DEF VisitorTallied
  <2>3. CASE v \in DOMAIN visitors /\ v \notin DOMAIN rows
    <3>1. visitors[v] \in Row /\ visitors[v].expires \in Nat
      BY <2>3 DEF VisitorsInv, Row
    <3>2. visitors[v].expires <= clock
      BY <1>1, <2>3, <3>1
    <3>3. NoRow(served[v], mutated[v], tried[v], clock)
      BY <2>1, <2>3, <3>1, <3>2, SweptIsGone DEF VisitorTallied
    <3>. QED
      BY <2>3, <3>3 DEF VisitorTallied
  <2>. QED
    BY <2>2, <2>3
<1>4. DOMAIN rows \subseteq DOMAIN visitors
  BY <1>1
<1>. QED
  BY <1>1, <1>2, <1>3, <1>4 DEF rows

\* A call that gets no further than the sweep.
LEMMA SweepKeeps ==
    ASSUME clock \in Nat, VisitorsInv, visitors' = Swept(visitors),
           clock' = clock, tried' = tried, served' = served, mutated' = mutated
    PROVE  VisitorsInv'
<1> DEFINE rows == Swept(visitors)
<1>1. /\ DOMAIN rows \subseteq Visitors /\ rows \in [DOMAIN rows -> Row]
      /\ \A v \in Visitors : VisitorTallied(rows, v, served[v], mutated[v], tried[v], clock)
  BY SweptKeeps DEF VisitorsInv
<1>. HIDE DEF rows
<1>2. visitors' = rows
  BY DEF rows
<1>. QED
  BY <1>1, <1>2 DEF VisitorsInv

\* A call that changes the row and the histories of one visitor besides.
LEMMA OneVisitorKeeps ==
    ASSUME clock \in Nat, VisitorsInv, clock' = clock, NEW v \in Visitors, NEW row \in Row,
           visitors' = WithRow(Swept(visitors), v, row),
           tried' = [tried EXCEPT ![v] = clock],
           DOMAIN served' = Visitors, DOMAIN mutated' = Visitors,
           \A w \in Visitors \ {v} : served'[w] = served[w] /\ mutated'[w] = mutated[w],
           History(served'[v], clock), History(mutated'[v], clock),
           RowTallied(row, served'[v], mutated'[v], clock, clock)
    PROVE  VisitorsInv'
<1> DEFINE rows == Swept(visitors)
<1>1. /\ DOMAIN rows \subseteq Visitors /\ rows \in [DOMAIN rows -> Row]
      /\ \A w \in Visitors : VisitorTallied(rows, w, served[w], mutated[w], tried[w], clock)
  BY SweptKeeps DEF VisitorsInv
<1>2. visitors' = [w \in DOMAIN rows \cup {v} |-> IF w = v THEN row ELSE rows[w]]
  BY DEF WithRow
<1>. HIDE DEF rows
<1>3. /\ DOMAIN visitors' = DOMAIN rows \cup {v} /\ visitors' \in [DOMAIN visitors' -> Row]
      /\ visitors'[v] = row /\ \A w \in DOMAIN rows \ {v} : visitors'[w] = rows[w]
  BY <1>1, <1>2
<1>4. /\ tried' \in [Visitors -> Nat] /\ tried'[v] = clock
      /\ \A w \in Visitors \ {v} : tried'[w] = tried[w]
  BY DEF VisitorsInv
<1>5. ASSUME NEW w \in Visitors
      PROVE  /\ History(served'[w], clock) /\ History(mutated'[w], clock)
             /\ VisitorTallied(visitors', w, served'[w], mutated'[w], tried'[w], clock)
  <2>1. CASE w = v
    BY <1>3, <1>4, <2>1 DEF VisitorTallied
  <2>2. CASE w # v
    <3>1. History(served[w], clock) /\ History(mutated[w], clock)
      BY DEF VisitorsInv
    <3>2. VisitorTallied(visitors', w, served[w], mutated[w], tried[w], clock)
      BY <1>1, <1>3, <2>2 DEF VisitorTallied
    <3>. QED
      BY <1>4, <2>2, <3>1, <3>2
  <2>. QED
    BY <2>1, <2>2
<1>. QED
  BY <1>1, <1>3, <1>4, <1>5 DEF VisitorsInv

\* A request of a known visitor, and what its refusal rests on.
LEMMA PresentKeeps ==
    ASSUME RatesInv, NEW v \in Visitors, NEW mutation \in BOOLEAN, Present(v, mutation)
    PROVE  RatesInv' /\ RefusalsAreEarned'
<1> DEFINE rows == Swept(visitors)
           row == rows[v]
           s == served[v]
           u == mutated[v]
<1>1. clock \in Nat \ {0} /\ VisitorsInv /\ AddressesInv
  BY DEF RatesInv
<1>2. /\ v \in DOMAIN rows /\ tried' = [tried EXCEPT ![v] = clock]
      /\ clock' = clock /\ windows' = windows /\ begun' = begun /\ restarted' = restarted
      /\ \/ /\ Admits(Current(row), mutation)
            /\ visitors' = [rows EXCEPT ![v] = Counted(Current(row), mutation)]
            /\ served' = [served EXCEPT ![v] = Now(@)]
            /\ mutated' = IF mutation THEN [mutated EXCEPT ![v] = Now(@)] ELSE mutated
            /\ verdict' = Answer("served", v, mutation)
         \/ /\ ~ Admits(Current(row), mutation)
            /\ visitors' = rows
            /\ verdict' = Answer("too_many_requests", v, mutation)
            /\ served' = served /\ mutated' = mutated
  BY DEF Present
<1>3. AddressesInv'
  BY <1>1, <1>2 DEF AddressesInv
<1>4. /\ rows \in [DOMAIN rows -> Row] /\ rows[v] = visitors[v]
      /\ VisitorTallied(rows, v, s, u, tried[v], clock)
  BY <1>1, <1>2, SweptKeeps
<1>5. /\ row \in Row /\ History(s, clock) /\ History(u, clock) /\ tried[v] \in Nat
      /\ RowTallied(row, s, u, tried[v], clock) /\ RowCounts(row, s, u, clock)
      /\ DOMAIN served = Visitors /\ DOMAIN mutated = Visitors
  BY <1>1, <1>2, <1>4 DEF VisitorsInv, VisitorTallied, RowTallied, RowCounts
<1>. HIDE DEF rows
<1>6. CASE Admits(Current(row), mutation)
  <2> DEFINE next == Counted(Current(row), mutation)
             m == IF mutation THEN Now(u) ELSE u
  <2>1. /\ visitors' = [rows EXCEPT ![v] = next]
        /\ served' = [served EXCEPT ![v] = Now(s)]
        /\ mutated' = IF mutation THEN [mutated EXCEPT ![v] = Now(u)] ELSE mutated
        /\ verdict' = Answer("served", v, mutation)
    BY <1>2, <1>6
  <2>2. /\ Current(row) \in Row /\ RowCounts(Current(row), s, u, clock)
        /\ clock < Current(row).since + Minute
    BY <1>1, <1>5, CurrentCounts
  <2>3. /\ next \in Row /\ History(Now(s), clock) /\ History(m, clock)
        /\ RowTallied(next, Now(s), m, clock, clock)
    BY <1>1, <1>5, <1>6, <2>2, CountedCounts
  <2>. HIDE DEF next, m, row, u
  <2>4. visitors' = WithRow(rows, v, next)
    BY <1>2, <1>4, <2>1 DEF WithRow
  <2>5. /\ DOMAIN served' = Visitors /\ served'[v] = Now(s)
        /\ DOMAIN mutated' = Visitors /\ mutated'[v] = m
        /\ \A w \in Visitors \ {v} : served'[w] = served[w] /\ mutated'[w] = mutated[w]
    BY <1>5, <2>1 DEF m, u
  <2>6. VisitorsInv'
    BY <1>1, <1>2, <2>3, <2>4, <2>5, OneVisitorKeeps DEF rows
  <2>. QED
    BY <1>1, <1>2, <1>3, <2>1, <2>6 DEF RatesInv, RefusalsAreEarned, Answer
<1>7. CASE ~ Admits(Current(row), mutation)
  <2>1. /\ visitors' = rows /\ served' = served /\ mutated' = mutated
        /\ verdict' = Answer("too_many_requests", v, mutation)
    BY <1>2, <1>7
  <2>2. /\ RowTallied(row, s, u, clock, clock)
        /\ \/ Cardinality(s) >= MaxRequests
           \/ mutation /\ Cardinality(u) >= MaxMutations
    BY <1>1, <1>5, <1>7, RefusedStays
  <2>3. RefusalsAreEarned'
    BY <2>1, <2>2 DEF RefusalsAreEarned, Answer, LastMinute
  <2>4. VisitorsInv'
    <3>1. visitors' = WithRow(rows, v, row)
      BY <1>2, <1>4, <2>1 DEF WithRow
    <3>. HIDE DEF row
    <3>. QED
      BY <1>1, <1>2, <1>5, <2>1, <2>2, <3>1, OneVisitorKeeps DEF rows
  <2>. QED
    BY <1>1, <1>2, <1>3, <2>3, <2>4 DEF RatesInv
<1>. QED
  BY <1>6, <1>7

\* A new workspace counts for its address, initialized or not.
LEMMA WelcomeKeeps ==
    ASSUME clock \in Nat, AddressesInv, NEW a \in Addresses, Welcome(a),
           clock' = clock, restarted' = restarted
    PROVE  AddressesInv'
<1> DEFINE table == Pruned(windows)
           b == Begun(table, a)
<1>1. /\ AddressAdmits(table, a) /\ windows' = b
      /\ begun' = [begun EXCEPT ![a] = Now(begun[a])]
  BY DEF Welcome
<1>2. /\ DOMAIN windows \subseteq Addresses /\ windows \in [DOMAIN windows -> Window]
      /\ DOMAIN begun = Addresses /\ History(restarted, clock)
      /\ \A x \in Addresses : /\ History(begun[x], clock)
                              /\ AddressTallied(windows, x, begun[x], restarted, clock)
  BY DEF AddressesInv
<1>3. /\ DOMAIN table \subseteq Addresses /\ table \in [DOMAIN table -> Window]
      /\ \A x \in DOMAIN table : clock < table[x].since + Minute
      /\ \A x \in Addresses : AddressTallied(table, x, begun[x], restarted, clock)
  BY <1>2, PrunedKeeps
<1>. HIDE DEF table
<1>4. /\ DOMAIN b = DOMAIN table \cup {a} /\ b \in [DOMAIN b -> Window]
      /\ \A x \in DOMAIN table \ {a} : b[x] = table[x]
      /\ AddressTallied(b, a, Now(begun[a]), restarted, clock)
  BY <1>1, <1>2, <1>3, BegunKeeps
<1>5. History(Now(begun[a]), clock)
  BY <1>2, NowAdds
<1>. HIDE DEF b
<1>6. /\ DOMAIN begun' = Addresses /\ begun'[a] = Now(begun[a])
      /\ \A x \in Addresses \ {a} : begun'[x] = begun[x]
  BY <1>1, <1>2
<1>7. ASSUME NEW x \in Addresses
      PROVE  History(begun'[x], clock) /\ AddressTallied(b, x, begun'[x], restarted, clock)
  <2>1. CASE x = a
    BY <1>4, <1>5, <1>6, <2>1
  <2>2. CASE x # a
    <3>1. begun'[x] = begun[x] /\ History(begun[x], clock)
          /\ AddressTallied(table, x, begun[x], restarted, clock)
      BY <1>2, <1>3, <1>6, <2>2
    <3>2. (x \in DOMAIN b <=> x \in DOMAIN table) /\ (x \in DOMAIN table => b[x] = table[x])
      BY <1>4, <2>2
    <3>. QED
      BY <3>1, <3>2 DEF AddressTallied, CountOf
  <2>. QED
    BY <2>1, <2>2
<1>. QED
  BY <1>1, <1>2, <1>3, <1>4, <1>6, <1>7 DEF AddressesInv

\* A request that finds its address or the index full.
LEMMA TurnAwayKeeps ==
    ASSUME RatesInv, NEW a \in Addresses, TurnAway(a)
    PROVE  RatesInv' /\ RefusalsAreEarned'
<1> DEFINE table == Pruned(windows)
<1>1. clock \in Nat \ {0} /\ clock \in Nat /\ VisitorsInv /\ AddressesInv
  BY DEF RatesInv
<1>2. /\ visitors' = Swept(visitors) /\ windows' = table
      /\ clock' = clock /\ tried' = tried /\ served' = served /\ mutated' = mutated
      /\ begun' = begun /\ restarted' = restarted
      /\ \/ ~ AddressAdmits(table, a) /\ verdict' = Answer("too_many_sessions", a, FALSE)
         \/ verdict' = Answer("all_in_use", a, FALSE)
  BY DEF TurnAway
<1>3. VisitorsInv'
  BY <1>1, <1>2, SweepKeeps
<1>4. /\ DOMAIN windows \subseteq Addresses /\ windows \in [DOMAIN windows -> Window]
      /\ DOMAIN begun = Addresses /\ History(restarted, clock)
      /\ \A x \in Addresses : /\ History(begun[x], clock)
                              /\ AddressTallied(windows, x, begun[x], restarted, clock)
  BY <1>1 DEF AddressesInv
<1>5. /\ DOMAIN table \subseteq Addresses /\ table \in [DOMAIN table -> Window]
      /\ \A x \in DOMAIN table : clock < table[x].since + Minute
      /\ \A x \in Addresses : AddressTallied(table, x, begun[x], restarted, clock)
  BY <1>1, <1>4, PrunedKeeps
<1>. HIDE DEF table
<1>6. AddressesInv'
  BY <1>2, <1>4, <1>5 DEF AddressesInv
<1>7. ASSUME NEW x \in DOMAIN table
      PROVE  /\ x \in Addresses /\ table[x].count \in Nat /\ table[x].count >= 1
             /\ Cardinality(begun[x]) \in Nat /\ table[x].count <= Cardinality(begun[x])
  <2>1. x \in Addresses /\ table[x] \in Window /\ WindowTallied(table[x], begun[x], clock)
        /\ History(begun[x], clock) /\ clock < table[x].since + Minute
    BY <1>4, <1>5, <1>7 DEF AddressTallied
  <2>2. table[x].since \in Nat /\ table[x].count \in Nat /\ table[x].count >= 1
        /\ table[x].count <= Cardinality(From(begun[x], table[x].since))
    BY <2>1, RateAssumption DEF Window, WindowTallied
  <2>3. /\ Cardinality(begun[x]) \in Nat
        /\ Cardinality(From(begun[x], table[x].since)) <= Cardinality(begun[x])
    <3>1. From(begun[x], table[x].since) \subseteq begun[x] /\ IsFiniteSet(begun[x])
      BY <2>1 DEF From, History
    <3>. QED
      BY <3>1, FS_Subset, FS_CardinalityType
  <2>4. Cardinality(From(begun[x], table[x].since)) \in Nat
    BY <2>1, <2>2, Parts DEF History
  <2>. QED
    BY <2>1, <2>2, <2>3, <2>4
<1>8. ASSUME ~ AddressAdmits(table, a)
      PROVE  \/ Cardinality(begun[a]) >= MaxNew
             \/ Cardinality({x \in Addresses : Cardinality(begun[x]) > 0}) >= MaxAddresses
  <2>1. CASE a \in DOMAIN table
    <3>1. ~ (table[a].count < MaxNew)
      BY <1>8, <2>1 DEF AddressAdmits
    <3>2. MaxNew \in Nat
      BY RateAssumption
    <3>. QED
      BY <1>7, <2>1, <3>1, <3>2
  <2>2. CASE a \notin DOMAIN table
    <3> DEFINE active == {x \in Addresses : Cardinality(begun[x]) > 0}
    <3>1. ~ (Cardinality(DOMAIN table) < MaxAddresses)
      BY <1>8, <2>2 DEF AddressAdmits
    <3>2. DOMAIN table \subseteq active
      BY <1>7
    <3>3. IsFiniteSet(active)
      <4>1. active \subseteq Addresses
        OBVIOUS
      <4>. HIDE DEF active
      <4>. QED
        BY <4>1, FS_Subset, RateAssumption
    <3>. HIDE DEF active
    <3>4. /\ Cardinality(DOMAIN table) \in Nat /\ Cardinality(active) \in Nat
          /\ Cardinality(DOMAIN table) <= Cardinality(active)
      BY <3>2, <3>3, FS_Subset, FS_CardinalityType
    <3>5. Cardinality(active) >= MaxAddresses
      BY <3>1, <3>4, RateAssumption
    <3>. QED
      BY <3>5 DEF active
  <2>. QED
    BY <2>1, <2>2
<1>9. RefusalsAreEarned'
  BY <1>2, <1>8 DEF RefusalsAreEarned, Answer, LastMinute
<1>. QED
  BY <1>1, <1>2, <1>3, <1>6, <1>9 DEF RatesInv

\* A visitor begins with the first request of its first window.
LEMMA BeginKeeps ==
    ASSUME RatesInv, NEW a \in Addresses, NEW v \in Visitors, NEW mutation \in BOOLEAN,
           Begin(a, v, mutation)
    PROVE  RatesInv' /\ RefusalsAreEarned'
<1> DEFINE next == Counted(Fresh, mutation)
           s == Now({})
           u == {}
           m == IF mutation THEN Now({}) ELSE {}
<1>1. clock \in Nat \ {0} /\ clock \in Nat /\ VisitorsInv /\ AddressesInv
  BY DEF RatesInv
<1>2. /\ tried[v] = 0 /\ Welcome(a) /\ clock' = clock /\ restarted' = restarted
      /\ visitors' = WithRow(Swept(visitors), v, next)
      /\ tried' = [tried EXCEPT ![v] = clock]
      /\ served' = [served EXCEPT ![v] = Now(served[v])]
      /\ mutated' = IF mutation THEN [mutated EXCEPT ![v] = Now(mutated[v])] ELSE mutated
      /\ verdict' = Answer("served", v, mutation)
  BY DEF Begin
<1>3. AddressesInv'
  BY <1>1, <1>2, WelcomeKeeps
<1>4. /\ DOMAIN served = Visitors /\ DOMAIN mutated = Visitors
      /\ served[v] = {} /\ mutated[v] = {}
      /\ History({}, clock)
  <2>1. VisitorTallied(visitors, v, served[v], mutated[v], 0, clock)
        /\ DOMAIN served = Visitors /\ DOMAIN mutated = Visitors /\ History(served[v], clock)
    BY <1>1, <1>2 DEF VisitorsInv
  <2>2. served[v] = {} /\ mutated[v] = {}
    BY <2>1 DEF VisitorTallied, RowTallied, NoRow
  <2>. QED
    BY <2>1, <2>2
<1>5. /\ Fresh \in Row /\ RowCounts(Fresh, {}, {}, clock) /\ clock < Fresh.since + Minute
      /\ Admits(Fresh, mutation)
  <2>1. /\ Minute \in Nat \ {0} /\ Ttl \in Nat /\ MaxRequests \in Nat \ {0}
        /\ MaxMutations \in Nat \ {0}
    BY RateAssumption
  <2>2. Tally({}, clock, 0, MaxRequests, clock) /\ Tally({}, clock, 0, MaxMutations, clock)
    BY <1>1, <2>1, TallyFresh
  <2>3. Fresh.since = clock /\ Fresh.requests = 0 /\ Fresh.mutations = 0
    BY DEF Fresh
  <2>4. Fresh \in Row
    BY <1>1, <2>1 DEF Fresh, Row
  <2>5. RowCounts(Fresh, {}, {}, clock)
    BY <2>2, <2>3 DEF RowCounts
  <2>6. Admits(Fresh, mutation)
    BY <2>1, <2>3 DEF Admits
  <2>. QED
    BY <1>1, <2>1, <2>3, <2>4, <2>5, <2>6
<1>6. /\ next \in Row /\ History(s, clock) /\ History(m, clock)
      /\ RowTallied(next, s, m, clock, clock)
  BY <1>1, <1>4, <1>5, CountedCounts
<1>. HIDE DEF next, s, m
<1>7. /\ DOMAIN served' = Visitors /\ served'[v] = s
      /\ DOMAIN mutated' = Visitors /\ mutated'[v] = m
      /\ \A w \in Visitors \ {v} : served'[w] = served[w] /\ mutated'[w] = mutated[w]
  BY <1>2, <1>4 DEF s, m
<1>8. VisitorsInv'
  BY <1>1, <1>2, <1>6, <1>7, OneVisitorKeeps
<1>. QED
  BY <1>1, <1>2, <1>3, <1>8 DEF RatesInv, RefusalsAreEarned, Answer

\* An attempt that fails in initialize() has been counted all the same.
LEMMA BeginFailsKeeps ==
    ASSUME RatesInv, NEW a \in Addresses, BeginFails(a)
    PROVE  RatesInv' /\ RefusalsAreEarned'
<1>1. clock \in Nat \ {0} /\ clock \in Nat /\ VisitorsInv /\ AddressesInv
  BY DEF RatesInv
<1>2. /\ Welcome(a) /\ clock' = clock /\ restarted' = restarted
      /\ visitors' = Swept(visitors) /\ tried' = tried /\ served' = served /\ mutated' = mutated
      /\ verdict' = Answer("failed", a, FALSE)
  BY DEF BeginFails
<1>3. AddressesInv'
  BY <1>1, <1>2, WelcomeKeeps
<1>4. VisitorsInv'
  BY <1>1, <1>2, SweepKeeps
<1>. QED
  BY <1>1, <1>2, <1>3, <1>4 DEF RatesInv, RefusalsAreEarned, Answer

\* Every address has lost its window; the restart stands for it.
LEMMA RestartKeeps ==
    ASSUME RatesInv, Restart
    PROVE  RatesInv' /\ RefusalsAreEarned'
<1>1. clock \in Nat \ {0} /\ clock \in Nat /\ VisitorsInv /\ AddressesInv
  BY DEF RatesInv
<1>2. /\ restarted' = Now(restarted) /\ windows' = <<>> /\ verdict' = NoAnswer
      /\ clock' = clock /\ visitors' = visitors /\ tried' = tried /\ served' = served
      /\ mutated' = mutated /\ begun' = begun
  BY DEF Restart
<1>3. VisitorsInv'
  BY <1>1, <1>2 DEF VisitorsInv
<1>4. /\ DOMAIN windows \subseteq Addresses /\ windows \in [DOMAIN windows -> Window]
      /\ DOMAIN begun = Addresses /\ History(restarted, clock)
      /\ \A x \in Addresses : /\ History(begun[x], clock)
                              /\ AddressTallied(windows, x, begun[x], restarted, clock)
  BY <1>1 DEF AddressesInv
<1>5. DOMAIN windows' = {} /\ windows' \in [DOMAIN windows' -> Window]
  BY <1>2
<1>6. History(Now(restarted), clock)
  BY <1>1, <1>4, NowAdds
<1>7. ASSUME NEW x \in Addresses
      PROVE  AddressTallied(windows', x, begun[x], Now(restarted), clock)
  <2>1. /\ History(begun[x], clock)
        /\ Spread(begun[x], CountOf(windows, x), restarted, clock)
    BY <1>4 DEF AddressTallied
  <2>2. CountOf(windows, x) \in 0..MaxNew
    <3>1. MaxNew \in Nat
      BY RateAssumption
    <3>2. CASE x \in DOMAIN windows
      BY <1>4, <3>1, <3>2 DEF AddressTallied, WindowTallied, CountOf
    <3>3. CASE x \notin DOMAIN windows
      BY <3>1, <3>3 DEF CountOf
    <3>. QED
      BY <3>2, <3>3
  <2>3. Spread(begun[x], 0, Now(restarted), clock)
    BY <1>1, <1>4, <2>1, <2>2, SpreadRestarts
  <2>. QED
    BY <1>5, <2>3 DEF AddressTallied, CountOf
<1>8. AddressesInv'
  BY <1>2, <1>4, <1>5, <1>6, <1>7 DEF AddressesInv
<1>. QED
  BY <1>1, <1>2, <1>3, <1>8 DEF RatesInv, RefusalsAreEarned, NoAnswer

\* Time passes: histories shrink, nothing else changes.
LEMMA TickKeeps ==
    ASSUME RatesInv, Tick
    PROVE  RatesInv' /\ RefusalsAreEarned'
<1>1. clock \in Nat \ {0} /\ clock \in Nat /\ VisitorsInv /\ AddressesInv
  BY DEF RatesInv
<1>2. /\ clock' = clock + 1
      /\ served' = [v \in Visitors |-> Recent(served[v], clock + 1)]
      /\ mutated' = [v \in Visitors |-> Recent(mutated[v], clock + 1)]
      /\ begun' = [a \in Addresses |-> Recent(begun[a], clock + 1)]
      /\ restarted' = Recent(restarted, clock + 1)
      /\ verdict' = NoAnswer
      /\ visitors' = visitors /\ windows' = windows /\ tried' = tried
  BY DEF Tick
<1>3. /\ DOMAIN visitors \subseteq Visitors /\ visitors \in [DOMAIN visitors -> Row]
      /\ tried \in [Visitors -> Nat]
      /\ \A v \in Visitors :
            /\ History(served[v], clock) /\ History(mutated[v], clock)
            /\ VisitorTallied(visitors, v, served[v], mutated[v], tried[v], clock)
  BY <1>1 DEF VisitorsInv
<1>4. ASSUME NEW v \in Visitors
      PROVE  /\ History(Recent(served[v], clock + 1), clock + 1)
             /\ History(Recent(mutated[v], clock + 1), clock + 1)
             /\ VisitorTallied(visitors, v, Recent(served[v], clock + 1),
                               Recent(mutated[v], clock + 1), tried[v], clock + 1)
  <2>1. /\ History(served[v], clock) /\ History(mutated[v], clock) /\ tried[v] \in Nat
        /\ VisitorTallied(visitors, v, served[v], mutated[v], tried[v], clock)
    BY <1>3
  <2>2. /\ History(Recent(served[v], clock + 1), clock + 1)
        /\ History(Recent(mutated[v], clock + 1), clock + 1)
    BY <1>1, <2>1, RecentKeeps
  <2>3. CASE v \in DOMAIN visitors
    <3>1. visitors[v] \in Row
      BY <1>3, <2>3
    <3>2. RowTallied(visitors[v], Recent(served[v], clock + 1), Recent(mutated[v], clock + 1),
                     tried[v], clock + 1)
      BY <1>1, <2>1, <2>3, <3>1, RowAges DEF VisitorTallied
    <3>. QED
      BY <2>2, <2>3, <3>2 DEF VisitorTallied
  <2>4. CASE v \notin DOMAIN visitors
    <3>1. NoRow(Recent(served[v], clock + 1), Recent(mutated[v], clock + 1), tried[v], clock + 1)
      BY <1>1, <2>1, <2>4, NoRowAges DEF VisitorTallied
    <3>. QED
      BY <2>2, <2>4, <3>1 DEF VisitorTallied
  <2>. QED
    BY <2>3, <2>4
<1>5. VisitorsInv'
  BY <1>2, <1>3, <1>4 DEF VisitorsInv
<1>6. /\ DOMAIN windows \subseteq Addresses /\ windows \in [DOMAIN windows -> Window]
      /\ History(restarted, clock)
      /\ \A x \in Addresses : /\ History(begun[x], clock)
                              /\ AddressTallied(windows, x, begun[x], restarted, clock)
  BY <1>1 DEF AddressesInv
<1>7. History(Recent(restarted, clock + 1), clock + 1)
  BY <1>1, <1>6, RecentKeeps
<1>8. ASSUME NEW x \in Addresses
      PROVE  /\ History(Recent(begun[x], clock + 1), clock + 1)
             /\ AddressTallied(windows, x, Recent(begun[x], clock + 1),
                               Recent(restarted, clock + 1), clock + 1)
  <2>1. History(begun[x], clock) /\ AddressTallied(windows, x, begun[x], restarted, clock)
    BY <1>6
  <2>2. History(Recent(begun[x], clock + 1), clock + 1)
    BY <1>1, <2>1, RecentKeeps
  <2>3. Spread(Recent(begun[x], clock + 1), CountOf(windows, x), Recent(restarted, clock + 1),
               clock + 1)
    BY <1>1, <1>6, <2>1, SpreadAges DEF AddressTallied
  <2>4. ASSUME x \in DOMAIN windows
        PROVE  WindowTallied(windows[x], Recent(begun[x], clock + 1), clock + 1)
    <3>1. windows[x] \in Window
      BY <1>6, <2>4
    <3>. QED
      BY <1>1, <2>1, <2>4, <3>1, WindowAges DEF AddressTallied
  <2>. QED
    BY <2>2, <2>3, <2>4 DEF AddressTallied
<1>9. AddressesInv'
  BY <1>2, <1>6, <1>7, <1>8 DEF AddressesInv
<1>. QED
  BY <1>1, <1>2, <1>5, <1>9 DEF RatesInv, RefusalsAreEarned, NoAnswer

\* A process that has just started has counted nothing.
LEMMA InitIsTallied ==
    ASSUME Init
    PROVE  RatesInv /\ RefusalsAreEarned
<1>1. /\ clock = 1 /\ visitors = <<>> /\ windows = <<>> /\ verdict = NoAnswer
      /\ tried = [v \in Visitors |-> 0]
      /\ served = [v \in Visitors |-> {}] /\ mutated = [v \in Visitors |-> {}]
      /\ begun = [a \in Addresses |-> {}] /\ restarted = {}
  BY DEF Init
<1>2. History({}, 1)
  BY FS_EmptySet DEF History
<1>3. NoRow({}, {}, 0, 1)
  <2>1. MaxRequests \in Nat /\ MaxMutations \in Nat /\ Cardinality({}) = 0
    BY RateAssumption, FS_EmptySet
  <2>. QED
    BY <2>1 DEF NoRow
<1>4. Spread({}, 0, {}, 1)
  <2>1. \A c : From({}, c) = {}
    BY DEF From
  <2>2. Cardinality({}) = 0
    BY FS_EmptySet
  <2>3. MaxNew \in Nat
    BY RateAssumption
  <2>4. 0 <= (1 + 0) * MaxNew + 0
    BY <2>3
  <2>. QED
    BY <2>1, <2>2, <2>4 DEF Spread
<1>5. VisitorsInv
  BY <1>1, <1>2, <1>3 DEF VisitorsInv, VisitorTallied
<1>6. AddressesInv
  BY <1>1, <1>2, <1>4 DEF AddressesInv, AddressTallied, CountOf
<1>. QED
  BY <1>1, <1>5, <1>6 DEF RatesInv, RefusalsAreEarned, NoAnswer

-----------------------------------------------------------------------------
(* The theorems.                                                            *)

\* Every call of session(), a restart and the clock keep the invariant, and refuse for a reason.
LEMMA NextKeeps ==
    ASSUME RatesInv, RefusalsAreEarned, [Next]_vars
    PROVE  RatesInv' /\ RefusalsAreEarned'
<1>1. ASSUME NEW v \in Visitors, NEW mutation \in BOOLEAN, Present(v, mutation)
      PROVE  RatesInv' /\ RefusalsAreEarned'
  BY <1>1, PresentKeeps
<1>2. ASSUME NEW a \in Addresses, TurnAway(a)
      PROVE  RatesInv' /\ RefusalsAreEarned'
  BY <1>2, TurnAwayKeeps
<1>3. ASSUME NEW a \in Addresses, BeginFails(a)
      PROVE  RatesInv' /\ RefusalsAreEarned'
  BY <1>3, BeginFailsKeeps
<1>4. ASSUME NEW a \in Addresses, NEW v \in Visitors, NEW mutation \in BOOLEAN,
             Begin(a, v, mutation)
      PROVE  RatesInv' /\ RefusalsAreEarned'
  BY <1>4, BeginKeeps
<1>5. CASE Restart
  BY <1>5, RestartKeeps
<1>6. CASE Tick
  BY <1>6, TickKeeps
<1>7. CASE UNCHANGED vars
  BY <1>7 DEF vars, RatesInv, VisitorsInv, AddressesInv, RefusalsAreEarned
<1>. QED
  BY <1>1, <1>2, <1>3, <1>4, <1>5, <1>6, <1>7 DEF Next

\* Every counter of the sandbox (the counts of a row and of ip_windows) tallies
\* with what was really let in during the last minute.
THEOREM CountersTally == Spec => []RatesInv
<1>1. Init => RatesInv /\ RefusalsAreEarned
  BY InitIsTallied
<1>2. (RatesInv /\ RefusalsAreEarned) /\ [Next]_vars => (RatesInv /\ RefusalsAreEarned)'
  BY NextKeeps
<1>. QED
  BY <1>1, <1>2, PTL DEF Spec

\* In no sixty seconds is a visitor or an address let in more than twice its
\* limit, an address once more for every restart of the process.
THEOREM TwiceTheLimitAtMost == Spec => []WithinTwiceTheLimit
<1>1. ASSUME RatesInv
      PROVE  WithinTwiceTheLimit
  <2>1. clock \in Nat /\ VisitorsInv /\ AddressesInv
    BY <1>1 DEF RatesInv
  <2>2. MaxRequests \in Nat /\ MaxMutations \in Nat /\ MaxNew \in Nat
    BY RateAssumption
  <2>3. ASSUME NEW v \in Visitors
        PROVE  /\ Cardinality(served[v]) <= 2 * MaxRequests
               /\ Cardinality(mutated[v]) <= 2 * MaxMutations
    <3>1. /\ History(served[v], clock) /\ History(mutated[v], clock)
          /\ VisitorTallied(visitors, v, served[v], mutated[v], tried[v], clock)
      BY <2>1 DEF VisitorsInv
    <3>2. CASE v \in DOMAIN visitors
      <4>1. /\ Tally(served[v], visitors[v].since, visitors[v].requests, MaxRequests, clock)
            /\ Tally(mutated[v], visitors[v].since, visitors[v].mutations, MaxMutations, clock)
        BY <3>1, <3>2 DEF VisitorTallied, RowTallied
      <4>. QED
        BY <2>1, <2>2, <3>1, <4>1, TallyBounds
    <3>3. CASE v \notin DOMAIN visitors
      BY <3>1, <3>3 DEF VisitorTallied, NoRow
    <3>. QED
      BY <3>2, <3>3
  <2>4. ASSUME NEW a \in Addresses
        PROVE  Cardinality(begun[a]) <= (2 + Cardinality(restarted)) * MaxNew
    <3>1. /\ History(begun[a], clock) /\ History(restarted, clock)
          /\ AddressTallied(windows, a, begun[a], restarted, clock)
      BY <2>1 DEF AddressesInv
    <3>2. CountOf(windows, a) \in 0..MaxNew
      <4>1. CASE a \in DOMAIN windows
        BY <2>2, <3>1, <4>1 DEF AddressTallied, WindowTallied, CountOf
      <4>2. CASE a \notin DOMAIN windows
        BY <2>2, <4>2 DEF CountOf
      <4>. QED
        BY <4>1, <4>2
    <3>. QED
      BY <2>1, <3>1, <3>2, SpreadBounds DEF AddressTallied
  <2>. QED
    BY <2>3, <2>4 DEF WithinTwiceTheLimit, LastMinute
<1>. QED
  BY <1>1, CountersTally, PTL

\* Behind every refusal for a rate (the 429s of session()) stands a full limit
\* let in during the last minute.
THEOREM RefusalsRestOnTheLastMinute == Spec => []RefusalsAreEarned
<1>1. Init => RatesInv /\ RefusalsAreEarned
  BY InitIsTallied
<1>2. (RatesInv /\ RefusalsAreEarned) /\ [Next]_vars => (RatesInv /\ RefusalsAreEarned)'
  BY NextKeeps
<1>. QED
  BY <1>1, <1>2, PTL DEF Spec

\* A visitor that has asked within its lifetime less a window still has its
\* session, although a refused request does not renew it.
THEOREM VisitorsStayWhileTheyAsk == Spec => []ActiveVisitorsStay
<1>1. ASSUME RatesInv
      PROVE  ActiveVisitorsStay
  <2>1. clock \in Nat /\ VisitorsInv
    BY <1>1 DEF RatesInv
  <2>2. Minute \in Nat /\ Ttl \in Nat /\ Ttl > Minute
    BY RateAssumption
  <2>3. ASSUME NEW v \in Visitors, tried[v] # 0, clock < tried[v] + (Ttl - Minute)
        PROVE  v \in DOMAIN visitors /\ visitors[v].expires > clock
    <3>1. /\ tried[v] \in Nat
          /\ VisitorTallied(visitors, v, served[v], mutated[v], tried[v], clock)
      BY <2>1 DEF VisitorsInv
    <3>2. CASE v \in DOMAIN visitors
      <4>1. visitors[v].expires \in Nat /\ visitors[v].expires + Minute >= tried[v] + Ttl
        BY <2>1, <3>1, <3>2 DEF VisitorsInv, Row, VisitorTallied, RowTallied
      <4>. QED
        BY <2>1, <2>2, <2>3, <3>1, <3>2, <4>1
    <3>3. CASE v \notin DOMAIN visitors
      <4>1. tried[v] + Ttl <= clock + Minute
        BY <2>3, <3>1, <3>3 DEF VisitorTallied, NoRow
      <4>. QED
        BY <2>1, <2>2, <2>3, <3>1, <4>1
    <3>. QED
      BY <3>2, <3>3
  <2>. QED
    BY <2>3 DEF ActiveVisitorsStay
<1>. QED
  BY <1>1, CountersTally, PTL
=============================================================================
