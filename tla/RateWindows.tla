----------------------------- MODULE RateWindows -----------------------------
(***************************************************************************)
(* The rates of the web sandbox (session() in src/finpulse/demo/store.py): *)
(* requests and mutations of a visitor, counted in a row of the index, and *)
(* new workspaces of an address, counted in memory.  Both are counted in   *)
(* windows that begin with the first request and last a minute.            *)
(*                                                                         *)
(* session() runs under the guard, so one call is one step.  Threads, lock *)
(* objects and files are the business of WorkspaceStore; a visitor here is *)
(* its row.                                                                *)
(***************************************************************************)
EXTENDS Naturals, FiniteSets, Functions

CONSTANTS
    Visitors,       \* session identifiers
    Addresses,      \* client addresses
    Minute,         \* length of a window in ticks of the clock (60 seconds)
    Ttl,            \* time an unused session lives (two hours)
    MaxRequests,    \* of a visitor in a window (150)
    MaxMutations,   \* of them (40)
    MaxNew,         \* workspaces of an address in a window (10)
    MaxAddresses,   \* windows kept at a time (500)
    MaxSessions,    \* visitors the index may hold (40)
    MaxTime, MaxRestarts        \* bounds on what is explored

ASSUME RateAssumption ==
    /\ Minute \in Nat \ {0} /\ Ttl \in Nat /\ Ttl > Minute
    /\ {MaxRequests, MaxMutations, MaxNew, MaxAddresses, MaxSessions} \subseteq Nat \ {0}
    /\ MaxTime \in Nat /\ MaxRestarts \in Nat
    /\ IsFiniteSet(Addresses)

VARIABLES
    clock,
    visitors,   \* the rows of the index
    windows,    \* ip_windows
    verdict,    \* what the last call of session() answered
    tried,      \* when each visitor last presented itself; 0: not created yet
    \* What happened in the last minute, a mark for each time:
    served,     \* requests of each visitor that were let in
    mutated,    \* mutations among them
    begun,      \* attempts of each address to begin a workspace that were let in
    restarted   \* restarts of the process

vars == <<clock, visitors, windows, verdict, tried, served, mutated, begun, restarted>>

-----------------------------------------------------------------------------

\* Marks carry the tick they were made at, and are numbered within it.
Now(history) ==
    LET earlier == {mark \in history : mark.at = clock}
    IN  history \cup {[at |-> clock, nth |-> Cardinality(earlier) + 1]}

\* What is left of a history when the clock reaches a tick.
Recent(history, tick) == {mark \in history : mark.at + Minute > tick}

LastMinute(history) == Cardinality(history)

\* A table in which x has this row, new or replaced.
WithRow(table, x, row) ==
    [y \in DOMAIN table \cup {x} |-> IF y = x THEN row ELSE table[y]]

Answer(kind, who, mutation) == [kind |-> kind, who |-> who, mutation |-> mutation]
NoAnswer == [kind |-> "none"]

\* The window has run out: since <= now - 60.
Over(window) == window.since + Minute <= clock

\* The rows that the sweep leaves.  It is the first thing every call does, so that
\* it does not matter that a refused call does not commit it.  (It spares an
\* expired visitor whose lock is held, store.py:47-49, which no call here holds:
\* see WorkspaceStore.)
Swept(table) == Restrict(table, {v \in DOMAIN table : table[v].expires > clock})

Fresh == [since |-> clock, requests |-> 0, mutations |-> 0, expires |-> clock + Ttl]

\* The counts that a request of a visitor is judged by.
Current(row) == IF Over(row) THEN [Fresh EXCEPT !.expires = row.expires] ELSE row

Admits(row, mutation) ==
    row.requests < MaxRequests /\ (mutation => row.mutations < MaxMutations)

SlipNotRenewed(row, mutation) ==
    [row EXCEPT !.requests = @ + 1, !.mutations = @ + (IF mutation THEN 1 ELSE 0)]
Counted(row, mutation) ==
    [row EXCEPT !.requests = @ + 1, !.mutations = @ + (IF mutation THEN 1 ELSE 0),
                !.expires = clock + Ttl]

SlipUnpruned(table) == table
\* The windows that have not run out.
Pruned(table) == Restrict(table, {a \in DOMAIN table : ~ Over(table[a])})

SlipWindowRestarts(table, a) == WithRow(table, a, [since |-> clock, count |-> 1])
\* Address a has begun one workspace more.
Begun(table, a) ==
    IF a \in DOMAIN table THEN [table EXCEPT ![a].count = @ + 1]
                          ELSE WithRow(table, a, [since |-> clock, count |-> 1])

AddressAdmits(table, a) ==
    IF a \in DOMAIN table THEN table[a].count < MaxNew
                          ELSE Cardinality(DOMAIN table) < MaxAddresses

-----------------------------------------------------------------------------

Init ==
    /\ clock = 1
    /\ visitors = <<>> /\ windows = <<>>
    /\ verdict = NoAnswer
    /\ tried = [v \in Visitors |-> 0]
    /\ served = [v \in Visitors |-> {}] /\ mutated = [v \in Visitors |-> {}]
    /\ begun = [a \in Addresses |-> {}]
    /\ restarted = {}

\* A request of a visitor that has a row.
Present(v, mutation) ==
    LET rows == Swept(visitors) IN
    /\ v \in DOMAIN rows
    /\ tried' = [tried EXCEPT ![v] = clock]
    /\ LET row == Current(rows[v]) IN
       \/ /\ Admits(row, mutation)
          /\ visitors' = [rows EXCEPT ![v] = Counted(row, mutation)]
          /\ served' = [served EXCEPT ![v] = Now(@)]
          /\ mutated' = IF mutation THEN [mutated EXCEPT ![v] = Now(@)] ELSE mutated
          /\ verdict' = Answer("served", v, mutation)
       \/ /\ ~ Admits(row, mutation)
          /\ visitors' = rows
          /\ verdict' = Answer("too_many_requests", v, mutation)
          /\ UNCHANGED <<served, mutated>>
    /\ UNCHANGED <<clock, windows, begun, restarted>>

\* A request without a known session, refused.
TurnAway(a) ==
    LET rows == Swept(visitors)
        table == Pruned(windows) IN
    /\ visitors' = rows /\ windows' = table
    /\ \/ /\ ~ AddressAdmits(table, a)
          /\ verdict' = Answer("too_many_sessions", a, FALSE)
       \/ /\ AddressAdmits(table, a)
          /\ Cardinality(DOMAIN rows) >= MaxSessions
          /\ verdict' = Answer("all_in_use", a, FALSE)
    /\ UNCHANGED <<clock, tried, served, mutated, begun, restarted>>

\* Room for a new workspace of address a; it counts before it is initialized.
Welcome(a) ==
    LET table == Pruned(windows) IN
    /\ AddressAdmits(table, a)
    /\ Cardinality(DOMAIN Swept(visitors)) < MaxSessions
    /\ windows' = Begun(table, a)
    /\ begun' = [begun EXCEPT ![a] = Now(@)]

\* A request without a known session becomes visitor v.
Begin(a, v, mutation) ==
    /\ tried[v] = 0
    /\ Welcome(a)
    /\ visitors' = WithRow(Swept(visitors), v, Counted(Fresh, mutation))
    /\ tried' = [tried EXCEPT ![v] = clock]
    /\ served' = [served EXCEPT ![v] = Now(@)]
    /\ mutated' = IF mutation THEN [mutated EXCEPT ![v] = Now(@)] ELSE mutated
    /\ verdict' = Answer("served", v, mutation)
    /\ UNCHANGED <<clock, restarted>>

\* initialize() of the new workspace raises.
BeginFails(a) ==
    /\ Welcome(a)
    /\ visitors' = Swept(visitors)
    /\ verdict' = Answer("failed", a, FALSE)
    /\ UNCHANGED <<clock, tried, served, mutated, restarted>>

\* The process is restarted: the index is a file, ip_windows is not.
Restart ==
    /\ LastMinute(restarted) < MaxRestarts
    /\ restarted' = Now(restarted)
    /\ windows' = <<>>
    /\ verdict' = NoAnswer
    /\ UNCHANGED <<clock, visitors, tried, served, mutated, begun>>

Tick ==
    /\ clock < MaxTime
    /\ clock' = clock + 1
    /\ served' = [v \in Visitors |-> Recent(served[v], clock')]
    /\ mutated' = [v \in Visitors |-> Recent(mutated[v], clock')]
    /\ begun' = [a \in Addresses |-> Recent(begun[a], clock')]
    /\ restarted' = Recent(restarted, clock')
    /\ verdict' = NoAnswer
    /\ UNCHANGED <<visitors, windows, tried>>

Next ==
    \/ \E v \in Visitors, mutation \in BOOLEAN : Present(v, mutation)
    \/ \E a \in Addresses : TurnAway(a) \/ BeginFails(a)
    \/ \E a \in Addresses, v \in Visitors, mutation \in BOOLEAN : Begin(a, v, mutation)
    \/ Restart
    \/ Tick

Spec == Init /\ [][Next]_vars

-----------------------------------------------------------------------------

\* At most two windows of a visitor touch any sixty seconds, so at most twice the
\* limit is let in, whatever restarts; the windows of an address are lost with the
\* process, and each restart in those sixty seconds opens one more.
WithinTwiceTheLimit ==
    /\ \A v \in Visitors :
           LastMinute(served[v]) <= 2 * MaxRequests /\ LastMinute(mutated[v]) <= 2 * MaxMutations
    /\ \A a \in Addresses : LastMinute(begun[a]) <= (2 + LastMinute(restarted)) * MaxNew

\* Nobody is refused for what lies more than a minute back: behind every 429
\* stands a full limit of requests, mutations, workspaces or addresses that
\* were let in during the last minute.
RefusalsAreEarned ==
    /\ verdict.kind = "too_many_requests" =>
           \/ LastMinute(served[verdict.who]) >= MaxRequests
           \/ verdict.mutation /\ LastMinute(mutated[verdict.who]) >= MaxMutations
    /\ verdict.kind = "too_many_sessions" =>
           \/ LastMinute(begun[verdict.who]) >= MaxNew
           \/ Cardinality({a \in Addresses : LastMinute(begun[a]) > 0}) >= MaxAddresses

\* A refused request does not renew its session.  A visitor that keeps asking
\* is not swept away all the same: its session outlives its last request,
\* refused or not, by the lifetime less one window.
ActiveVisitorsStay ==
    \A v \in Visitors :
        tried[v] # 0 /\ clock < tried[v] + (Ttl - Minute) =>
            v \in DOMAIN visitors /\ visitors[v].expires > clock
=============================================================================
