---------------------------- MODULE WorkspaceStore ----------------------------
(***************************************************************************)
(* The sessions of the web sandbox (src/finpulse/demo/store.py and the     *)
(* guard middleware of main.py).  Request threads share an index of        *)
(* visitors, one warehouse file per visitor, a dictionary of visitor locks *)
(* and a pool of slots.  session() runs under the guard; workspace() does   *)
(* not, so a sweep of expired visitors runs beside open transactions.      *)
(*                                                                         *)
(* A warehouse is the number of changes committed to it: what they are is  *)
(* the business of Workspace.  The request rates of session() are left to  *)
(* chance (Refuse).                                                        *)
(***************************************************************************)
EXTENDS Naturals, FiniteSets

CONSTANTS
    Threads,        \* workers of the thread pool
    Browsers,       \* each keeps at most one session cookie
    SessionIds,     \* secrets.token_hex(24)
    NoSession,      \* no cookie, or a request that session() refused
    Nobody,         \* the guard is free
    MaxSessions,    \* visitors the index may hold (40)
    MaxSlots,       \* transactions open or waiting for their lock (8)
    Ttl,            \* time an unused session lives (two hours)
    Stall,          \* time a request may spend after it got the guard
    MaxTime, MaxChanges, MaxMishaps     \* bounds on what is explored

ASSUME StoreAssumption ==
    /\ IsFiniteSet(Threads) /\ IsFiniteSet(SessionIds)
    /\ NoSession \notin SessionIds /\ Nobody \notin Threads
    /\ MaxSessions \in Nat /\ MaxSlots \in Nat \ {0}
    /\ Ttl \in Nat \ {0} /\ Stall \in Nat
    /\ MaxTime \in Nat \ {0} /\ MaxChanges \in Nat /\ MaxMishaps \in Nat

VARIABLES
    clock,
    rows,       \* expiry of each visitor as the index connection reads it; 0: no row
    saved,      \* the same as last committed
    file,       \* each visitor's SQLite file
    locks,      \* the dictionary: the generation of a visitor's lock, 0 if none
    popped,     \* generations of a visitor's lock dropped from the dictionary
    held,       \* the lock objects now held, as <<visitor, generation>>
    slots,      \* free slots
    guard,      \* the thread inside session(), or Nobody
    req,        \* what each thread is at
    cookie,     \* what each browser presents next
    acked,      \* changes of a visitor that an answer has confirmed
    mishaps     \* process crashes and failed index writes so far

vars == <<clock, rows, saved, file, locks, popped, held, slots, guard, req,
          cookie, acked, mishaps>>

-----------------------------------------------------------------------------

\* No file; a file without tables; a warehouse with so many changes committed.
Absent == [kind |-> "absent", changes |-> 0]
Bare   == [kind |-> "bare", changes |-> 0]
Ready(changes) == [kind |-> "ready", changes |-> changes]

Resting == [pc |-> "idle"]

Known(sid) == sid \in SessionIds /\ rows[sid] # 0

Visitors(index) == {sid \in SessionIds : index[sid] # 0}

\* lock.locked() of the lock the dictionary holds for a visitor, if it holds one.
Locked(sid) == locks[sid] # 0 /\ <<sid, locks[sid]>> \in held

\* A token nobody has seen: token_hex never repeats one.
Unseen(sid) ==
    /\ rows[sid] = 0 /\ saved[sid] = 0 /\ file[sid] = Absent
    /\ \A b \in Browsers : cookie[b] # sid
    /\ \A t \in Threads : req[t].pc # "idle" => sid \notin {req[t].sid, req[t].presented}

\* locks.setdefault(sid, Lock()).
LockFor(sid) == IF locks[sid] # 0 THEN locks[sid] ELSE popped[sid] + 1

Goto(t, step) == req' = [req EXCEPT ![t].pc = step]

\* session() leaves with an exception: no session is known to the answer.
Dismissed(t) == req' = [req EXCEPT ![t].pc = "answer", ![t].sid = NoSession]

Init ==
    /\ clock = 1
    /\ rows = [sid \in SessionIds |-> 0] /\ saved = rows
    /\ file = [sid \in SessionIds |-> Absent]
    /\ locks = [sid \in SessionIds |-> 0] /\ popped = locks
    /\ held = {} /\ slots = MaxSlots /\ guard = Nobody
    /\ req = [t \in Threads |-> Resting]
    /\ cookie = [b \in Browsers |-> NoSession]
    /\ acked = [sid \in SessionIds |-> 0]
    /\ mishaps = 0

-----------------------------------------------------------------------------
(* session(), under the guard.                                              *)

\* A browser sends a request; several of one browser may run side by side.
Arrive(t, b) ==
    /\ req[t] = Resting
    /\ req' = [req EXCEPT ![t] =
                [pc |-> "enter", browser |-> b, presented |-> cookie[b],
                 sid |-> NoSession, now |-> 0, expired |-> {}, victim |-> NoSession,
                 lock |-> 0, read |-> Absent, changed |-> FALSE]]
    /\ UNCHANGED <<clock, rows, saved, file, locks, popped, held, slots, guard,
                   cookie, acked, mishaps>>

\* The guard is taken, the time read once, and the expired visitors fetched.
Enter(t) ==
    /\ req[t].pc = "enter" /\ guard = Nobody
    /\ guard' = t
    /\ req' = [req EXCEPT ![t].pc = "sweep", ![t].now = clock,
                          ![t].expired = {sid \in Visitors(rows) : rows[sid] <= clock}]
    /\ UNCHANGED <<clock, rows, saved, file, locks, popped, held, slots,
                   cookie, acked, mishaps>>

\* A visitor whose lock is held is left alone.
Spare(t, sid) ==
    /\ req[t].pc = "sweep" /\ sid \in req[t].expired
    /\ Locked(sid)
    /\ req' = [req EXCEPT ![t].expired = @ \ {sid}]
    /\ UNCHANGED <<clock, rows, saved, file, locks, popped, held, slots, guard,
                   cookie, acked, mishaps>>

SlipDoomHeld(t, sid) ==
    /\ req[t].pc = "sweep" /\ sid \in req[t].expired
    /\ req' = [req EXCEPT ![t].pc = "remove", ![t].expired = @ \ {sid}, ![t].victim = sid]
    /\ UNCHANGED <<clock, rows, saved, file, locks, popped, held, slots, guard,
                   cookie, acked, mishaps>>

\* One that looks unused is doomed; it may be used before the next statement.
Doom(t, sid) ==
    /\ req[t].pc = "sweep" /\ sid \in req[t].expired
    /\ ~Locked(sid)
    /\ req' = [req EXCEPT ![t].pc = "remove", ![t].expired = @ \ {sid}, ![t].victim = sid]
    /\ UNCHANGED <<clock, rows, saved, file, locks, popped, held, slots, guard,
                   cookie, acked, mishaps>>

\* _remove(): the file goes at once, the row when the index next commits.
Remove(t) ==
    LET sid == req[t].victim
    IN  /\ req[t].pc = "remove"
        /\ file' = [file EXCEPT ![sid] = Absent]
        /\ rows' = [rows EXCEPT ![sid] = 0]
        /\ popped' = [popped EXCEPT ![sid] = IF locks[sid] # 0 THEN locks[sid] ELSE @]
        /\ locks' = [locks EXCEPT ![sid] = 0]
        /\ Goto(t, "sweep")
        /\ UNCHANGED <<clock, saved, held, slots, guard, cookie, acked, mishaps>>

Swept(t) == req[t].pc = "sweep" /\ req[t].expired = {}

SlipNotSliding(t, sid) ==
    /\ rows' = [rows EXCEPT ![sid] = IF @ = 0 THEN req[t].now + Ttl ELSE @]
    /\ saved' = rows'
    /\ locks' = [locks EXCEPT ![sid] = LockFor(sid)]
    /\ req' = [req EXCEPT ![t].pc = "admitted", ![t].sid = sid]
    /\ guard' = Nobody

\* INSERT or UPDATE of the row, and the commit that also makes the removals of
\* this and of earlier, refused, calls durable; then the lock is set up.
Registered(t, sid) ==
    /\ rows' = [rows EXCEPT ![sid] = req[t].now + Ttl]
    /\ saved' = rows'
    /\ locks' = [locks EXCEPT ![sid] = LockFor(sid)]
    /\ req' = [req EXCEPT ![t].pc = "admitted", ![t].sid = sid]
    /\ guard' = Nobody

\* The presented session is known: it lives on for another Ttl.
Renew(t) ==
    /\ Swept(t) /\ Known(req[t].presented)
    /\ Registered(t, req[t].presented)
    /\ UNCHANGED <<clock, file, popped, held, slots, cookie, acked, mishaps>>

\* A DemoError: too many requests of this visitor, too many new sessions of this
\* address, or no room.  What the sweep did stays uncommitted.
Refuse(t) ==
    /\ Swept(t)
    /\ guard' = Nobody
    /\ Dismissed(t)
    /\ UNCHANGED <<clock, rows, saved, file, locks, popped, held, slots, cookie,
                   acked, mishaps>>

SlipRowFirst(t, sid) ==
    /\ Swept(t) /\ ~Known(req[t].presented)
    /\ Cardinality(Visitors(rows)) < MaxSessions
    /\ Unseen(sid)
    /\ rows' = [rows EXCEPT ![sid] = req[t].now + Ttl]
    /\ saved' = rows'
    /\ file' = [file EXCEPT ![sid] = Bare]
    /\ acked' = [acked EXCEPT ![sid] = 0]
    /\ req' = [req EXCEPT ![t].pc = "initialize", ![t].sid = sid]
    /\ UNCHANGED <<clock, locks, popped, held, slots, guard, cookie, mishaps>>

\* A new visitor: connect() makes a file, whose tables come first.
Create(t, sid) ==
    /\ Swept(t) /\ ~Known(req[t].presented)
    /\ Cardinality(Visitors(rows)) < MaxSessions
    /\ Unseen(sid)
    /\ file' = [file EXCEPT ![sid] = Bare]
    /\ acked' = [acked EXCEPT ![sid] = 0]
    /\ req' = [req EXCEPT ![t].pc = "initialize", ![t].sid = sid]
    /\ UNCHANGED <<clock, rows, saved, locks, popped, held, slots, guard, cookie,
                   mishaps>>

\* initialize() and its commit.
Initialize(t) ==
    /\ req[t].pc = "initialize"
    /\ file' = [file EXCEPT ![req[t].sid] = Ready(0)]
    /\ Goto(t, "register")
    /\ UNCHANGED <<clock, rows, saved, locks, popped, held, slots, guard, cookie,
                   acked, mishaps>>

SlipNoCleanup(t) ==
    /\ req[t].pc = "initialize"
    /\ guard' = Nobody
    /\ Dismissed(t)
    /\ UNCHANGED <<clock, rows, saved, file, locks, popped, held, slots, cookie, acked,
                   mishaps>>

\* initialize() raises: the file is removed again.
InitializeFails(t) ==
    /\ req[t].pc = "initialize"
    /\ file' = [file EXCEPT ![req[t].sid] = Absent]
    /\ guard' = Nobody
    /\ Dismissed(t)
    /\ UNCHANGED <<clock, rows, saved, locks, popped, held, slots, cookie, acked,
                   mishaps>>

Register(t) ==
    /\ req[t].pc = "register"
    /\ Registered(t, req[t].sid)
    /\ UNCHANGED <<clock, file, popped, held, slots, cookie, acked, mishaps>>

\* The INSERT raises: nothing removes the file that was just initialized.  (An
\* INSERT that succeeds before its commit fails is left out: the row would stay
\* pending on the one connection and go in with the next call's commit.)
RegisterFails(t) ==
    /\ req[t].pc = "register" /\ mishaps < MaxMishaps
    /\ guard' = Nobody
    /\ mishaps' = mishaps + 1
    /\ Dismissed(t)
    /\ UNCHANGED <<clock, rows, saved, file, locks, popped, held, slots, cookie, acked>>

-----------------------------------------------------------------------------
(* workspace(), without the guard.                                          *)

\* The lock is looked up (or made anew), then a slot taken.
TakeSlot(t) ==
    LET sid == req[t].sid
    IN  /\ req[t].pc = "admitted" /\ slots > 0
        /\ locks' = [locks EXCEPT ![sid] = LockFor(sid)]
        /\ slots' = slots - 1
        /\ req' = [req EXCEPT ![t].pc = "lock", ![t].lock = LockFor(sid)]
        /\ UNCHANGED <<clock, rows, saved, file, popped, held, guard, cookie, acked,
                       mishaps>>

NoSlot(t) ==
    LET sid == req[t].sid
    IN  /\ req[t].pc = "admitted" /\ slots = 0
        /\ locks' = [locks EXCEPT ![sid] = LockFor(sid)]
        /\ Goto(t, "answer")
        /\ UNCHANGED <<clock, rows, saved, file, popped, held, slots, guard, cookie,
                       acked, mishaps>>

LockOf(t) == <<req[t].sid, req[t].lock>>

SlipNoLock(t) ==
    /\ req[t].pc = "lock"
    /\ held' = held \cup {LockOf(t)}
    /\ Goto(t, "open")
    /\ UNCHANGED <<clock, rows, saved, file, locks, popped, slots, guard, cookie,
                   acked, mishaps>>

TakeLock(t) ==
    /\ req[t].pc = "lock" /\ LockOf(t) \notin held
    /\ held' = held \cup {LockOf(t)}
    /\ Goto(t, "open")
    /\ UNCHANGED <<clock, rows, saved, file, locks, popped, slots, guard, cookie,
                   acked, mishaps>>

SlipSlotKept(t) ==
    /\ req[t].pc = "lock" /\ LockOf(t) \in held
    /\ Goto(t, "answer")
    /\ UNCHANGED <<clock, rows, saved, file, locks, popped, held, slots, guard, cookie,
                   acked, mishaps>>

SlipPatient(t) == FALSE

\* acquire(timeout=2) gives up.
TimeOut(t) ==
    /\ req[t].pc = "lock" /\ LockOf(t) \in held
    /\ slots' = slots + 1
    /\ Goto(t, "answer")
    /\ UNCHANGED <<clock, rows, saved, file, locks, popped, held, guard, cookie,
                   acked, mishaps>>

\* connect() and BEGIN IMMEDIATE: a file that is not there is made, without tables.
Open(t) ==
    LET sid == req[t].sid
        found == IF file[sid] = Absent THEN Bare ELSE file[sid]
    IN  /\ req[t].pc = "open"
        /\ file' = [file EXCEPT ![sid] = found]
        /\ req' = [req EXCEPT ![t].pc = "work", ![t].read = found]
        /\ UNCHANGED <<clock, rows, saved, locks, popped, held, slots, guard, cookie,
                       acked, mishaps>>

\* The request succeeds without a change.
Read(t) ==
    /\ req[t].pc = "work" /\ req[t].read.kind = "ready"
    /\ Goto(t, "leave")
    /\ UNCHANGED <<clock, rows, saved, file, locks, popped, held, slots, guard,
                   cookie, acked, mishaps>>

\* The request commits a change to what it read.  A file unlinked in the meantime
\* takes the change with it.
Change(t) ==
    LET sid == req[t].sid
    IN  /\ req[t].pc = "work" /\ req[t].read.kind = "ready"
        /\ req[t].read.changes < MaxChanges
        /\ file' = IF file[sid].kind = "ready"
                   THEN [file EXCEPT ![sid] = Ready(req[t].read.changes + 1)]
                   ELSE file
        /\ req' = [req EXCEPT ![t].pc = "leave", ![t].changed = TRUE]
        /\ UNCHANGED <<clock, rows, saved, locks, popped, held, slots, guard, cookie,
                       acked, mishaps>>

\* An exception, and the rollback; the only way when the tables are missing.
Abort(t) ==
    /\ req[t].pc = "work"
    /\ Goto(t, "leave")
    /\ UNCHANGED <<clock, rows, saved, file, locks, popped, held, slots, guard,
                   cookie, acked, mishaps>>

\* The finally clause.
Leave(t) ==
    /\ req[t].pc = "leave"
    /\ held' = held \ {LockOf(t)}
    /\ slots' = slots + 1
    /\ Goto(t, "answer")
    /\ UNCHANGED <<clock, rows, saved, file, locks, popped, guard, cookie, acked,
                   mishaps>>

\* The response carries the cookie whenever session() returned.
Answer(t) ==
    LET sid == req[t].sid
    IN  /\ req[t].pc = "answer"
        /\ cookie' = IF sid = NoSession THEN cookie
                     ELSE [cookie EXCEPT ![req[t].browser] = sid]
        /\ acked' = IF req[t].changed THEN [acked EXCEPT ![sid] = @ + 1] ELSE acked
        /\ req' = [req EXCEPT ![t] = Resting]
        /\ UNCHANGED <<clock, rows, saved, file, locks, popped, held, slots, guard,
                       mishaps>>

-----------------------------------------------------------------------------

\* Time passes, but no request outlives Stall.
Tick ==
    /\ clock < MaxTime
    /\ \A t \in Threads : req[t].pc \notin {"idle", "enter"} => clock < req[t].now + Stall
    /\ clock' = clock + 1
    /\ UNCHANGED <<rows, saved, file, locks, popped, held, slots, guard, req, cookie,
                   acked, mishaps>>

\* The process dies and starts again: files, committed index rows and cookies stay.
Crash ==
    /\ mishaps < MaxMishaps
    /\ mishaps' = mishaps + 1
    /\ rows' = saved
    /\ locks' = [sid \in SessionIds |-> 0] /\ popped' = locks'
    /\ held' = {} /\ slots' = MaxSlots /\ guard' = Nobody
    /\ req' = [t \in Threads |-> Resting]
    /\ UNCHANGED <<clock, saved, file, cookie, acked>>

\* What a thread does once its request is under way.
Step(t) ==
    \/ Enter(t)
    \/ \E sid \in SessionIds : Spare(t, sid) \/ Doom(t, sid) \/ Create(t, sid)
    \/ Remove(t) \/ Renew(t) \/ Refuse(t)
    \/ Initialize(t) \/ InitializeFails(t) \/ Register(t) \/ RegisterFails(t)
    \/ TakeSlot(t) \/ NoSlot(t) \/ TakeLock(t) \/ TimeOut(t)
    \/ Open(t) \/ Read(t) \/ Change(t) \/ Abort(t) \/ Leave(t) \/ Answer(t)

Next == \/ \E t \in Threads, b \in Browsers : Arrive(t, b)
        \/ \E t \in Threads : Step(t)
        \/ Tick
        \/ Crash

Spec == Init /\ [][Next]_vars

\* A thread that can go on does, sooner or later.  Nothing is assumed of who gets
\* the guard or a lock next: Python's locks promise no order.
FairSpec == Spec /\ \A t \in Threads : WF_vars(Step(t))

-----------------------------------------------------------------------------

Inside(t, steps) == req[t].pc \in steps

Transactions == {t \in Threads : Inside(t, {"open", "work", "leave"})}

InSession == {"sweep", "remove", "initialize", "register"}

\* Every variable has its type, and the guard is held by the one thread that is
\* inside session().
StoreTypeOK ==
    /\ clock \in 1..MaxTime /\ slots \in 0..MaxSlots
    /\ rows \in [SessionIds -> 0..(MaxTime + Ttl)] /\ saved \in [SessionIds -> 0..(MaxTime + Ttl)]
    /\ cookie \in [Browsers -> SessionIds \cup {NoSession}]
    /\ guard \in Threads \cup {Nobody}
    /\ \A t \in Threads : Inside(t, InSession) <=> guard = t

\* Eight slots and one lock per visitor, on every path: a slot is taken exactly
\* while a request waits for its lock or holds it, and a lock held exactly while
\* its transaction is open, by one thread; and places in the index, counted before
\* a slow initialize() and taken after it: never more than MaxSessions.
ResourcesHeld ==
    /\ slots + Cardinality({t \in Threads : Inside(t, {"lock"})} \cup Transactions) = MaxSlots
    /\ held = {LockOf(t) : t \in Transactions}
    /\ \A t, u \in Transactions : LockOf(t) = LockOf(u) => t = u
    /\ Cardinality(Visitors(rows)) <= MaxSessions /\ Cardinality(Visitors(saved)) <= MaxSessions

\* The operations of one visitor take turns, although its lock is made on demand,
\* outside the guard, and dropped by the sweep.
OneTransactionPerVisitor ==
    \A t, u \in Transactions : req[t].sid = req[u].sid => t = u

\* Until it expires, a visitor's warehouse holds every change an answer has
\* confirmed, across crashes and requests side by side.
ConfirmedChangesStay ==
    \A sid \in SessionIds : rows[sid] > clock => file[sid].changes >= acked[sid]

\* A visitor that has not expired has an initialized warehouse, also after a crash
\* between any two statements of session(): the file is committed before the row,
\* and removed only with an expired row.
VisitorsHaveWarehouses ==
    \A sid \in SessionIds :
        rows[sid] > clock \/ saved[sid] > clock => file[sid].kind = "ready"

\* Files without a visitor, which no sweep will ever find.
Orphans ==
    {sid \in SessionIds :
        /\ file[sid] # Absent /\ rows[sid] = 0
        /\ \A t \in Threads : Inside(t, {"initialize", "register"}) => req[t].sid # sid}

\* A file loses its visitor only by a crash or a failed index write, and each
\* leaves one behind at most.
OrphansComeFromMishaps == Cardinality(Orphans) <= mishaps

\* The warehouse of a request that session() admitted is not removed before its
\* answer: the sliding expiry outlasts the request.
InUseIsNeverRemoved ==
    [][\A sid \in SessionIds :
          file[sid] # Absent /\ file'[sid] = Absent =>
            \A t \in Threads :
                Inside(t, {"admitted", "lock", "open", "work"}) => req[t].sid # sid]_vars

\* However long a request takes, the sweep passes over a visitor whose transaction
\* is open when it looks: the dictionary still holds the lock of that transaction.
OpenTransactionsAreSpared ==
    [][\A t \in Threads, sid \in SessionIds :
          Doom(t, sid) => \A u \in Transactions : req[u].sid # sid]_vars

\* Past the guard no request waits for ever, on whichever slot, lock or visitor it
\* depends: it is answered (or the process dies).
AdmittedIsAnswered ==
    \A t \in Threads :
        req[t].pc \notin {"idle", "enter"} ~> req[t].pc = "idle"
=============================================================================
