----------------------------- MODULE StoreProofs -----------------------------
(***************************************************************************)
(* Theorems about WorkspaceStore, for any number of threads, browsers,     *)
(* sessions and slots.                                                     *)
(***************************************************************************)
EXTENDS WorkspaceStore, FiniteSetTheorems, TLAPS

\* What a thread may be at once a request has reached it.
Steps == {"enter", "sweep", "remove", "initialize", "register", "admitted", "lock", "open",
          "work", "leave", "answer"}

\* It has a session that session() returned, until its answer.
Admitted == {"admitted", "lock", "open", "work", "leave"}

\* It has a slot.
Slotted == {"lock", "open", "work", "leave"}

Sids == SessionIds \cup {NoSession}
Warehouses == [kind : {"absent", "bare", "ready"}, changes : Nat]
Requests == [pc : Steps, browser : Browsers, presented : Sids, sid : Sids,
             now : 0 .. MaxTime, expired : SUBSET SessionIds, victim : Sids,
             lock : Nat, read : Warehouses, changed : BOOLEAN]

Typed ==
    /\ clock \in 1 .. MaxTime
    /\ rows \in [SessionIds -> 0 .. (MaxTime + Ttl)]
    /\ saved \in [SessionIds -> 0 .. (MaxTime + Ttl)]
    /\ file \in [SessionIds -> Warehouses]
    /\ locks \in [SessionIds -> Nat] /\ popped \in [SessionIds -> Nat]
    /\ slots \in Nat
    /\ guard \in Threads \cup {Nobody}
    /\ req \in [Threads -> Requests \cup {Resting}]
    /\ cookie \in [Browsers -> Sids]
    /\ acked \in [SessionIds -> Nat]
    /\ mishaps \in Nat

\* Whoever is past the first steps of session() has a session, whoever removes
\* a visitor has one to remove, and only a request that is answered has changed one.
Settled ==
    \A t \in Threads :
        /\ Inside(t, Admitted \cup {"initialize", "register"}) => req[t].sid \in SessionIds
        /\ Inside(t, {"remove"}) => req[t].victim \in SessionIds
        /\ ~ Inside(t, {"idle"}) =>
               (req[t].changed => Inside(t, {"leave", "answer"}) /\ req[t].sid \in SessionIds)

Guarded == \A t \in Threads : Inside(t, InSession) <=> guard = t

Basic == Typed /\ Settled /\ Guarded

\* A thread that is not idle has a request with all its fields.
LEMMA RequestOf ==
    ASSUME Typed, NEW t \in Threads, req[t].pc # "idle"
    PROVE  req[t] \in Requests
BY DEF Typed, Resting

\* At the start every thread is idle and the guard free.
LEMMA BasicInit == Init => Basic
<1> SUFFICES ASSUME Init PROVE Basic
  OBVIOUS
<1>1. Absent \in Warehouses
  BY DEF Absent, Warehouses
<1>2. Typed
  BY <1>1, StoreAssumption DEF Init, Typed, Sids
<1>3. \A t \in Threads : req[t].pc = "idle" /\ guard # t
  BY StoreAssumption DEF Init, Resting
<1>. QED
  BY <1>2, <1>3 DEF Basic, Settled, Guarded, Inside, Admitted, InSession

\* A step of a thread touches no other thread's request.
LEMMA StepMoves ==
    ASSUME Basic, NEW t \in Threads, Step(t)
    PROVE  \E r \in Requests \cup {Resting} : req' = [req EXCEPT ![t] = r]
<1> USE DEF Basic
<1>1. CASE Enter(t)
  <2> DEFINE dead == {sid \in Visitors(rows) : rows[sid] <= clock}
             r == [req[t] EXCEPT !.pc = "sweep", !.now = clock, !.expired = dead]
  <2>1. req[t] \in Requests
    BY <1>1, RequestOf DEF Enter
  <2>2. dead \in SUBSET SessionIds /\ clock \in 0 .. MaxTime
    BY DEF Visitors, Typed
  <2>3. req' = [req EXCEPT ![t] = r]
    BY <1>1 DEF Enter
  <2> HIDE DEF dead
  <2>4. r \in Requests
    BY <2>1, <2>2 DEF Requests, Steps
  <2>. QED
    BY <2>3, <2>4
<1>2. ASSUME NEW sid \in SessionIds, Spare(t, sid)
      PROVE  \E r \in Requests : req' = [req EXCEPT ![t] = r]
  <2> DEFINE r == [req[t] EXCEPT !.expired = @ \ {sid}]
  <2>1. req[t] \in Requests
    BY <1>2, RequestOf DEF Spare
  <2>2. r \in Requests
    BY <2>1 DEF Requests
  <2>3. req' = [req EXCEPT ![t] = r]
    BY <1>2 DEF Spare
  <2>. QED
    BY <2>2, <2>3
<1>3. ASSUME NEW sid \in SessionIds, Doom(t, sid)
      PROVE  \E r \in Requests : req' = [req EXCEPT ![t] = r]
  <2> DEFINE r == [req[t] EXCEPT !.pc = "remove", !.expired = @ \ {sid}, !.victim = sid]
  <2>1. req[t] \in Requests
    BY <1>3, RequestOf DEF Doom
  <2>2. r \in Requests
    BY <2>1 DEF Requests, Steps, Sids
  <2>3. req' = [req EXCEPT ![t] = r]
    BY <1>3 DEF Doom
  <2>. QED
    BY <2>2, <2>3
<1>4. ASSUME NEW sid \in SessionIds, Create(t, sid)
      PROVE  \E r \in Requests : req' = [req EXCEPT ![t] = r]
  <2> DEFINE r == [req[t] EXCEPT !.pc = "initialize", !.sid = sid]
  <2>1. req[t] \in Requests
    BY <1>4, RequestOf DEF Create, Swept
  <2>2. r \in Requests
    BY <2>1 DEF Requests, Steps, Sids
  <2>3. req' = [req EXCEPT ![t] = r]
    BY <1>4 DEF Create
  <2>. QED
    BY <2>2, <2>3
<1>5. CASE Remove(t)
  <2> DEFINE r == [req[t] EXCEPT !.pc = "sweep"]
  <2>1. req[t] \in Requests
    BY <1>5, RequestOf DEF Remove, Goto
  <2>2. r \in Requests
    BY <2>1 DEF Requests, Steps, Sids
  <2>3. req' = [req EXCEPT ![t] = r]
    BY <1>5 DEF Remove, Goto
  <2>. QED
    BY <2>2, <2>3
<1>6. CASE Renew(t)
  <2> DEFINE r == [req[t] EXCEPT !.pc = "admitted", !.sid = req[t].presented]
  <2>1. req[t] \in Requests
    BY <1>6, RequestOf DEF Renew, Registered, Swept
  <2>2. r \in Requests
    BY <2>1 DEF Requests, Steps, Sids
  <2>3. req' = [req EXCEPT ![t] = r]
    BY <1>6 DEF Renew, Registered, Swept
  <2>. QED
    BY <2>2, <2>3
<1>7. CASE Refuse(t)
  <2> DEFINE r == [req[t] EXCEPT !.pc = "answer", !.sid = NoSession]
  <2>1. req[t] \in Requests
    BY <1>7, RequestOf DEF Refuse, Dismissed, Swept
  <2>2. r \in Requests
    BY <2>1 DEF Requests, Steps, Sids
  <2>3. req' = [req EXCEPT ![t] = r]
    BY <1>7 DEF Refuse, Dismissed, Swept
  <2>. QED
    BY <2>2, <2>3
<1>8. CASE Initialize(t)
  <2> DEFINE r == [req[t] EXCEPT !.pc = "register"]
  <2>1. req[t] \in Requests
    BY <1>8, RequestOf DEF Initialize, Goto
  <2>2. r \in Requests
    BY <2>1 DEF Requests, Steps, Sids
  <2>3. req' = [req EXCEPT ![t] = r]
    BY <1>8 DEF Initialize, Goto
  <2>. QED
    BY <2>2, <2>3
<1>9. CASE InitializeFails(t)
  <2> DEFINE r == [req[t] EXCEPT !.pc = "answer", !.sid = NoSession]
  <2>1. req[t] \in Requests
    BY <1>9, RequestOf DEF InitializeFails, Dismissed
  <2>2. r \in Requests
    BY <2>1 DEF Requests, Steps, Sids
  <2>3. req' = [req EXCEPT ![t] = r]
    BY <1>9 DEF InitializeFails, Dismissed
  <2>. QED
    BY <2>2, <2>3
<1>10. CASE Register(t)
  <2> DEFINE r == [req[t] EXCEPT !.pc = "admitted", !.sid = req[t].sid]
  <2>1. req[t] \in Requests
    BY <1>10, RequestOf DEF Register, Registered
  <2>2. r \in Requests
    BY <2>1 DEF Requests, Steps, Sids
  <2>3. req' = [req EXCEPT ![t] = r]
    BY <1>10 DEF Register, Registered
  <2>. QED
    BY <2>2, <2>3
<1>11. CASE RegisterFails(t)
  <2> DEFINE r == [req[t] EXCEPT !.pc = "answer", !.sid = NoSession]
  <2>1. req[t] \in Requests
    BY <1>11, RequestOf DEF RegisterFails, Dismissed
  <2>2. r \in Requests
    BY <2>1 DEF Requests, Steps, Sids
  <2>3. req' = [req EXCEPT ![t] = r]
    BY <1>11 DEF RegisterFails, Dismissed
  <2>. QED
    BY <2>2, <2>3
<1>12. CASE TakeSlot(t)
  <2> DEFINE r == [req[t] EXCEPT !.pc = "lock", !.lock = LockFor(req[t].sid)]
  <2>1. req[t] \in Requests /\ req[t].sid \in SessionIds
    BY <1>12, RequestOf DEF TakeSlot, Settled, Inside, Admitted
  <2>2. LockFor(req[t].sid) \in Nat
    BY <2>1 DEF LockFor, Typed
  <2>3. r \in Requests
    BY <2>1, <2>2 DEF Requests, Steps
  <2>4. req' = [req EXCEPT ![t] = r]
    BY <1>12 DEF TakeSlot
  <2>. QED
    BY <2>3, <2>4
<1>13. CASE NoSlot(t)
  <2> DEFINE r == [req[t] EXCEPT !.pc = "answer"]
  <2>1. req[t] \in Requests
    BY <1>13, RequestOf DEF NoSlot, Goto
  <2>2. r \in Requests
    BY <2>1 DEF Requests, Steps, Sids
  <2>3. req' = [req EXCEPT ![t] = r]
    BY <1>13 DEF NoSlot, Goto
  <2>. QED
    BY <2>2, <2>3
<1>14. CASE TakeLock(t)
  <2> DEFINE r == [req[t] EXCEPT !.pc = "open"]
  <2>1. req[t] \in Requests
    BY <1>14, RequestOf DEF TakeLock, Goto
  <2>2. r \in Requests
    BY <2>1 DEF Requests, Steps, Sids
  <2>3. req' = [req EXCEPT ![t] = r]
    BY <1>14 DEF TakeLock, Goto
  <2>. QED
    BY <2>2, <2>3
<1>15. CASE TimeOut(t)
  <2> DEFINE r == [req[t] EXCEPT !.pc = "answer"]
  <2>1. req[t] \in Requests
    BY <1>15, RequestOf DEF TimeOut, Goto
  <2>2. r \in Requests
    BY <2>1 DEF Requests, Steps, Sids
  <2>3. req' = [req EXCEPT ![t] = r]
    BY <1>15 DEF TimeOut, Goto
  <2>. QED
    BY <2>2, <2>3
<1>16. CASE Open(t)
  <2> DEFINE found == IF file[req[t].sid] = Absent THEN Bare ELSE file[req[t].sid]
             r == [req[t] EXCEPT !.pc = "work", !.read = found]
  <2>1. req[t] \in Requests /\ req[t].sid \in SessionIds
    BY <1>16, RequestOf DEF Open, Settled, Inside, Admitted
  <2>2. found \in Warehouses
    BY <2>1 DEF Typed, Bare, Warehouses
  <2>3. req' = [req EXCEPT ![t] = r]
    BY <1>16 DEF Open
  <2> HIDE DEF found
  <2>4. r \in Requests
    BY <2>1, <2>2 DEF Requests, Steps
  <2>. QED
    BY <2>3, <2>4
<1>17. CASE Read(t)
  <2> DEFINE r == [req[t] EXCEPT !.pc = "leave"]
  <2>1. req[t] \in Requests
    BY <1>17, RequestOf DEF Read, Goto
  <2>2. r \in Requests
    BY <2>1 DEF Requests, Steps, Sids
  <2>3. req' = [req EXCEPT ![t] = r]
    BY <1>17 DEF Read, Goto
  <2>. QED
    BY <2>2, <2>3
<1>18. CASE Change(t)
  <2> DEFINE r == [req[t] EXCEPT !.pc = "leave", !.changed = TRUE]
  <2>1. req[t] \in Requests
    BY <1>18, RequestOf DEF Change
  <2>2. r \in Requests
    BY <2>1 DEF Requests, Steps, Sids
  <2>3. req' = [req EXCEPT ![t] = r]
    BY <1>18 DEF Change
  <2>. QED
    BY <2>2, <2>3
<1>19. CASE Abort(t)
  <2> DEFINE r == [req[t] EXCEPT !.pc = "leave"]
  <2>1. req[t] \in Requests
    BY <1>19, RequestOf DEF Abort, Goto
  <2>2. r \in Requests
    BY <2>1 DEF Requests, Steps, Sids
  <2>3. req' = [req EXCEPT ![t] = r]
    BY <1>19 DEF Abort, Goto
  <2>. QED
    BY <2>2, <2>3
<1>20. CASE Leave(t)
  <2> DEFINE r == [req[t] EXCEPT !.pc = "answer"]
  <2>1. req[t] \in Requests
    BY <1>20, RequestOf DEF Leave, Goto
  <2>2. r \in Requests
    BY <2>1 DEF Requests, Steps, Sids
  <2>3. req' = [req EXCEPT ![t] = r]
    BY <1>20 DEF Leave, Goto
  <2>. QED
    BY <2>2, <2>3
<1>21. CASE Answer(t)
  BY <1>21 DEF Answer
<1>. QED
  BY <1>1, <1>2, <1>3, <1>4, <1>5, <1>6, <1>7, <1>8, <1>9, <1>10, <1>11, <1>12, <1>13, <1>14,
     <1>15, <1>16, <1>17, <1>18, <1>19, <1>20, <1>21 DEF Step

\* A step keeps every type.
LEMMA StepTyped ==
    ASSUME Basic, NEW t \in Threads, Step(t)
    PROVE  Typed'
<1>1. Typed /\ Settled
  BY DEF Basic
<1>2. req' \in [Threads -> Requests \cup {Resting}]
  <2>1. PICK r \in Requests \cup {Resting} : req' = [req EXCEPT ![t] = r]
    BY StepMoves
  <2>. QED
    BY <1>1, <2>1 DEF Typed
<1>3. \A u \in Threads : req[u].pc # "idle" =>
          /\ req[u].sid \in Sids /\ req[u].browser \in Browsers /\ req[u].now \in 0 .. MaxTime
          /\ req[u].read.changes \in Nat
  BY <1>1, RequestOf DEF Requests, Warehouses
<1> DEFINE OthersTyped ==
             /\ clock' = clock
             /\ rows' \in [SessionIds -> 0 .. (MaxTime + Ttl)]
             /\ saved' \in [SessionIds -> 0 .. (MaxTime + Ttl)]
             /\ file' \in [SessionIds -> Warehouses]
             /\ locks' \in [SessionIds -> Nat] /\ popped' \in [SessionIds -> Nat]
             /\ slots' \in Nat /\ guard' \in Threads \cup {Nobody}
             /\ cookie' \in [Browsers -> Sids] /\ acked' \in [SessionIds -> Nat]
             /\ mishaps' \in Nat
<1>4. ASSUME NEW sid \in SessionIds, Spare(t, sid) \/ Doom(t, sid) \/ Create(t, sid)
      PROVE  OthersTyped
  BY <1>1, <1>4 DEF Spare, Doom, Create, Typed, Bare, Warehouses
<1>5. ASSUME Enter(t) PROVE OthersTyped
  BY <1>1, <1>3, <1>5, StoreAssumption DEF Enter, Typed, Settled, Inside, Admitted
<1>6. ASSUME Remove(t) PROVE OthersTyped
  BY <1>1, <1>3, <1>6, StoreAssumption DEF Remove, Goto, Absent, Warehouses, Typed, Settled, Inside, Admitted
<1>7. ASSUME Renew(t) PROVE OthersTyped
  BY <1>1, <1>3, <1>7, StoreAssumption DEF Renew, Registered, Swept, LockFor, Known, Typed, Settled, Inside, Admitted
<1>8. ASSUME Refuse(t) PROVE OthersTyped
  BY <1>1, <1>3, <1>8, StoreAssumption DEF Refuse, Dismissed, Swept, Typed, Settled, Inside, Admitted
<1>9. ASSUME Initialize(t) PROVE OthersTyped
  BY <1>1, <1>3, <1>9, StoreAssumption DEF Initialize, Goto, Ready, Warehouses, Typed, Settled, Inside, Admitted
<1>10. ASSUME InitializeFails(t) PROVE OthersTyped
  BY <1>1, <1>3, <1>10, StoreAssumption DEF InitializeFails, Dismissed, Absent, Warehouses, Typed, Settled, Inside, Admitted
<1>11. ASSUME Register(t) PROVE OthersTyped
  BY <1>1, <1>3, <1>11, StoreAssumption DEF Register, Registered, LockFor, Typed, Settled, Inside, Admitted
<1>12. ASSUME RegisterFails(t) PROVE OthersTyped
  BY <1>1, <1>3, <1>12, StoreAssumption DEF RegisterFails, Dismissed, Typed, Settled, Inside, Admitted
<1>13. ASSUME TakeSlot(t) PROVE OthersTyped
  BY <1>1, <1>3, <1>13, StoreAssumption DEF TakeSlot, LockFor, Typed, Settled, Inside, Admitted
<1>14. ASSUME NoSlot(t) PROVE OthersTyped
  BY <1>1, <1>3, <1>14, StoreAssumption DEF NoSlot, Goto, LockFor, Typed, Settled, Inside, Admitted
<1>15. ASSUME TakeLock(t) PROVE OthersTyped
  BY <1>1, <1>3, <1>15, StoreAssumption DEF TakeLock, Goto, Typed, Settled, Inside, Admitted
<1>16. ASSUME TimeOut(t) PROVE OthersTyped
  BY <1>1, <1>3, <1>16, StoreAssumption DEF TimeOut, Goto, Typed, Settled, Inside, Admitted
<1>17. ASSUME Open(t) PROVE OthersTyped
  BY <1>1, <1>3, <1>17, StoreAssumption DEF Open, Bare, Warehouses, Typed, Settled, Inside, Admitted
<1>18. ASSUME Read(t) PROVE OthersTyped
  BY <1>1, <1>3, <1>18, StoreAssumption DEF Read, Goto, Typed, Settled, Inside, Admitted
<1>19. ASSUME Change(t) PROVE OthersTyped
  BY <1>1, <1>3, <1>19, StoreAssumption DEF Change, Ready, Warehouses, Typed, Settled, Inside, Admitted
<1>20. ASSUME Abort(t) PROVE OthersTyped
  BY <1>1, <1>3, <1>20, StoreAssumption DEF Abort, Goto, Typed, Settled, Inside, Admitted
<1>21. ASSUME Leave(t) PROVE OthersTyped
  BY <1>1, <1>3, <1>21, StoreAssumption DEF Leave, Goto, Typed, Settled, Inside, Admitted
<1>22. ASSUME Answer(t) PROVE OthersTyped
  BY <1>1, <1>3, <1>22, StoreAssumption DEF Answer, Typed, Settled, Inside, Admitted
<1>23. OthersTyped
  BY <1>4, <1>5, <1>6, <1>7, <1>8, <1>9, <1>10, <1>11, <1>12, <1>13, <1>14, <1>15, <1>16, <1>17, <1>18, <1>19, <1>20, <1>21, <1>22 DEF Step
<1>. QED
  BY <1>1, <1>2, <1>23 DEF Typed

\* A step keeps what is settled, and the guard.
LEMMA StepBasic ==
    ASSUME Basic, NEW t \in Threads, Step(t)
    PROVE  Basic'
<1>1. Typed /\ Settled /\ Guarded /\ Typed'
  BY StepTyped DEF Basic
<1>2. PICK r \in Requests \cup {Resting} : req' = [req EXCEPT ![t] = r]
  BY StepMoves
<1>3. req'[t] = r /\ \A u \in Threads : u # t => req'[u] = req[u]
  BY <1>1, <1>2 DEF Typed
<1> DEFINE Mine ==
             /\ Inside(t, Admitted \cup {"initialize", "register"})' => req'[t].sid \in SessionIds
             /\ Inside(t, {"remove"})' => req'[t].victim \in SessionIds
             /\ ~ Inside(t, {"idle"})' =>
                    (req'[t].changed => Inside(t, {"leave", "answer"})' /\ req'[t].sid \in SessionIds)
             /\ Inside(t, InSession)' => guard \in {t, Nobody}
             /\ guard' = IF Inside(t, InSession)' THEN t
                         ELSE IF guard = t THEN Nobody ELSE guard
<1>4. ASSUME NEW sid \in SessionIds, Spare(t, sid) \/ Doom(t, sid) \/ Create(t, sid)
      PROVE  Mine
  <2>1. req[t] \in Requests /\ guard = t
    BY <1>1, <1>4, RequestOf DEF Spare, Doom, Create, Swept, Guarded, Inside, InSession
  <2>. QED
    BY <1>1, <1>4, <2>1 DEF Spare, Doom, Create, Swept, Typed, Requests, Settled, Inside, Admitted, InSession
<1>5. ASSUME Enter(t) PROVE Mine
  <2>1. req[t] \in Requests
    BY <1>1, <1>5, RequestOf DEF Enter
  <2>. QED
    BY <1>1, <1>5, <2>1, StoreAssumption DEF Enter, Typed, Requests, Settled, Guarded,
       Inside, Admitted, InSession
<1>6. ASSUME Remove(t) PROVE Mine
  <2>1. req[t] \in Requests
    BY <1>1, <1>6, RequestOf DEF Remove
  <2>. QED
    BY <1>1, <1>6, <2>1, StoreAssumption DEF Remove, Goto, Typed, Requests, Settled, Guarded,
       Inside, Admitted, InSession
<1>7. ASSUME Renew(t) PROVE Mine
  <2>1. req[t] \in Requests
    BY <1>1, <1>7, RequestOf DEF Renew, Swept
  <2>. QED
    BY <1>1, <1>7, <2>1, StoreAssumption DEF Renew, Registered, Swept, Known, Typed, Requests, Settled, Guarded,
       Inside, Admitted, InSession
<1>8. ASSUME Refuse(t) PROVE Mine
  <2>1. req[t] \in Requests
    BY <1>1, <1>8, RequestOf DEF Refuse, Swept
  <2>. QED
    BY <1>1, <1>8, <2>1, StoreAssumption DEF Refuse, Dismissed, Swept, Typed, Requests, Settled, Guarded,
       Inside, Admitted, InSession
<1>9. ASSUME Initialize(t) PROVE Mine
  <2>1. req[t] \in Requests
    BY <1>1, <1>9, RequestOf DEF Initialize
  <2>. QED
    BY <1>1, <1>9, <2>1, StoreAssumption DEF Initialize, Goto, Typed, Requests, Settled, Guarded,
       Inside, Admitted, InSession
<1>10. ASSUME InitializeFails(t) PROVE Mine
  <2>1. req[t] \in Requests
    BY <1>1, <1>10, RequestOf DEF InitializeFails
  <2>. QED
    BY <1>1, <1>10, <2>1, StoreAssumption DEF InitializeFails, Dismissed, Typed, Requests, Settled, Guarded,
       Inside, Admitted, InSession
<1>11. ASSUME Register(t) PROVE Mine
  <2>1. req[t] \in Requests
    BY <1>1, <1>11, RequestOf DEF Register
  <2>. QED
    BY <1>1, <1>11, <2>1, StoreAssumption DEF Register, Registered, Typed, Requests, Settled, Guarded,
       Inside, Admitted, InSession
<1>12. ASSUME RegisterFails(t) PROVE Mine
  <2>1. req[t] \in Requests
    BY <1>1, <1>12, RequestOf DEF RegisterFails
  <2>. QED
    BY <1>1, <1>12, <2>1, StoreAssumption DEF RegisterFails, Dismissed, Typed, Requests, Settled, Guarded,
       Inside, Admitted, InSession
<1>13. ASSUME TakeSlot(t) PROVE Mine
  <2>1. req[t] \in Requests
    BY <1>1, <1>13, RequestOf DEF TakeSlot
  <2>. QED
    BY <1>1, <1>13, <2>1, StoreAssumption DEF TakeSlot, Typed, Requests, Settled, Guarded,
       Inside, Admitted, InSession
<1>14. ASSUME NoSlot(t) PROVE Mine
  <2>1. req[t] \in Requests
    BY <1>1, <1>14, RequestOf DEF NoSlot
  <2>. QED
    BY <1>1, <1>14, <2>1, StoreAssumption DEF NoSlot, Goto, Typed, Requests, Settled, Guarded,
       Inside, Admitted, InSession
<1>15. ASSUME TakeLock(t) PROVE Mine
  <2>1. req[t] \in Requests
    BY <1>1, <1>15, RequestOf DEF TakeLock
  <2>. QED
    BY <1>1, <1>15, <2>1, StoreAssumption DEF TakeLock, Goto, Typed, Requests, Settled, Guarded,
       Inside, Admitted, InSession
<1>16. ASSUME TimeOut(t) PROVE Mine
  <2>1. req[t] \in Requests
    BY <1>1, <1>16, RequestOf DEF TimeOut
  <2>. QED
    BY <1>1, <1>16, <2>1, StoreAssumption DEF TimeOut, Goto, Typed, Requests, Settled, Guarded,
       Inside, Admitted, InSession
<1>17. ASSUME Open(t) PROVE Mine
  <2>1. req[t] \in Requests
    BY <1>1, <1>17, RequestOf DEF Open
  <2>. QED
    BY <1>1, <1>17, <2>1, StoreAssumption DEF Open, Typed, Requests, Settled, Guarded,
       Inside, Admitted, InSession
<1>18. ASSUME Read(t) PROVE Mine
  <2>1. req[t] \in Requests
    BY <1>1, <1>18, RequestOf DEF Read
  <2>. QED
    BY <1>1, <1>18, <2>1, StoreAssumption DEF Read, Goto, Typed, Requests, Settled, Guarded,
       Inside, Admitted, InSession
<1>19. ASSUME Change(t) PROVE Mine
  <2>1. req[t] \in Requests
    BY <1>1, <1>19, RequestOf DEF Change
  <2>. QED
    BY <1>1, <1>19, <2>1, StoreAssumption DEF Change, Typed, Requests, Settled, Guarded,
       Inside, Admitted, InSession
<1>20. ASSUME Abort(t) PROVE Mine
  <2>1. req[t] \in Requests
    BY <1>1, <1>20, RequestOf DEF Abort
  <2>. QED
    BY <1>1, <1>20, <2>1, StoreAssumption DEF Abort, Goto, Typed, Requests, Settled, Guarded,
       Inside, Admitted, InSession
<1>21. ASSUME Leave(t) PROVE Mine
  <2>1. req[t] \in Requests
    BY <1>1, <1>21, RequestOf DEF Leave
  <2>. QED
    BY <1>1, <1>21, <2>1, StoreAssumption DEF Leave, Goto, Typed, Requests, Settled, Guarded,
       Inside, Admitted, InSession
<1>22. ASSUME Answer(t) PROVE Mine
  <2>1. req[t] \in Requests
    BY <1>1, <1>22, RequestOf DEF Answer
  <2>. QED
    BY <1>1, <1>22, <2>1, StoreAssumption DEF Answer, Resting, Typed, Requests, Settled, Guarded,
       Inside, Admitted, InSession
<1>23. Mine
  BY <1>4, <1>5, <1>6, <1>7, <1>8, <1>9, <1>10, <1>11, <1>12, <1>13, <1>14, <1>15, <1>16, <1>17, <1>18, <1>19, <1>20, <1>21, <1>22 DEF Step
<1>24. Settled'
  BY <1>1, <1>3, <1>23 DEF Settled, Inside
<1>25. Guarded'
  BY <1>1, <1>3, <1>23, StoreAssumption DEF Guarded, Inside
<1>. QED
  BY <1>1, <1>24, <1>25 DEF Basic

\* A new request knows nothing yet.
LEMMA ArriveBasic ==
    ASSUME Basic, NEW t \in Threads, NEW b \in Browsers, Arrive(t, b)
    PROVE  Basic'
<1>1. Typed /\ Settled /\ Guarded
  BY DEF Basic
<1> DEFINE r == [pc |-> "enter", browser |-> b, presented |-> cookie[b],
                 sid |-> NoSession, now |-> 0, expired |-> {}, victim |-> NoSession,
                 lock |-> 0, read |-> Absent, changed |-> FALSE]
<1>2. r \in Requests
  BY <1>1, StoreAssumption DEF Typed, Requests, Steps, Sids, Absent, Warehouses
<1>3. /\ req' = [req EXCEPT ![t] = r] /\ req[t].pc = "idle"
      /\ UNCHANGED <<clock, rows, saved, file, locks, popped, held, slots, guard,
                      cookie, acked, mishaps>>
  BY DEF Arrive, Resting
<1>4. r.pc = "enter" /\ ~ r.changed
  OBVIOUS
<1> HIDE DEF r
<1>5. Typed'
  BY <1>1, <1>2, <1>3 DEF Typed
<1>6. req'[t] = r /\ \A u \in Threads : u # t => req'[u] = req[u]
  BY <1>1, <1>3 DEF Typed
<1>7. Settled'
  BY <1>1, <1>3, <1>4, <1>6 DEF Settled, Inside, Admitted
<1>8. Guarded'
  BY <1>1, <1>3, <1>4, <1>6 DEF Guarded, Inside, InSession
<1>. QED
  BY <1>5, <1>7, <1>8 DEF Basic

\* A crash leaves no requests, and takes the index back to its last commit.
LEMMA CrashBasic ==
    ASSUME Basic, Crash
    PROVE  Basic' /\ \A t \in Threads : req'[t].pc = "idle"
<1>1. Typed'
  BY StoreAssumption DEF Basic, Crash, Typed
<1>2. guard' = Nobody /\ \A t \in Threads : req'[t].pc = "idle"
  BY DEF Crash, Resting
<1>. QED
  BY <1>1, <1>2, StoreAssumption DEF Basic, Settled, Guarded, Inside, Admitted, InSession

\* The clock disturbs no thread and not the guard.
LEMMA TickBasic ==
    ASSUME Basic, Tick
    PROVE  Basic'
<1>1. Typed'
  BY StoreAssumption DEF Basic, Tick, Typed
<1>. QED
  BY <1>1 DEF Basic, Tick, Settled, Guarded, Inside

\* Types, settled requests and the guard survive every step.
LEMMA BasicNext == Basic /\ [Next]_vars => Basic'
<1> SUFFICES ASSUME Basic, [Next]_vars PROVE Basic'
  OBVIOUS
<1>1. CASE UNCHANGED vars
  BY <1>1 DEF vars, Basic, Typed, Settled, Guarded, Inside
<1>. QED
  BY <1>1, ArriveBasic, StepBasic, TickBasic, CrashBasic DEF Next

-----------------------------------------------------------------------------
(* Slots, locks and places in the index.                                   *)

\* A session being set up is nobody else's, and not in the index.
Names ==
    \A t \in Threads : Inside(t, {"initialize", "register"}) =>
        /\ rows[req[t].sid] = 0 /\ saved[req[t].sid] = 0
        /\ \A u \in Threads \ {t} : ~ Inside(u, {"idle"}) => req[u].sid # req[t].sid

\* The dictionary holds the lock a request goes by, unless the visitor was removed.
Keyed ==
    \A t \in Threads : Inside(t, Slotted) =>
        /\ req[t].lock # 0
        /\ rows[req[t].sid] = 0 \/ locks[req[t].sid] = req[t].lock

\* The name a session is given while it is being set up stays its own.
LEMMA StepNames ==
    ASSUME Basic, Names, NEW t \in Threads, Step(t)
    PROVE  Names'
<1>1. Typed /\ Settled /\ Guarded /\ Typed' /\ Settled' /\ Guarded'
  BY StepBasic DEF Basic
<1>2. PICK r \in Requests \cup {Resting} : req' = [req EXCEPT ![t] = r]
  BY StepMoves
<1>3. req'[t] = r /\ \A u \in Threads : u # t => req'[u] = req[u]
  BY <1>1, <1>2 DEF Typed
<1> DEFINE Mine ==
             /\ guard # t =>
                    /\ UNCHANGED <<rows, saved>>
                    /\ Inside(t, {"idle"})' \/ req'[t].sid \in {req[t].sid, NoSession}
                    /\ ~ Inside(t, {"initialize", "register"})'
             /\ Inside(t, {"initialize", "register"})' =>
                    /\ rows'[req'[t].sid] = 0 /\ saved'[req'[t].sid] = 0
                    /\ \A u \in Threads \ {t} : ~ Inside(u, {"idle"}) => req[u].sid # req'[t].sid
<1>4. ASSUME NEW sid \in SessionIds, Spare(t, sid) PROVE Mine
  <2>1. req[t] \in Requests
    BY <1>1, <1>4, RequestOf DEF Spare
  <2>. QED
    BY <1>1, <1>4, <2>1 DEF Spare, Typed, Requests, Settled, Guarded, Names, Inside, Admitted, InSession
<1>5. ASSUME NEW sid \in SessionIds, Doom(t, sid) PROVE Mine
  <2>1. req[t] \in Requests
    BY <1>1, <1>5, RequestOf DEF Doom
  <2>. QED
    BY <1>1, <1>5, <2>1 DEF Doom, Typed, Requests, Settled, Guarded, Names, Inside, Admitted, InSession
<1>6. ASSUME NEW sid \in SessionIds, Create(t, sid) PROVE Mine
  <2>1. req[t] \in Requests
    BY <1>1, <1>6, RequestOf DEF Create, Swept
  <2>. QED
    BY <1>1, <1>6, <2>1 DEF Create, Swept, Unseen, Typed, Requests, Settled, Guarded, Names, Inside, Admitted, InSession
<1>7. ASSUME Enter(t) PROVE Mine
  <2>1. req[t] \in Requests
    BY <1>1, <1>7, RequestOf DEF Enter
  <2>. QED
    BY <1>1, <1>7, <2>1, ZenonT(40) DEF Enter, Typed, Requests, Settled, Guarded, Names, Inside, Admitted, InSession
<1>8. ASSUME Remove(t) PROVE Mine
  <2>1. req[t] \in Requests
    BY <1>1, <1>8, RequestOf DEF Remove
  <2>. QED
    BY <1>1, <1>8, <2>1 DEF Remove, Goto, Typed, Requests, Settled, Guarded, Names, Inside, Admitted, InSession
<1>9. ASSUME Renew(t) PROVE Mine
  <2>1. req[t] \in Requests
    BY <1>1, <1>9, RequestOf DEF Renew, Swept
  <2>. QED
    BY <1>1, <1>9, <2>1 DEF Renew, Registered, Swept, Known, Typed, Requests, Settled, Guarded, Names, Inside, Admitted, InSession
<1>10. ASSUME Refuse(t) PROVE Mine
  <2>1. req[t] \in Requests
    BY <1>1, <1>10, RequestOf DEF Refuse, Swept
  <2>. QED
    BY <1>1, <1>10, <2>1 DEF Refuse, Dismissed, Swept, Typed, Requests, Settled, Guarded, Names, Inside, Admitted, InSession
<1>11. ASSUME Initialize(t) PROVE Mine
  <2>1. req[t] \in Requests
    BY <1>1, <1>11, RequestOf DEF Initialize
  <2>. QED
    BY <1>1, <1>11, <2>1 DEF Initialize, Goto, Typed, Requests, Settled, Guarded, Names, Inside, Admitted, InSession
<1>12. ASSUME InitializeFails(t) PROVE Mine
  <2>1. req[t] \in Requests
    BY <1>1, <1>12, RequestOf DEF InitializeFails
  <2>. QED
    BY <1>1, <1>12, <2>1 DEF InitializeFails, Dismissed, Typed, Requests, Settled, Guarded, Names, Inside, Admitted, InSession
<1>13. ASSUME Register(t) PROVE Mine
  <2>1. req[t] \in Requests
    BY <1>1, <1>13, RequestOf DEF Register
  <2>. QED
    BY <1>1, <1>13, <2>1 DEF Register, Registered, Typed, Requests, Settled, Guarded, Names, Inside, Admitted, InSession
<1>14. ASSUME RegisterFails(t) PROVE Mine
  <2>1. req[t] \in Requests
    BY <1>1, <1>14, RequestOf DEF RegisterFails
  <2>. QED
    BY <1>1, <1>14, <2>1 DEF RegisterFails, Dismissed, Typed, Requests, Settled, Guarded, Names, Inside, Admitted, InSession
<1>15. ASSUME TakeSlot(t) PROVE Mine
  <2>1. req[t] \in Requests
    BY <1>1, <1>15, RequestOf DEF TakeSlot
  <2>. QED
    BY <1>1, <1>15, <2>1 DEF TakeSlot, Typed, Requests, Settled, Guarded, Names, Inside, Admitted, InSession
<1>16. ASSUME NoSlot(t) PROVE Mine
  <2>1. req[t] \in Requests
    BY <1>1, <1>16, RequestOf DEF NoSlot
  <2>. QED
    BY <1>1, <1>16, <2>1 DEF NoSlot, Goto, Typed, Requests, Settled, Guarded, Names, Inside, Admitted, InSession
<1>17. ASSUME TakeLock(t) PROVE Mine
  <2>1. req[t] \in Requests
    BY <1>1, <1>17, RequestOf DEF TakeLock
  <2>. QED
    BY <1>1, <1>17, <2>1 DEF TakeLock, Goto, Typed, Requests, Settled, Guarded, Names, Inside, Admitted, InSession
<1>18. ASSUME TimeOut(t) PROVE Mine
  <2>1. req[t] \in Requests
    BY <1>1, <1>18, RequestOf DEF TimeOut
  <2>. QED
    BY <1>1, <1>18, <2>1 DEF TimeOut, Goto, Typed, Requests, Settled, Guarded, Names, Inside, Admitted, InSession
<1>19. ASSUME Open(t) PROVE Mine
  <2>1. req[t] \in Requests
    BY <1>1, <1>19, RequestOf DEF Open
  <2>. QED
    BY <1>1, <1>19, <2>1 DEF Open, Typed, Requests, Settled, Guarded, Names, Inside, Admitted, InSession
<1>20. ASSUME Read(t) PROVE Mine
  <2>1. req[t] \in Requests
    BY <1>1, <1>20, RequestOf DEF Read
  <2>. QED
    BY <1>1, <1>20, <2>1 DEF Read, Goto, Typed, Requests, Settled, Guarded, Names, Inside, Admitted, InSession
<1>21. ASSUME Change(t) PROVE Mine
  <2>1. req[t] \in Requests
    BY <1>1, <1>21, RequestOf DEF Change
  <2>. QED
    BY <1>1, <1>21, <2>1 DEF Change, Typed, Requests, Settled, Guarded, Names, Inside, Admitted, InSession
<1>22. ASSUME Abort(t) PROVE Mine
  <2>1. req[t] \in Requests
    BY <1>1, <1>22, RequestOf DEF Abort
  <2>. QED
    BY <1>1, <1>22, <2>1 DEF Abort, Goto, Typed, Requests, Settled, Guarded, Names, Inside, Admitted, InSession
<1>23. ASSUME Leave(t) PROVE Mine
  <2>1. req[t] \in Requests
    BY <1>1, <1>23, RequestOf DEF Leave
  <2>. QED
    BY <1>1, <1>23, <2>1 DEF Leave, Goto, Typed, Requests, Settled, Guarded, Names, Inside, Admitted, InSession
<1>24. ASSUME Answer(t) PROVE Mine
  <2>1. req[t] \in Requests
    BY <1>1, <1>24, RequestOf DEF Answer
  <2>. QED
    BY <1>1, <1>24, <2>1 DEF Answer, Resting, Typed, Requests, Settled, Guarded, Names, Inside, Admitted, InSession
<1>25. Mine
  BY <1>4, <1>5, <1>6, <1>7, <1>8, <1>9, <1>10, <1>11, <1>12, <1>13, <1>14, <1>15, <1>16, <1>17, <1>18, <1>19, <1>20, <1>21, <1>22, <1>23, <1>24, SMTT(40) DEF Step
<1>26. ~ Inside(t, {"idle"})
  BY DEF Step, Spare, Doom, Create, Enter, Remove, Renew, Refuse, Initialize, InitializeFails, Register,
     RegisterFails, TakeSlot, NoSlot, TakeLock, TimeOut, Open, Read, Change, Abort, Leave, Answer,
     Swept, Inside
<1>27. ASSUME NEW v \in Threads \ {t}, Inside(v, {"initialize", "register"})
       PROVE  guard # t /\ req[v].sid \in SessionIds /\ req[v].sid # NoSession
  BY <1>1, <1>27, StoreAssumption DEF Guarded, Settled, Inside, InSession, Admitted
<1>. QED
  BY <1>3, <1>25, <1>26, <1>27 DEF Names, Inside

\* The lock a thread goes by leaves the dictionary only with its visitor.
LEMMA StepKeyed ==
    ASSUME Basic, Names, Keyed, NEW t \in Threads, Step(t)
    PROVE  Keyed'
<1>1. Typed /\ Settled /\ Guarded /\ Typed' /\ Settled' /\ Guarded'
  BY StepBasic DEF Basic
<1>2. PICK r \in Requests \cup {Resting} : req' = [req EXCEPT ![t] = r]
  BY StepMoves
<1>3. req'[t] = r /\ \A u \in Threads : u # t => req'[u] = req[u]
  BY <1>1, <1>2 DEF Typed
<1> DEFINE Mine ==
             /\ \A sid \in SessionIds :
                    /\ rows'[sid] # 0 => locks[sid] \in {0, locks'[sid]}
                    /\ rows[sid] = 0 /\ rows'[sid] # 0 => Inside(t, {"register"}) /\ sid = req[t].sid
             /\ Inside(t, Slotted)' =>
                    /\ req'[t].lock # 0
                    /\ rows'[req'[t].sid] = 0 \/ locks'[req'[t].sid] = req'[t].lock
<1>4. ASSUME NEW sid \in SessionIds, Spare(t, sid) PROVE Mine
  <2>1. req[t] \in Requests
    BY <1>1, <1>4, RequestOf DEF Spare
  <2>. QED
    BY <1>1, <1>4, <2>1 DEF Spare, Typed, Requests, Settled, Guarded, Keyed, Inside, Admitted, InSession, Slotted
<1>5. ASSUME NEW sid \in SessionIds, Doom(t, sid) PROVE Mine
  <2>1. req[t] \in Requests
    BY <1>1, <1>5, RequestOf DEF Doom
  <2>. QED
    BY <1>1, <1>5, <2>1 DEF Doom, Typed, Requests, Settled, Guarded, Keyed, Inside, Admitted, InSession, Slotted
<1>6. ASSUME NEW sid \in SessionIds, Create(t, sid) PROVE Mine
  <2>1. req[t] \in Requests
    BY <1>1, <1>6, RequestOf DEF Create, Swept
  <2>. QED
    BY <1>1, <1>6, <2>1 DEF Create, Swept, Typed, Requests, Settled, Guarded, Keyed, Inside, Admitted, InSession, Slotted
<1>7. ASSUME Enter(t) PROVE Mine
  <2>1. req[t] \in Requests
    BY <1>1, <1>7, RequestOf DEF Enter
  <2>. QED
    BY <1>1, <1>7, <2>1 DEF Enter, Typed, Requests, Settled, Guarded, Keyed, Inside, Admitted, InSession, Slotted
<1>8. ASSUME Remove(t) PROVE Mine
  <2>1. req[t] \in Requests
    BY <1>1, <1>8, RequestOf DEF Remove
  <2>. QED
    BY <1>1, <1>8, <2>1 DEF Remove, Goto, Typed, Requests, Settled, Guarded, Keyed, Inside, Admitted, InSession, Slotted
<1>9. ASSUME Renew(t) PROVE Mine
  <2>1. req[t] \in Requests
    BY <1>1, <1>9, RequestOf DEF Renew, Swept
  <2>. QED
    BY <1>1, <1>9, <2>1 DEF Renew, Registered, Swept, Known, LockFor, Typed, Requests, Settled, Guarded, Keyed, Inside, Admitted, InSession, Slotted
<1>10. ASSUME Refuse(t) PROVE Mine
  <2>1. req[t] \in Requests
    BY <1>1, <1>10, RequestOf DEF Refuse, Swept
  <2>. QED
    BY <1>1, <1>10, <2>1 DEF Refuse, Dismissed, Swept, Typed, Requests, Settled, Guarded, Keyed, Inside, Admitted, InSession, Slotted
<1>11. ASSUME Initialize(t) PROVE Mine
  <2>1. req[t] \in Requests
    BY <1>1, <1>11, RequestOf DEF Initialize
  <2>. QED
    BY <1>1, <1>11, <2>1 DEF Initialize, Goto, Typed, Requests, Settled, Guarded, Keyed, Inside, Admitted, InSession, Slotted
<1>12. ASSUME InitializeFails(t) PROVE Mine
  <2>1. req[t] \in Requests
    BY <1>1, <1>12, RequestOf DEF InitializeFails
  <2>. QED
    BY <1>1, <1>12, <2>1 DEF InitializeFails, Dismissed, Typed, Requests, Settled, Guarded, Keyed, Inside, Admitted, InSession, Slotted
<1>13. ASSUME Register(t) PROVE Mine
  <2>1. req[t] \in Requests
    BY <1>1, <1>13, RequestOf DEF Register
  <2>. QED
    BY <1>1, <1>13, <2>1 DEF Register, Registered, LockFor, Typed, Requests, Settled, Guarded, Keyed, Inside, Admitted, InSession, Slotted
<1>14. ASSUME RegisterFails(t) PROVE Mine
  <2>1. req[t] \in Requests
    BY <1>1, <1>14, RequestOf, SMTT(40) DEF RegisterFails
  <2>. QED
    BY <1>1, <1>14, <2>1 DEF RegisterFails, Dismissed, Typed, Requests, Settled, Guarded, Keyed, Inside, Admitted, InSession, Slotted
<1>15. ASSUME TakeSlot(t) PROVE Mine
  <2>1. req[t] \in Requests
    BY <1>1, <1>15, RequestOf DEF TakeSlot
  <2>. QED
    BY <1>1, <1>15, <2>1 DEF TakeSlot, LockFor, Typed, Requests, Settled, Guarded, Keyed, Inside, Admitted, InSession, Slotted
<1>16. ASSUME NoSlot(t) PROVE Mine
  <2>1. req[t] \in Requests
    BY <1>1, <1>16, RequestOf DEF NoSlot
  <2>. QED
    BY <1>1, <1>16, <2>1 DEF NoSlot, Goto, LockFor, Typed, Requests, Settled, Guarded, Keyed, Inside, Admitted, InSession, Slotted
<1>17. ASSUME TakeLock(t) PROVE Mine
  <2>1. req[t] \in Requests
    BY <1>1, <1>17, RequestOf DEF TakeLock
  <2>. QED
    BY <1>1, <1>17, <2>1 DEF TakeLock, Goto, Typed, Requests, Settled, Guarded, Keyed, Inside, Admitted, InSession, Slotted
<1>18. ASSUME TimeOut(t) PROVE Mine
  <2>1. req[t] \in Requests
    BY <1>1, <1>18, RequestOf DEF TimeOut
  <2>. QED
    BY <1>1, <1>18, <2>1 DEF TimeOut, Goto, Typed, Requests, Settled, Guarded, Keyed, Inside, Admitted, InSession, Slotted
<1>19. ASSUME Open(t) PROVE Mine
  <2>1. req[t] \in Requests
    BY <1>1, <1>19, RequestOf DEF Open
  <2>. QED
    BY <1>1, <1>19, <2>1 DEF Open, Typed, Requests, Settled, Guarded, Keyed, Inside, Admitted, InSession, Slotted
<1>20. ASSUME Read(t) PROVE Mine
  <2>1. req[t] \in Requests
    BY <1>1, <1>20, RequestOf DEF Read
  <2>. QED
    BY <1>1, <1>20, <2>1 DEF Read, Goto, Typed, Requests, Settled, Guarded, Keyed, Inside, Admitted, InSession, Slotted
<1>21. ASSUME Change(t) PROVE Mine
  <2>1. req[t] \in Requests
    BY <1>1, <1>21, RequestOf DEF Change
  <2>. QED
    BY <1>1, <1>21, <2>1 DEF Change, Typed, Requests, Settled, Guarded, Keyed, Inside, Admitted, InSession, Slotted
<1>22. ASSUME Abort(t) PROVE Mine
  <2>1. req[t] \in Requests
    BY <1>1, <1>22, RequestOf DEF Abort
  <2>. QED
    BY <1>1, <1>22, <2>1 DEF Abort, Goto, Typed, Requests, Settled, Guarded, Keyed, Inside, Admitted, InSession, Slotted
<1>23. ASSUME Leave(t) PROVE Mine
  <2>1. req[t] \in Requests
    BY <1>1, <1>23, RequestOf DEF Leave
  <2>. QED
    BY <1>1, <1>23, <2>1 DEF Leave, Goto, Typed, Requests, Settled, Guarded, Keyed, Inside, Admitted, InSession, Slotted
<1>24. ASSUME Answer(t) PROVE Mine
  <2>1. req[t] \in Requests
    BY <1>1, <1>24, RequestOf DEF Answer
  <2>. QED
    BY <1>1, <1>24, <2>1 DEF Answer, Resting, Typed, Requests, Settled, Guarded, Keyed, Inside, Admitted, InSession, Slotted
<1>25. Mine
  BY <1>4, <1>5, <1>6, <1>7, <1>8, <1>9, <1>10, <1>11, <1>12, <1>13, <1>14, <1>15, <1>16, <1>17, <1>18, <1>19, <1>20, <1>21, <1>22, <1>23, <1>24 DEF Step
<1>26. ASSUME NEW v \in Threads \ {t}, Inside(v, Slotted)
       PROVE  req[v].sid \in SessionIds /\ ~ (Inside(t, {"register"}) /\ req[v].sid = req[t].sid)
  BY <1>1, <1>26 DEF Names, Settled, Inside, Slotted, Admitted
<1>. QED
  BY <1>3, <1>25, <1>26 DEF Keyed, Inside

\* A lock object is held exactly by the one transaction that goes by it.
Holding ==
    /\ held = {LockOf(t) : t \in Transactions}
    /\ \A t, u \in Transactions : LockOf(t) = LockOf(u) => t = u

\* A slot is taken exactly by a request that waits for its lock or holds it.
Counting == slots + Cardinality({t \in Threads : Inside(t, Slotted)}) = MaxSlots

\* The index has room for the visitor that is being set up.
Indexed ==
    /\ Cardinality(Visitors(rows)) <= MaxSessions /\ Cardinality(Visitors(saved)) <= MaxSessions
    /\ \A t \in Threads :
           Inside(t, {"initialize", "register"}) => Cardinality(Visitors(rows)) < MaxSessions

\* Every step that opens a transaction takes a free lock, and every step that closes
\* one gives it back.
LEMMA StepHolding ==
    ASSUME Basic, Holding, NEW t \in Threads, Step(t)
    PROVE  Holding'
<1>1. Typed /\ Settled /\ Guarded /\ Typed' /\ Settled' /\ Guarded'
  BY StepBasic DEF Basic
<1>2. PICK r \in Requests \cup {Resting} : req' = [req EXCEPT ![t] = r]
  BY StepMoves
<1>3. req'[t] = r /\ \A u \in Threads : u # t => req'[u] = req[u]
  BY <1>1, <1>2 DEF Typed
<1> DEFINE T == {"open", "work", "leave"}
           Mine ==
             \/ ~ Inside(t, T) /\ ~ Inside(t, T)' /\ held' = held
             \/ Inside(t, T) /\ Inside(t, T)' /\ LockOf(t)' = LockOf(t) /\ held' = held
             \/ /\ ~ Inside(t, T) /\ Inside(t, T)' /\ LockOf(t) \notin held
                /\ LockOf(t)' = LockOf(t) /\ held' = held \cup {LockOf(t)}
             \/ Inside(t, T) /\ ~ Inside(t, T)' /\ held' = held \ {LockOf(t)}
<1>4. ASSUME NEW sid \in SessionIds, Spare(t, sid) PROVE Mine
  <2>1. req[t] \in Requests
    BY <1>1, <1>4, RequestOf DEF Spare
  <2>. QED
    BY <1>1, <1>4, <2>1 DEF Spare, Typed, Requests, LockOf, Inside
<1>5. ASSUME NEW sid \in SessionIds, Doom(t, sid) PROVE Mine
  <2>1. req[t] \in Requests
    BY <1>1, <1>5, RequestOf DEF Doom
  <2>. QED
    BY <1>1, <1>5, <2>1 DEF Doom, Typed, Requests, LockOf, Inside
<1>6. ASSUME NEW sid \in SessionIds, Create(t, sid) PROVE Mine
  <2>1. req[t] \in Requests
    BY <1>1, <1>6, RequestOf DEF Create, Swept
  <2>. QED
    BY <1>1, <1>6, <2>1 DEF Create, Swept, Typed, Requests, LockOf, Inside
<1>7. ASSUME Enter(t) PROVE Mine
  <2>1. req[t] \in Requests
    BY <1>1, <1>7, RequestOf DEF Enter
  <2>. QED
    BY <1>1, <1>7, <2>1 DEF Enter, Typed, Requests, LockOf, Inside
<1>8. ASSUME Remove(t) PROVE Mine
  <2>1. req[t] \in Requests
    BY <1>1, <1>8, RequestOf DEF Remove
  <2>. QED
    BY <1>1, <1>8, <2>1 DEF Remove, Goto, Typed, Requests, LockOf, Inside
<1>9. ASSUME Renew(t) PROVE Mine
  <2>1. req[t] \in Requests
    BY <1>1, <1>9, RequestOf DEF Renew, Swept
  <2>. QED
    BY <1>1, <1>9, <2>1 DEF Renew, Registered, Swept, Known, Typed, Requests, LockOf, Inside
<1>10. ASSUME Refuse(t) PROVE Mine
  <2>1. req[t] \in Requests
    BY <1>1, <1>10, RequestOf DEF Refuse, Swept
  <2>. QED
    BY <1>1, <1>10, <2>1 DEF Refuse, Dismissed, Swept, Typed, Requests, LockOf, Inside
<1>11. ASSUME Initialize(t) PROVE Mine
  <2>1. req[t] \in Requests
    BY <1>1, <1>11, RequestOf DEF Initialize
  <2>. QED
    BY <1>1, <1>11, <2>1 DEF Initialize, Goto, Typed, Requests, LockOf, Inside
<1>12. ASSUME InitializeFails(t) PROVE Mine
  <2>1. req[t] \in Requests
    BY <1>1, <1>12, RequestOf DEF InitializeFails
  <2>. QED
    BY <1>1, <1>12, <2>1 DEF InitializeFails, Dismissed, Typed, Requests, LockOf, Inside
<1>13. ASSUME Register(t) PROVE Mine
  <2>1. req[t] \in Requests
    BY <1>1, <1>13, RequestOf DEF Register
  <2>. QED
    BY <1>1, <1>13, <2>1 DEF Register, Registered, Typed, Requests, LockOf, Inside
<1>14. ASSUME RegisterFails(t) PROVE Mine
  <2>1. req[t] \in Requests
    BY <1>1, <1>14, RequestOf DEF RegisterFails
  <2>. QED
    BY <1>1, <1>14, <2>1 DEF RegisterFails, Dismissed, Typed, Requests, LockOf, Inside
<1>15. ASSUME TakeSlot(t) PROVE Mine
  <2>1. req[t] \in Requests
    BY <1>1, <1>15, RequestOf DEF TakeSlot
  <2>. QED
    BY <1>1, <1>15, <2>1 DEF TakeSlot, Typed, Requests, LockOf, Inside
<1>16. ASSUME NoSlot(t) PROVE Mine
  <2>1. req[t] \in Requests
    BY <1>1, <1>16, RequestOf DEF NoSlot
  <2>. QED
    BY <1>1, <1>16, <2>1 DEF NoSlot, Goto, Typed, Requests, LockOf, Inside
<1>17. ASSUME TakeLock(t) PROVE Mine
  <2>1. req[t] \in Requests
    BY <1>1, <1>17, RequestOf DEF TakeLock
  <2>. QED
    BY <1>1, <1>17, <2>1 DEF TakeLock, Goto, Typed, Requests, LockOf, Inside
<1>18. ASSUME TimeOut(t) PROVE Mine
  <2>1. req[t] \in Requests
    BY <1>1, <1>18, RequestOf DEF TimeOut
  <2>. QED
    BY <1>1, <1>18, <2>1 DEF TimeOut, Goto, Typed, Requests, LockOf, Inside
<1>19. ASSUME Open(t) PROVE Mine
  <2>1. req[t] \in Requests
    BY <1>1, <1>19, RequestOf DEF Open
  <2>. QED
    BY <1>1, <1>19, <2>1 DEF Open, Typed, Requests, LockOf, Inside
<1>20. ASSUME Read(t) PROVE Mine
  <2>1. req[t] \in Requests
    BY <1>1, <1>20, RequestOf DEF Read
  <2>. QED
    BY <1>1, <1>20, <2>1 DEF Read, Goto, Typed, Requests, LockOf, Inside
<1>21. ASSUME Change(t) PROVE Mine
  <2>1. req[t] \in Requests
    BY <1>1, <1>21, RequestOf DEF Change
  <2>. QED
    BY <1>1, <1>21, <2>1 DEF Change, Typed, Requests, LockOf, Inside
<1>22. ASSUME Abort(t) PROVE Mine
  <2>1. req[t] \in Requests
    BY <1>1, <1>22, RequestOf DEF Abort
  <2>. QED
    BY <1>1, <1>22, <2>1 DEF Abort, Goto, Typed, Requests, LockOf, Inside
<1>23. ASSUME Leave(t) PROVE Mine
  <2>1. req[t] \in Requests
    BY <1>1, <1>23, RequestOf DEF Leave
  <2>. QED
    BY <1>1, <1>23, <2>1 DEF Leave, Goto, Typed, Requests, LockOf, Inside
<1>24. ASSUME Answer(t) PROVE Mine
  <2>1. req[t] \in Requests
    BY <1>1, <1>24, RequestOf DEF Answer
  <2>. QED
    BY <1>1, <1>24, <2>1 DEF Answer, Resting, Typed, Requests, LockOf, Inside
<1>25. Mine
  BY <1>4, <1>5, <1>6, <1>7, <1>8, <1>9, <1>10, <1>11, <1>12, <1>13, <1>14, <1>15, <1>16, <1>17, <1>18, <1>19, <1>20, <1>21, <1>22, <1>23, <1>24 DEF Step
<1>26. \A u \in Threads \ {t} : (Inside(u, T)' <=> Inside(u, T)) /\ LockOf(u)' = LockOf(u)
  BY <1>3 DEF Inside, LockOf
<1>27. Transactions = {u \in Threads : Inside(u, T)}
       /\ Transactions' = {u \in Threads : Inside(u, T)'}
  BY DEF Transactions
<1> DEFINE Old == {u \in Threads : Inside(u, T)}
           New == {u \in Threads : Inside(u, T)'}
<1>28. /\ held = {LockOf(u) : u \in Old} /\ \A u, v \in Old : LockOf(u) = LockOf(v) => u = v
  BY <1>27 DEF Holding
<1>29. held' = {LockOf(u)' : u \in New} /\ \A u, v \in New : LockOf(u)' = LockOf(v)' => u = v
  <2> HIDE DEF Mine, T
  <2>1. CASE ~ Inside(t, T) /\ ~ Inside(t, T)' /\ held' = held
    <3>1. New = Old
      BY <1>26, <2>1
    <3>. QED
      BY <1>26, <1>28, <2>1, <3>1
  <2>2. CASE Inside(t, T) /\ Inside(t, T)' /\ LockOf(t)' = LockOf(t) /\ held' = held
    <3>1. New = Old
      BY <1>26, <2>2
    <3>. QED
      BY <1>26, <1>28, <2>2, <3>1
  <2>3. CASE /\ ~ Inside(t, T) /\ Inside(t, T)' /\ LockOf(t) \notin held
             /\ LockOf(t)' = LockOf(t) /\ held' = held \cup {LockOf(t)}
    <3>1. New = Old \cup {t}
      BY <1>26, <2>3
    <3>. QED
      BY <1>26, <1>28, <2>3, <3>1
  <2>4. CASE Inside(t, T) /\ ~ Inside(t, T)' /\ held' = held \ {LockOf(t)}
    <3>1. New = Old \ {t} /\ t \in Old
      BY <1>26, <2>4
    <3>. QED
      BY <1>26, <1>28, <2>4, <3>1
  <2>. QED
    BY <1>25, <2>1, <2>2, <2>3, <2>4 DEF Mine
<1>. QED
  BY <1>27, <1>29 DEF Holding

\* Every way out of a transaction, or of waiting for one, returns the slot.
LEMMA StepCounting ==
    ASSUME Basic, Counting, NEW t \in Threads, Step(t)
    PROVE  Counting'
<1>1. Typed /\ Settled /\ Guarded /\ Typed' /\ Settled' /\ Guarded'
  BY StepBasic DEF Basic
<1>2. PICK r \in Requests \cup {Resting} : req' = [req EXCEPT ![t] = r]
  BY StepMoves
<1>3. req'[t] = r /\ \A u \in Threads : u # t => req'[u] = req[u]
  BY <1>1, <1>2 DEF Typed
<1> DEFINE Mine ==
             \/ (Inside(t, Slotted)' <=> Inside(t, Slotted)) /\ slots' = slots
             \/ ~ Inside(t, Slotted) /\ Inside(t, Slotted)' /\ slots' = slots - 1
             \/ Inside(t, Slotted) /\ ~ Inside(t, Slotted)' /\ slots' = slots + 1
<1>4. ASSUME NEW sid \in SessionIds, Spare(t, sid) PROVE Mine
  <2>1. req[t] \in Requests
    BY <1>1, <1>4, RequestOf DEF Spare
  <2>. QED
    BY <1>1, <1>4, <2>1 DEF Spare, Typed, Requests, Inside, Slotted
<1>5. ASSUME NEW sid \in SessionIds, Doom(t, sid) PROVE Mine
  <2>1. req[t] \in Requests
    BY <1>1, <1>5, RequestOf DEF Doom
  <2>. QED
    BY <1>1, <1>5, <2>1 DEF Doom, Typed, Requests, Inside, Slotted
<1>6. ASSUME NEW sid \in SessionIds, Create(t, sid) PROVE Mine
  <2>1. req[t] \in Requests
    BY <1>1, <1>6, RequestOf DEF Create, Swept
  <2>. QED
    BY <1>1, <1>6, <2>1 DEF Create, Swept, Typed, Requests, Inside, Slotted
<1>7. ASSUME Enter(t) PROVE Mine
  <2>1. req[t] \in Requests
    BY <1>1, <1>7, RequestOf DEF Enter
  <2>. QED
    BY <1>1, <1>7, <2>1 DEF Enter, Typed, Requests, Inside, Slotted
<1>8. ASSUME Remove(t) PROVE Mine
  <2>1. req[t] \in Requests
    BY <1>1, <1>8, RequestOf DEF Remove
  <2>. QED
    BY <1>1, <1>8, <2>1 DEF Remove, Goto, Typed, Requests, Inside, Slotted
<1>9. ASSUME Renew(t) PROVE Mine
  <2>1. req[t] \in Requests
    BY <1>1, <1>9, RequestOf DEF Renew, Swept
  <2>. QED
    BY <1>1, <1>9, <2>1 DEF Renew, Registered, Swept, Known, Typed, Requests, Inside, Slotted
<1>10. ASSUME Refuse(t) PROVE Mine
  <2>1. req[t] \in Requests
    BY <1>1, <1>10, RequestOf DEF Refuse, Swept
  <2>. QED
    BY <1>1, <1>10, <2>1 DEF Refuse, Dismissed, Swept, Typed, Requests, Inside, Slotted
<1>11. ASSUME Initialize(t) PROVE Mine
  <2>1. req[t] \in Requests
    BY <1>1, <1>11, RequestOf DEF Initialize
  <2>. QED
    BY <1>1, <1>11, <2>1 DEF Initialize, Goto, Typed, Requests, Inside, Slotted
<1>12. ASSUME InitializeFails(t) PROVE Mine
  <2>1. req[t] \in Requests
    BY <1>1, <1>12, RequestOf DEF InitializeFails
  <2>. QED
    BY <1>1, <1>12, <2>1 DEF InitializeFails, Dismissed, Typed, Requests, Inside, Slotted
<1>13. ASSUME Register(t) PROVE Mine
  <2>1. req[t] \in Requests
    BY <1>1, <1>13, RequestOf DEF Register
  <2>. QED
    BY <1>1, <1>13, <2>1 DEF Register, Registered, Typed, Requests, Inside, Slotted
<1>14. ASSUME RegisterFails(t) PROVE Mine
  <2>1. req[t] \in Requests
    BY <1>1, <1>14, RequestOf DEF RegisterFails
  <2>. QED
    BY <1>1, <1>14, <2>1 DEF RegisterFails, Dismissed, Typed, Requests, Inside, Slotted
<1>15. ASSUME TakeSlot(t) PROVE Mine
  <2>1. req[t] \in Requests
    BY <1>1, <1>15, RequestOf DEF TakeSlot
  <2>. QED
    BY <1>1, <1>15, <2>1 DEF TakeSlot, Typed, Requests, Inside, Slotted
<1>16. ASSUME NoSlot(t) PROVE Mine
  <2>1. req[t] \in Requests
    BY <1>1, <1>16, RequestOf DEF NoSlot
  <2>. QED
    BY <1>1, <1>16, <2>1 DEF NoSlot, Goto, Typed, Requests, Inside, Slotted
<1>17. ASSUME TakeLock(t) PROVE Mine
  <2>1. req[t] \in Requests
    BY <1>1, <1>17, RequestOf DEF TakeLock
  <2>. QED
    BY <1>1, <1>17, <2>1 DEF TakeLock, Goto, Typed, Requests, Inside, Slotted
<1>18. ASSUME TimeOut(t) PROVE Mine
  <2>1. req[t] \in Requests
    BY <1>1, <1>18, RequestOf DEF TimeOut
  <2>. QED
    BY <1>1, <1>18, <2>1 DEF TimeOut, Goto, Typed, Requests, Inside, Slotted
<1>19. ASSUME Open(t) PROVE Mine
  <2>1. req[t] \in Requests
    BY <1>1, <1>19, RequestOf DEF Open
  <2>. QED
    BY <1>1, <1>19, <2>1 DEF Open, Typed, Requests, Inside, Slotted
<1>20. ASSUME Read(t) PROVE Mine
  <2>1. req[t] \in Requests
    BY <1>1, <1>20, RequestOf DEF Read
  <2>. QED
    BY <1>1, <1>20, <2>1 DEF Read, Goto, Typed, Requests, Inside, Slotted
<1>21. ASSUME Change(t) PROVE Mine
  <2>1. req[t] \in Requests
    BY <1>1, <1>21, RequestOf DEF Change
  <2>. QED
    BY <1>1, <1>21, <2>1 DEF Change, Typed, Requests, Inside, Slotted
<1>22. ASSUME Abort(t) PROVE Mine
  <2>1. req[t] \in Requests
    BY <1>1, <1>22, RequestOf DEF Abort
  <2>. QED
    BY <1>1, <1>22, <2>1 DEF Abort, Goto, Typed, Requests, Inside, Slotted
<1>23. ASSUME Leave(t) PROVE Mine
  <2>1. req[t] \in Requests
    BY <1>1, <1>23, RequestOf DEF Leave
  <2>. QED
    BY <1>1, <1>23, <2>1 DEF Leave, Goto, Typed, Requests, Inside, Slotted
<1>24. ASSUME Answer(t) PROVE Mine
  <2>1. req[t] \in Requests
    BY <1>1, <1>24, RequestOf DEF Answer
  <2>. QED
    BY <1>1, <1>24, <2>1 DEF Answer, Resting, Typed, Requests, Inside, Slotted
<1>25. Mine
  BY <1>4, <1>5, <1>6, <1>7, <1>8, <1>9, <1>10, <1>11, <1>12, <1>13, <1>14, <1>15, <1>16, <1>17, <1>18, <1>19, <1>20, <1>21, <1>22, <1>23, <1>24 DEF Step
<1> DEFINE Old == {u \in Threads : Inside(u, Slotted)}
           New == {u \in Threads : Inside(u, Slotted)'}
<1>26. \A u \in Threads \ {t} : Inside(u, Slotted)' <=> Inside(u, Slotted)
  BY <1>3 DEF Inside
<1>27. Old \subseteq Threads /\ IsFiniteSet(Old) /\ Cardinality(Old) \in Nat
  BY StoreAssumption, FS_Subset, FS_CardinalityType
<1>28. slots' + Cardinality(New) = MaxSlots
  <2>1. slots + Cardinality(Old) = MaxSlots /\ slots \in Nat
    BY <1>1 DEF Counting, Typed
  <2> HIDE DEF Mine
  <2>2. CASE (Inside(t, Slotted)' <=> Inside(t, Slotted)) /\ slots' = slots
    <3>1. New = Old
      BY <1>26, <2>2
    <3>. QED
      BY <2>1, <2>2, <3>1
  <2>3. CASE ~ Inside(t, Slotted) /\ Inside(t, Slotted)' /\ slots' = slots - 1
    <3>1. New = Old \cup {t} /\ t \notin Old
      BY <1>26, <2>3
    <3>2. Cardinality(New) = Cardinality(Old) + 1
      BY <1>27, <3>1, FS_AddElement
    <3>. QED
      BY <1>27, <2>1, <2>3, <3>2
  <2>4. CASE Inside(t, Slotted) /\ ~ Inside(t, Slotted)' /\ slots' = slots + 1
    <3>1. New = Old \ {t} /\ t \in Old
      BY <1>26, <2>4
    <3> HIDE DEF Old, New
    <3>2. Cardinality(New) = Cardinality(Old) - 1
      BY <1>27, <3>1, FS_RemoveElement
    <3>. QED
      BY <1>27, <2>1, <2>4, <3>2
  <2>. QED
    BY <1>25, <2>2, <2>3, <2>4 DEF Mine
<1>. QED
  BY <1>28 DEF Counting

\* One element more makes a finite set at most one larger.
LEMMA OneMore ==
    ASSUME NEW S, IsFiniteSet(S), NEW x, NEW T, T \subseteq S \cup {x}
    PROVE  Cardinality(T) <= Cardinality(S) + 1
<1>1. IsFiniteSet(S \cup {x}) /\ Cardinality(S) \in Nat
      /\ Cardinality(S \cup {x}) \in {Cardinality(S), Cardinality(S) + 1}
  BY FS_AddElement, FS_CardinalityType
<1>2. IsFiniteSet(T) /\ Cardinality(T) <= Cardinality(S \cup {x})
  BY <1>1, FS_Subset
<1>3. Cardinality(T) \in Nat
  BY <1>2, FS_CardinalityType
<1>. QED
  BY <1>1, <1>2, <1>3

\* The place counted free under the guard is still free when the visitor is saved.
LEMMA StepIndexed ==
    ASSUME Basic, Indexed, NEW t \in Threads, Step(t)
    PROVE  Indexed'
<1>1. Typed /\ Settled /\ Guarded /\ Typed' /\ Settled' /\ Guarded'
  BY StepBasic DEF Basic
<1>2. PICK r \in Requests \cup {Resting} : req' = [req EXCEPT ![t] = r]
  BY StepMoves
<1>3. req'[t] = r /\ \A u \in Threads : u # t => req'[u] = req[u]
  BY <1>1, <1>2 DEF Typed
<1> DEFINE Setting == {"initialize", "register"}
           Mine ==
             /\ UNCHANGED saved \/ saved' = rows'
             /\ guard # t => UNCHANGED rows /\ ~ Inside(t, Setting)'
             /\ \/ /\ Visitors(rows') \subseteq Visitors(rows)
                   /\ Inside(t, Setting)' =>
                          Inside(t, Setting) \/ Cardinality(Visitors(rows)) < MaxSessions
                \/ /\ Inside(t, Setting) /\ ~ Inside(t, Setting)'
                   /\ Visitors(rows') \subseteq Visitors(rows) \cup {req[t].sid}
<1>4. ASSUME NEW sid \in SessionIds, Spare(t, sid) PROVE Mine
  <2>1. req[t] \in Requests
    BY <1>1, <1>4, RequestOf DEF Spare
  <2>. QED
    BY <1>1, <1>4, <2>1 DEF Spare, Typed, Requests, Settled, Guarded, Visitors, Inside, Admitted, InSession
<1>5. ASSUME NEW sid \in SessionIds, Doom(t, sid) PROVE Mine
  <2>1. req[t] \in Requests
    BY <1>1, <1>5, RequestOf DEF Doom
  <2>. QED
    BY <1>1, <1>5, <2>1 DEF Doom, Typed, Requests, Settled, Guarded, Visitors, Inside, Admitted, InSession
<1>6. ASSUME NEW sid \in SessionIds, Create(t, sid) PROVE Mine
  <2>1. req[t] \in Requests
    BY <1>1, <1>6, RequestOf DEF Create, Swept
  <2>. QED
    BY <1>1, <1>6, <2>1 DEF Create, Swept, Typed, Requests, Settled, Guarded, Visitors, Inside, Admitted, InSession
<1>7. ASSUME Enter(t) PROVE Mine
  <2>1. req[t] \in Requests
    BY <1>1, <1>7, RequestOf DEF Enter
  <2>. QED
    BY <1>1, <1>7, <2>1, ZenonT(40) DEF Enter, Typed, Requests, Settled, Guarded, Visitors, Inside, Admitted, InSession
<1>8. ASSUME Remove(t) PROVE Mine
  <2>1. req[t] \in Requests
    BY <1>1, <1>8, RequestOf DEF Remove
  <2>. QED
    BY <1>1, <1>8, <2>1 DEF Remove, Goto, Typed, Requests, Settled, Guarded, Visitors, Inside, Admitted, InSession
<1>9. ASSUME Renew(t) PROVE Mine
  <2>1. req[t] \in Requests
    BY <1>1, <1>9, RequestOf DEF Renew, Swept
  <2>. QED
    BY <1>1, <1>9, <2>1 DEF Renew, Registered, Swept, Known, Typed, Requests, Settled, Guarded, Visitors, Inside, Admitted, InSession
<1>10. ASSUME Refuse(t) PROVE Mine
  <2>1. req[t] \in Requests
    BY <1>1, <1>10, RequestOf DEF Refuse, Swept
  <2>. QED
    BY <1>1, <1>10, <2>1 DEF Refuse, Dismissed, Swept, Typed, Requests, Settled, Guarded, Visitors, Inside, Admitted, InSession
<1>11. ASSUME Initialize(t) PROVE Mine
  <2>1. req[t] \in Requests
    BY <1>1, <1>11, RequestOf DEF Initialize
  <2>. QED
    BY <1>1, <1>11, <2>1 DEF Initialize, Goto, Typed, Requests, Settled, Guarded, Visitors, Inside, Admitted, InSession
<1>12. ASSUME InitializeFails(t) PROVE Mine
  <2>1. req[t] \in Requests
    BY <1>1, <1>12, RequestOf DEF InitializeFails
  <2>. QED
    BY <1>1, <1>12, <2>1 DEF InitializeFails, Dismissed, Typed, Requests, Settled, Guarded, Visitors, Inside, Admitted, InSession
<1>13. ASSUME Register(t) PROVE Mine
  <2>1. req[t] \in Requests
    BY <1>1, <1>13, RequestOf DEF Register
  <2>. QED
    BY <1>1, <1>13, <2>1 DEF Register, Registered, Typed, Requests, Settled, Guarded, Visitors, Inside, Admitted, InSession
<1>14. ASSUME RegisterFails(t) PROVE Mine
  <2>1. req[t] \in Requests
    BY <1>1, <1>14, RequestOf DEF RegisterFails
  <2>. QED
    BY <1>1, <1>14, <2>1 DEF RegisterFails, Dismissed, Typed, Requests, Settled, Guarded, Visitors, Inside, Admitted, InSession
<1>15. ASSUME TakeSlot(t) PROVE Mine
  <2>1. req[t] \in Requests
    BY <1>1, <1>15, RequestOf DEF TakeSlot
  <2>. QED
    BY <1>1, <1>15, <2>1 DEF TakeSlot, Typed, Requests, Settled, Guarded, Visitors, Inside, Admitted, InSession
<1>16. ASSUME NoSlot(t) PROVE Mine
  <2>1. req[t] \in Requests
    BY <1>1, <1>16, RequestOf DEF NoSlot
  <2>. QED
    BY <1>1, <1>16, <2>1 DEF NoSlot, Goto, Typed, Requests, Settled, Guarded, Visitors, Inside, Admitted, InSession
<1>17. ASSUME TakeLock(t) PROVE Mine
  <2>1. req[t] \in Requests
    BY <1>1, <1>17, RequestOf DEF TakeLock
  <2>. QED
    BY <1>1, <1>17, <2>1 DEF TakeLock, Goto, Typed, Requests, Settled, Guarded, Visitors, Inside, Admitted, InSession
<1>18. ASSUME TimeOut(t) PROVE Mine
  <2>1. req[t] \in Requests
    BY <1>1, <1>18, RequestOf DEF TimeOut
  <2>. QED
    BY <1>1, <1>18, <2>1 DEF TimeOut, Goto, Typed, Requests, Settled, Guarded, Visitors, Inside, Admitted, InSession
<1>19. ASSUME Open(t) PROVE Mine
  <2>1. req[t] \in Requests
    BY <1>1, <1>19, RequestOf DEF Open
  <2>. QED
    BY <1>1, <1>19, <2>1 DEF Open, Typed, Requests, Settled, Guarded, Visitors, Inside, Admitted, InSession
<1>20. ASSUME Read(t) PROVE Mine
  <2>1. req[t] \in Requests
    BY <1>1, <1>20, RequestOf DEF Read
  <2>. QED
    BY <1>1, <1>20, <2>1 DEF Read, Goto, Typed, Requests, Settled, Guarded, Visitors, Inside, Admitted, InSession
<1>21. ASSUME Change(t) PROVE Mine
  <2>1. req[t] \in Requests
    BY <1>1, <1>21, RequestOf DEF Change
  <2>. QED
    BY <1>1, <1>21, <2>1 DEF Change, Typed, Requests, Settled, Guarded, Visitors, Inside, Admitted, InSession
<1>22. ASSUME Abort(t) PROVE Mine
  <2>1. req[t] \in Requests
    BY <1>1, <1>22, RequestOf DEF Abort
  <2>. QED
    BY <1>1, <1>22, <2>1 DEF Abort, Goto, Typed, Requests, Settled, Guarded, Visitors, Inside, Admitted, InSession
<1>23. ASSUME Leave(t) PROVE Mine
  <2>1. req[t] \in Requests
    BY <1>1, <1>23, RequestOf DEF Leave
  <2>. QED
    BY <1>1, <1>23, <2>1 DEF Leave, Goto, Typed, Requests, Settled, Guarded, Visitors, Inside, Admitted, InSession
<1>24. ASSUME Answer(t) PROVE Mine
  <2>1. req[t] \in Requests
    BY <1>1, <1>24, RequestOf DEF Answer
  <2>. QED
    BY <1>1, <1>24, <2>1 DEF Answer, Resting, Typed, Requests, Settled, Guarded, Visitors, Inside, Admitted, InSession
<1>25. Mine
  BY <1>4, <1>5, <1>6, <1>7, <1>8, <1>9, <1>10, <1>11, <1>12, <1>13, <1>14, <1>15, <1>16, <1>17, <1>18, <1>19, <1>20, <1>21, <1>22, <1>23, <1>24 DEF Step
<1>26. \A index : Visitors(index) \subseteq SessionIds /\ IsFiniteSet(Visitors(index))
                        /\ Cardinality(Visitors(index)) \in Nat
  <2> TAKE index
  <2>1. Visitors(index) \subseteq SessionIds
    BY DEF Visitors
  <2>. QED
    BY <2>1, StoreAssumption, FS_Subset, FS_CardinalityType
<1>27. MaxSessions \in Nat
  BY StoreAssumption
<1> HIDE DEF Setting
<1>28. /\ Cardinality(Visitors(rows')) <= MaxSessions
       /\ Inside(t, Setting)' => Cardinality(Visitors(rows')) < MaxSessions
  <2>1. CASE /\ Visitors(rows') \subseteq Visitors(rows)
             /\ Inside(t, Setting)' => Inside(t, Setting) \/ Cardinality(Visitors(rows)) < MaxSessions
    <3>1. Cardinality(Visitors(rows')) <= Cardinality(Visitors(rows))
      BY <1>26, <2>1, FS_Subset
    <3>. QED
      BY <1>26, <1>27, <2>1, <3>1 DEF Indexed, Setting
  <2>2. CASE /\ Inside(t, Setting) /\ ~ Inside(t, Setting)'
             /\ Visitors(rows') \subseteq Visitors(rows) \cup {req[t].sid}
    <3>1. Cardinality(Visitors(rows)) < MaxSessions
      BY <2>2 DEF Indexed, Setting
    <3>2. Cardinality(Visitors(rows')) <= Cardinality(Visitors(rows)) + 1
      BY <1>26, <2>2, OneMore
    <3>. QED
      BY <1>26, <1>27, <2>2, <3>1, <3>2
  <2>. QED
    BY <1>25, <2>1, <2>2
<1>29. Cardinality(Visitors(saved')) <= MaxSessions
  BY <1>25, <1>28 DEF Indexed
<1>30. ASSUME NEW v \in Threads, Inside(v, Setting)'
       PROVE  Cardinality(Visitors(rows')) < MaxSessions
  <2>1. CASE v = t
    BY <1>28, <1>30, <2>1
  <2>2. CASE v # t
    <3>1. Inside(v, Setting) /\ guard # t
      BY <1>1, <1>3, <1>30, <2>2 DEF Inside, Guarded, InSession, Setting
    <3>2. rows' = rows
      BY <1>25, <3>1
    <3>. QED
      BY <3>1, <3>2 DEF Indexed, Setting
  <2>. QED
    BY <2>1, <2>2
<1>. QED
  BY <1>28, <1>29, <1>30 DEF Indexed, Setting

Resources == Basic /\ Names /\ Keyed /\ Holding /\ Counting /\ Indexed

\* At the start nothing is held, and no visitor is registered.
LEMMA ResourcesInit == Init => Resources
<1> SUFFICES ASSUME Init PROVE Resources
  OBVIOUS
<1>1. Basic
  BY BasicInit
<1>2. \A t \in Threads : req[t].pc = "idle"
  BY DEF Init, Resting
<1>3. Names /\ Keyed
  BY <1>2 DEF Names, Keyed, Inside, Slotted
<1>4. Transactions = {} /\ {t \in Threads : Inside(t, Slotted)} = {} /\ held = {}
  BY <1>2 DEF Transactions, Inside, Slotted, Init
<1>5. Holding
  BY <1>4 DEF Holding
<1>6. Counting
  BY <1>4, FS_EmptySet, StoreAssumption DEF Counting, Init
<1>7. Indexed
  <2>1. Visitors(rows) = {} /\ Visitors(saved) = {}
    BY DEF Visitors, Init
  <2>. QED
    BY <1>2, <2>1, FS_EmptySet, StoreAssumption DEF Indexed, Inside
<1>. QED
  BY <1>1, <1>3, <1>5, <1>6, <1>7 DEF Resources

\* A request that arrives holds nothing yet.
LEMMA ArriveResources ==
    ASSUME Resources, NEW t \in Threads, NEW b \in Browsers, Arrive(t, b)
    PROVE  Resources'
<1>1. Basic /\ Basic' /\ Typed /\ Settled
  BY ArriveBasic DEF Resources, Basic
<1>2. /\ req[t].pc = "idle" /\ req'[t].pc = "enter" /\ req'[t].sid = NoSession
      /\ \A u \in Threads : u # t => req'[u] = req[u]
      /\ UNCHANGED <<rows, saved, locks, held, slots>>
  BY <1>1 DEF Arrive, Resting, Typed
<1>3. \A u \in Threads : \A steps \in {{"initialize", "register"}, Slotted, {"open", "work", "leave"}} :
          Inside(u, steps)' <=> Inside(u, steps)
  BY <1>2 DEF Inside, Slotted
<1>4. \A u \in Threads : Inside(u, {"initialize", "register"}) =>
          u # t /\ req[u].sid \in SessionIds /\ req[u].sid # NoSession
  BY <1>1, <1>2, StoreAssumption DEF Settled, Inside
<1>5. Names'
  BY <1>2, <1>3, <1>4 DEF Resources, Names, Inside
<1>6. \A u \in Threads : Inside(u, Slotted) => u # t
  BY <1>2 DEF Inside, Slotted
<1>7. Keyed'
  BY <1>2, <1>3, <1>6 DEF Resources, Keyed
<1>8. Transactions' = Transactions /\ \A u \in Transactions : LockOf(u)' = LockOf(u)
  BY <1>2, <1>3 DEF Transactions, LockOf, Inside
<1>9. Holding'
  BY <1>2, <1>8 DEF Resources, Holding
<1>10. Counting'
  <2>1. {u \in Threads : Inside(u, Slotted)'} = {u \in Threads : Inside(u, Slotted)}
    BY <1>3
  <2>. QED
    BY <1>2, <2>1 DEF Resources, Counting
<1>11. Indexed'
  BY <1>2, <1>3 DEF Resources, Indexed, Visitors
<1>. QED
  BY <1>1, <1>5, <1>7, <1>9, <1>10, <1>11 DEF Resources

\* The end of the process gives back all that its threads held.
LEMMA CrashResources ==
    ASSUME Resources, Crash
    PROVE  Resources'
<1>1. Basic' /\ \A t \in Threads : req'[t].pc = "idle"
  BY CrashBasic DEF Resources
<1>2. Names' /\ Keyed'
  BY <1>1 DEF Names, Keyed, Inside, Slotted
<1>3. Transactions' = {} /\ {t \in Threads : Inside(t, Slotted)'} = {} /\ held' = {}
  BY <1>1 DEF Transactions, Inside, Slotted, Crash
<1>4. Holding'
  BY <1>3 DEF Holding
<1>5. Counting'
  BY <1>3, FS_EmptySet, StoreAssumption DEF Counting, Crash
<1>6. Indexed'
  BY <1>1 DEF Resources, Indexed, Inside, Crash, Visitors
<1>. QED
  BY <1>1, <1>2, <1>4, <1>5, <1>6 DEF Resources

\* No step takes a resource without an owner, or returns one it does not own.
LEMMA ResourcesNext == Resources /\ [Next]_vars => Resources'
<1> SUFFICES ASSUME Resources, [Next]_vars PROVE Resources'
  OBVIOUS
<1>1. CASE UNCHANGED <<rows, saved, locks, held, slots, req>> /\ Basic'
  BY <1>1 DEF Resources, Names, Keyed, Holding, Counting, Indexed, Visitors, Inside, Transactions, LockOf
<1>2. ASSUME NEW t \in Threads, Step(t) PROVE Resources'
  BY <1>2, StepBasic, StepNames, StepKeyed, StepHolding, StepCounting, StepIndexed DEF Resources
<1>3. Basic'
  BY BasicNext DEF Resources
<1>4. CASE Tick
  BY <1>1, <1>3, <1>4 DEF Tick
<1>5. CASE UNCHANGED vars
  BY <1>1, <1>3, <1>5 DEF vars
<1>. QED
  BY <1>2, <1>4, <1>5, ArriveResources, CrashResources DEF Next

\* The inductive invariant behind ResourcesHeld.
LEMMA ResourcesAlways == Spec => []Resources
BY ResourcesInit, ResourcesNext, PTL DEF Spec

\* Slots, visitor locks and places in the index of src/finpulse/demo/store.py
\* are taken and returned on every path through session() and workspace(),
\* for any number of threads and visitors.
THEOREM ResourcesAreHeld == Spec => []ResourcesHeld
<1>1. Resources => ResourcesHeld
  <2> SUFFICES ASSUME Resources PROVE ResourcesHeld
    OBVIOUS
  <2>1. {t \in Threads : Inside(t, {"lock"})} \cup Transactions = {t \in Threads : Inside(t, Slotted)}
    BY DEF Transactions, Inside, Slotted
  <2>2. slots + Cardinality({t \in Threads : Inside(t, {"lock"})} \cup Transactions) = MaxSlots
    BY <2>1 DEF Resources, Counting
  <2>. QED
    BY <2>2 DEF Resources, ResourcesHeld, Holding, Indexed
<1>. QED
  BY <1>1, ResourcesAlways, PTL

\* Every variable keeps its type, no more slots are out than there are, and
\* the guard is held by the one thread inside session().
THEOREM StoreTypes == Spec => []StoreTypeOK
<1>1. Resources => StoreTypeOK
  <2> SUFFICES ASSUME Resources PROVE StoreTypeOK
    OBVIOUS
  <2> DEFINE Out == {t \in Threads : Inside(t, Slotted)}
  <2>1. slots + Cardinality(Out) = MaxSlots /\ slots \in Nat /\ MaxSlots \in Nat
    BY StoreAssumption DEF Resources, Counting, Basic, Typed
  <2>2. Cardinality(Out) \in Nat
    BY StoreAssumption, FS_Subset, FS_CardinalityType
  <2>3. slots \in 0 .. MaxSlots
    BY <2>1, <2>2
  <2>. QED
    BY <2>3 DEF Resources, Basic, Typed, Guarded, StoreTypeOK, Sids
<1>. QED
  BY <1>1, ResourcesAlways, PTL

-----------------------------------------------------------------------------
(* The sweep, and time.                                                    *)

\* What a sweep has still to look at, and what it removes, has a row that had
\* run out when the sweep began.
Sweeping ==
    \A t \in Threads : Inside(t, {"sweep", "remove"}) =>
        /\ \A sid \in req[t].expired : rows[sid] \in 1 .. req[t].now
        /\ Inside(t, {"remove"}) =>
               req[t].victim \notin req[t].expired /\ rows[req[t].victim] \in 1 .. req[t].now

\* Requests are short, and get the guard in the order of their times.
Prompt ==
    \A t \in Threads : ~ Inside(t, {"idle", "enter"}) =>
        /\ req[t].now <= clock /\ clock <= req[t].now + Stall
        /\ Inside(t, InSession) =>
               \A u \in Threads : Inside(u, Admitted) => req[u].now <= req[t].now

\* A sweep looks at each row once, and no row is renewed while it is on its list.
LEMMA StepSweeping ==
    ASSUME Basic, Sweeping, Names, NEW t \in Threads, Step(t)
    PROVE  Sweeping'
<1>1. Typed /\ Settled /\ Guarded /\ Typed' /\ Settled' /\ Guarded'
  BY StepBasic DEF Basic
<1>2. PICK r \in Requests \cup {Resting} : req' = [req EXCEPT ![t] = r]
  BY StepMoves
<1>3. req'[t] = r /\ \A u \in Threads : u # t => req'[u] = req[u]
  BY <1>1, <1>2 DEF Typed
<1> DEFINE Mine ==
             /\ guard # t => UNCHANGED rows
             /\ Inside(t, {"sweep", "remove"})' =>
                    /\ \A sid \in req'[t].expired : rows'[sid] \in 1 .. req'[t].now
                    /\ Inside(t, {"remove"})' =>
                           /\ req'[t].victim \notin req'[t].expired
                           /\ rows'[req'[t].victim] \in 1 .. req'[t].now
<1>4. ASSUME NEW sid \in SessionIds, Spare(t, sid) PROVE Mine
  <2>1. req[t] \in Requests
    BY <1>1, <1>4, RequestOf DEF Spare
  <2>. QED
    BY <1>1, <1>4, <2>1 DEF Spare, Typed, Requests, Settled, Guarded, Sweeping, Inside, InSession
<1>5. ASSUME NEW sid \in SessionIds, Doom(t, sid) PROVE Mine
  <2>1. req[t] \in Requests
    BY <1>1, <1>5, RequestOf DEF Doom
  <2>. QED
    BY <1>1, <1>5, <2>1 DEF Doom, Typed, Requests, Settled, Guarded, Sweeping, Inside, InSession
<1>6. ASSUME NEW sid \in SessionIds, Create(t, sid) PROVE Mine
  <2>1. req[t] \in Requests
    BY <1>1, <1>6, RequestOf DEF Create, Swept
  <2>. QED
    BY <1>1, <1>6, <2>1 DEF Create, Swept, Typed, Requests, Settled, Guarded, Sweeping, Inside, InSession
<1>7. ASSUME Enter(t) PROVE Mine
  <2>1. req[t] \in Requests
    BY <1>1, <1>7, RequestOf DEF Enter
  <2>2. req'[t].pc = "sweep" /\ req'[t].now = clock /\ rows' = rows
        /\ req'[t].expired = {sid \in Visitors(rows) : rows[sid] <= clock}
    BY <1>1, <1>7, <2>1 DEF Enter, Typed, Requests
  <2>3. \A sid \in Visitors(rows) : rows[sid] <= clock => rows[sid] \in 1 .. clock
    BY <1>1, StoreAssumption DEF Visitors, Typed
  <2>4. \A sid \in req'[t].expired : rows'[sid] \in 1 .. req'[t].now
    BY <2>2, <2>3
  <2>. QED
    BY <2>2, <2>4 DEF Inside
<1>8. ASSUME Remove(t) PROVE Mine
  <2>1. req[t] \in Requests
    BY <1>1, <1>8, RequestOf DEF Remove
  <2>. QED
    BY <1>1, <1>8, <2>1 DEF Remove, Goto, Typed, Requests, Settled, Guarded, Sweeping, Inside, InSession
<1>9. ASSUME Renew(t) PROVE Mine
  <2>1. req[t] \in Requests
    BY <1>1, <1>9, RequestOf DEF Renew, Swept
  <2>. QED
    BY <1>1, <1>9, <2>1 DEF Renew, Registered, Swept, Known, Typed, Requests, Settled, Guarded, Sweeping, Inside, InSession
<1>10. ASSUME Refuse(t) PROVE Mine
  <2>1. req[t] \in Requests
    BY <1>1, <1>10, RequestOf DEF Refuse, Swept
  <2>. QED
    BY <1>1, <1>10, <2>1 DEF Refuse, Dismissed, Swept, Typed, Requests, Settled, Guarded, Sweeping, Inside, InSession
<1>11. ASSUME Initialize(t) PROVE Mine
  <2>1. req[t] \in Requests
    BY <1>1, <1>11, RequestOf DEF Initialize
  <2>. QED
    BY <1>1, <1>11, <2>1 DEF Initialize, Goto, Typed, Requests, Settled, Guarded, Sweeping, Inside, InSession
<1>12. ASSUME InitializeFails(t) PROVE Mine
  <2>1. req[t] \in Requests
    BY <1>1, <1>12, RequestOf DEF InitializeFails
  <2>. QED
    BY <1>1, <1>12, <2>1 DEF InitializeFails, Dismissed, Typed, Requests, Settled, Guarded, Sweeping, Inside, InSession
<1>13. ASSUME Register(t) PROVE Mine
  <2>1. req[t] \in Requests
    BY <1>1, <1>13, RequestOf DEF Register
  <2>. QED
    BY <1>1, <1>13, <2>1 DEF Register, Registered, Typed, Requests, Settled, Guarded, Sweeping, Inside, InSession
<1>14. ASSUME RegisterFails(t) PROVE Mine
  <2>1. req[t] \in Requests
    BY <1>1, <1>14, RequestOf DEF RegisterFails
  <2>. QED
    BY <1>1, <1>14, <2>1 DEF RegisterFails, Dismissed, Typed, Requests, Settled, Guarded, Sweeping, Inside, InSession
<1>15. ASSUME TakeSlot(t) PROVE Mine
  <2>1. req[t] \in Requests
    BY <1>1, <1>15, RequestOf DEF TakeSlot
  <2>. QED
    BY <1>1, <1>15, <2>1 DEF TakeSlot, Typed, Requests, Settled, Guarded, Sweeping, Inside, InSession
<1>16. ASSUME NoSlot(t) PROVE Mine
  <2>1. req[t] \in Requests
    BY <1>1, <1>16, RequestOf DEF NoSlot
  <2>. QED
    BY <1>1, <1>16, <2>1 DEF NoSlot, Goto, Typed, Requests, Settled, Guarded, Sweeping, Inside, InSession
<1>17. ASSUME TakeLock(t) PROVE Mine
  <2>1. req[t] \in Requests
    BY <1>1, <1>17, RequestOf DEF TakeLock
  <2>. QED
    BY <1>1, <1>17, <2>1 DEF TakeLock, Goto, Typed, Requests, Settled, Guarded, Sweeping, Inside, InSession
<1>18. ASSUME TimeOut(t) PROVE Mine
  <2>1. req[t] \in Requests
    BY <1>1, <1>18, RequestOf DEF TimeOut
  <2>. QED
    BY <1>1, <1>18, <2>1 DEF TimeOut, Goto, Typed, Requests, Settled, Guarded, Sweeping, Inside, InSession
<1>19. ASSUME Open(t) PROVE Mine
  <2>1. req[t] \in Requests
    BY <1>1, <1>19, RequestOf DEF Open
  <2>. QED
    BY <1>1, <1>19, <2>1 DEF Open, Typed, Requests, Settled, Guarded, Sweeping, Inside, InSession
<1>20. ASSUME Read(t) PROVE Mine
  <2>1. req[t] \in Requests
    BY <1>1, <1>20, RequestOf DEF Read
  <2>. QED
    BY <1>1, <1>20, <2>1 DEF Read, Goto, Typed, Requests, Settled, Guarded, Sweeping, Inside, InSession
<1>21. ASSUME Change(t) PROVE Mine
  <2>1. req[t] \in Requests
    BY <1>1, <1>21, RequestOf DEF Change
  <2>. QED
    BY <1>1, <1>21, <2>1 DEF Change, Typed, Requests, Settled, Guarded, Sweeping, Inside, InSession
<1>22. ASSUME Abort(t) PROVE Mine
  <2>1. req[t] \in Requests
    BY <1>1, <1>22, RequestOf DEF Abort
  <2>. QED
    BY <1>1, <1>22, <2>1 DEF Abort, Goto, Typed, Requests, Settled, Guarded, Sweeping, Inside, InSession
<1>23. ASSUME Leave(t) PROVE Mine
  <2>1. req[t] \in Requests
    BY <1>1, <1>23, RequestOf DEF Leave
  <2>. QED
    BY <1>1, <1>23, <2>1 DEF Leave, Goto, Typed, Requests, Settled, Guarded, Sweeping, Inside, InSession
<1>24. ASSUME Answer(t) PROVE Mine
  <2>1. req[t] \in Requests
    BY <1>1, <1>24, RequestOf DEF Answer
  <2>. QED
    BY <1>1, <1>24, <2>1 DEF Answer, Resting, Typed, Requests, Settled, Guarded, Sweeping, Inside, InSession
<1>25. Mine
  BY <1>4, <1>5, <1>6, <1>7, <1>8, <1>9, <1>10, <1>11, <1>12, <1>13, <1>14, <1>15, <1>16, <1>17, <1>18, <1>19, <1>20, <1>21, <1>22, <1>23, <1>24 DEF Step
<1>26. \A v \in Threads \ {t} : Inside(v, {"sweep", "remove"}) => guard # t
  BY <1>1 DEF Guarded, Inside, InSession
<1>. QED
  BY <1>3, <1>25, <1>26 DEF Sweeping, Inside

\* The guard lets requests in by the order of their times.
LEMMA StepPrompt ==
    ASSUME Basic, Prompt, NEW t \in Threads, Step(t)
    PROVE  Prompt'
<1>1. Typed /\ Settled /\ Guarded /\ Typed' /\ Settled' /\ Guarded'
  BY StepBasic DEF Basic
<1>2. PICK r \in Requests \cup {Resting} : req' = [req EXCEPT ![t] = r]
  BY StepMoves
<1>3. req'[t] = r /\ \A u \in Threads : u # t => req'[u] = req[u]
  BY <1>1, <1>2 DEF Typed
<1> DEFINE Mine ==
             /\ clock' = clock
             /\ ~ Inside(t, {"idle", "enter"})' =>
                    \/ ~ Inside(t, {"idle", "enter"}) /\ req'[t].now = req[t].now
                    \/ req'[t].now = clock
             /\ Inside(t, InSession)' =>
                    \/ Inside(t, InSession) /\ req'[t].now = req[t].now
                    \/ req'[t].now = clock
             /\ Inside(t, Admitted)' =>
                    \/ Inside(t, Admitted) /\ req'[t].now = req[t].now
                    \/ guard = t
<1>4. ASSUME NEW sid \in SessionIds, Spare(t, sid) PROVE Mine
  <2>1. req[t] \in Requests
    BY <1>1, <1>4, RequestOf DEF Spare
  <2>. QED
    BY <1>1, <1>4, <2>1 DEF Spare, Typed, Requests, Guarded, Inside, InSession, Admitted
<1>5. ASSUME NEW sid \in SessionIds, Doom(t, sid) PROVE Mine
  <2>1. req[t] \in Requests
    BY <1>1, <1>5, RequestOf DEF Doom
  <2>. QED
    BY <1>1, <1>5, <2>1 DEF Doom, Typed, Requests, Guarded, Inside, InSession, Admitted
<1>6. ASSUME NEW sid \in SessionIds, Create(t, sid) PROVE Mine
  <2>1. req[t] \in Requests
    BY <1>1, <1>6, RequestOf DEF Create, Swept
  <2>. QED
    BY <1>1, <1>6, <2>1 DEF Create, Swept, Typed, Requests, Guarded, Inside, InSession, Admitted
<1>7. ASSUME Enter(t) PROVE Mine
  <2>1. req[t] \in Requests
    BY <1>1, <1>7, RequestOf DEF Enter
  <2>. QED
    BY <1>1, <1>7, <2>1 DEF Enter, Typed, Requests, Guarded, Inside, InSession, Admitted
<1>8. ASSUME Remove(t) PROVE Mine
  <2>1. req[t] \in Requests
    BY <1>1, <1>8, RequestOf DEF Remove
  <2>. QED
    BY <1>1, <1>8, <2>1 DEF Remove, Goto, Typed, Requests, Guarded, Inside, InSession, Admitted
<1>9. ASSUME Renew(t) PROVE Mine
  <2>1. req[t] \in Requests
    BY <1>1, <1>9, RequestOf DEF Renew, Swept
  <2>. QED
    BY <1>1, <1>9, <2>1 DEF Renew, Registered, Swept, Known, Typed, Requests, Guarded, Inside, InSession, Admitted
<1>10. ASSUME Refuse(t) PROVE Mine
  <2>1. req[t] \in Requests
    BY <1>1, <1>10, RequestOf DEF Refuse, Swept
  <2>. QED
    BY <1>1, <1>10, <2>1 DEF Refuse, Dismissed, Swept, Typed, Requests, Guarded, Inside, InSession, Admitted
<1>11. ASSUME Initialize(t) PROVE Mine
  <2>1. req[t] \in Requests
    BY <1>1, <1>11, RequestOf DEF Initialize
  <2>. QED
    BY <1>1, <1>11, <2>1 DEF Initialize, Goto, Typed, Requests, Guarded, Inside, InSession, Admitted
<1>12. ASSUME InitializeFails(t) PROVE Mine
  <2>1. req[t] \in Requests
    BY <1>1, <1>12, RequestOf DEF InitializeFails
  <2>. QED
    BY <1>1, <1>12, <2>1 DEF InitializeFails, Dismissed, Typed, Requests, Guarded, Inside, InSession, Admitted
<1>13. ASSUME Register(t) PROVE Mine
  <2>1. req[t] \in Requests
    BY <1>1, <1>13, RequestOf DEF Register
  <2>. QED
    BY <1>1, <1>13, <2>1 DEF Register, Registered, Typed, Requests, Guarded, Inside, InSession, Admitted
<1>14. ASSUME RegisterFails(t) PROVE Mine
  <2>1. req[t] \in Requests
    BY <1>1, <1>14, RequestOf DEF RegisterFails
  <2>. QED
    BY <1>1, <1>14, <2>1 DEF RegisterFails, Dismissed, Typed, Requests, Guarded, Inside, InSession, Admitted
<1>15. ASSUME TakeSlot(t) PROVE Mine
  <2>1. req[t] \in Requests
    BY <1>1, <1>15, RequestOf DEF TakeSlot
  <2>. QED
    BY <1>1, <1>15, <2>1 DEF TakeSlot, Typed, Requests, Guarded, Inside, InSession, Admitted
<1>16. ASSUME NoSlot(t) PROVE Mine
  <2>1. req[t] \in Requests
    BY <1>1, <1>16, RequestOf DEF NoSlot
  <2>. QED
    BY <1>1, <1>16, <2>1 DEF NoSlot, Goto, Typed, Requests, Guarded, Inside, InSession, Admitted
<1>17. ASSUME TakeLock(t) PROVE Mine
  <2>1. req[t] \in Requests
    BY <1>1, <1>17, RequestOf DEF TakeLock
  <2>. QED
    BY <1>1, <1>17, <2>1 DEF TakeLock, Goto, Typed, Requests, Guarded, Inside, InSession, Admitted
<1>18. ASSUME TimeOut(t) PROVE Mine
  <2>1. req[t] \in Requests
    BY <1>1, <1>18, RequestOf DEF TimeOut
  <2>. QED
    BY <1>1, <1>18, <2>1 DEF TimeOut, Goto, Typed, Requests, Guarded, Inside, InSession, Admitted
<1>19. ASSUME Open(t) PROVE Mine
  <2>1. req[t] \in Requests
    BY <1>1, <1>19, RequestOf DEF Open
  <2>. QED
    BY <1>1, <1>19, <2>1 DEF Open, Typed, Requests, Guarded, Inside, InSession, Admitted
<1>20. ASSUME Read(t) PROVE Mine
  <2>1. req[t] \in Requests
    BY <1>1, <1>20, RequestOf DEF Read
  <2>. QED
    BY <1>1, <1>20, <2>1 DEF Read, Goto, Typed, Requests, Guarded, Inside, InSession, Admitted
<1>21. ASSUME Change(t) PROVE Mine
  <2>1. req[t] \in Requests
    BY <1>1, <1>21, RequestOf DEF Change
  <2>. QED
    BY <1>1, <1>21, <2>1 DEF Change, Typed, Requests, Guarded, Inside, InSession, Admitted
<1>22. ASSUME Abort(t) PROVE Mine
  <2>1. req[t] \in Requests
    BY <1>1, <1>22, RequestOf DEF Abort
  <2>. QED
    BY <1>1, <1>22, <2>1 DEF Abort, Goto, Typed, Requests, Guarded, Inside, InSession, Admitted
<1>23. ASSUME Leave(t) PROVE Mine
  <2>1. req[t] \in Requests
    BY <1>1, <1>23, RequestOf DEF Leave
  <2>. QED
    BY <1>1, <1>23, <2>1 DEF Leave, Goto, Typed, Requests, Guarded, Inside, InSession, Admitted
<1>24. ASSUME Answer(t) PROVE Mine
  <2>1. req[t] \in Requests
    BY <1>1, <1>24, RequestOf DEF Answer
  <2>. QED
    BY <1>1, <1>24, <2>1 DEF Answer, Resting, Typed, Requests, Guarded, Inside, InSession, Admitted
<1>25. Mine
  BY <1>4, <1>5, <1>6, <1>7, <1>8, <1>9, <1>10, <1>11, <1>12, <1>13, <1>14, <1>15, <1>16, <1>17, <1>18, <1>19, <1>20, <1>21, <1>22, <1>23, <1>24 DEF Step
<1>26. /\ clock \in Nat /\ Stall \in Nat
       /\ \A u \in Threads : ~ Inside(u, {"idle"}) => req[u].now \in Nat
  BY <1>1, RequestOf, StoreAssumption DEF Typed, Requests, Inside
<1>27. \A u \in Threads : Inside(u, Admitted) \/ Inside(u, InSession) => ~ Inside(u, {"idle", "enter"})
  BY DEF Inside, Admitted, InSession
<1> HIDE DEF Mine
<1>28. \A v \in Threads : ~ Inside(v, {"idle", "enter"})' =>
           req'[v].now <= clock' /\ clock' <= req'[v].now + Stall
  BY <1>3, <1>25, <1>26 DEF Mine, Prompt, Inside
<1>29. ASSUME NEW v \in Threads, NEW u \in Threads, Inside(v, InSession)', Inside(u, Admitted)'
       PROVE  req'[u].now <= req'[v].now
  <2>1. u # v
    BY <1>29 DEF Inside, InSession, Admitted
  <2>2. CASE v = t
    <3>1. Inside(u, Admitted) /\ req'[u] = req[u]
      BY <1>3, <1>29, <2>1, <2>2 DEF Inside
    <3>. QED
      BY <1>25, <1>27, <1>29, <2>2, <3>1 DEF Mine, Prompt
  <2>3. CASE v # t
    <3>1. Inside(v, InSession) /\ req'[v] = req[v] /\ guard = v
      BY <1>1, <1>3, <1>29, <2>3 DEF Inside, Guarded
    <3>2. Inside(u, Admitted) /\ req'[u].now = req[u].now
      BY <1>3, <1>25, <1>29, <2>3, <3>1 DEF Mine, Inside
    <3>. QED
      BY <1>27, <3>1, <3>2 DEF Prompt
  <2>. QED
    BY <2>2, <2>3
<1>. QED
  BY <1>28, <1>29 DEF Prompt

Lasting == Resources /\ Sweeping /\ Prompt

\* At the start no sweep is under way and no thread stands anywhere.
LEMMA LastingInit == Init => Lasting
<1> SUFFICES ASSUME Init PROVE Lasting
  OBVIOUS
<1>1. \A t \in Threads : req[t].pc = "idle"
  BY DEF Init, Resting
<1>. QED
  BY <1>1, ResourcesInit DEF Lasting, Sweeping, Prompt, Inside

\* A request that arrives has its own time, and sweeps nothing.
LEMMA ArriveLasting ==
    ASSUME Lasting, NEW t \in Threads, NEW b \in Browsers, Arrive(t, b)
    PROVE  Lasting'
<1>1. Typed
  BY DEF Lasting, Resources, Basic
<1>2. /\ req'[t].pc = "enter" /\ \A u \in Threads : u # t => req'[u] = req[u]
      /\ UNCHANGED <<rows, clock>>
  BY <1>1 DEF Arrive, Typed
<1>3. Sweeping'
  BY <1>2 DEF Lasting, Sweeping, Inside
<1>4. Prompt'
  BY <1>2 DEF Lasting, Prompt, Inside, InSession, Admitted
<1>. QED
  BY <1>3, <1>4, ArriveResources DEF Lasting

\* Resources, sweeps and the limit of each stay survive every step.
LEMMA LastingNext == Lasting /\ [Next]_vars => Lasting'
<1> SUFFICES ASSUME Lasting, [Next]_vars PROVE Lasting'
  OBVIOUS
<1>1. Resources' /\ Basic /\ Basic'
  BY ResourcesNext DEF Lasting, Resources
<1>2. ASSUME NEW t \in Threads, Step(t) PROVE Lasting'
  BY <1>1, <1>2, StepSweeping, StepPrompt DEF Lasting, Resources
<1>3. CASE Tick
  <2>1. /\ req' = req /\ rows' = rows /\ clock' = clock + 1 /\ clock \in Nat
        /\ \A t \in Threads : ~ Inside(t, {"idle", "enter"}) => clock < req[t].now + Stall
    BY <1>1, <1>3, StoreAssumption DEF Tick, Basic, Typed, Inside
  <2>2. \A t \in Threads : ~ Inside(t, {"idle"}) => req[t].now \in Nat /\ Stall \in Nat
    BY <1>1, RequestOf, StoreAssumption DEF Basic, Requests, Inside
  <2>3. Sweeping'
    BY <2>1 DEF Lasting, Sweeping, Inside
  <2>4. Prompt'
    BY <2>1, <2>2 DEF Lasting, Prompt, Inside
  <2>. QED
    BY <1>1, <2>3, <2>4 DEF Lasting
<1>4. CASE Crash
  <2>1. \A t \in Threads : req'[t].pc = "idle"
    BY <1>1, <1>4, CrashBasic
  <2>. QED
    BY <1>1, <2>1 DEF Lasting, Sweeping, Prompt, Inside
<1>5. CASE UNCHANGED vars
  BY <1>1, <1>5 DEF vars, Lasting, Sweeping, Prompt, Inside
<1>. QED
  BY <1>2, <1>3, <1>4, <1>5, ArriveLasting DEF Next

\* The inductive invariant of the theorems that rest on time.
LEMMA LastingAlways == Spec => []Lasting
BY LastingInit, LastingNext, PTL DEF Spec

\* The sweep of src/finpulse/demo/store.py passes over every visitor whose
\* transaction is open when it looks, however long requests take and although
\* the dictionary loses the locks of the visitors that are removed.
THEOREM OpenSpared == Spec => OpenTransactionsAreSpared
<1>1. ASSUME Lasting, NEW t \in Threads, NEW sid \in SessionIds, Doom(t, sid),
             NEW u \in Transactions
      PROVE  req[u].sid # sid
  <2> SUFFICES ASSUME req[u].sid = sid PROVE FALSE
    OBVIOUS
  <2>1. rows[sid] # 0
    BY <1>1 DEF Lasting, Sweeping, Doom, Inside
  <2>2. u \in Threads /\ Inside(u, Slotted)
    BY DEF Transactions, Inside, Slotted
  <2>3. req[u].lock # 0 /\ locks[sid] = req[u].lock
    BY <1>1, <2>1, <2>2 DEF Lasting, Resources, Keyed
  <2>4. <<sid, locks[sid]>> \in held
    BY <1>1, <2>3 DEF Lasting, Resources, Holding, LockOf
  <2>. QED
    BY <1>1, <2>3, <2>4 DEF Doom, Locked
<1>2. Lasting => [\A t \in Threads, sid \in SessionIds :
                     Doom(t, sid) => \A u \in Transactions : req[u].sid # sid]_vars
  BY <1>1
<1>. QED
  BY <1>2, LastingAlways, PTL DEF OpenTransactionsAreSpared

-----------------------------------------------------------------------------
(* Requests shorter than the lifetime of a session.                        *)

\* The session of an admitted request outlives the request.
Extended == \A t \in Threads : Inside(t, Admitted) => rows[req[t].sid] >= req[t].now + Ttl

\* While a request is admitted, nobody's sweep has its session on the list.
LEMMA NotSwept ==
    ASSUME Stall < Ttl, Lasting, Extended, NEW t \in Threads, Inside(t, Admitted),
           NEW u \in Threads, Inside(u, {"sweep", "remove"})
    PROVE  req[t].sid \notin req[u].expired /\ (Inside(u, {"remove"}) => req[u].victim # req[t].sid)
<1>1. Typed /\ Settled
  BY DEF Lasting, Resources, Basic
<1>2. /\ req[t].now \in Nat /\ req[u].now \in Nat /\ clock \in Nat /\ Ttl \in Nat /\ Stall \in Nat
      /\ req[t].sid \in SessionIds /\ rows[req[t].sid] \in Nat
  BY <1>1, RequestOf, StoreAssumption DEF Inside, Admitted, Typed, Requests, Settled
<1>3. clock <= req[t].now + Stall /\ req[u].now <= clock
  BY DEF Lasting, Prompt, Inside, Admitted
<1>4. rows[req[t].sid] > req[u].now
  BY <1>2, <1>3 DEF Extended
<1>. QED
  BY <1>2, <1>4 DEF Lasting, Sweeping

\* With requests shorter than the lifetime of a session, the session of a request
\* that was let in outlives it, whatever another thread does.
LEMMA StepExtended ==
    ASSUME Stall < Ttl, Lasting, Extended, NEW t \in Threads, Step(t)
    PROVE  Extended'
<1>1. Typed /\ Settled /\ Guarded /\ Typed' /\ Settled' /\ Guarded'
  BY StepBasic DEF Basic, Lasting, Resources
<1>2. PICK r \in Requests \cup {Resting} : req' = [req EXCEPT ![t] = r]
  BY StepMoves DEF Lasting, Resources
<1>3. req'[t] = r /\ \A u \in Threads : u # t => req'[u] = req[u]
  BY <1>1, <1>2 DEF Typed
<1> DEFINE Mine ==
             /\ \A sid \in SessionIds :
                    \/ rows'[sid] = rows[sid]
                    \/ Inside(t, {"remove"}) /\ sid = req[t].victim
                    \/ Inside(t, InSession) /\ rows'[sid] = req[t].now + Ttl
             /\ Inside(t, Admitted)' =>
                    \/ /\ Inside(t, Admitted) /\ rows' = rows
                       /\ req'[t].sid = req[t].sid /\ req'[t].now = req[t].now
                    \/ rows'[req'[t].sid] = req'[t].now + Ttl
<1>4. ASSUME NEW sid \in SessionIds, Spare(t, sid) PROVE Mine
  <2>1. req[t] \in Requests
    BY <1>1, <1>4, RequestOf DEF Spare
  <2>. QED
    BY <1>1, <1>4, <2>1 DEF Spare, Typed, Requests, Settled, Inside, InSession, Admitted
<1>5. ASSUME NEW sid \in SessionIds, Doom(t, sid) PROVE Mine
  <2>1. req[t] \in Requests
    BY <1>1, <1>5, RequestOf DEF Doom
  <2>. QED
    BY <1>1, <1>5, <2>1 DEF Doom, Typed, Requests, Settled, Inside, InSession, Admitted
<1>6. ASSUME NEW sid \in SessionIds, Create(t, sid) PROVE Mine
  <2>1. req[t] \in Requests
    BY <1>1, <1>6, RequestOf DEF Create, Swept
  <2>. QED
    BY <1>1, <1>6, <2>1 DEF Create, Swept, Typed, Requests, Settled, Inside, InSession, Admitted
<1>7. ASSUME Enter(t) PROVE Mine
  <2>1. req[t] \in Requests
    BY <1>1, <1>7, RequestOf DEF Enter
  <2>. QED
    BY <1>1, <1>7, <2>1 DEF Enter, Typed, Requests, Settled, Inside, InSession, Admitted
<1>8. ASSUME Remove(t) PROVE Mine
  <2>1. req[t] \in Requests
    BY <1>1, <1>8, RequestOf DEF Remove
  <2>. QED
    BY <1>1, <1>8, <2>1 DEF Remove, Goto, Typed, Requests, Settled, Inside, InSession, Admitted
<1>9. ASSUME Renew(t) PROVE Mine
  <2>1. req[t] \in Requests
    BY <1>1, <1>9, RequestOf DEF Renew, Swept
  <2>. QED
    BY <1>1, <1>9, <2>1 DEF Renew, Registered, Swept, Known, Typed, Requests, Settled, Inside, InSession, Admitted
<1>10. ASSUME Refuse(t) PROVE Mine
  <2>1. req[t] \in Requests
    BY <1>1, <1>10, RequestOf DEF Refuse, Swept
  <2>. QED
    BY <1>1, <1>10, <2>1 DEF Refuse, Dismissed, Swept, Typed, Requests, Settled, Inside, InSession, Admitted
<1>11. ASSUME Initialize(t) PROVE Mine
  <2>1. req[t] \in Requests
    BY <1>1, <1>11, RequestOf DEF Initialize
  <2>. QED
    BY <1>1, <1>11, <2>1 DEF Initialize, Goto, Typed, Requests, Settled, Inside, InSession, Admitted
<1>12. ASSUME InitializeFails(t) PROVE Mine
  <2>1. req[t] \in Requests
    BY <1>1, <1>12, RequestOf DEF InitializeFails
  <2>. QED
    BY <1>1, <1>12, <2>1 DEF InitializeFails, Dismissed, Typed, Requests, Settled, Inside, InSession, Admitted
<1>13. ASSUME Register(t) PROVE Mine
  <2>1. req[t] \in Requests
    BY <1>1, <1>13, RequestOf DEF Register
  <2>. QED
    BY <1>1, <1>13, <2>1 DEF Register, Registered, Typed, Requests, Settled, Inside, InSession, Admitted
<1>14. ASSUME RegisterFails(t) PROVE Mine
  <2>1. req[t] \in Requests
    BY <1>1, <1>14, RequestOf DEF RegisterFails
  <2>. QED
    BY <1>1, <1>14, <2>1 DEF RegisterFails, Dismissed, Typed, Requests, Settled, Inside, InSession, Admitted
<1>15. ASSUME TakeSlot(t) PROVE Mine
  <2>1. req[t] \in Requests
    BY <1>1, <1>15, RequestOf DEF TakeSlot
  <2>. QED
    BY <1>1, <1>15, <2>1 DEF TakeSlot, Typed, Requests, Settled, Inside, InSession, Admitted
<1>16. ASSUME NoSlot(t) PROVE Mine
  <2>1. req[t] \in Requests
    BY <1>1, <1>16, RequestOf DEF NoSlot
  <2>. QED
    BY <1>1, <1>16, <2>1 DEF NoSlot, Goto, Typed, Requests, Settled, Inside, InSession, Admitted
<1>17. ASSUME TakeLock(t) PROVE Mine
  <2>1. req[t] \in Requests
    BY <1>1, <1>17, RequestOf DEF TakeLock
  <2>. QED
    BY <1>1, <1>17, <2>1 DEF TakeLock, Goto, Typed, Requests, Settled, Inside, InSession, Admitted
<1>18. ASSUME TimeOut(t) PROVE Mine
  <2>1. req[t] \in Requests
    BY <1>1, <1>18, RequestOf DEF TimeOut
  <2>. QED
    BY <1>1, <1>18, <2>1 DEF TimeOut, Goto, Typed, Requests, Settled, Inside, InSession, Admitted
<1>19. ASSUME Open(t) PROVE Mine
  <2>1. req[t] \in Requests
    BY <1>1, <1>19, RequestOf DEF Open
  <2>. QED
    BY <1>1, <1>19, <2>1 DEF Open, Typed, Requests, Settled, Inside, InSession, Admitted
<1>20. ASSUME Read(t) PROVE Mine
  <2>1. req[t] \in Requests
    BY <1>1, <1>20, RequestOf DEF Read
  <2>. QED
    BY <1>1, <1>20, <2>1 DEF Read, Goto, Typed, Requests, Settled, Inside, InSession, Admitted
<1>21. ASSUME Change(t) PROVE Mine
  <2>1. req[t] \in Requests
    BY <1>1, <1>21, RequestOf DEF Change
  <2>. QED
    BY <1>1, <1>21, <2>1 DEF Change, Typed, Requests, Settled, Inside, InSession, Admitted
<1>22. ASSUME Abort(t) PROVE Mine
  <2>1. req[t] \in Requests
    BY <1>1, <1>22, RequestOf DEF Abort
  <2>. QED
    BY <1>1, <1>22, <2>1 DEF Abort, Goto, Typed, Requests, Settled, Inside, InSession, Admitted
<1>23. ASSUME Leave(t) PROVE Mine
  <2>1. req[t] \in Requests
    BY <1>1, <1>23, RequestOf DEF Leave
  <2>. QED
    BY <1>1, <1>23, <2>1 DEF Leave, Goto, Typed, Requests, Settled, Inside, InSession, Admitted
<1>24. ASSUME Answer(t) PROVE Mine
  <2>1. req[t] \in Requests
    BY <1>1, <1>24, RequestOf DEF Answer
  <2>. QED
    BY <1>1, <1>24, <2>1 DEF Answer, Resting, Typed, Requests, Settled, Inside, InSession, Admitted
<1>25. Mine
  BY <1>4, <1>5, <1>6, <1>7, <1>8, <1>9, <1>10, <1>11, <1>12, <1>13, <1>14, <1>15, <1>16, <1>17, <1>18, <1>19, <1>20, <1>21, <1>22, <1>23, <1>24 DEF Step
<1>26. /\ clock \in Nat /\ Ttl \in Nat
       /\ \A u \in Threads : ~ Inside(u, {"idle"}) => req[u].now \in Nat
       /\ \A u \in Threads : ~ Inside(u, {"idle"})' => req'[u].now \in Nat
  BY <1>1, RequestOf, StoreAssumption DEF Typed, Requests, Inside, Resting
<1> HIDE DEF Mine
<1>27. ASSUME NEW u \in Threads, Inside(u, Admitted)'
       PROVE  rows'[req'[u].sid] >= req'[u].now + Ttl
  <2>1. CASE u = t
    BY <1>25, <1>26, <1>27, <2>1 DEF Mine, Extended, Inside, Admitted
  <2>2. CASE u # t
    <3>1. /\ Inside(u, Admitted) /\ req'[u] = req[u] /\ req[u].sid \in SessionIds
          /\ req[u].now \in Nat /\ ~ Inside(u, {"idle"})
      BY <1>1, <1>3, <1>26, <1>27, <2>2 DEF Inside, Settled, Admitted
    <3>2. rows[req[u].sid] >= req[u].now + Ttl
      BY <3>1 DEF Extended
    <3>3. ~ (Inside(t, {"remove"}) /\ req[u].sid = req[t].victim)
      BY <3>1, NotSwept DEF Inside
    <3>4. Inside(t, InSession) => req[u].now <= req[t].now /\ req[t].now \in Nat
      BY <1>26, <3>1 DEF Lasting, Prompt, Inside, InSession
    <3>. QED
      BY <1>25, <1>26, <3>1, <3>2, <3>3, <3>4 DEF Mine
  <2>. QED
    BY <2>1, <2>2
<1>. QED
  BY <1>27 DEF Extended, Inside

Safe == Lasting /\ Extended

\* Stepping keeps admitted requests ahead of the expiry of their sessions.
LEMMA SafeNext ==
    ASSUME Stall < Ttl
    PROVE  Safe /\ [Next]_vars => Safe'
<1> SUFFICES ASSUME Safe, [Next]_vars PROVE Safe'
  OBVIOUS
<1>1. Lasting /\ Lasting' /\ Extended /\ Typed
  BY LastingNext DEF Safe, Lasting, Resources, Basic
<1>2. ASSUME NEW t \in Threads, NEW b \in Browsers, Arrive(t, b) PROVE Extended'
  <2>1. /\ req'[t].pc = "enter" /\ rows' = rows
        /\ \A u \in Threads : u # t => req'[u] = req[u]
    BY <1>1, <1>2 DEF Arrive, Typed
  <2>. QED
    BY <1>1, <2>1 DEF Extended, Inside, Admitted
<1>3. ASSUME NEW t \in Threads, Step(t) PROVE Extended'
  BY <1>1, <1>3, StepExtended
<1>4. ASSUME Tick PROVE Extended'
  BY <1>1, <1>4 DEF Tick, Extended, Inside
<1>5. ASSUME Crash PROVE Extended'
  <2>1. \A t \in Threads : req'[t].pc = "idle"
    BY <1>1, <1>5, CrashBasic DEF Lasting, Resources
  <2>. QED
    BY <2>1 DEF Extended, Inside, Admitted
<1>6. ASSUME UNCHANGED vars PROVE Extended'
  BY <1>1, <1>6 DEF vars, Extended, Inside
<1>. QED
  BY <1>1, <1>2, <1>3, <1>4, <1>5, <1>6 DEF Next, Safe

\* Nobody has been admitted to begin with.
LEMMA SafeInit == Init => Safe
<1>1. Init => \A t \in Threads : req[t].pc = "idle"
  BY DEF Init, Resting
<1>. QED
  BY <1>1, LastingInit DEF Safe, Extended, Inside, Admitted

\* So they always are.
LEMMA SafeAlways ==
    ASSUME Stall < Ttl
    PROVE  Spec => []Safe
<1>1. Init => Safe
  BY SafeInit
<1>2. Safe /\ [Next]_vars => Safe'
  BY SafeNext
<1>. QED
  BY <1>1, <1>2, PTL DEF Spec

\* The sessions of open transactions are in the index, and so are their locks.
LEMMA TakingTurns ==
    ASSUME Safe
    PROVE  OneTransactionPerVisitor
<1> SUFFICES ASSUME NEW t \in Transactions, NEW u \in Transactions, req[t].sid = req[u].sid
             PROVE  t = u
  BY DEF OneTransactionPerVisitor
<1>1. Basic /\ Keyed /\ Holding /\ Extended
  BY DEF Safe, Lasting, Resources
<1>2. \A v \in Transactions : v \in Threads /\ Inside(v, Slotted) /\ Inside(v, Admitted)
  BY DEF Transactions, Inside, Slotted, Admitted
<1>3. \A v \in Transactions : req[v].sid \in SessionIds /\ req[v].now \in Nat /\ rows[req[v].sid] \in Nat
  BY <1>1, <1>2, RequestOf DEF Basic, Settled, Typed, Requests, Inside, Admitted
<1>4. \A v \in Transactions : rows[req[v].sid] # 0
  BY <1>1, <1>2, <1>3, StoreAssumption DEF Extended
<1>5. LockOf(t) = LockOf(u)
  BY <1>1, <1>2, <1>4 DEF Keyed, LockOf
<1>. QED
  BY <1>1, <1>5 DEF Holding

\* When no request outlives the lifetime of a session, the transactions of one
\* visitor take turns, on locks the index and the dictionary may drop.
THEOREM TransactionsTakeTurns ==
    ASSUME Stall < Ttl
    PROVE  Spec => []OneTransactionPerVisitor
<1>1. Safe => OneTransactionPerVisitor
  BY TakingTurns
<1>2. Spec => []Safe
  BY SafeAlways
<1>. QED
  BY <1>1, <1>2, PTL

\* Under the same condition, no warehouse is removed between the moment
\* session() admits a request and its commit.
THEOREM WarehousesInUseStay ==
    ASSUME Stall < Ttl
    PROVE  Spec => InUseIsNeverRemoved
<1> DEFINE Spared ==
      \A sid \in SessionIds :
          file[sid] # Absent /\ file'[sid] = Absent =>
            \A t \in Threads :
                Inside(t, {"admitted", "lock", "open", "work"}) => req[t].sid # sid
<1>1. ASSUME Safe, NEW u \in Threads, Step(u),
             NEW sid \in SessionIds, file[sid] # Absent, file'[sid] = Absent
      PROVE  \/ Inside(u, {"remove"}) /\ sid = req[u].victim
             \/ Inside(u, {"initialize"}) /\ sid = req[u].sid
  <2>1. Typed
    BY <1>1 DEF Safe, Lasting, Resources, Basic
  <2>2. CASE \E s \in SessionIds : Spare(u, s) \/ Doom(u, s) \/ Create(u, s)
    BY <1>1, <2>1, <2>2 DEF Spare, Doom, Create, Typed, Bare, Absent
  <2>3. CASE Remove(u) \/ Initialize(u) \/ InitializeFails(u)
    BY <1>1, <2>1, <2>3 DEF Remove, Initialize, InitializeFails, Typed, Ready, Absent, Inside
  <2>4. CASE Open(u) \/ Change(u)
    BY <1>1, <2>1, <2>4 DEF Open, Change, Typed, Ready, Absent, Bare
  <2>5. CASE file' = file
    BY <1>1, <2>5
  <2>. QED
    BY <1>1, <2>2, <2>3, <2>4, <2>5 DEF Step, Enter, Renew, Refuse, Register, RegisterFails,
       TakeSlot, NoSlot, TakeLock, TimeOut, Read, Abort, Leave, Answer
<1>2. ASSUME Safe, Next PROVE Spared
  <2> SUFFICES ASSUME NEW sid \in SessionIds, file[sid] # Absent, file'[sid] = Absent,
                      NEW t \in Threads, Inside(t, {"admitted", "lock", "open", "work"})
               PROVE  req[t].sid # sid
    OBVIOUS
  <2>1. PICK u \in Threads : Step(u)
    BY <1>2 DEF Next, Arrive, Tick, Crash
  <2>2. Inside(t, Admitted)
    BY DEF Inside, Admitted
  <2>3. CASE Inside(u, {"remove"}) /\ sid = req[u].victim
    BY <1>2, <2>2, <2>3, NotSwept DEF Safe, Inside
  <2>4. CASE Inside(u, {"initialize"}) /\ sid = req[u].sid
    BY <1>2, <2>2, <2>4 DEF Safe, Lasting, Resources, Names, Inside, Admitted
  <2>. QED
    BY <1>1, <1>2, <2>1, <2>3, <2>4
<1>3. Safe /\ [Next]_vars => [Spared]_vars
  BY <1>2
<1>4. Spec => []Safe
  BY SafeAlways
<1>. QED
  BY <1>3, <1>4, PTL DEF Spec, InUseIsNeverRemoved

-----------------------------------------------------------------------------
(* The warehouses of the visitors.                                         *)

\* A visitor of the index without a warehouse, as a crash in the middle of a
\* removal leaves one.
Lost(sid) == rows[sid] # 0 /\ file[sid].kind # "ready"

\* Warehouses are there before their rows and go only with an expired row, and
\* what is lost is on the list of the very next sweep.
Stored ==
    /\ \A sid \in SessionIds :
           /\ rows[sid] \in {0, saved[sid]}
           /\ saved[sid] > clock => file[sid].kind = "ready"
           /\ \A t \in Threads : Lost(sid) /\ Inside(t, InSession) =>
                  /\ Inside(t, {"sweep", "remove"})
                  /\ sid \in req[t].expired \/ (Inside(t, {"remove"}) /\ sid = req[t].victim)
    /\ \A t \in Threads : Inside(t, {"register"}) => file[req[t].sid].kind = "ready"

\* A sweep meets no open transaction of an expired visitor.
LEMMA NothingSpared ==
    ASSUME Stall < Ttl, Safe, NEW t \in Threads, NEW sid \in SessionIds
    PROVE  ~ Spare(t, sid)
<1> SUFFICES ASSUME Spare(t, sid) PROVE FALSE
  OBVIOUS
<1>1. PICK u \in Transactions : LockOf(u) = <<sid, locks[sid]>>
  BY DEF Spare, Locked, Safe, Lasting, Resources, Holding
<1>2. u \in Threads /\ Inside(u, Admitted) /\ req[u].sid = sid
  BY <1>1 DEF Transactions, Inside, Admitted, LockOf
<1>. QED
  BY <1>2, NotSwept DEF Safe, Spare, Inside

\* A step of a thread keeps the warehouses of visitors.
LEMMA StepStored ==
    ASSUME Stall < Ttl, Safe, Stored, NEW t \in Threads, Step(t)
    PROVE  Stored'
<1>1. Typed /\ Settled /\ Guarded /\ Typed' /\ Settled' /\ Guarded'
  BY StepBasic DEF Basic, Safe, Lasting, Resources
<1>2. PICK r \in Requests \cup {Resting} : req' = [req EXCEPT ![t] = r]
  BY StepMoves DEF Safe, Lasting, Resources
<1>3. req'[t] = r /\ \A u \in Threads : u # t => req'[u] = req[u]
  BY <1>1, <1>2 DEF Typed
<1>4. Names /\ Sweeping /\ \A sid \in SessionIds : ~ Spare(t, sid)
  BY NothingSpared DEF Safe, Lasting, Resources
<1>5. /\ clock \in Nat /\ Ttl \in Nat /\ \A sid \in SessionIds : rows[sid] \in Nat /\ saved[sid] \in Nat
      /\ ~ Inside(t, {"idle", "enter"}) => req[t].now \in Nat /\ req[t].now <= clock
  BY <1>1, RequestOf, StoreAssumption DEF Typed, Requests, Inside, Safe, Lasting, Prompt
<1> DEFINE Mine ==
             /\ clock' = clock
             /\ \A sid \in SessionIds :
                    /\ \/ saved'[sid] = saved[sid] /\ rows'[sid] \in {rows[sid], 0}
                       \/ saved'[sid] = rows'[sid] /\ (rows'[sid] = rows[sid] \/ file'[sid].kind = "ready")
                    /\ \/ file[sid].kind # "ready" \/ file'[sid].kind = "ready"
                       \/ guard = t /\ saved'[sid] <= clock /\ rows'[sid] = 0
                    /\ Lost(sid)' => /\ Lost(sid)
                                     /\ Inside(t, InSession)' => 
                                            /\ Inside(t, {"sweep", "remove"})'
                                            /\ \/ sid \in req'[t].expired
                                               \/ Inside(t, {"remove"})' /\ sid = req'[t].victim
             /\ Inside(t, {"register"})' => file'[req'[t].sid].kind = "ready"
<1>6. ASSUME NEW sid \in SessionIds, Spare(t, sid) PROVE Mine
  <2>1. req[t] \in Requests
    BY <1>1, <1>6, RequestOf DEF Spare
  <2>. QED
    BY <1>1, <1>4, <1>5, <1>6, <2>1 DEF Spare, Typed, Requests, Warehouses, Settled, Guarded, Names, Sweeping, Stored, Lost, Known, Unseen, LockFor, Ready, Bare, Absent, Inside, InSession, Admitted
<1>7. ASSUME NEW sid \in SessionIds, Doom(t, sid) PROVE Mine
  <2>1. req[t] \in Requests
    BY <1>1, <1>7, RequestOf DEF Doom
  <2>. QED
    BY <1>1, <1>4, <1>5, <1>7, <2>1 DEF Doom, Typed, Requests, Warehouses, Settled, Guarded, Names, Sweeping, Stored, Lost, Known, Unseen, LockFor, Ready, Bare, Absent, Inside, InSession, Admitted
<1>8. ASSUME NEW sid \in SessionIds, Create(t, sid) PROVE Mine
  <2>1. req[t] \in Requests
    BY <1>1, <1>8, RequestOf DEF Create, Swept
  <2>. QED
    BY <1>1, <1>4, <1>5, <1>8, <2>1 DEF Create, Swept, Typed, Requests, Warehouses, Settled, Guarded, Names, Sweeping, Stored, Lost, Known, Unseen, LockFor, Ready, Bare, Absent, Inside, InSession, Admitted
<1>9. ASSUME Enter(t) PROVE Mine
  <2>1. /\ UNCHANGED <<rows, saved, file, clock>> /\ req'[t].pc = "sweep"
        /\ req'[t].expired = {sid \in SessionIds : rows[sid] # 0 /\ rows[sid] <= clock}
    <3>1. req[t] \in Requests
      BY <1>1, <1>9, RequestOf DEF Enter
    <3>. QED
      BY <1>1, <1>9, <3>1 DEF Enter, Visitors, Typed, Requests
  <2>2. \A sid \in SessionIds : Lost(sid) => rows[sid] # 0 /\ rows[sid] <= clock
    BY <1>5 DEF Stored, Lost
  <2>3. ASSUME NEW sid \in SessionIds, Lost(sid)' PROVE Lost(sid) /\ sid \in req'[t].expired
    BY <2>1, <2>2, <2>3 DEF Lost
  <2>. QED
    BY <2>1, <2>3 DEF Inside
<1>10. ASSUME Remove(t) PROVE Mine
  <2>1. req[t] \in Requests
    BY <1>1, <1>10, RequestOf DEF Remove
  <2>. QED
    BY <1>1, <1>4, <1>5, <1>10, <2>1 DEF Remove, Goto, Typed, Requests, Warehouses, Settled, Guarded, Names, Sweeping, Stored, Lost, Known, Unseen, LockFor, Ready, Bare, Absent, Inside, InSession, Admitted
<1>11. ASSUME Renew(t) PROVE Mine
  <2>1. req[t] \in Requests
    BY <1>1, <1>11, RequestOf DEF Renew, Swept
  <2>. QED
    BY <1>1, <1>4, <1>5, <1>11, <2>1 DEF Renew, Registered, Swept, Known, Typed, Requests, Warehouses, Settled, Guarded, Names, Sweeping, Stored, Lost, Unseen, LockFor, Ready, Bare, Absent, Inside, InSession, Admitted
<1>12. ASSUME Refuse(t) PROVE Mine
  <2>1. req[t] \in Requests
    BY <1>1, <1>12, RequestOf DEF Refuse, Swept
  <2>. QED
    BY <1>1, <1>4, <1>5, <1>12, <2>1 DEF Refuse, Dismissed, Swept, Typed, Requests, Warehouses, Settled, Guarded, Names, Sweeping, Stored, Lost, Known, Unseen, LockFor, Ready, Bare, Absent, Inside, InSession, Admitted
<1>13. ASSUME Initialize(t) PROVE Mine
  <2>1. req[t] \in Requests
    BY <1>1, <1>13, RequestOf DEF Initialize
  <2>. QED
    BY <1>1, <1>4, <1>5, <1>13, <2>1 DEF Initialize, Goto, Typed, Requests, Warehouses, Settled, Guarded, Names, Sweeping, Stored, Lost, Known, Unseen, LockFor, Ready, Bare, Absent, Inside, InSession, Admitted
<1>14. ASSUME InitializeFails(t) PROVE Mine
  <2>1. req[t] \in Requests
    BY <1>1, <1>14, RequestOf DEF InitializeFails
  <2>. QED
    BY <1>1, <1>4, <1>5, <1>14, <2>1 DEF InitializeFails, Dismissed, Typed, Requests, Warehouses, Settled, Guarded, Names, Sweeping, Stored, Lost, Known, Unseen, LockFor, Ready, Bare, Absent, Inside, InSession, Admitted
<1>15. ASSUME Register(t) PROVE Mine
  <2>1. req[t] \in Requests
    BY <1>1, <1>15, RequestOf DEF Register
  <2>. QED
    BY <1>1, <1>4, <1>5, <1>15, <2>1 DEF Register, Registered, Typed, Requests, Warehouses, Settled, Guarded, Names, Sweeping, Stored, Lost, Known, Unseen, LockFor, Ready, Bare, Absent, Inside, InSession, Admitted
<1>16. ASSUME RegisterFails(t) PROVE Mine
  <2>1. req[t] \in Requests
    BY <1>1, <1>16, RequestOf DEF RegisterFails
  <2>. QED
    BY <1>1, <1>4, <1>5, <1>16, <2>1, SMTT(40) DEF RegisterFails, Dismissed, Typed, Requests, Warehouses, Settled, Guarded, Names, Sweeping, Stored, Lost, Known, Unseen, LockFor, Ready, Bare, Absent, Inside, InSession, Admitted
<1>17. ASSUME TakeSlot(t) PROVE Mine
  <2>1. req[t] \in Requests
    BY <1>1, <1>17, RequestOf DEF TakeSlot
  <2>. QED
    BY <1>1, <1>4, <1>5, <1>17, <2>1 DEF TakeSlot, Typed, Requests, Warehouses, Settled, Guarded, Names, Sweeping, Stored, Lost, Known, Unseen, LockFor, Ready, Bare, Absent, Inside, InSession, Admitted
<1>18. ASSUME NoSlot(t) PROVE Mine
  <2>1. req[t] \in Requests
    BY <1>1, <1>18, RequestOf DEF NoSlot
  <2>. QED
    BY <1>1, <1>4, <1>5, <1>18, <2>1 DEF NoSlot, Goto, Typed, Requests, Warehouses, Settled, Guarded, Names, Sweeping, Stored, Lost, Known, Unseen, LockFor, Ready, Bare, Absent, Inside, InSession, Admitted
<1>19. ASSUME TakeLock(t) PROVE Mine
  <2>1. req[t] \in Requests
    BY <1>1, <1>19, RequestOf DEF TakeLock
  <2>. QED
    BY <1>1, <1>4, <1>5, <1>19, <2>1 DEF TakeLock, Goto, Typed, Requests, Warehouses, Settled, Guarded, Names, Sweeping, Stored, Lost, Known, Unseen, LockFor, Ready, Bare, Absent, Inside, InSession, Admitted
<1>20. ASSUME TimeOut(t) PROVE Mine
  <2>1. req[t] \in Requests
    BY <1>1, <1>20, RequestOf DEF TimeOut
  <2>. QED
    BY <1>1, <1>4, <1>5, <1>20, <2>1, SMTT(40) DEF TimeOut, Goto, Typed, Requests, Warehouses, Settled, Guarded, Names, Sweeping, Stored, Lost, Known, Unseen, LockFor, Ready, Bare, Absent, Inside, InSession, Admitted
<1>21. ASSUME Open(t) PROVE Mine
  <2>1. req[t] \in Requests
    BY <1>1, <1>21, RequestOf DEF Open
  <2>. QED
    BY <1>1, <1>4, <1>5, <1>21, <2>1 DEF Open, Typed, Requests, Warehouses, Settled, Guarded, Names, Sweeping, Stored, Lost, Known, Unseen, LockFor, Ready, Bare, Absent, Inside, InSession, Admitted
<1>22. ASSUME Read(t) PROVE Mine
  <2>1. req[t] \in Requests
    BY <1>1, <1>22, RequestOf DEF Read
  <2>. QED
    BY <1>1, <1>4, <1>5, <1>22, <2>1 DEF Read, Goto, Typed, Requests, Warehouses, Settled, Guarded, Names, Sweeping, Stored, Lost, Known, Unseen, LockFor, Ready, Bare, Absent, Inside, InSession, Admitted
<1>23. ASSUME Change(t) PROVE Mine
  <2>1. req[t] \in Requests
    BY <1>1, <1>23, RequestOf DEF Change
  <2>. QED
    BY <1>1, <1>4, <1>5, <1>23, <2>1 DEF Change, Typed, Requests, Warehouses, Settled, Guarded, Names, Sweeping, Stored, Lost, Known, Unseen, LockFor, Ready, Bare, Absent, Inside, InSession, Admitted
<1>24. ASSUME Abort(t) PROVE Mine
  <2>1. req[t] \in Requests
    BY <1>1, <1>24, RequestOf DEF Abort
  <2>. QED
    BY <1>1, <1>4, <1>5, <1>24, <2>1 DEF Abort, Goto, Typed, Requests, Warehouses, Settled, Guarded, Names, Sweeping, Stored, Lost, Known, Unseen, LockFor, Ready, Bare, Absent, Inside, InSession, Admitted
<1>25. ASSUME Leave(t) PROVE Mine
  <2>1. req[t] \in Requests
    BY <1>1, <1>25, RequestOf DEF Leave
  <2>. QED
    BY <1>1, <1>4, <1>5, <1>25, <2>1 DEF Leave, Goto, Typed, Requests, Warehouses, Settled, Guarded, Names, Sweeping, Stored, Lost, Known, Unseen, LockFor, Ready, Bare, Absent, Inside, InSession, Admitted
<1>26. ASSUME Answer(t) PROVE Mine
  <2>1. req[t] \in Requests
    BY <1>1, <1>26, RequestOf DEF Answer
  <2>. QED
    BY <1>1, <1>4, <1>5, <1>26, <2>1 DEF Answer, Resting, Typed, Requests, Warehouses, Settled, Guarded, Names, Sweeping, Stored, Lost, Known, Unseen, LockFor, Ready, Bare, Absent, Inside, InSession, Admitted
<1>27. Mine
  BY <1>6, <1>7, <1>8, <1>9, <1>10, <1>11, <1>12, <1>13, <1>14, <1>15, <1>16, <1>17, <1>18, <1>19, <1>20, <1>21, <1>22, <1>23, <1>24, <1>25, <1>26 DEF Step
<1> HIDE DEF Mine
<1>28. ASSUME NEW sid \in SessionIds
      PROVE  /\ rows'[sid] \in {0, saved'[sid]}
             /\ saved'[sid] > clock' => file'[sid].kind = "ready"
  BY <1>5, <1>27 DEF Mine, Stored, Lost
<1>29. ASSUME NEW sid \in SessionIds, NEW u \in Threads, Lost(sid)', Inside(u, InSession)'
      PROVE  /\ Inside(u, {"sweep", "remove"})'
             /\ sid \in req'[u].expired \/ (Inside(u, {"remove"})' /\ sid = req'[u].victim)
  <2>1. CASE u = t
    BY <1>27, <1>29, <2>1 DEF Mine
  <2>2. CASE u # t
    BY <1>3, <1>27, <1>29, <2>2 DEF Mine, Stored, Inside
  <2>. QED
    BY <2>1, <2>2
<1>30. ASSUME NEW u \in Threads, Inside(u, {"register"})'
      PROVE  file'[req'[u].sid].kind = "ready"
  <2>1. CASE u = t
    BY <1>27, <1>30, <2>1 DEF Mine
  <2>2. CASE u # t
    <3>1. Inside(u, {"register"}) /\ req'[u] = req[u] /\ req[u].sid \in SessionIds
      BY <1>1, <1>3, <1>30, <2>2 DEF Inside, Settled
    <3>2. guard = u
      BY <1>1, <3>1 DEF Guarded, Inside, InSession
    <3>. QED
      BY <1>1, <1>27, <2>2, <3>1, <3>2 DEF Mine, Stored
  <2>. QED
    BY <2>1, <2>2
<1>. QED
  BY <1>28, <1>29, <1>30 DEF Stored

Kept == Safe /\ Stored

\* So does every step.
LEMMA KeptNext ==
    ASSUME Stall < Ttl
    PROVE  Kept /\ [Next]_vars => Kept'
<1> SUFFICES ASSUME Kept, [Next]_vars PROVE Kept'
  OBVIOUS
<1>1. Safe /\ Safe' /\ Stored /\ Typed
  BY SafeNext DEF Kept, Safe, Lasting, Resources, Basic
<1>2. ASSUME NEW t \in Threads, NEW b \in Browsers, Arrive(t, b) PROVE Stored'
  <2>1. /\ req'[t].pc = "enter" /\ UNCHANGED <<rows, saved, file, clock>>
        /\ \A u \in Threads : u # t => req'[u] = req[u]
    BY <1>1, <1>2 DEF Arrive, Typed
  <2>. QED
    BY <1>1, <2>1 DEF Stored, Lost, Inside, InSession
<1>3. ASSUME NEW t \in Threads, Step(t) PROVE Stored'
  BY <1>1, <1>3, StepStored
<1>4. ASSUME Tick PROVE Stored'
  <2>1. clock \in Nat /\ clock' = clock + 1 /\ \A sid \in SessionIds : saved[sid] \in Nat
    BY <1>1, <1>4, StoreAssumption DEF Tick, Typed
  <2>2. UNCHANGED <<req, rows, saved, file>>
    BY <1>4 DEF Tick
  <2>. QED
    BY <1>1, <2>1, <2>2 DEF Stored, Lost, Inside
<1>5. ASSUME Crash PROVE Stored'
  <2>1. \A t \in Threads : req'[t].pc = "idle"
    BY <1>1, <1>5, CrashBasic DEF Safe, Lasting, Resources
  <2>2. rows' = saved /\ UNCHANGED <<saved, file, clock>>
    BY <1>5 DEF Crash
  <2>. QED
    BY <1>1, <2>1, <2>2 DEF Stored, Lost, Inside, InSession
<1>6. ASSUME UNCHANGED vars PROVE Stored'
  BY <1>1, <1>6 DEF vars, Stored, Lost, Inside
<1>. QED
  BY <1>1, <1>2, <1>3, <1>4, <1>5, <1>6 DEF Next, Kept

\* So the warehouses are always kept.
LEMMA KeptAlways ==
    ASSUME Stall < Ttl
    PROVE  Spec => []Kept
<1>1. Init => Stored
  BY DEF Init, Stored, Lost, Inside, InSession, Resting
<1>2. Init => Safe
  BY SafeInit
<1>3. Kept /\ [Next]_vars => Kept'
  BY KeptNext
<1>. QED
  BY <1>1, <1>2, <1>3, PTL DEF Spec, Kept

\* For every number of threads and visitors, a visitor that has not expired
\* has an initialized warehouse, whatever crashes: the file is committed before the
\* row and removed only with a row that has expired.
THEOREM WarehousesAreThere ==
    ASSUME Stall < Ttl
    PROVE  Spec => []VisitorsHaveWarehouses
<1>1. Kept => VisitorsHaveWarehouses
  <2> SUFFICES ASSUME Kept, NEW sid \in SessionIds, rows[sid] > clock \/ saved[sid] > clock
               PROVE  file[sid].kind = "ready"
    BY DEF VisitorsHaveWarehouses
  <2>1. clock \in Nat /\ clock > 0 /\ rows[sid] \in Nat
    BY StoreAssumption DEF Kept, Safe, Lasting, Resources, Basic, Typed
  <2>. QED
    BY <2>1 DEF Kept, Stored
<1>2. Spec => []Kept
  BY KeptAlways
<1>. QED
  BY <1>1, <1>2, PTL

-----------------------------------------------------------------------------
(* Confirmed changes.                                                      *)

\* A request whose change is committed but not yet confirmed.
Owes(t, sid) == Inside(t, {"leave", "answer"}) /\ req[t].changed /\ req[t].sid = sid

Owing(sid) == {t \in Threads : Owes(t, sid)}

\* A warehouse holds the confirmed changes and those about to be, and a
\* transaction works on the latest of them.
Confirmed ==
    /\ \A sid \in SessionIds :
           file[sid].kind = "ready" => file[sid].changes >= acked[sid] + Cardinality(Owing(sid))
    /\ \A t \in Threads :
           /\ Inside(t, {"work"}) => req[t].read = file[req[t].sid]
           /\ Inside(t, {"initialize"}) => acked[req[t].sid] = 0

\* A step of a thread keeps confirmed changes.
LEMMA StepConfirmed ==
    ASSUME Stall < Ttl, Kept, Confirmed, NEW t \in Threads, Step(t)
    PROVE  Confirmed'
<1>1. Typed /\ Settled /\ Guarded /\ Typed' /\ Settled' /\ Guarded'
  BY StepBasic DEF Basic, Kept, Safe, Lasting, Resources
<1>2. PICK r \in Requests \cup {Resting} : req' = [req EXCEPT ![t] = r]
  BY StepMoves DEF Kept, Safe, Lasting, Resources
<1>3. req'[t] = r /\ \A u \in Threads : u # t => req'[u] = req[u]
  BY <1>1, <1>2 DEF Typed
<1>4. Safe /\ Lasting /\ Names /\ OneTransactionPerVisitor
  BY TakingTurns DEF Kept, Safe, Lasting, Resources
<1>5. \A sid \in SessionIds : acked[sid] \in Nat /\ file[sid].changes \in Nat
  BY <1>1 DEF Typed, Warehouses
<1> DEFINE Mine ==
             /\ \A sid \in SessionIds :
                    /\ \/ file'[sid].kind # "ready"
                       \/ /\ file'[sid] = file[sid] /\ acked'[sid] = acked[sid]
                          /\ Owes(t, sid)' <=> Owes(t, sid)
                       \/ /\ file[sid].kind = "ready" /\ file'[sid].changes = file[sid].changes + 1
                          /\ acked'[sid] = acked[sid] /\ ~ Owes(t, sid)
                       \/ /\ file'[sid] = file[sid] /\ acked'[sid] = acked[sid] + 1
                          /\ Owes(t, sid) /\ ~ Owes(t, sid)'
                       \/ /\ Inside(t, {"initialize"}) /\ req[t].sid = sid /\ acked'[sid] = 0
                          /\ ~ Owes(t, sid)' /\ file'[sid].changes = 0
                    /\ \/ acked'[sid] = acked[sid]
                       \/ Inside(t, {"sweep"})
                       \/ req[t].sid = sid /\ ~ Inside(t, {"idle"})
                    /\ \/ file'[sid] = file[sid]
                       \/ Inside(t, {"remove"}) /\ sid = req[t].victim
                       \/ \A u \in Threads : ~ Inside(u, {"idle"}) => req[u].sid # sid
                       \/ Inside(t, {"initialize"}) /\ req[t].sid = sid
                       \/ t \in Transactions /\ req[t].sid = sid
             /\ Inside(t, {"work"})' => req'[t].read = file'[req'[t].sid]
             /\ Inside(t, {"initialize"})' => acked'[req'[t].sid] = 0
<1>6. ASSUME NEW sid \in SessionIds, Spare(t, sid) PROVE Mine
  <2>1. req[t] \in Requests
    BY <1>1, <1>6, RequestOf DEF Spare
  <2>. QED
    BY <1>1, <1>4, <1>5, <1>6, <2>1 DEF Spare, Typed, Requests, Warehouses, Settled, Guarded, Owes, Confirmed, Unseen, Ready, Bare, Absent, Inside, Admitted, Transactions
<1>7. ASSUME NEW sid \in SessionIds, Doom(t, sid) PROVE Mine
  <2>1. req[t] \in Requests
    BY <1>1, <1>7, RequestOf DEF Doom
  <2>. QED
    BY <1>1, <1>4, <1>5, <1>7, <2>1 DEF Doom, Typed, Requests, Warehouses, Settled, Guarded, Owes, Confirmed, Unseen, Ready, Bare, Absent, Inside, Admitted, Transactions
<1>8. ASSUME NEW sid \in SessionIds, Create(t, sid) PROVE Mine
  <2>1. req[t] \in Requests
    BY <1>1, <1>8, RequestOf DEF Create, Swept
  <2>. QED
    BY <1>1, <1>4, <1>5, <1>8, <2>1 DEF Create, Swept, Typed, Requests, Warehouses, Settled, Guarded, Owes, Confirmed, Unseen, Ready, Bare, Absent, Inside, Admitted, Transactions
<1>9. ASSUME Enter(t) PROVE Mine
  <2>1. req[t] \in Requests
    BY <1>1, <1>9, RequestOf DEF Enter
  <2>. QED
    BY <1>1, <1>4, <1>5, <1>9, <2>1 DEF Enter, Typed, Requests, Warehouses, Settled, Guarded, Owes, Confirmed, Unseen, Ready, Bare, Absent, Inside, Admitted, Transactions
<1>10. ASSUME Remove(t) PROVE Mine
  <2>1. req[t] \in Requests
    BY <1>1, <1>10, RequestOf DEF Remove
  <2>. QED
    BY <1>1, <1>4, <1>5, <1>10, <2>1 DEF Remove, Goto, Typed, Requests, Warehouses, Settled, Guarded, Owes, Confirmed, Unseen, Ready, Bare, Absent, Inside, Admitted, Transactions
<1>11. ASSUME Renew(t) PROVE Mine
  <2>1. req[t] \in Requests
    BY <1>1, <1>11, RequestOf DEF Renew, Swept
  <2>. QED
    BY <1>1, <1>4, <1>5, <1>11, <2>1 DEF Renew, Registered, Swept, Known, Typed, Requests, Warehouses, Settled, Guarded, Owes, Confirmed, Unseen, Ready, Bare, Absent, Inside, Admitted, Transactions
<1>12. ASSUME Refuse(t) PROVE Mine
  <2>1. req[t] \in Requests
    BY <1>1, <1>12, RequestOf DEF Refuse, Swept
  <2>. QED
    BY <1>1, <1>4, <1>5, <1>12, <2>1 DEF Refuse, Dismissed, Swept, Typed, Requests, Warehouses, Settled, Guarded, Owes, Confirmed, Unseen, Ready, Bare, Absent, Inside, Admitted, Transactions
<1>13. ASSUME Initialize(t) PROVE Mine
  <2>1. req[t] \in Requests
    BY <1>1, <1>13, RequestOf DEF Initialize
  <2>. QED
    BY <1>1, <1>4, <1>5, <1>13, <2>1 DEF Initialize, Goto, Typed, Requests, Warehouses, Settled, Guarded, Owes, Confirmed, Unseen, Ready, Bare, Absent, Inside, Admitted, Transactions
<1>14. ASSUME InitializeFails(t) PROVE Mine
  <2>1. req[t] \in Requests
    BY <1>1, <1>14, RequestOf DEF InitializeFails
  <2>. QED
    BY <1>1, <1>4, <1>5, <1>14, <2>1 DEF InitializeFails, Dismissed, Typed, Requests, Warehouses, Settled, Guarded, Owes, Confirmed, Unseen, Ready, Bare, Absent, Inside, Admitted, Transactions
<1>15. ASSUME Register(t) PROVE Mine
  <2>1. req[t] \in Requests
    BY <1>1, <1>15, RequestOf DEF Register
  <2>. QED
    BY <1>1, <1>4, <1>5, <1>15, <2>1 DEF Register, Registered, Typed, Requests, Warehouses, Settled, Guarded, Owes, Confirmed, Unseen, Ready, Bare, Absent, Inside, Admitted, Transactions
<1>16. ASSUME RegisterFails(t) PROVE Mine
  <2>1. req[t] \in Requests
    BY <1>1, <1>16, RequestOf DEF RegisterFails
  <2>. QED
    BY <1>1, <1>4, <1>5, <1>16, <2>1 DEF RegisterFails, Dismissed, Typed, Requests, Warehouses, Settled, Guarded, Owes, Confirmed, Unseen, Ready, Bare, Absent, Inside, Admitted, Transactions
<1>17. ASSUME TakeSlot(t) PROVE Mine
  <2>1. req[t] \in Requests
    BY <1>1, <1>17, RequestOf DEF TakeSlot
  <2>. QED
    BY <1>1, <1>4, <1>5, <1>17, <2>1 DEF TakeSlot, Typed, Requests, Warehouses, Settled, Guarded, Owes, Confirmed, Unseen, Ready, Bare, Absent, Inside, Admitted, Transactions
<1>18. ASSUME NoSlot(t) PROVE Mine
  <2>1. req[t] \in Requests
    BY <1>1, <1>18, RequestOf DEF NoSlot
  <2>. QED
    BY <1>1, <1>4, <1>5, <1>18, <2>1 DEF NoSlot, Goto, Typed, Requests, Warehouses, Settled, Guarded, Owes, Confirmed, Unseen, Ready, Bare, Absent, Inside, Admitted, Transactions
<1>19. ASSUME TakeLock(t) PROVE Mine
  <2>1. req[t] \in Requests
    BY <1>1, <1>19, RequestOf DEF TakeLock
  <2>. QED
    BY <1>1, <1>4, <1>5, <1>19, <2>1 DEF TakeLock, Goto, Typed, Requests, Warehouses, Settled, Guarded, Owes, Confirmed, Unseen, Ready, Bare, Absent, Inside, Admitted, Transactions
<1>20. ASSUME TimeOut(t) PROVE Mine
  <2>1. req[t] \in Requests
    BY <1>1, <1>20, RequestOf DEF TimeOut
  <2>. QED
    BY <1>1, <1>4, <1>5, <1>20, <2>1 DEF TimeOut, Goto, Typed, Requests, Warehouses, Settled, Guarded, Owes, Confirmed, Unseen, Ready, Bare, Absent, Inside, Admitted, Transactions
<1>21. ASSUME Open(t) PROVE Mine
  <2>1. req[t] \in Requests
    BY <1>1, <1>21, RequestOf DEF Open
  <2>. QED
    BY <1>1, <1>4, <1>5, <1>21, <2>1 DEF Open, Typed, Requests, Warehouses, Settled, Guarded, Owes, Confirmed, Unseen, Ready, Bare, Absent, Inside, Admitted, Transactions
<1>22. ASSUME Read(t) PROVE Mine
  <2>1. req[t] \in Requests
    BY <1>1, <1>22, RequestOf DEF Read
  <2>. QED
    BY <1>1, <1>4, <1>5, <1>22, <2>1 DEF Read, Goto, Typed, Requests, Warehouses, Settled, Guarded, Owes, Confirmed, Unseen, Ready, Bare, Absent, Inside, Admitted, Transactions
<1>23. ASSUME Change(t) PROVE Mine
  <2>1. req[t] \in Requests
    BY <1>1, <1>23, RequestOf DEF Change
  <2>. QED
    BY <1>1, <1>4, <1>5, <1>23, <2>1 DEF Change, Typed, Requests, Warehouses, Settled, Guarded, Owes, Confirmed, Unseen, Ready, Bare, Absent, Inside, Admitted, Transactions
<1>24. ASSUME Abort(t) PROVE Mine
  <2>1. req[t] \in Requests
    BY <1>1, <1>24, RequestOf DEF Abort
  <2>. QED
    BY <1>1, <1>4, <1>5, <1>24, <2>1 DEF Abort, Goto, Typed, Requests, Warehouses, Settled, Guarded, Owes, Confirmed, Unseen, Ready, Bare, Absent, Inside, Admitted, Transactions
<1>25. ASSUME Leave(t) PROVE Mine
  <2>1. req[t] \in Requests
    BY <1>1, <1>25, RequestOf DEF Leave
  <2>. QED
    BY <1>1, <1>4, <1>5, <1>25, <2>1 DEF Leave, Goto, Typed, Requests, Warehouses, Settled, Guarded, Owes, Confirmed, Unseen, Ready, Bare, Absent, Inside, Admitted, Transactions
<1>26. ASSUME Answer(t) PROVE Mine
  <2>1. req[t] \in Requests
    BY <1>1, <1>26, RequestOf DEF Answer
  <2>. QED
    BY <1>1, <1>4, <1>5, <1>26, <2>1 DEF Answer, Resting, Typed, Requests, Warehouses, Settled, Guarded, Owes, Confirmed, Unseen, Ready, Bare, Absent, Inside, Admitted, Transactions
<1>27. Mine
  BY <1>6, <1>7, <1>8, <1>9, <1>10, <1>11, <1>12, <1>13, <1>14, <1>15, <1>16, <1>17, <1>18, <1>19, <1>20, <1>21, <1>22, <1>23, <1>24, <1>25, <1>26 DEF Step
<1> HIDE DEF Mine
<1>28. ASSUME NEW sid \in SessionIds, file'[sid].kind = "ready"
      PROVE  file'[sid].changes >= acked'[sid] + Cardinality(Owing(sid)')
  <2>1. IsFiniteSet(Owing(sid)) /\ IsFiniteSet(Owing(sid)')
    BY FS_Subset, StoreAssumption DEF Owing
  <2>2. Cardinality(Owing(sid)) \in Nat /\ Cardinality(Owing(sid)') \in Nat
    BY <2>1, FS_CardinalityType
  <2>3. \A u \in Threads \ {t} : Owes(u, sid)' <=> Owes(u, sid)
    BY <1>3 DEF Owes, Inside
  <2>4. file[sid].kind = "ready" => file[sid].changes >= acked[sid] + Cardinality(Owing(sid))
    BY DEF Confirmed
  <2>5. CASE file'[sid] = file[sid] /\ acked'[sid] = acked[sid] /\ (Owes(t, sid)' <=> Owes(t, sid))
    <3>1. Owing(sid)' = Owing(sid)
      BY <2>3, <2>5 DEF Owing
    <3>. QED
      BY <1>28, <2>4, <2>5, <3>1
  <2>6. CASE /\ file[sid].kind = "ready" /\ file'[sid].changes = file[sid].changes + 1
             /\ acked'[sid] = acked[sid] /\ ~ Owes(t, sid)
    <3>1. Owing(sid)' \subseteq Owing(sid) \cup {t}
      BY <2>3 DEF Owing
    <3>2. Cardinality(Owing(sid)') <= Cardinality(Owing(sid)) + 1
      BY <2>1, <3>1, OneMore
    <3>. QED
      BY <1>5, <2>2, <2>4, <2>6, <3>2
  <2>7. CASE /\ file'[sid] = file[sid] /\ acked'[sid] = acked[sid] + 1
             /\ Owes(t, sid) /\ ~ Owes(t, sid)'
    <3>1. Owing(sid)' = Owing(sid) \ {t} /\ t \in Owing(sid)
      BY <2>3, <2>7 DEF Owing
    <3>2. Cardinality(Owing(sid)') = Cardinality(Owing(sid)) - 1
      BY <2>1, <3>1, FS_RemoveElement
    <3>. QED
      BY <1>28, <1>5, <2>2, <2>4, <2>7, <3>2
  <2>8. CASE /\ Inside(t, {"initialize"}) /\ req[t].sid = sid /\ acked'[sid] = 0
             /\ ~ Owes(t, sid)' /\ file'[sid].changes = 0
    <3>1. \A u \in Threads \ {t} : ~ Owes(u, sid)
      BY <1>4, <2>8 DEF Names, Owes, Inside
    <3>2. Owing(sid)' = {}
      BY <2>3, <2>8, <3>1 DEF Owing
    <3>. QED
      BY <2>8, <3>2, FS_EmptySet
  <2>. QED
    BY <1>27, <1>28, <2>5, <2>6, <2>7, <2>8 DEF Mine
<1>29. ASSUME NEW u \in Threads, Inside(u, {"work"})'
      PROVE  req'[u].read = file'[req'[u].sid]
  <2>1. CASE u = t
    BY <1>27, <1>29, <2>1 DEF Mine
  <2>2. CASE u # t
    <3>1. /\ Inside(u, {"work"}) /\ req'[u] = req[u] /\ req[u].sid \in SessionIds
          /\ u \in Transactions /\ Inside(u, Admitted) /\ ~ Inside(u, {"idle"})
      BY <1>1, <1>3, <1>29, <2>2 DEF Inside, Settled, Admitted, Transactions
    <3>2. ~ (Inside(t, {"remove"}) /\ req[u].sid = req[t].victim)
      BY <1>4, <3>1, NotSwept DEF Safe, Inside
    <3>3. ~ (Inside(t, {"initialize"}) /\ req[t].sid = req[u].sid)
      BY <1>4, <2>2, <3>1 DEF Names, Inside
    <3>4. ~ (t \in Transactions /\ req[t].sid = req[u].sid)
      BY <1>4, <2>2, <3>1 DEF OneTransactionPerVisitor
    <3>5. file'[req[u].sid] = file[req[u].sid]
      BY <1>27, <3>1, <3>2, <3>3, <3>4 DEF Mine
    <3>. QED
      BY <3>1, <3>5 DEF Confirmed
  <2>. QED
    BY <2>1, <2>2
<1>30. ASSUME NEW u \in Threads, Inside(u, {"initialize"})'
      PROVE  acked'[req'[u].sid] = 0
  <2>1. CASE u = t
    BY <1>27, <1>30, <2>1 DEF Mine
  <2>2. CASE u # t
    <3>1. Inside(u, {"initialize"}) /\ req'[u] = req[u] /\ req[u].sid \in SessionIds
      BY <1>1, <1>3, <1>30, <2>2 DEF Inside, Settled
    <3>2. ~ Inside(t, {"sweep"})
      BY <1>1, <2>2, <3>1 DEF Guarded, Inside, InSession
    <3>3. ~ (req[t].sid = req[u].sid /\ ~ Inside(t, {"idle"}))
      BY <1>4, <2>2, <3>1 DEF Names, Inside
    <3>. QED
      BY <1>27, <3>1, <3>2, <3>3 DEF Mine, Confirmed
  <2>. QED
    BY <2>1, <2>2
<1>. QED
  BY <1>28, <1>29, <1>30 DEF Confirmed, Inside

\* Every step keeps what a warehouse holds ahead of what was confirmed.
LEMMA ConfirmedNext ==
    ASSUME Stall < Ttl
    PROVE  Kept /\ Confirmed /\ [Next]_vars => Confirmed'
<1> SUFFICES ASSUME Kept, Confirmed, [Next]_vars PROVE Confirmed'
  OBVIOUS
<1>1. Typed /\ Basic
  BY DEF Kept, Safe, Lasting, Resources, Basic
<1>2. ASSUME NEW t \in Threads, NEW b \in Browsers, Arrive(t, b) PROVE Confirmed'
  <2>1. /\ req[t].pc = "idle" /\ req'[t].pc = "enter" /\ UNCHANGED <<acked, file>>
        /\ \A u \in Threads : u # t => req'[u] = req[u]
    BY <1>1, <1>2 DEF Arrive, Typed, Resting
  <2>2. \A sid \in SessionIds : Owing(sid)' = Owing(sid)
    BY <2>1 DEF Owing, Owes, Inside
  <2>. QED
    BY <2>1, <2>2 DEF Confirmed, Inside
<1>3. ASSUME NEW t \in Threads, Step(t) PROVE Confirmed'
  BY <1>3, StepConfirmed
<1>4. CASE Crash
  <2>1. \A t \in Threads : req'[t].pc = "idle"
    BY <1>1, <1>4, CrashBasic
  <2>2. UNCHANGED <<acked, file>>
    BY <1>4 DEF Crash
  <2>3. ASSUME NEW sid \in SessionIds, file[sid].kind = "ready"
        PROVE  file[sid].changes >= acked[sid] + Cardinality(Owing(sid)')
    <3>1. Owing(sid)' = {}
      BY <2>1 DEF Owing, Owes, Inside
    <3>2. IsFiniteSet(Owing(sid))
      BY FS_Subset, StoreAssumption DEF Owing
    <3>3. Cardinality(Owing(sid)) \in Nat /\ Cardinality(Owing(sid)') = 0
      BY <3>1, <3>2, FS_CardinalityType, FS_EmptySet
    <3>4. acked[sid] \in Nat /\ file[sid].changes \in Nat
      BY <1>1 DEF Typed, Warehouses
    <3>. QED
      BY <2>3, <3>3, <3>4 DEF Confirmed
  <2>. QED
    BY <2>1, <2>2, <2>3 DEF Confirmed, Inside
<1>5. CASE Tick \/ UNCHANGED vars
  <2>1. UNCHANGED <<req, acked, file>>
    BY <1>5 DEF Tick, vars
  <2>. QED
    BY <2>1 DEF Confirmed, Owing, Owes, Inside
<1>. QED
  BY <1>2, <1>3, <1>4, <1>5 DEF Next

\* While a visitor has not expired, its warehouse holds every change an answer
\* has confirmed: no crash, no sweep and no request beside it loses one.
THEOREM ConfirmedChangesAreKept ==
    ASSUME Stall < Ttl
    PROVE  Spec => []ConfirmedChangesStay
<1>1. Init => Confirmed
  BY DEF Init, Confirmed, Inside, Resting, Absent
<1>2. Kept /\ Confirmed /\ [Next]_vars => Confirmed'
  BY ConfirmedNext
<1>3. Spec => []Kept
  BY KeptAlways
<1>4. Kept /\ Confirmed => ConfirmedChangesStay
  <2> SUFFICES ASSUME Kept, Confirmed, NEW sid \in SessionIds, rows[sid] > clock
               PROVE  file[sid].changes >= acked[sid]
    BY DEF ConfirmedChangesStay
  <2>1. /\ clock \in Nat /\ clock > 0 /\ rows[sid] \in Nat
        /\ acked[sid] \in Nat /\ file[sid].changes \in Nat
    BY StoreAssumption DEF Kept, Safe, Lasting, Resources, Basic, Typed, Warehouses
  <2>2. file[sid].kind = "ready"
    BY <2>1 DEF Kept, Stored
  <2>3. Cardinality(Owing(sid)) \in Nat
    BY FS_Subset, FS_CardinalityType, StoreAssumption DEF Owing
  <2>. QED
    BY <2>1, <2>2, <2>3 DEF Confirmed
<1>. QED
  BY <1>1, <1>2, <1>3, <1>4, PTL DEF Spec

-----------------------------------------------------------------------------
(* Files without a visitor.                                                *)

\* A step of a thread leaves a file behind only by a failed index write.
LEMMA StepOrphans ==
    ASSUME Kept, NEW t \in Threads, Step(t)
    PROVE  \/ Orphans' \subseteq Orphans /\ mishaps' = mishaps
           \/ Orphans' \subseteq Orphans \cup {req[t].sid} /\ mishaps' = mishaps + 1
<1>1. Typed /\ Settled /\ Guarded /\ Typed' /\ Settled' /\ Guarded'
  BY StepBasic DEF Basic, Kept, Safe, Lasting, Resources
<1>2. PICK r \in Requests \cup {Resting} : req' = [req EXCEPT ![t] = r]
  BY StepMoves DEF Kept, Safe, Lasting, Resources
<1>3. req'[t] = r /\ \A u \in Threads : u # t => req'[u] = req[u]
  BY <1>1, <1>2 DEF Typed
<1>4. /\ \A sid \in SessionIds : rows[sid] \in Nat
      /\ ~ Inside(t, {"idle"}) => req[t].now \in Nat
      /\ Ttl \in Nat /\ Ttl > 0
  BY <1>1, RequestOf, StoreAssumption DEF Typed, Requests, Inside
<1>5. Inside(t, Admitted) => rows[req[t].sid] # 0
  BY <1>1, <1>4, StoreAssumption DEF Kept, Safe, Extended, Settled, Inside, Admitted
<1> DEFINE Mine ==
             /\ mishaps' \in {mishaps, mishaps + 1}
             /\ \A sid \in SessionIds :
                    \/ file'[sid] = Absent
                    \/ rows'[sid] # 0
                    \/ Inside(t, {"initialize", "register"})' /\ req'[t].sid = sid
                    \/ /\ file[sid] # Absent /\ rows[sid] = 0
                       /\ ~ (Inside(t, {"initialize", "register"}) /\ req[t].sid = sid)
                    \/ mishaps' = mishaps + 1 /\ sid = req[t].sid
<1>6. ASSUME NEW sid \in SessionIds, Spare(t, sid) PROVE Mine
  <2>1. req[t] \in Requests
    BY <1>1, <1>6, RequestOf DEF Spare
  <2>. QED
    BY <1>1, <1>4, <1>5, <1>6, <2>1 DEF Spare, Typed, Requests, Settled, Known, Ready, Bare, Absent, Inside, Admitted
<1>7. ASSUME NEW sid \in SessionIds, Doom(t, sid) PROVE Mine
  <2>1. req[t] \in Requests
    BY <1>1, <1>7, RequestOf DEF Doom
  <2>. QED
    BY <1>1, <1>4, <1>5, <1>7, <2>1 DEF Doom, Typed, Requests, Settled, Known, Ready, Bare, Absent, Inside, Admitted
<1>8. ASSUME NEW sid \in SessionIds, Create(t, sid) PROVE Mine
  <2>1. req[t] \in Requests
    BY <1>1, <1>8, RequestOf DEF Create, Swept
  <2>. QED
    BY <1>1, <1>4, <1>5, <1>8, <2>1 DEF Create, Swept, Typed, Requests, Settled, Known, Ready, Bare, Absent, Inside, Admitted
<1>9. ASSUME Enter(t) PROVE Mine
  <2>1. req[t] \in Requests
    BY <1>1, <1>9, RequestOf DEF Enter
  <2>. QED
    BY <1>1, <1>4, <1>5, <1>9, <2>1 DEF Enter, Typed, Requests, Settled, Known, Ready, Bare, Absent, Inside, Admitted
<1>10. ASSUME Remove(t) PROVE Mine
  <2>1. req[t] \in Requests
    BY <1>1, <1>10, RequestOf DEF Remove
  <2>. QED
    BY <1>1, <1>4, <1>5, <1>10, <2>1 DEF Remove, Goto, Typed, Requests, Settled, Known, Ready, Bare, Absent, Inside, Admitted
<1>11. ASSUME Renew(t) PROVE Mine
  <2>1. req[t] \in Requests
    BY <1>1, <1>11, RequestOf DEF Renew, Swept
  <2>. QED
    BY <1>1, <1>4, <1>5, <1>11, <2>1 DEF Renew, Registered, Swept, Known, Typed, Requests, Settled, Ready, Bare, Absent, Inside, Admitted
<1>12. ASSUME Refuse(t) PROVE Mine
  <2>1. req[t] \in Requests
    BY <1>1, <1>12, RequestOf DEF Refuse, Swept
  <2>. QED
    BY <1>1, <1>4, <1>5, <1>12, <2>1 DEF Refuse, Dismissed, Swept, Typed, Requests, Settled, Known, Ready, Bare, Absent, Inside, Admitted
<1>13. ASSUME Initialize(t) PROVE Mine
  <2>1. req[t] \in Requests
    BY <1>1, <1>13, RequestOf DEF Initialize
  <2>. QED
    BY <1>1, <1>4, <1>5, <1>13, <2>1 DEF Initialize, Goto, Typed, Requests, Settled, Known, Ready, Bare, Absent, Inside, Admitted
<1>14. ASSUME InitializeFails(t) PROVE Mine
  <2>1. req[t] \in Requests
    BY <1>1, <1>14, RequestOf DEF InitializeFails
  <2>. QED
    BY <1>1, <1>4, <1>5, <1>14, <2>1 DEF InitializeFails, Dismissed, Typed, Requests, Settled, Known, Ready, Bare, Absent, Inside, Admitted
<1>15. ASSUME Register(t) PROVE Mine
  <2>1. req[t] \in Requests
    BY <1>1, <1>15, RequestOf DEF Register
  <2>. QED
    BY <1>1, <1>4, <1>5, <1>15, <2>1 DEF Register, Registered, Typed, Requests, Settled, Known, Ready, Bare, Absent, Inside, Admitted
<1>16. ASSUME RegisterFails(t) PROVE Mine
  <2>1. req[t] \in Requests
    BY <1>1, <1>16, RequestOf DEF RegisterFails
  <2>. QED
    BY <1>1, <1>4, <1>5, <1>16, <2>1 DEF RegisterFails, Dismissed, Typed, Requests, Settled, Known, Ready, Bare, Absent, Inside, Admitted
<1>17. ASSUME TakeSlot(t) PROVE Mine
  <2>1. req[t] \in Requests
    BY <1>1, <1>17, RequestOf DEF TakeSlot
  <2>. QED
    BY <1>1, <1>4, <1>5, <1>17, <2>1 DEF TakeSlot, Typed, Requests, Settled, Known, Ready, Bare, Absent, Inside, Admitted
<1>18. ASSUME NoSlot(t) PROVE Mine
  <2>1. req[t] \in Requests
    BY <1>1, <1>18, RequestOf DEF NoSlot
  <2>. QED
    BY <1>1, <1>4, <1>5, <1>18, <2>1 DEF NoSlot, Goto, Typed, Requests, Settled, Known, Ready, Bare, Absent, Inside, Admitted
<1>19. ASSUME TakeLock(t) PROVE Mine
  <2>1. req[t] \in Requests
    BY <1>1, <1>19, RequestOf DEF TakeLock
  <2>. QED
    BY <1>1, <1>4, <1>5, <1>19, <2>1 DEF TakeLock, Goto, Typed, Requests, Settled, Known, Ready, Bare, Absent, Inside, Admitted
<1>20. ASSUME TimeOut(t) PROVE Mine
  <2>1. req[t] \in Requests
    BY <1>1, <1>20, RequestOf DEF TimeOut
  <2>. QED
    BY <1>1, <1>4, <1>5, <1>20, <2>1 DEF TimeOut, Goto, Typed, Requests, Settled, Known, Ready, Bare, Absent, Inside, Admitted
<1>21. ASSUME Open(t) PROVE Mine
  <2>1. req[t] \in Requests
    BY <1>1, <1>21, RequestOf DEF Open
  <2>. QED
    BY <1>1, <1>4, <1>5, <1>21, <2>1 DEF Open, Typed, Requests, Settled, Known, Ready, Bare, Absent, Inside, Admitted
<1>22. ASSUME Read(t) PROVE Mine
  <2>1. req[t] \in Requests
    BY <1>1, <1>22, RequestOf DEF Read
  <2>. QED
    BY <1>1, <1>4, <1>5, <1>22, <2>1 DEF Read, Goto, Typed, Requests, Settled, Known, Ready, Bare, Absent, Inside, Admitted
<1>23. ASSUME Change(t) PROVE Mine
  <2>1. req[t] \in Requests
    BY <1>1, <1>23, RequestOf DEF Change
  <2>. QED
    BY <1>1, <1>4, <1>5, <1>23, <2>1 DEF Change, Typed, Requests, Settled, Known, Ready, Bare, Absent, Inside, Admitted
<1>24. ASSUME Abort(t) PROVE Mine
  <2>1. req[t] \in Requests
    BY <1>1, <1>24, RequestOf DEF Abort
  <2>. QED
    BY <1>1, <1>4, <1>5, <1>24, <2>1 DEF Abort, Goto, Typed, Requests, Settled, Known, Ready, Bare, Absent, Inside, Admitted
<1>25. ASSUME Leave(t) PROVE Mine
  <2>1. req[t] \in Requests
    BY <1>1, <1>25, RequestOf DEF Leave
  <2>. QED
    BY <1>1, <1>4, <1>5, <1>25, <2>1 DEF Leave, Goto, Typed, Requests, Settled, Known, Ready, Bare, Absent, Inside, Admitted
<1>26. ASSUME Answer(t) PROVE Mine
  <2>1. req[t] \in Requests
    BY <1>1, <1>26, RequestOf DEF Answer
  <2>. QED
    BY <1>1, <1>4, <1>5, <1>26, <2>1 DEF Answer, Resting, Typed, Requests, Settled, Known, Ready, Bare, Absent, Inside, Admitted
<1>27. Mine
  BY <1>6, <1>7, <1>8, <1>9, <1>10, <1>11, <1>12, <1>13, <1>14, <1>15, <1>16, <1>17, <1>18, <1>19, <1>20, <1>21, <1>22, <1>23, <1>24, <1>25, <1>26 DEF Step
<1> HIDE DEF Mine
<1>28. ASSUME NEW sid \in Orphans'
      PROVE  sid \in Orphans \/ (mishaps' = mishaps + 1 /\ sid = req[t].sid)
  <2>1. /\ sid \in SessionIds /\ file'[sid] # Absent /\ rows'[sid] = 0
        /\ \A u \in Threads : Inside(u, {"initialize", "register"})' => req'[u].sid # sid
    BY DEF Orphans
  <2>2. \A u \in Threads \ {t} : Inside(u, {"initialize", "register"}) => req[u].sid # sid
    BY <1>3, <2>1 DEF Inside
  <2>. QED
    BY <1>27, <2>1, <2>2 DEF Mine, Orphans
<1>. QED
  BY <1>27, <1>28 DEF Mine

\* A crash leaves behind at most the file of the visitor being set up.
LEMMA CrashOrphans ==
    ASSUME Kept, Crash
    PROVE  \E x : Orphans' \subseteq Orphans \cup {x} /\ mishaps' = mishaps + 1
<1>1. Typed /\ Guarded /\ Stored
  BY DEF Kept, Safe, Lasting, Resources, Basic
<1>2. rows' = saved /\ file' = file /\ mishaps' = mishaps + 1
  BY DEF Crash
<1>3. ASSUME NEW sid \in Orphans' PROVE sid \in Orphans \cup {req[guard].sid}
  <2>1. sid \in SessionIds /\ file[sid] # Absent /\ rows[sid] = 0
    BY <1>1, <1>2 DEF Orphans, Stored
  <2>2. \A t \in Threads : Inside(t, {"initialize", "register"}) => t = guard
    BY <1>1 DEF Guarded, Inside, InSession
  <2>. QED
    BY <2>1, <2>2 DEF Orphans
<1>. QED
  BY <1>2, <1>3

\* No more files lose their visitor than there were crashes and failed index
\* writes.
THEOREM OrphansAreCounted ==
    ASSUME Stall < Ttl
    PROVE  Spec => []OrphansComeFromMishaps
<1>1. Init => OrphansComeFromMishaps
  <2> SUFFICES ASSUME Init PROVE OrphansComeFromMishaps
    OBVIOUS
  <2>1. Orphans = {} /\ mishaps = 0
    BY DEF Init, Orphans
  <2>. QED
    BY <2>1, FS_EmptySet DEF OrphansComeFromMishaps
<1>2. Kept /\ OrphansComeFromMishaps /\ [Next]_vars => OrphansComeFromMishaps'
  <2> SUFFICES ASSUME Kept, OrphansComeFromMishaps, [Next]_vars PROVE OrphansComeFromMishaps'
    OBVIOUS
  <2>1. Typed /\ mishaps \in Nat /\ IsFiniteSet(Orphans)
    BY FS_Subset, StoreAssumption DEF Orphans, Kept, Safe, Lasting, Resources, Basic, Typed
  <2>2. Cardinality(Orphans) \in Nat /\ Cardinality(Orphans) <= mishaps
    BY <2>1, FS_CardinalityType DEF OrphansComeFromMishaps
  <2>3. ASSUME Orphans' \subseteq Orphans, mishaps' = mishaps PROVE OrphansComeFromMishaps'
    <3>1. Cardinality(Orphans') <= Cardinality(Orphans) /\ Cardinality(Orphans') \in Nat
      BY <2>1, <2>3, FS_Subset, FS_CardinalityType
    <3>. QED
      BY <2>1, <2>2, <2>3, <3>1 DEF OrphansComeFromMishaps
  <2>4. ASSUME NEW x, Orphans' \subseteq Orphans \cup {x}, mishaps' = mishaps + 1
        PROVE  OrphansComeFromMishaps'
    <3>1. Cardinality(Orphans') <= Cardinality(Orphans) + 1
      BY <2>1, <2>4, OneMore
    <3>2. IsFiniteSet(Orphans')
      BY FS_Subset, StoreAssumption DEF Orphans
    <3>3. Cardinality(Orphans') \in Nat
      BY <3>2, FS_CardinalityType
    <3>. QED
      BY <2>1, <2>2, <2>4, <3>1, <3>3 DEF OrphansComeFromMishaps
  <2>5. CASE \E t \in Threads, b \in Browsers : Arrive(t, b)
    <3>1. PICK t \in Threads, b \in Browsers : Arrive(t, b)
      BY <2>5
    <3>2. /\ UNCHANGED <<file, rows, mishaps>> /\ req[t].pc = "idle" /\ req'[t].pc = "enter"
          /\ \A u \in Threads : u # t => req'[u] = req[u]
      BY <2>1, <3>1 DEF Arrive, Typed, Resting
    <3>3. Orphans' = Orphans
      BY <3>2 DEF Orphans, Inside
    <3>. QED
      BY <2>3, <3>2, <3>3
  <2>6. CASE \E t \in Threads : Step(t)
    BY <2>3, <2>4, <2>6, StepOrphans
  <2>7. CASE Crash
    BY <2>4, <2>7, CrashOrphans
  <2>8. CASE Tick \/ UNCHANGED vars
    <3>1. Orphans' = Orphans /\ mishaps' = mishaps
      BY <2>8 DEF Tick, vars, Orphans, Inside
    <3>. QED
      BY <2>3, <3>1
  <2>. QED
    BY <2>5, <2>6, <2>7, <2>8 DEF Next
<1>3. Spec => []Kept
  BY KeptAlways
<1>. QED
  BY <1>1, <1>2, <1>3, PTL DEF Spec
=============================================================================
