--------------------------- MODULE MigrateProofs ---------------------------
(***************************************************************************)
(* Proofs about Migrate for every number of processes, callers, sessions   *)
(* and releases and every choice of Env. The argument is the inductive     *)
(* invariant IInv of Migrate, one lemma for each of its conjuncts.         *)
(***************************************************************************)
EXTENDS Migrate, TLAPS

\* A migration of the release a call was given makes a row of the ledger.
LEMMA RowType ==
    ASSUME TypeOK, NEW r \in Runs, NEW j \in DOMAIN release[r]
    PROVE  RowFor(r, release[r][j]) \in Row
<1>1. release[r] \in Seq(Migrations)
    BY DEF TypeOK
<1>2. release[r][j] \in Migrations
    BY <1>1
<1>3. QED
    BY <1>2, ConstantsOK DEF RowFor, Row, Migrations

\* The row of the migration that an open transaction is about is well typed.
LEMMA CurrentType ==
    ASSUME TypeOK, TxInv, NEW r \in Runs, pc[r] \in InTx
    PROVE  Current(r) \in Row
<1>1. release[r] \in Seq(Migrations) /\ next[r] \in Nat \ {0}
    BY DEF TypeOK
<1>2. next[r] <= Len(release[r])
    BY Zenon DEF TxInv
<1>3. next[r] \in DOMAIN release[r]
    BY <1>1, <1>2
<1>4. QED
    BY <1>3, RowType DEF Current

\* Before its SQL has run, and once it is over, a transaction has no writes.
LEMMA NothingWritten ==
    ASSUME TxInv, NEW r \in Runs, pc[r] \notin {"insert", "commit"}
    PROVE  tx[r].sql = {} /\ tx[r].rows = {}
BY DEF TxInv

\* reconcile returns nil, ErrUnknownMigration or ErrDrift.
LEMMA VerdictType ==
    ASSUME NEW ms, NEW rows
    PROVE  Verdict(ms, rows) \in {"ok", "unknown", "drift"}
BY Zenon DEF Verdict

\* A transaction keeps the invariant if every call stays where it is, or is at
\* a place where nothing has been written and has written nothing.
LEMMA TxFrame ==
    ASSUME TxInv, TypeOK,
           \A q \in Runs :
              \/ /\ tx'[q] = tx[q] /\ pc'[q] = pc[q]
                 /\ next'[q] = next[q] /\ release'[q] = release[q]
              \/ /\ tx'[q].sql = {} /\ tx'[q].rows = {}
                 /\ pc'[q] \notin {"insert", "commit"}
                 /\ pc'[q] = "exec" => next'[q] <= Len(release'[q])
    PROVE  TxInv'
<1>1. ASSUME NEW q \in Runs
      PROVE  /\ pc'[q] \in InTx => next'[q] <= Len(release'[q])
             /\ tx'[q].sql = IF pc'[q] \in {"insert", "commit"} THEN {Current(q)'} ELSE {}
             /\ tx'[q].rows = IF pc'[q] = "commit" THEN {Current(q)'} ELSE {}
             /\ tx'[q].rows \subseteq tx[q].rows
    <2>1. CASE /\ tx'[q] = tx[q] /\ pc'[q] = pc[q]
               /\ next'[q] = next[q] /\ release'[q] = release[q]
        <3>1. Current(q)' = Current(q)
            BY <2>1 DEF Current, RowFor
        <3>2. QED
            BY <2>1, <3>1 DEF TxInv
    <2>2. CASE /\ tx'[q].sql = {} /\ tx'[q].rows = {}
               /\ pc'[q] \notin {"insert", "commit"}
               /\ pc'[q] = "exec" => next'[q] <= Len(release'[q])
        BY <2>2 DEF InTx
    <2>3. QED
        BY <2>1, <2>2
<1>2. \A r, q \in Runs : r # q =>
        \A x \in tx'[r].rows, y \in tx'[q].rows : ~SameKey(x, y)
    BY <1>1 DEF TxInv
<1>3. QED
    BY <1>1, <1>2 DEF TxInv

\* A step keeps every variable in its type.
LEMMA TypeStep == IInv /\ [Next]_vars => TypeOK'
<1> SUFFICES ASSUME IInv, [Next]_vars PROVE TypeOK'
    OBVIOUS
<1> USE ConstantsOK DEF vars, callVars, lockVars, dbVars, IInv, TypeOK, Places, Locked, InTx, Results, Unlocked, NoTx
<1>1. ASSUME NEW r \in Runs, Call(r) PROVE TypeOK'
    BY <1>1 DEF Call, Goto, Active
<1>2. ASSUME NEW r \in Runs, LockMutex(r) PROVE TypeOK'
    BY <1>2 DEF LockMutex, Goto
<1>3. ASSUME NEW r \in Runs, TakeConn(r) PROVE TypeOK'
    BY <1>3 DEF TakeConn, Goto, Runnable
<1>4. ASSUME NEW r \in Runs, AcquireLock(r) PROVE TypeOK'
    BY <1>4 DEF AcquireLock, Goto, Runnable
<1>5. ASSUME NEW r \in Runs, LockFails(r) PROVE TypeOK'
    BY <1>5 DEF LockFails, Goto
<1>6. ASSUME NEW r \in Runs, EnsureLedger(r) PROVE TypeOK'
    BY <1>6 DEF EnsureLedger, Goto, Runnable
<1>7. ASSUME NEW r \in Runs, CreateLedger(r) PROVE TypeOK'
    <2>1. CASE table /\ Postgres
        <3>1. tx' = [tx EXCEPT ![r] = NoTx] /\ pc' = [pc EXCEPT ![r] = "unlock"]
              /\ result' = [result EXCEPT ![r] = "failed"]
            BY <1>7, <2>1 DEF CreateLedger, Goto, Abort
        <3>2. NoTx \in [sql : SUBSET Row, rows : SUBSET Row]
            BY DEF NoTx
        <3>3. tx' \in [Runs -> [sql : SUBSET Row, rows : SUBSET Row]]
            BY <3>1, <3>2
        <3>4. QED
            BY <1>7, <3>1, <3>3 DEF CreateLedger
    <2>2. CASE ~(table /\ Postgres)
        BY <1>7, <2>2 DEF CreateLedger, Goto, Runnable
    <2>3. QED
        BY <2>1, <2>2
<1>8. ASSUME NEW r \in Runs, ReadLedger(r) PROVE TypeOK'
    <2>1. Verdict(release[r], RowsOf(r)) \in Results
        BY VerdictType
    <2>2. {x.name : x \in RowsOf(r)} \in SUBSET Names
        BY DEF RowsOf, Row
    <2>3. QED
        BY <1>8, <2>1, <2>2 DEF ReadLedger, Goto, Runnable
<1>9. ASSUME NEW r \in Runs, Recheck(r) PROVE TypeOK'
    <2>1. PICK j \in next[r] .. Len(release[r]) :
            IF \E x \in ledger : SameKey(x, RowFor(r, release[r][j]))
            THEN next' = [next EXCEPT ![r] = j + 1] /\ UNCHANGED pc
            ELSE next' = [next EXCEPT ![r] = j] /\ Goto(r, "exec")
        BY <1>9 DEF Recheck
    <2>2. j \in Nat \ {0}
        OBVIOUS
    <2>3. next' \in [Runs -> Nat \ {0}] /\ pc' \in [Runs -> Places]
        <3>1. next' = [next EXCEPT ![r] = j + 1] \/ next' = [next EXCEPT ![r] = j]
            BY <2>1
        <3>2. pc' = pc \/ pc' = [pc EXCEPT ![r] = "exec"]
            BY <2>1 DEF Goto
        <3>3. next' \in [Runs -> Nat \ {0}]
            BY <2>2, <3>1, j + 1 \in Nat \ {0}
        <3>4. pc' \in [Runs -> Places]
            BY <3>2
        <3>5. QED
            BY <3>3, <3>4
    <2>4. QED
        BY <1>9, <2>3 DEF Recheck
<1>10. ASSUME NEW r \in Runs, LoopDone(r) PROVE TypeOK'
    BY <1>10 DEF LoopDone, Goto
<1>11. ASSUME NEW r \in Runs, Exec(r) PROVE TypeOK'
    <2>1. Current(r) \in Row
        BY <1>11, CurrentType DEF Exec, Runnable
    <2>2. tx' \in [Runs -> [sql : SUBSET Row, rows : SUBSET Row]]
        <3>1. tx' = [tx EXCEPT ![r].sql = tx[r].sql \union {Current(r)}]
            BY <1>11 DEF Exec
        <3>2. tx[r] \in [sql : SUBSET Row, rows : SUBSET Row]
            OBVIOUS
        <3>3. [tx[r] EXCEPT !.sql = tx[r].sql \union {Current(r)}]
                \in [sql : SUBSET Row, rows : SUBSET Row]
            BY <2>1, <3>2
        <3>4. QED
            BY <3>1, <3>3
    <2>3. QED
        BY <1>11, <2>2 DEF Exec, Goto, Runnable
<1>12. ASSUME NEW r \in Runs, Insert(r) PROVE TypeOK'
    <2>1. Current(r) \in Row
        BY <1>12, CurrentType DEF Insert, Runnable
    <2>2. CASE \E x \in ledger : SameKey(x, Current(r))
        <3>1. tx' = [tx EXCEPT ![r] = NoTx] /\ pc' = [pc EXCEPT ![r] = "unlock"]
              /\ result' = [result EXCEPT ![r] = "failed"]
            BY <1>12, <2>2 DEF Insert, Goto, Abort
        <3>2. NoTx \in [sql : SUBSET Row, rows : SUBSET Row]
            BY DEF NoTx
        <3>3. tx' \in [Runs -> [sql : SUBSET Row, rows : SUBSET Row]]
            BY <3>1, <3>2
        <3>4. QED
            BY <1>12, <3>1, <3>3 DEF Insert
    <2>3. CASE ~ \E x \in ledger : SameKey(x, Current(r))
        <3>1. tx' \in [Runs -> [sql : SUBSET Row, rows : SUBSET Row]]
            <4>1. tx' = [tx EXCEPT ![r].rows = tx[r].rows \union {Current(r)}]
                BY <1>12, <2>3 DEF Insert
            <4>2. tx[r] \in [sql : SUBSET Row, rows : SUBSET Row]
                OBVIOUS
            <4>3. [tx[r] EXCEPT !.rows = tx[r].rows \union {Current(r)}]
                    \in [sql : SUBSET Row, rows : SUBSET Row]
                BY <2>1, <4>2
            <4>4. QED
                BY <4>1, <4>3
        <3>2. QED
            BY <1>12, <2>3, <3>1 DEF Insert, Goto, Runnable
    <2>4. QED
        BY <2>2, <2>3
<1>13. ASSUME NEW r \in Runs, Commit(r) PROVE TypeOK'
    BY <1>13 DEF Commit, Goto, Runnable, Durable
<1>14. ASSUME NEW r \in Runs, CommitUnanswered(r) PROVE TypeOK'
    BY <1>14 DEF CommitUnanswered, Goto, Runnable, Abort, Durable
<1>15. ASSUME NEW r \in Runs, StatementFails(r) PROVE TypeOK'
    BY <1>15 DEF StatementFails, Goto, Abort
<1>16. ASSUME NEW r \in Runs, Unlock(r) PROVE TypeOK'
    <2>1. lock' \in [session : Sessions \union {NoSession}, count : Nat]
        <3>1. CASE ~Postgres
            BY <1>16, <3>1 DEF Unlock
        <3>2. CASE Postgres
            <4>1. lock.session # NoSession
                BY <1>16, <3>2 DEF Unlock, LockInv, ConnInv
            <4>2. lock.count \in Nat \ {0}
                BY <4>1 DEF LockInv
            <4>3. lock' = Unlocked \/ lock' = [lock EXCEPT !.count = @ - 1]
                BY <1>16, <3>2 DEF Unlock
            <4>4. Unlocked \in [session : Sessions \union {NoSession}, count : Nat]
                BY DEF Unlocked
            <4>5. [lock EXCEPT !.count = @ - 1]
                    \in [session : Sessions \union {NoSession}, count : Nat]
                <5>1. lock.count - 1 \in Nat
                    BY <4>2
                <5>2. lock \in [session : Sessions \union {NoSession}, count : Nat]
                    OBVIOUS
                <5>3. QED
                    BY <5>1, <5>2
            <4>6. QED
                BY <4>3, <4>4, <4>5
        <3>3. QED
            BY <3>1, <3>2
    <2>2. QED
        BY <1>16, <2>1 DEF Unlock, Goto, Return
<1>17. ASSUME NEW r \in Runs, UnlockFails(r) PROVE TypeOK'
    BY <1>17 DEF UnlockFails, Goto, Return
<1>18. ASSUME NEW r \in Runs, Cancel(r) PROVE TypeOK'
    BY <1>18 DEF Cancel, Active
<1>19. ASSUME NEW p \in Procs, Crash(p) PROVE TypeOK'
    BY <1>19 DEF Crash
<1>20. CASE SessionDies
    BY <1>20 DEF SessionDies
<1>21. CASE StatusLooks \/ StatusCreates
    BY <1>21 DEF StatusLooks, StatusCreates
<1>22. CASE Finished \/ UNCHANGED vars
    BY <1>22 DEF Finished
<1>23. QED
    BY <1>1, <1>2, <1>3, <1>4, <1>5, <1>6, <1>7, <1>8, <1>9, <1>10, <1>11, <1>12, <1>13, <1>14, <1>15, <1>16, <1>17, <1>18, <1>19, <1>20, <1>21, <1>22 DEF Next, Step

\* A step leaves the mutex of a process with the call that is past it.
LEMMA MutexStep == IInv /\ [Next]_vars => MutexInv'
<1> SUFFICES ASSUME IInv, [Next]_vars PROVE MutexInv'
    OBVIOUS
<1> USE ConstantsOK DEF vars, callVars, lockVars, dbVars, IInv, TypeOK, Places, Locked, InTx, MutexInv, HoldsMutex
<1>1. ASSUME NEW r \in Runs, Call(r) PROVE MutexInv'
    BY <1>1 DEF Call, Goto, Active
<1>2. ASSUME NEW r \in Runs, LockMutex(r) PROVE MutexInv'
    BY <1>2 DEF LockMutex, Goto
<1>3. ASSUME NEW r \in Runs, TakeConn(r) PROVE MutexInv'
    BY <1>3 DEF TakeConn, Goto, Runnable
<1>4. ASSUME NEW r \in Runs, AcquireLock(r) PROVE MutexInv'
    BY <1>4 DEF AcquireLock, Goto, Runnable
<1>5. ASSUME NEW r \in Runs, LockFails(r) PROVE MutexInv'
    BY <1>5 DEF LockFails, Goto
<1>6. ASSUME NEW r \in Runs, EnsureLedger(r) PROVE MutexInv'
    BY <1>6 DEF EnsureLedger, Goto, Runnable
<1>7. ASSUME NEW r \in Runs, CreateLedger(r) PROVE MutexInv'
    BY <1>7 DEF CreateLedger, Goto, Runnable, Abort
<1>8. ASSUME NEW r \in Runs, ReadLedger(r) PROVE MutexInv'
    BY <1>8 DEF ReadLedger, Goto, Runnable
<1>9. ASSUME NEW r \in Runs, Recheck(r) PROVE MutexInv'
    BY <1>9 DEF Recheck, Goto, Runnable
<1>10. ASSUME NEW r \in Runs, LoopDone(r) PROVE MutexInv'
    BY <1>10 DEF LoopDone, Goto
<1>11. ASSUME NEW r \in Runs, Exec(r) PROVE MutexInv'
    BY <1>11 DEF Exec, Goto, Runnable
<1>12. ASSUME NEW r \in Runs, Insert(r) PROVE MutexInv'
    BY <1>12 DEF Insert, Goto, Runnable, Abort
<1>13. ASSUME NEW r \in Runs, Commit(r) PROVE MutexInv'
    BY <1>13 DEF Commit, Goto, Runnable, Durable
<1>14. ASSUME NEW r \in Runs, CommitUnanswered(r) PROVE MutexInv'
    BY <1>14 DEF CommitUnanswered, Goto, Runnable, Abort, Durable
<1>15. ASSUME NEW r \in Runs, StatementFails(r) PROVE MutexInv'
    BY <1>15 DEF StatementFails, Goto, Abort
<1>16. ASSUME NEW r \in Runs, Unlock(r) PROVE MutexInv'
    BY <1>16 DEF Unlock, Goto, Return
<1>17. ASSUME NEW r \in Runs, UnlockFails(r) PROVE MutexInv'
    BY <1>17 DEF UnlockFails, Goto, Return
<1>18. ASSUME NEW r \in Runs, Cancel(r) PROVE MutexInv'
    BY <1>18 DEF Cancel, Active
<1>19. ASSUME NEW p \in Procs, Crash(p) PROVE MutexInv'
    BY <1>19 DEF Crash
<1>20. CASE SessionDies
    BY <1>20 DEF SessionDies
<1>21. CASE StatusLooks \/ StatusCreates
    BY <1>21 DEF StatusLooks, StatusCreates
<1>22. CASE Finished \/ UNCHANGED vars
    BY <1>22 DEF Finished
<1>23. QED
    BY <1>1, <1>2, <1>3, <1>4, <1>5, <1>6, <1>7, <1>8, <1>9, <1>10, <1>11, <1>12, <1>13, <1>14, <1>15, <1>16, <1>17, <1>18, <1>19, <1>20, <1>21, <1>22 DEF Next, Step

\* A step leaves every pinned connection with one call, of its own process.
LEMMA ConnStep == IInv /\ [Next]_vars => ConnInv'
<1> SUFFICES ASSUME IInv, [Next]_vars PROVE ConnInv'
    OBVIOUS
<1> USE ConstantsOK DEF vars, callVars, lockVars, dbVars, IInv, TypeOK, Places, Locked, InTx, ConnInv, MutexInv, HoldsMutex
<1>1. ASSUME NEW r \in Runs, Call(r) PROVE ConnInv'
    BY <1>1 DEF Call, Goto, Active
<1>2. ASSUME NEW r \in Runs, LockMutex(r) PROVE ConnInv'
    BY <1>2 DEF LockMutex, Goto
<1>3. ASSUME NEW r \in Runs, TakeConn(r) PROVE ConnInv'
    BY <1>3 DEF TakeConn, Goto, Runnable
<1>4. ASSUME NEW r \in Runs, AcquireLock(r) PROVE ConnInv'
    BY <1>4 DEF AcquireLock, Goto, Runnable
<1>5. ASSUME NEW r \in Runs, LockFails(r) PROVE ConnInv'
    BY <1>5 DEF LockFails, Goto
<1>6. ASSUME NEW r \in Runs, EnsureLedger(r) PROVE ConnInv'
    BY <1>6 DEF EnsureLedger, Goto, Runnable
<1>7. ASSUME NEW r \in Runs, CreateLedger(r) PROVE ConnInv'
    <2>1. pc[r] = "create" /\ (pc' = [pc EXCEPT ![r] = "unlock"] \/ pc' = [pc EXCEPT ![r] = "read"])
        BY <1>7 DEF CreateLedger, Abort, Goto, Runnable
    <2>2. conn' = conn
        BY <1>7 DEF CreateLedger
    <2>3. QED
        BY <2>1, <2>2
<1>8. ASSUME NEW r \in Runs, ReadLedger(r) PROVE ConnInv'
    BY <1>8 DEF ReadLedger, Goto, Runnable
<1>9. ASSUME NEW r \in Runs, Recheck(r) PROVE ConnInv'
    BY <1>9 DEF Recheck, Goto, Runnable
<1>10. ASSUME NEW r \in Runs, LoopDone(r) PROVE ConnInv'
    BY <1>10 DEF LoopDone, Goto
<1>11. ASSUME NEW r \in Runs, Exec(r) PROVE ConnInv'
    BY <1>11 DEF Exec, Goto, Runnable
<1>12. ASSUME NEW r \in Runs, Insert(r) PROVE ConnInv'
    BY <1>12 DEF Insert, Goto, Runnable, Abort
<1>13. ASSUME NEW r \in Runs, Commit(r) PROVE ConnInv'
    BY <1>13 DEF Commit, Goto, Runnable, Durable
<1>14. ASSUME NEW r \in Runs, CommitUnanswered(r) PROVE ConnInv'
    BY <1>14 DEF CommitUnanswered, Goto, Runnable, Abort, Durable
<1>15. ASSUME NEW r \in Runs, StatementFails(r) PROVE ConnInv'
    BY <1>15 DEF StatementFails, Goto, Abort
<1>16. ASSUME NEW r \in Runs, Unlock(r) PROVE ConnInv'
    BY <1>16 DEF Unlock, Goto, Return
<1>17. ASSUME NEW r \in Runs, UnlockFails(r) PROVE ConnInv'
    BY <1>17 DEF UnlockFails, Goto, Return
<1>18. ASSUME NEW r \in Runs, Cancel(r) PROVE ConnInv'
    BY <1>18 DEF Cancel, Active
<1>19. ASSUME NEW p \in Procs, Crash(p) PROVE ConnInv'
    BY <1>19 DEF Crash
<1>20. CASE SessionDies
    BY <1>20 DEF SessionDies
<1>21. CASE StatusLooks \/ StatusCreates
    BY <1>21 DEF StatusLooks, StatusCreates
<1>22. CASE Finished \/ UNCHANGED vars
    BY <1>22 DEF Finished
<1>23. QED
    BY <1>1, <1>2, <1>3, <1>4, <1>5, <1>6, <1>7, <1>8, <1>9, <1>10, <1>11, <1>12, <1>13, <1>14, <1>15, <1>16, <1>17, <1>18, <1>19, <1>20, <1>21, <1>22 DEF Next, Step

\* A step leaves the advisory lock with the live session of the call past it.
LEMMA LockStep == IInv /\ [Next]_vars => LockInv'
<1> SUFFICES ASSUME IInv, [Next]_vars PROVE LockInv'
    OBVIOUS
<1> USE ConstantsOK DEF vars, callVars, lockVars, dbVars, IInv, TypeOK, Places, Locked, InTx, ConnInv, LockInv, Unlocked, HoldsMutex
<1>1. ASSUME NEW r \in Runs, Call(r) PROVE LockInv'
    BY <1>1 DEF Call, Goto, Active
<1>2. ASSUME NEW r \in Runs, LockMutex(r) PROVE LockInv'
    BY <1>2 DEF LockMutex, Goto
<1>3. ASSUME NEW r \in Runs, TakeConn(r) PROVE LockInv'
    BY <1>3 DEF TakeConn, Goto, Runnable
<1>4. ASSUME NEW r \in Runs, AcquireLock(r) PROVE LockInv'
    <2>1. lock' = [session |-> conn[r], count |-> lock.count + 1] /\ conn[r] # NoSession
        BY <1>4 DEF AcquireLock, Runnable
    <2>2. lock'.session = conn[r] /\ lock'.count = lock.count + 1 /\ lock.count \in Nat
        BY <2>1
    <2>3. pc' = [pc EXCEPT ![r] = "ensure"] /\ conn' = conn /\ dead' = dead
        BY <1>4 DEF AcquireLock, Goto
    <2>4. ASSUME NEW q \in Runs, Postgres, pc'[q] \in Locked, conn'[q] \notin dead'
          PROVE  lock'.session = conn'[q]
        <3>1. CASE q = r
            BY <2>2, <2>3, <3>1
        <3>2. CASE q # r
            <4>1. lock.session = conn[q] /\ conn[q] # NoSession
                BY <2>3, <2>4, <3>2
            <4>2. lock.session = conn[r]
                BY <1>4, <4>1 DEF AcquireLock
            <4>3. QED
                BY <4>1, <4>2, <2>2, <2>3
        <3>3. QED
            BY <3>1, <3>2
    <2>5. QED
        BY <2>1, <2>2, <2>4
<1>5. ASSUME NEW r \in Runs, LockFails(r) PROVE LockInv'
    BY <1>5 DEF LockFails, Goto
<1>6. ASSUME NEW r \in Runs, EnsureLedger(r) PROVE LockInv'
    BY <1>6 DEF EnsureLedger, Goto, Runnable
<1>7. ASSUME NEW r \in Runs, CreateLedger(r) PROVE LockInv'
    BY <1>7 DEF CreateLedger, Goto, Runnable, Abort
<1>8. ASSUME NEW r \in Runs, ReadLedger(r) PROVE LockInv'
    BY <1>8 DEF ReadLedger, Goto, Runnable
<1>9. ASSUME NEW r \in Runs, Recheck(r) PROVE LockInv'
    BY <1>9 DEF Recheck, Goto, Runnable
<1>10. ASSUME NEW r \in Runs, LoopDone(r) PROVE LockInv'
    BY <1>10 DEF LoopDone, Goto
<1>11. ASSUME NEW r \in Runs, Exec(r) PROVE LockInv'
    BY <1>11 DEF Exec, Goto, Runnable
<1>12. ASSUME NEW r \in Runs, Insert(r) PROVE LockInv'
    BY <1>12 DEF Insert, Goto, Runnable, Abort
<1>13. ASSUME NEW r \in Runs, Commit(r) PROVE LockInv'
    BY <1>13 DEF Commit, Goto, Runnable, Durable
<1>14. ASSUME NEW r \in Runs, CommitUnanswered(r) PROVE LockInv'
    BY <1>14 DEF CommitUnanswered, Goto, Runnable, Abort, Durable
<1>15. ASSUME NEW r \in Runs, StatementFails(r) PROVE LockInv'
    BY <1>15 DEF StatementFails, Goto, Abort
<1>16. ASSUME NEW r \in Runs, Unlock(r) PROVE LockInv'
    BY <1>16 DEF Unlock, Goto, Return
<1>17. ASSUME NEW r \in Runs, UnlockFails(r) PROVE LockInv'
    BY <1>17 DEF UnlockFails, Goto, Return
<1>18. ASSUME NEW r \in Runs, Cancel(r) PROVE LockInv'
    BY <1>18 DEF Cancel, Active
<1>19. ASSUME NEW p \in Procs, Crash(p) PROVE LockInv'
    BY <1>19 DEF Crash
<1>20. CASE SessionDies
    BY <1>20 DEF SessionDies
<1>21. CASE StatusLooks \/ StatusCreates
    BY <1>21 DEF StatusLooks, StatusCreates
<1>22. CASE Finished \/ UNCHANGED vars
    BY <1>22 DEF Finished
<1>23. QED
    BY <1>1, <1>2, <1>3, <1>4, <1>5, <1>6, <1>7, <1>8, <1>9, <1>10, <1>11, <1>12, <1>13, <1>14, <1>15, <1>16, <1>17, <1>18, <1>19, <1>20, <1>21, <1>22 DEF Next, Step

\* A step leaves in a transaction what its call has written so far, and no
\* ledger key in two transactions.
LEMMA TxStep == IInv /\ [Next]_vars => TxInv'
<1> SUFFICES ASSUME IInv, [Next]_vars PROVE TxInv'
    OBVIOUS
<1> USE ConstantsOK DEF vars, callVars, lockVars, dbVars, IInv, Places, Locked, InTx, TypeOK, NoTx
<1>1. ASSUME NEW r \in Runs, Call(r) PROVE TxInv'
    <2>1. pc[r] \notin InTx /\ tx[r].sql = {} /\ tx[r].rows = {}
        BY <1>1, NothingWritten DEF Call, Active
    <2>2. pc'[r] \notin InTx /\ tx' = tx
        BY <1>1 DEF Call, Goto
    <2>3. \A q \in Runs \ {r} : pc'[q] = pc[q] /\ next'[q] = next[q] /\ release'[q] = release[q]
        BY <1>1 DEF Call, Goto
    <2>4. QED
        BY <2>1, <2>2, <2>3, TxFrame
<1>2. ASSUME NEW r \in Runs, LockMutex(r) PROVE TxInv'
    BY <1>2, TxFrame, NothingWritten DEF LockMutex, Goto
<1>3. ASSUME NEW r \in Runs, TakeConn(r) PROVE TxInv'
    BY <1>3, TxFrame, NothingWritten DEF TakeConn, Goto, Runnable
<1>4. ASSUME NEW r \in Runs, AcquireLock(r) PROVE TxInv'
    BY <1>4, TxFrame, NothingWritten DEF AcquireLock, Goto, Runnable
<1>5. ASSUME NEW r \in Runs, LockFails(r) PROVE TxInv'
    BY <1>5, TxFrame, NothingWritten DEF LockFails, Goto
<1>6. ASSUME NEW r \in Runs, EnsureLedger(r) PROVE TxInv'
    BY <1>6, TxFrame, NothingWritten DEF EnsureLedger, Goto, Runnable
<1>7. ASSUME NEW r \in Runs, CreateLedger(r) PROVE TxInv'
    <2>1. pc[r] = "create" /\ tx[r].sql = {} /\ tx[r].rows = {}
        BY <1>7, NothingWritten DEF CreateLedger, Runnable
    <2>2. /\ tx' = [tx EXCEPT ![r] = NoTx] \/ tx' = tx
          /\ pc' = [pc EXCEPT ![r] = "unlock"] \/ pc' = [pc EXCEPT ![r] = "read"]
          /\ next' = next /\ release' = release
        BY <1>7 DEF CreateLedger, Goto, Abort
    <2>3. tx'[r].sql = {} /\ tx'[r].rows = {} /\ pc'[r] \notin InTx
        BY <2>1, <2>2
    <2>4. \A q \in Runs \ {r} : pc'[q] = pc[q] /\ tx'[q] = tx[q]
        BY <2>2
    <2>5. QED
        BY <2>2, <2>3, <2>4, TxFrame
<1>8. ASSUME NEW r \in Runs, ReadLedger(r) PROVE TxInv'
    BY <1>8, TxFrame, NothingWritten DEF ReadLedger, Goto, Runnable
<1>9. ASSUME NEW r \in Runs, Recheck(r) PROVE TxInv'
    <2>1. tx[r].sql = {} /\ tx[r].rows = {} /\ tx' = tx /\ release' = release
        BY <1>9, NothingWritten DEF Recheck, Runnable
    <2>2. PICK j \in next[r] .. Len(release[r]) :
            IF \E x \in ledger : SameKey(x, RowFor(r, release[r][j]))
            THEN next' = [next EXCEPT ![r] = j + 1] /\ UNCHANGED pc
            ELSE next' = [next EXCEPT ![r] = j] /\ Goto(r, "exec")
        BY <1>9 DEF Recheck
    <2>3. \/ pc' = pc /\ pc[r] = "loop"
          \/ pc' = [pc EXCEPT ![r] = "exec"] /\ next' = [next EXCEPT ![r] = j]
        BY <1>9, <2>2 DEF Goto, Recheck, Runnable
    <2>4. \A q \in Runs \ {r} : pc'[q] = pc[q] /\ next'[q] = next[q]
        BY <2>2 DEF Goto
    <2>5. /\ pc'[r] \notin {"insert", "commit"}
          /\ pc'[r] = "exec" => next'[r] <= Len(release'[r])
        BY <2>1, <2>2, <2>3
    <2>6. QED
        BY <2>1, <2>4, <2>5, TxFrame
<1>10. ASSUME NEW r \in Runs, LoopDone(r) PROVE TxInv'
    BY <1>10, TxFrame, NothingWritten DEF LoopDone, Goto
<1>11. ASSUME NEW r \in Runs, Exec(r) PROVE TxInv'
    <2>1. /\ pc[r] = "exec" /\ tx[r].sql = {} /\ tx[r].rows = {}
          /\ next[r] <= Len(release[r])
        BY <1>11, NothingWritten DEF Exec, Runnable, TxInv
    <2>2. /\ pc' = [pc EXCEPT ![r] = "insert"]
          /\ tx' = [tx EXCEPT ![r].sql = @ \union {Current(r)}]
          /\ next' = next /\ release' = release
        BY <1>11 DEF Exec, Goto
    <2>3. \A q \in Runs : Current(q)' = Current(q)
        BY <2>2 DEF Current, RowFor
    <2>4. tx'[r].sql = {Current(r)} /\ tx'[r].rows = {}
        BY <2>1, <2>2
    <2>5. \A q \in Runs \ {r} : tx'[q] = tx[q] /\ pc'[q] = pc[q]
        BY <2>2
    <2>6. pc'[r] = "insert"
        BY <2>2
    <2>7. \A q \in Runs :
            /\ pc'[q] \in InTx => next'[q] <= Len(release'[q])
            /\ tx'[q].sql = IF pc'[q] \in {"insert", "commit"} THEN {Current(q)'} ELSE {}
            /\ tx'[q].rows = IF pc'[q] = "commit" THEN {Current(q)'} ELSE {}
        <3>1. ASSUME NEW q \in Runs \ {r}
              PROVE  /\ pc'[q] \in InTx => next'[q] <= Len(release'[q])
                     /\ tx'[q].sql = IF pc'[q] \in {"insert", "commit"} THEN {Current(q)'} ELSE {}
                     /\ tx'[q].rows = IF pc'[q] = "commit" THEN {Current(q)'} ELSE {}
            BY <2>1, <2>2, <2>3, <2>4, <2>5, <2>6 DEF TxInv
        <3>2. QED
            BY <3>1, <2>1, <2>2, <2>3, <2>4, <2>5, <2>6
    <2>8. \A p, q \in Runs : p # q =>
            \A x \in tx'[p].rows, y \in tx'[q].rows : ~SameKey(x, y)
        BY <2>1, <2>2, <2>3, <2>4, <2>5, <2>6 DEF TxInv
    <2>9. QED
        BY <2>7, <2>8 DEF TxInv
<1>12. ASSUME NEW r \in Runs, Insert(r) PROVE TxInv'
    <2>1. CASE \E x \in ledger : SameKey(x, Current(r))
        BY <1>12, <2>1, TxFrame, NothingWritten DEF Insert, Goto, Runnable, Abort
    <2>2. CASE ~ \E x \in ledger : SameKey(x, Current(r))
        <3>1. /\ pc[r] = "insert" /\ tx[r].sql = {Current(r)} /\ tx[r].rows = {}
              /\ next[r] <= Len(release[r])
            BY <1>12 DEF Insert, Runnable, TxInv
        <3>2. /\ pc' = [pc EXCEPT ![r] = "commit"]
              /\ tx' = [tx EXCEPT ![r].rows = @ \union {Current(r)}]
              /\ next' = next /\ release' = release
            BY <1>12, <2>2 DEF Insert, Goto
        <3>3. \A q \in Runs : Current(q)' = Current(q)
            BY <3>2 DEF Current, RowFor
        <3>4. tx'[r].sql = {Current(r)} /\ tx'[r].rows = {Current(r)}
            BY <3>1, <3>2
        <3>5. \A q \in Runs \ {r} : tx'[q] = tx[q] /\ pc'[q] = pc[q]
            BY <3>2
        <3>6. pc'[r] = "commit"
            BY <3>2
        <3>7. \A q \in Runs : \A x \in tx[q].rows : ~SameKey(x, Current(r)) /\ ~SameKey(Current(r), x)
            BY <1>12 DEF Insert, SameKey
        <3>8. \A q \in Runs :
                /\ pc'[q] \in InTx => next'[q] <= Len(release'[q])
                /\ tx'[q].sql = IF pc'[q] \in {"insert", "commit"} THEN {Current(q)'} ELSE {}
                /\ tx'[q].rows = IF pc'[q] = "commit" THEN {Current(q)'} ELSE {}
            <4>1. ASSUME NEW q \in Runs \ {r}
                  PROVE  /\ pc'[q] \in InTx => next'[q] <= Len(release'[q])
                         /\ tx'[q].sql = IF pc'[q] \in {"insert", "commit"} THEN {Current(q)'} ELSE {}
                         /\ tx'[q].rows = IF pc'[q] = "commit" THEN {Current(q)'} ELSE {}
                BY <3>1, <3>2, <3>3, <3>4, <3>5, <3>6 DEF TxInv
            <4>2. QED
                BY <4>1, <3>1, <3>2, <3>3, <3>4, <3>5, <3>6
        <3>9. \A p, q \in Runs : p # q =>
                \A x \in tx'[p].rows, y \in tx'[q].rows : ~SameKey(x, y)
            BY <3>1, <3>2, <3>3, <3>4, <3>5, <3>6, <3>7 DEF TxInv
        <3>10. QED
            BY <3>8, <3>9 DEF TxInv
    <2>3. QED
        BY <2>1, <2>2
<1>13. ASSUME NEW r \in Runs, Commit(r) PROVE TxInv'
    BY <1>13, TxFrame, NothingWritten DEF Commit, Goto, Runnable, Durable
<1>14. ASSUME NEW r \in Runs, CommitUnanswered(r) PROVE TxInv'
    BY <1>14, TxFrame, NothingWritten DEF CommitUnanswered, Goto, Runnable, Abort, Durable
<1>15. ASSUME NEW r \in Runs, StatementFails(r) PROVE TxInv'
    BY <1>15, TxFrame, NothingWritten DEF StatementFails, Goto, Abort
<1>16. ASSUME NEW r \in Runs, Unlock(r) PROVE TxInv'
    BY <1>16, TxFrame, NothingWritten DEF Unlock, Goto, Return
<1>17. ASSUME NEW r \in Runs, UnlockFails(r) PROVE TxInv'
    BY <1>17, TxFrame, NothingWritten DEF UnlockFails, Goto, Return
<1>18. ASSUME NEW r \in Runs, Cancel(r) PROVE TxInv'
    BY <1>18, TxFrame, NothingWritten DEF Cancel, Active
<1>19. ASSUME NEW p \in Procs, Crash(p) PROVE TxInv'
    BY <1>19, TxFrame, NothingWritten DEF Crash
<1>20. CASE SessionDies
    BY <1>20, TxFrame, NothingWritten DEF SessionDies
<1>21. CASE StatusLooks \/ StatusCreates
    BY <1>21, TxFrame, NothingWritten DEF StatusLooks, StatusCreates
<1>22. CASE Finished \/ UNCHANGED vars
    BY <1>22, TxFrame, NothingWritten DEF Finished
<1>23. QED
    BY <1>1, <1>2, <1>3, <1>4, <1>5, <1>6, <1>7, <1>8, <1>9, <1>10, <1>11, <1>12, <1>13, <1>14, <1>15, <1>16, <1>17, <1>18, <1>19, <1>20, <1>21, <1>22 DEF Next, Step

\* The rows of every transaction after one is reset or has a row inserted.
LEMMA RowsAfter ==
    ASSUME TypeOK, NEW r \in Runs
    PROVE  /\ tx' = [tx EXCEPT ![r] = NoTx] =>
                \A q \in Runs : tx'[q].rows \subseteq tx[q].rows
           /\ tx' = [tx EXCEPT ![r].rows = @ \union {Current(r)}] =>
                \A q \in Runs : tx'[q].rows \subseteq tx[q].rows \union {Current(r)}
<1>1. tx \in [Runs -> [sql : SUBSET Row, rows : SUBSET Row]]
    BY DEF TypeOK
<1>2. QED
    BY <1>1 DEF NoTx

\* Committing the transaction of a call keeps one row per key, and counts the
\* one execution that each new row stands for.
LEMMA DurableStep ==
    ASSUME IInv, NEW r \in Runs, pc[r] = "commit", Durable(tx[r]),
           tx' = [tx EXCEPT ![r] = NoTx]
    PROVE  LedgerInv'
<1> DEFINE c == Current(r)
<1>1. c \in Row /\ tx[r].sql = {c} /\ tx[r].rows = {c}
    BY CurrentType DEF IInv, TxInv, InTx
<1> HIDE DEF c
<1>2. ledger' = ledger \union {c}
    BY <1>1 DEF Durable
<1>3. effects' = [x \in Row |-> IF x = c THEN effects[x] + 1 ELSE effects[x]]
    BY <1>1 DEF Durable
<1>4. \A y \in ledger : ~SameKey(c, y) /\ ~SameKey(y, c)
    BY <1>1 DEF IInv, LedgerInv, SameKey
<1>5. c \notin ledger
    BY <1>4 DEF SameKey
<1>6. \A x, y \in ledger' : SameKey(x, y) => x = y
    BY <1>2, <1>4 DEF IInv, LedgerInv
<1>7. ASSUME NEW q \in Runs, NEW x \in tx'[q].rows, NEW y \in ledger'
      PROVE  ~SameKey(x, y)
    <2>1. CASE q = r
        BY <1>7, <2>1 DEF IInv, TypeOK, NoTx
    <2>2. CASE q # r
        <3>1. x \in tx[q].rows
            BY <1>7, <2>2 DEF IInv, TypeOK
        <3>2. ~SameKey(x, c)
            BY <1>1, <2>2, <3>1 DEF IInv, TxInv
        <3>3. QED
            BY <1>2, <1>7, <3>1, <3>2 DEF IInv, LedgerInv
    <2>3. QED
        BY <2>1, <2>2
<1>8. \A x \in Row : effects'[x] = IF x \in ledger' THEN 1 ELSE 0
    BY <1>1, <1>2, <1>3, <1>5 DEF IInv, LedgerInv
<1>9. QED
    BY <1>6, <1>7, <1>8 DEF LedgerInv

\* A step keeps one row per key in the ledger and one execution per row.
LEMMA LedgerStep == IInv /\ [Next]_vars => LedgerInv'
<1> SUFFICES ASSUME IInv, [Next]_vars PROVE LedgerInv'
    OBVIOUS
<1> USE ConstantsOK DEF vars, callVars, lockVars, dbVars, IInv, TypeOK, LedgerInv, NoTx
<1>1. ASSUME NEW r \in Runs, Call(r) PROVE LedgerInv'
    BY <1>1 DEF Call, Goto, Active
<1>2. ASSUME NEW r \in Runs, LockMutex(r) PROVE LedgerInv'
    BY <1>2 DEF LockMutex, Goto
<1>3. ASSUME NEW r \in Runs, TakeConn(r) PROVE LedgerInv'
    BY <1>3 DEF TakeConn, Goto, Runnable
<1>4. ASSUME NEW r \in Runs, AcquireLock(r) PROVE LedgerInv'
    BY <1>4 DEF AcquireLock, Goto, Runnable
<1>5. ASSUME NEW r \in Runs, LockFails(r) PROVE LedgerInv'
    BY <1>5 DEF LockFails, Goto
<1>6. ASSUME NEW r \in Runs, EnsureLedger(r) PROVE LedgerInv'
    BY <1>6 DEF EnsureLedger, Goto, Runnable
<1>7. ASSUME NEW r \in Runs, CreateLedger(r) PROVE LedgerInv'
    <2>1. ledger' = ledger /\ effects' = effects
        BY <1>7 DEF CreateLedger
    <2>2. \A q \in Runs : tx'[q].rows \subseteq tx[q].rows
        <3>1. tx' = [tx EXCEPT ![r] = NoTx] \/ tx' = tx
            BY <1>7 DEF CreateLedger, Abort
        <3>2. QED
            BY <3>1, RowsAfter
    <2>3. QED
        BY <2>1, <2>2
<1>8. ASSUME NEW r \in Runs, ReadLedger(r) PROVE LedgerInv'
    BY <1>8 DEF ReadLedger, Goto, Runnable
<1>9. ASSUME NEW r \in Runs, Recheck(r) PROVE LedgerInv'
    BY <1>9 DEF Recheck, Goto, Runnable
<1>10. ASSUME NEW r \in Runs, LoopDone(r) PROVE LedgerInv'
    BY <1>10 DEF LoopDone, Goto
<1>11. ASSUME NEW r \in Runs, Exec(r) PROVE LedgerInv'
    BY <1>11 DEF Exec, Goto, Runnable
<1>12. ASSUME NEW r \in Runs, Insert(r) PROVE LedgerInv'
    <2>1. ledger' = ledger /\ effects' = effects
        BY <1>12 DEF Insert
    <2>2. CASE \E x \in ledger : SameKey(x, Current(r))
        <3>1. \A q \in Runs : tx'[q].rows \subseteq tx[q].rows
            <4>1. tx' = [tx EXCEPT ![r] = NoTx]
                BY <1>12, <2>2 DEF Insert, Abort
            <4>2. QED
                BY <4>1, RowsAfter
        <3>2. QED
            BY <2>1, <3>1
    <2>3. CASE ~ \E x \in ledger : SameKey(x, Current(r))
        <3>1. \A q \in Runs : tx'[q].rows \subseteq tx[q].rows \union {Current(r)}
            <4>1. tx' = [tx EXCEPT ![r].rows = @ \union {Current(r)}]
                BY <1>12, <2>3 DEF Insert
            <4>2. QED
                BY <4>1, RowsAfter
        <3>2. \A y \in ledger : ~SameKey(Current(r), y)
            BY <2>3 DEF SameKey
        <3>3. \A q \in Runs : \A x \in tx[q].rows, y \in ledger : ~SameKey(x, y)
            BY Zenon
        <3>4. ASSUME NEW q \in Runs, NEW x \in tx'[q].rows, NEW y \in ledger
              PROVE  ~SameKey(x, y)
            <4>1. x \in tx[q].rows \/ x = Current(r)
                BY <3>1, <3>4
            <4>2. QED
                BY Zenon, <3>2, <3>3, <3>4, <4>1
        <3>5. QED
            BY <2>1, <3>4
    <2>4. QED
        BY <2>2, <2>3
<1>13. ASSUME NEW r \in Runs, Commit(r) PROVE LedgerInv'
    BY <1>13, DurableStep DEF Commit, Runnable, Abort
<1>14. ASSUME NEW r \in Runs, CommitUnanswered(r) PROVE LedgerInv'
    BY <1>14, DurableStep DEF CommitUnanswered, Runnable, Abort
<1>15. ASSUME NEW r \in Runs, StatementFails(r) PROVE LedgerInv'
    BY <1>15 DEF StatementFails, Goto, Abort
<1>16. ASSUME NEW r \in Runs, Unlock(r) PROVE LedgerInv'
    BY <1>16 DEF Unlock, Goto, Return
<1>17. ASSUME NEW r \in Runs, UnlockFails(r) PROVE LedgerInv'
    BY <1>17 DEF UnlockFails, Goto, Return
<1>18. ASSUME NEW r \in Runs, Cancel(r) PROVE LedgerInv'
    BY <1>18 DEF Cancel, Active
<1>19. ASSUME NEW p \in Procs, Crash(p) PROVE LedgerInv'
    BY <1>19 DEF Crash
<1>20. CASE SessionDies
    BY <1>20 DEF SessionDies
<1>21. CASE StatusLooks \/ StatusCreates
    BY <1>21 DEF StatusLooks, StatusCreates
<1>22. CASE Finished \/ UNCHANGED vars
    BY <1>22 DEF Finished
<1>23. QED
    BY <1>1, <1>2, <1>3, <1>4, <1>5, <1>6, <1>7, <1>8, <1>9, <1>10, <1>11, <1>12, <1>13, <1>14, <1>15, <1>16, <1>17, <1>18, <1>19, <1>20, <1>21, <1>22 DEF Next, Step

-----------------------------------------------------------------------------

\* The initial state satisfies the invariant.
LEMMA InitIInv == Init => IInv
<1> SUFFICES ASSUME Init PROVE IInv
    OBVIOUS
<1>1. TypeOK
    <2>1. /\ << >> \in Seq(Migrations)
          /\ NoTx \in [sql : SUBSET Row, rows : SUBSET Row]
          /\ Unlocked \in [session : Sessions \union {NoSession}, count : Nat]
        BY DEF NoTx, Unlocked
    <2>2. /\ tx \in [Runs -> [sql : SUBSET Row, rows : SUBSET Row]]
          /\ lock \in [session : Sessions \union {NoSession}, count : Nat]
          /\ release \in [Runs -> Seq(Migrations)]
        BY <2>1 DEF Init
    <2>3. next \in [Runs -> Nat \ {0}] /\ calls \in [Runs -> Nat] /\ effects \in [Row -> Nat]
        BY DEF Init
    <2>4. QED
        BY <2>2, <2>3 DEF Init, TypeOK, Places, Results
<1>2. MutexInv /\ ConnInv /\ LockInv
    BY DEF Init, MutexInv, HoldsMutex, ConnInv, LockInv, Locked, InTx, Unlocked
<1>3. TxInv /\ LedgerInv
    BY DEF Init, TxInv, LedgerInv, InTx, NoTx
<1>4. QED
    BY <1>1, <1>2, <1>3 DEF IInv

\* The inductive invariant holds in every reachable state, whatever Env allows.
THEOREM Invariant == Spec => []IInv
<1>1. IInv /\ [Next]_vars => IInv'
    BY TypeStep, MutexStep, ConnStep, LockStep, TxStep, LedgerStep DEF IInv
<1>2. QED
    BY InitIInv, <1>1, PTL DEF Spec

\* Every variable of the runner stays in its type.
THEOREM TypeCorrect == Spec => []TypeOK
<1>1. IInv => TypeOK
    BY DEF IInv
<1>2. QED
    BY <1>1, Invariant, PTL

\* No name of a module is ever applied twice, nor under two texts: not with the
\* locks defeated, not after a crash, not after a lost answer to a commit.
THEOREM AppliedAtMostOnce == Spec => []AppliedOnce
<1>1. IInv => AppliedOnce
    <2> SUFFICES ASSUME IInv, NEW x \in Row, NEW y \in Row,
                        SameKey(x, y), effects[x] > 0, effects[y] > 0
                 PROVE  x = y /\ effects[x] = 1
        BY DEF AppliedOnce
    <2>1. x \in ledger /\ y \in ledger /\ effects[x] = 1
        BY DEF IInv, LedgerInv
    <2>2. QED
        BY <2>1 DEF IInv, LedgerInv
<1>2. QED
    BY <1>1, Invariant, PTL

\* The ledger is exact: it names a migration if and only if the database has it.
THEOREM LedgerIsExact == Spec => []LedgerMatchesEffects
<1>1. IInv => LedgerMatchesEffects
    BY DEF IInv, LedgerInv, LedgerMatchesEffects
<1>2. QED
    BY <1>1, Invariant, PTL

\* What MutexInv, ConnInv and LockInv say of two calls at once.
LEMMA LocksExclude == IInv => MutualExclusion
<1> SUFFICES ASSUME IInv, NEW r \in Runs, NEW q \in Runs, r # q,
                    pc[r] \in Locked, pc[q] \in Locked
             PROVE  /\ ProcOf[r] # ProcOf[q]
                    /\ Postgres => conn[r] \in dead \/ conn[q] \in dead
    BY DEF MutualExclusion
<1>1. ProcOf[r] # ProcOf[q]
    BY DEF IInv, MutexInv, HoldsMutex
<1>2. ASSUME Postgres, conn[r] \notin dead, conn[q] \notin dead PROVE FALSE
    <2>1. conn[r] # NoSession /\ lock.session = conn[r] /\ lock.session = conn[q]
        BY <1>2 DEF IInv, ConnInv, LockInv
    <2>2. QED
        BY <2>1 DEF IInv, ConnInv
<1>3. QED
    BY <1>1, <1>2

\* Two runs overlap only across processes, and on Postgres only after one of
\* them has lost the database session that its lock lived in.
THEOREM Exclusion == Spec => []MutualExclusion
BY LocksExclude, Invariant, PTL

=============================================================================
