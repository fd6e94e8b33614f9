------------------------------ MODULE Migrate ------------------------------
(***************************************************************************)
(* The schema migration runner, src/pkg/migrate/migrate.go: concurrent     *)
(* calls of Run by the goroutines of several processes over one database   *)
(* that holds the ledger table, and Status called beside them.             *)
(*                                                                         *)
(* A run is serialized twice (the inProcess mutex, then a session-level    *)
(* advisory lock on Postgres), reads the ledger, compares it with its      *)
(* build, and applies what is missing, one transaction per migration.      *)
(* Statements fail, contexts are cancelled, database sessions and whole    *)
(* processes die; Env says which of these a model allows.                  *)
(***************************************************************************)
EXTENDS Naturals, Sequences

CONSTANTS
    Procs,      \* operating system processes that open the database
    Runs,       \* callers of Run: the goroutines that call it
    ProcOf,     \* the process of each caller
    Modules, ModuleOf,   \* Options.Module of each caller
    Names,      \* migration names, as numbers that order them; 0 is a blank one
    Sums,       \* SQL texts, told apart by their checksums; 0 is a blank one
    Sessions,   \* database sessions
    PoolOf,     \* the process whose sql.DB pool owns each session
    Releases,   \* the migration slices a caller may pass
    Postgres,   \* Options.Postgres
    Env,        \* what the environment may do, a subset of EnvEvents
    MaxCalls,   \* bound: calls of Run each caller makes
    NoRun, NoSession

EnvEvents ==
    { "cancel",     \* the context of a call is cancelled
      "statement",  \* a statement fails
      "unlock",     \* pg_advisory_unlock fails on a live session
      "session",    \* the database drops the session that holds the lock
      "crash",      \* a process dies
      "status" }    \* somebody calls Status

Migrations == [name : Names, sum : Sums]

Row == [module : Modules, name : Names, sum : Sums]

ASSUME ConstantsOK ==
    /\ ProcOf \in [Runs -> Procs]
    /\ PoolOf \in [Sessions -> Procs]
    /\ ModuleOf \in [Runs -> Modules]
    /\ Names \subseteq Nat /\ Sums \subseteq Nat
    /\ Releases \subseteq Seq(Migrations)
    /\ Postgres \in BOOLEAN
    /\ Env \subseteq EnvEvents
    /\ MaxCalls \in Nat
    /\ NoRun \notin Runs
    /\ NoSession \notin Sessions

VARIABLES
    pc,         \* where each call is
    release,    \* the migrations the call was given
    result,     \* the error Run has decided to return so far, "ok" if none
    applied,    \* the names the call read from the ledger
    next,       \* index of the loop over migrations
    tx,         \* what the open transaction has written: SQL run, rows inserted
    cancelled,  \* whether the context of the call is done
    calls,      \* calls of Run made so far
    mutex,      \* holder of inProcess in each process
    conn,       \* the pinned connection that locks
    dead,       \* pinned sessions that the database has dropped
    lock,       \* advisory lock: the session that holds it and how many times
    table,      \* whether the ledger table exists
    ledger,     \* committed rows of the ledger
    effects,    \* how many times each migration's SQL has been committed
    status      \* progress of a Status call

callVars == <<release, applied, next, tx>>
lockVars == <<mutex, conn, dead, lock>>
dbVars == <<table, ledger, effects>>
vars == <<pc, result, calls, cancelled, callVars, lockVars, dbVars, status>>

-----------------------------------------------------------------------------

Results == {"ok", "invalid", "failed", "drift", "unknown", "unlock"}

Unlocked == [session |-> NoSession, count |-> 0]
NoTx == [sql |-> {}, rows |-> {}]

\* Places of a call between taking and leaving the advisory lock, and of those
\* the ones with an open transaction.
InTx == {"exec", "insert", "commit"}
Locked == {"ensure", "create", "read", "loop", "unlock"} \union InTx
Places == {"idle", "mutex", "conn", "lock", "returned"} \union Locked

Active(r) == pc[r] \notin {"idle", "returned"}

\* validate: every migration has a name and SQL and the names ascend, which
\* rules out duplicates.
Valid(ms) ==
    /\ \A i \in DOMAIN ms : ms[i].name # 0 /\ ms[i].sum # 0
    /\ \A i, j \in DOMAIN ms : i < j => ms[i].name < ms[j].name

NamesIn(ms) == {ms[i].name : i \in DOMAIN ms}

\* The rows of a call's module, and the row a migration of the call would leave.
RowsOf(r) == {x \in ledger : x.module = ModuleOf[r]}
RowFor(r, m) == [module |-> ModuleOf[r], name |-> m.name, sum |-> m.sum]
Current(r) == RowFor(r, release[r][next[r]])
Shipped(r) == {RowFor(r, release[r][i]) : i \in DOMAIN release[r]}

SameKey(x, y) == x.module = y.module /\ x.name = y.name

\* Rows of the ledger that the build does not ship, or ships with other text.
Unshipped(ms, rows) == {x \in rows : x.name \notin NamesIn(ms)}
Changed(ms, rows) ==
    {x \in rows : \E i \in DOMAIN ms : ms[i].name = x.name /\ ms[i].sum # x.sum}

\* database/sql: a statement outside the pinned connection needs another one.
FreeSession(p) ==
    \E s \in Sessions : PoolOf[s] = p /\ \A r \in Runs : conn[r] # s

\* A statement of the call may go ahead: its context is not done.
Runnable(r, place) == pc[r] = place /\ ~cancelled[r]

Goto(r, place) == pc' = [pc EXCEPT ![r] = place]

\* An error path after the lock: the deferred rollback, then the deferred unlock.
Abort(r, why) ==
    /\ Goto(r, "unlock")
    /\ result' = [result EXCEPT ![r] = why]
    /\ tx' = [tx EXCEPT ![r] = NoTx]

\* The deferred calls, then return: Conn.Close puts a live session back into the
\* pool (and throws a dead one away), inProcess.Unlock frees the mutex.
Return(r, why) ==
    /\ Goto(r, "returned")
    /\ result' = [result EXCEPT ![r] = IF @ = "ok" THEN why ELSE @]
    /\ conn' = [conn EXCEPT ![r] = NoSession]
    /\ dead' = dead \ {conn[r]}
    /\ mutex' = [mutex EXCEPT ![ProcOf[r]] = NoRun]
    /\ UNCHANGED <<calls, cancelled, callVars, dbVars, status>>

-----------------------------------------------------------------------------
(* Faults: what single actions would be with a plausible bug in the code.   *)
(* Nothing below uses them.                                                 *)

\* reconcile without the downgrade check.
VerdictKnowsAll(ms, rows) == IF Changed(ms, rows) = {} THEN "ok" ELSE "drift"

\* No mutex around the run; an advisory lock that is tried and not waited for.
LockMutexShared(r) ==
    /\ pc[r] = "mutex"
    /\ mutex' = [mutex EXCEPT ![ProcOf[r]] = r]
    /\ Goto(r, IF Postgres THEN "conn" ELSE "ensure")
    /\ UNCHANGED <<result, calls, cancelled, callVars, conn, dead, lock, dbVars, status>>

TryLock(r) ==
    /\ Runnable(r, "lock")
    /\ lock' = [session |-> conn[r], count |-> lock.count + 1]
    /\ Goto(r, "ensure")
    /\ UNCHANGED <<result, calls, cancelled, callVars, mutex, conn, dead, dbVars, status>>

\* The SQL of a migration run outside the transaction of its ledger row.
ExecAutocommit(r) ==
    /\ Runnable(r, "exec")
    /\ effects' = [effects EXCEPT ![Current(r)] = @ + 1]
    /\ Goto(r, "insert")
    /\ UNCHANGED <<result, calls, cancelled, callVars, lockVars, table, ledger, status>>

\* A ledger without its primary key.
InsertAnyKey(r) ==
    /\ Runnable(r, "insert")
    /\ tx' = [tx EXCEPT ![r].rows = @ \union {Current(r)}]
    /\ Goto(r, "commit")
    /\ UNCHANGED <<result, calls, cancelled, release, applied, next, lockVars, dbVars, status>>

\* A failed migration skipped instead of ending the run.
StatementSkipped(r) ==
    /\ pc[r] \in InTx
    /\ "statement" \in Env
    /\ tx' = [tx EXCEPT ![r] = NoTx]
    /\ next' = [next EXCEPT ![r] = @ + 1]
    /\ Goto(r, "loop")
    /\ UNCHANGED <<result, calls, cancelled, release, applied, lockVars, dbVars, status>>

\* A loop that takes every name below the highest applied one for applied.
LoopDoneAtHighest(r) ==
    /\ pc[r] = "loop"
    /\ \A k \in next[r] .. Len(release[r]) : \E n \in applied[r] : release[r][k].name <= n
    /\ Goto(r, "unlock")
    /\ UNCHANGED <<result, calls, cancelled, callVars, lockVars, dbVars, status>>

\* A lock that fails and does not close its connection.
LockFailsUnclosed(r) ==
    /\ pc[r] \in {"conn", "lock"}
    /\ cancelled[r] \/ conn[r] \in dead \/ "statement" \in Env
    /\ mutex' = [mutex EXCEPT ![ProcOf[r]] = NoRun]
    /\ Goto(r, "returned")
    /\ result' = [result EXCEPT ![r] = "failed"]
    /\ UNCHANGED <<calls, cancelled, callVars, conn, dead, lock, dbVars, status>>

\* An unlock that does not notice a lost session, and a failed one whose error is
\* dropped.

UnlockBlindly(r) ==
    /\ pc[r] = "unlock"
    /\ lock' = IF lock.count = 1 THEN Unlocked ELSE [lock EXCEPT !.count = @ - 1]
    /\ Return(r, "ok")

UnlockErrorDropped(r) ==
    /\ pc[r] = "unlock"
    /\ Postgres
    /\ cancelled[r] \/ conn[r] \in dead \/ "unlock" \in Env
    /\ Return(r, "ok")
    /\ UNCHANGED lock

-----------------------------------------------------------------------------

\* reconcile: the first applied name, in name order, that the build does not
\* ship or ships with other text decides the error.
Verdict(ms, rows) ==
    LET bad == Unshipped(ms, rows) \union Changed(ms, rows)
        first(x) == \A y \in bad : x.name <= y.name
    IN  IF bad = {} THEN "ok"
        ELSE IF \E x \in Unshipped(ms, rows) : first(x) THEN "unknown"
        ELSE "drift"

Init ==
    /\ pc = [r \in Runs |-> "idle"]
    /\ release = [r \in Runs |-> << >>]
    /\ result = [r \in Runs |-> "ok"]
    /\ applied = [r \in Runs |-> {}]
    /\ next = [r \in Runs |-> 1]
    /\ tx = [r \in Runs |-> NoTx]
    /\ cancelled = [r \in Runs |-> FALSE]
    /\ calls = [r \in Runs |-> 0]
    /\ mutex = [p \in Procs |-> NoRun]
    /\ conn = [r \in Runs |-> NoSession]
    /\ dead = {}
    /\ lock = Unlocked
    /\ table = FALSE
    /\ ledger = {}
    /\ effects = [x \in Row |-> 0]
    /\ status = "idle"

\* Run is called with some release; validate refuses a malformed one at once.
Call(r) ==
    /\ ~Active(r)
    /\ calls[r] < MaxCalls
    /\ \E ms \in Releases :
        /\ release' = [release EXCEPT ![r] = ms]
        /\ Goto(r, IF Valid(ms) THEN "mutex" ELSE "returned")
        /\ result' = [result EXCEPT ![r] = IF Valid(ms) THEN "ok" ELSE "invalid"]
    /\ applied' = [applied EXCEPT ![r] = {}]
    /\ next' = [next EXCEPT ![r] = 1]
    /\ calls' = [calls EXCEPT ![r] = @ + 1]
    /\ cancelled' = [cancelled EXCEPT ![r] = FALSE]
    /\ UNCHANGED <<tx, lockVars, dbVars, status>>

\* inProcess.Lock(): no context, so a cancelled call waits like any other.
LockMutex(r) ==
    /\ pc[r] = "mutex"
    /\ mutex[ProcOf[r]] = NoRun
    /\ mutex' = [mutex EXCEPT ![ProcOf[r]] = r]
    /\ Goto(r, IF Postgres THEN "conn" ELSE "ensure")
    /\ UNCHANGED <<result, calls, cancelled, callVars, conn, dead, lock, dbVars, status>>

\* db.Conn: any session of the pool, also one that an earlier call returned to
\* it while it still held the advisory lock.
TakeConn(r) ==
    /\ Runnable(r, "conn")
    /\ \E s \in Sessions :
        /\ PoolOf[s] = ProcOf[r]
        /\ \A q \in Runs : conn[q] # s
        /\ conn' = [conn EXCEPT ![r] = s]
    /\ Goto(r, "lock")
    /\ UNCHANGED <<result, calls, cancelled, callVars, mutex, dead, lock, dbVars, status>>

\* pg_advisory_lock waits for other sessions and nests within its own.
AcquireLock(r) ==
    /\ Runnable(r, "lock")
    /\ conn[r] \notin dead
    /\ lock.session \in {NoSession, conn[r]}
    /\ lock' = [session |-> conn[r], count |-> lock.count + 1]
    /\ Goto(r, "ensure")
    /\ UNCHANGED <<result, calls, cancelled, callVars, mutex, conn, dead, dbVars, status>>

\* lock fails before it has the lock: the connection is closed, the mutex freed.
LockFails(r) ==
    /\ pc[r] \in {"conn", "lock"}
    /\ cancelled[r] \/ conn[r] \in dead \/ "statement" \in Env
    /\ conn' = [conn EXCEPT ![r] = NoSession]
    /\ dead' = dead \ {conn[r]}
    /\ mutex' = [mutex EXCEPT ![ProcOf[r]] = NoRun]
    /\ Goto(r, "returned")
    /\ result' = [result EXCEPT ![r] = "failed"]
    /\ UNCHANGED <<calls, cancelled, callVars, lock, dbVars, status>>

\* ensureLedger: CREATE TABLE IF NOT EXISTS looks the table up ...
EnsureLedger(r) ==
    /\ Runnable(r, "ensure")
    /\ FreeSession(ProcOf[r])
    /\ Goto(r, IF table THEN "read" ELSE "create")
    /\ UNCHANGED <<result, calls, cancelled, callVars, lockVars, dbVars, status>>

\* ... and creates it. On Postgres a creator that loses the race in the system
\* catalog gets an error; on SQLite the statement is one atomic write.
CreateLedger(r) ==
    /\ Runnable(r, "create")
    /\ IF table /\ Postgres
       THEN Abort(r, "failed")
       ELSE Goto(r, "read") /\ UNCHANGED <<result, tx>>
    /\ table' = TRUE
    /\ UNCHANGED <<calls, cancelled, release, applied, next, lockVars, ledger, effects, status>>

\* appliedFor and reconcile: a snapshot of the module's rows, judged at once.
ReadLedger(r) ==
    /\ Runnable(r, "read")
    /\ FreeSession(ProcOf[r])
    /\ LET v == Verdict(release[r], RowsOf(r))
       IN  /\ result' = [result EXCEPT ![r] = v]
           /\ Goto(r, IF v = "ok" THEN "loop" ELSE "unlock")
    /\ applied' = [applied EXCEPT ![r] = {x.name : x \in RowsOf(r)}]
    /\ UNCHANGED <<calls, cancelled, release, next, tx, lockVars, dbVars, status>>

\* The loop continues at the first migration the snapshot does not name: apply
\* begins a transaction and counts the ledger rows of that name again.
Recheck(r) ==
    /\ Runnable(r, "loop")
    /\ FreeSession(ProcOf[r])
    /\ \E j \in next[r] .. Len(release[r]) :
        /\ release[r][j].name \notin applied[r]
        /\ \A k \in next[r] .. j - 1 : release[r][k].name \in applied[r]
        /\ IF \E x \in ledger : SameKey(x, RowFor(r, release[r][j]))
           THEN next' = [next EXCEPT ![r] = j + 1] /\ UNCHANGED pc
           ELSE next' = [next EXCEPT ![r] = j] /\ Goto(r, "exec")
    /\ UNCHANGED <<result, calls, cancelled, release, applied, tx, lockVars, dbVars, status>>

\* Nothing is left to apply: Run returns nil, unless its deferred unlock fails.
LoopDone(r) ==
    /\ pc[r] = "loop"
    /\ \A k \in next[r] .. Len(release[r]) : release[r][k].name \in applied[r]
    /\ Goto(r, "unlock")
    /\ UNCHANGED <<result, calls, cancelled, callVars, lockVars, dbVars, status>>

\* tx.ExecContext(m.SQL)
Exec(r) ==
    /\ Runnable(r, "exec")
    /\ tx' = [tx EXCEPT ![r].sql = @ \union {Current(r)}]
    /\ Goto(r, "insert")
    /\ UNCHANGED <<result, calls, cancelled, release, applied, next, lockVars, dbVars, status>>

\* INSERT INTO the ledger. The primary key (module, name) makes the statement
\* wait for another transaction that has inserted the key, and fail when the
\* key is there.
Insert(r) ==
    /\ Runnable(r, "insert")
    /\ \A q \in Runs : \A x \in tx[q].rows : ~SameKey(x, Current(r))
    /\ IF \E x \in ledger : SameKey(x, Current(r))
       THEN Abort(r, "failed")
       ELSE /\ tx' = [tx EXCEPT ![r].rows = @ \union {Current(r)}]
            /\ Goto(r, "commit")
            /\ UNCHANGED result
    /\ UNCHANGED <<calls, cancelled, release, applied, next, lockVars, dbVars, status>>

\* The database makes what a transaction wrote visible in one step.
Durable(t) ==
    /\ ledger' = ledger \union t.rows
    /\ effects' = [x \in Row |-> IF x \in t.sql THEN effects[x] + 1 ELSE effects[x]]

\* tx.Commit(), and on to the next migration.
Commit(r) ==
    /\ Runnable(r, "commit")
    /\ Durable(tx[r])
    /\ tx' = [tx EXCEPT ![r] = NoTx]
    /\ next' = [next EXCEPT ![r] = @ + 1]
    /\ Goto(r, "loop")
    /\ UNCHANGED <<result, calls, cancelled, release, applied, lockVars, table, status>>

\* The database commits but the answer does not arrive: Run reports an error.
CommitUnanswered(r) ==
    /\ Runnable(r, "commit")
    /\ "statement" \in Env
    /\ Durable(tx[r])
    /\ Abort(r, "failed")
    /\ UNCHANGED <<calls, cancelled, release, applied, next, lockVars, table, status>>

\* A statement after the lock fails, or finds its context done.
StatementFails(r) ==
    /\ pc[r] \in Locked \ {"unlock"}
    /\ cancelled[r] \/ "statement" \in Env
    /\ Abort(r, "failed")
    /\ UNCHANGED <<calls, cancelled, release, applied, next, lockVars, dbVars, status>>

\* pg_advisory_unlock succeeds; without Postgres there is nothing to unlock.
Unlock(r) ==
    /\ pc[r] = "unlock"
    /\ IF Postgres
       THEN /\ ~cancelled[r] /\ conn[r] \notin dead
            /\ lock' = IF lock.count = 1 THEN Unlocked
                       ELSE [lock EXCEPT !.count = @ - 1]
       ELSE UNCHANGED lock
    /\ Return(r, "ok")

\* pg_advisory_unlock runs under the context of Run: once that is done it fails,
\* and so does an unlock over a broken session. The lock is left as it is.
UnlockFails(r) ==
    /\ pc[r] = "unlock"
    /\ Postgres
    /\ cancelled[r] \/ conn[r] \in dead \/ "unlock" \in Env
    /\ Return(r, "unlock")
    /\ UNCHANGED lock

-----------------------------------------------------------------------------

Cancel(r) ==
    /\ "cancel" \in Env
    /\ Active(r) /\ ~cancelled[r]
    /\ cancelled' = [cancelled EXCEPT ![r] = TRUE]
    /\ UNCHANGED <<pc, result, calls, callVars, lockVars, dbVars, status>>

\* The database drops the session that holds the lock, and with it the lock.
SessionDies ==
    /\ "session" \in Env
    /\ lock.session # NoSession
    /\ dead' = dead \union {conn[r] : r \in {q \in Runs : conn[q] = lock.session}}
    /\ lock' = Unlocked
    /\ UNCHANGED <<pc, result, calls, cancelled, callVars, mutex, conn, dbVars, status>>

\* A process dies: its sessions end, their transactions roll back, its lock and
\* its mutex are gone. The next call comes from its next incarnation.
Crash(p) ==
    LET mine == {r \in Runs : ProcOf[r] = p}
    IN  /\ "crash" \in Env
        /\ \E r \in mine : Active(r)
        /\ pc' = [r \in Runs |-> IF r \in mine THEN "idle" ELSE pc[r]]
        /\ tx' = [r \in Runs |-> IF r \in mine THEN NoTx ELSE tx[r]]
        /\ mutex' = [mutex EXCEPT ![p] = NoRun]
        /\ conn' = [r \in Runs |-> IF r \in mine THEN NoSession ELSE conn[r]]
        /\ dead' = {s \in dead : PoolOf[s] # p}
        /\ lock' = IF lock.session # NoSession /\ PoolOf[lock.session] = p
                   THEN Unlocked ELSE lock
        /\ UNCHANGED <<result, calls, cancelled, release, applied, next, dbVars, status>>

\* Status calls ensureLedger without any lock, in the same two steps. What it
\* returns is a read of the ledger and changes nothing.
StatusLooks ==
    /\ "status" \in Env
    /\ status = "idle" /\ ~table
    /\ status' = "create"
    /\ UNCHANGED <<pc, result, calls, cancelled, callVars, lockVars, dbVars>>

StatusCreates ==
    /\ status = "create"
    /\ table' = TRUE
    /\ status' = "idle"
    /\ UNCHANGED <<pc, result, calls, cancelled, callVars, lockVars, ledger, effects>>

\* Every caller has made its calls: the bound ends the behaviour.
Finished ==
    /\ \A r \in Runs : ~Active(r) /\ calls[r] = MaxCalls
    /\ status = "idle"
    /\ UNCHANGED vars

Step(r) ==
    \/ LockMutex(r)
    \/ TakeConn(r) \/ AcquireLock(r) \/ LockFails(r)
    \/ EnsureLedger(r) \/ CreateLedger(r)
    \/ ReadLedger(r)
    \/ Recheck(r) \/ LoopDone(r)
    \/ Exec(r) \/ Insert(r) \/ Commit(r) \/ CommitUnanswered(r)
    \/ StatementFails(r)
    \/ Unlock(r) \/ UnlockFails(r)

Next ==
    \/ \E r \in Runs : Call(r) \/ Step(r) \/ Cancel(r)
    \/ \E p \in Procs : Crash(p)
    \/ SessionDies
    \/ StatusLooks \/ StatusCreates
    \/ Finished

Spec == Init /\ [][Next]_vars

\* The Go scheduler and the database go on with what they were asked to do:
\* every started call keeps taking its steps. Nobody is obliged to call Run, and
\* no statement has to fail but that of a call whose context or session is gone:
\* a waiting call cannot count on an error to end its wait.
Proceed(r) ==
    \/ LockMutex(r) \/ TakeConn(r) \/ AcquireLock(r)
    \/ EnsureLedger(r) \/ CreateLedger(r) \/ ReadLedger(r)
    \/ Recheck(r) \/ LoopDone(r)
    \/ Exec(r) \/ Insert(r) \/ Commit(r) \/ Unlock(r)
    \/ /\ cancelled[r] \/ conn[r] \in dead
       /\ LockFails(r) \/ StatementFails(r) \/ UnlockFails(r)

Fairness == \A r \in Runs : WF_vars(Proceed(r))

FairSpec == Spec /\ Fairness

-----------------------------------------------------------------------------
(* Properties *)

TypeOK ==
    /\ pc \in [Runs -> Places]
    /\ release \in [Runs -> Seq(Migrations)]
    /\ result \in [Runs -> Results]
    /\ applied \in [Runs -> SUBSET Names]
    /\ next \in [Runs -> Nat \ {0}]
    /\ tx \in [Runs -> [sql : SUBSET Row, rows : SUBSET Row]]
    /\ cancelled \in [Runs -> BOOLEAN]
    /\ calls \in [Runs -> Nat]
    /\ mutex \in [Procs -> Runs \union {NoRun}]
    /\ conn \in [Runs -> Sessions \union {NoSession}]
    /\ dead \subseteq Sessions
    /\ lock \in [session : Sessions \union {NoSession}, count : Nat]
    /\ table \in BOOLEAN
    /\ ledger \subseteq Row
    /\ effects \in [Row -> Nat]
    /\ status \in {"idle", "create"}

\* "Even a caller that defeats the above applies nothing twice" (migrate.go:41):
\* of all the texts ever shipped under one name of one module, at most one has
\* been committed, and once, whatever happens to the locks.
AppliedOnce ==
    \A x, y \in Row :
        SameKey(x, y) /\ effects[x] > 0 /\ effects[y] > 0 =>
            x = y /\ effects[x] = 1

\* "A failure leaves nothing half-applied" (migrate.go:79): after any crash,
\* error or lost answer the ledger names exactly the SQL the database has had.
LedgerMatchesEffects == \A x \in Row : x \in ledger <=> effects[x] > 0

\* Two calls are between lock and unlock only if they are in different
\* processes and, on Postgres, one has lost the session its lock lived in.
MutualExclusion ==
    \A r, q \in Runs :
        r # q /\ pc[r] \in Locked /\ pc[q] \in Locked =>
            /\ ProcOf[r] # ProcOf[q]
            /\ Postgres => conn[r] \in dead \/ conn[q] \in dead

\* "It fails closed in both directions" (migrate.go:25): no build ever changes
\* the schema of a module whose ledger names a migration it does not ship, or
\* ships with other text, at the moment of the change.
CommitIsCompatible ==
    [][\A r \in Runs :
        tx[r].rows # {} /\ tx[r].rows \subseteq ledger' /\ ~(tx[r].rows \subseteq ledger) =>
            RowsOf(r) \subseteq Shipped(r)]_vars

\* Run returned nil: everything its build ships is in the ledger, with the text
\* it ships, and stays there.
OkMeansMigrated ==
    \A r \in Runs :
        pc[r] = "returned" /\ result[r] = "ok" => Shipped(r) \subseteq ledger

\* While every release only appends to the one before, a module's ledger is a
\* prefix of some release: no interleaving, crash or lost answer leaves a gap.
LedgerIsReleasePrefix ==
    \A r \in Runs : \E ms \in {m \in Releases : Valid(m)} : \E n \in 0 .. Len(ms) :
        RowsOf(r) = {RowFor(r, ms[i]) : i \in 1 .. n}

\* Holds of the advisory lock that no call works under: the lock nests, so a call that
\* takes a session out of the pool with such a hold on it adds one, and removes one.
Orphans ==
    IF \E r \in Runs : pc[r] \in Locked /\ conn[r] # NoSession /\ conn[r] = lock.session
    THEN lock.count - 1 ELSE lock.count

\* "A failed unlock leaves a pooled session holding the advisory lock [...] so it
\* fails the run" (migrate.go:130): in no other step than the return of a call that
\* fails is a hold left behind, be it the first of its session or one on top of others,
\* and not when processes die, waiting ends early or sessions are lost.
LeakFailsTheRun ==
    [][Orphans' > Orphans =>
        \E r \in Runs : pc[r] = "unlock" /\ pc'[r] = "returned" /\ result'[r] # "ok"]_vars

\* "It is safe to call on every boot and safe to call concurrently"
\* (migrate.go:111): with no failing statements and sessions around it, a call
\* whose context stays good does not fail because of what its peers do, be it to
\* crash or to leave the lock behind.
SafeConcurrently == \A r \in Runs : result[r] = "failed" => cancelled[r]

\* A failed unlock "would block every future run" (migrate.go:131), and nothing else
\* does: every call of Run returns (or dies with its process), whatever its peers do,
\* or from some time on a hold that was left behind stays there for good.
RunReturns == \A r \in Runs : Active(r) ~> (~Active(r) \/ [](Orphans > 0))

-----------------------------------------------------------------------------
(* The inductive invariant behind AppliedOnce, LedgerMatchesEffects and     *)
(* MutualExclusion: who holds the mutex, the connections and the advisory   *)
(* lock at each place of a call, and what its transaction has written.      *)

HoldsMutex(r) == pc[r] \in {"conn", "lock"} \union Locked

MutexInv == \A r \in Runs : HoldsMutex(r) => mutex[ProcOf[r]] = r

ConnInv ==
    /\ \A r \in Runs :
        /\ conn[r] # NoSession => HoldsMutex(r) /\ PoolOf[conn[r]] = ProcOf[r]
        /\ Postgres /\ pc[r] \in {"lock"} \union Locked => conn[r] # NoSession
        /\ pc[r] \in {"conn", "lock"} => Postgres
    /\ \A r, q \in Runs : r # q /\ conn[r] # NoSession => conn[r] # conn[q]

LockInv ==
    /\ lock.session = NoSession <=> lock.count = 0
    /\ \A r \in Runs :
        Postgres /\ pc[r] \in Locked /\ conn[r] \notin dead => lock.session = conn[r]

TxInv ==
    /\ \A r \in Runs :
        /\ pc[r] \in InTx => next[r] <= Len(release[r])
        /\ tx[r].sql = IF pc[r] \in {"insert", "commit"} THEN {Current(r)} ELSE {}
        /\ tx[r].rows = IF pc[r] = "commit" THEN {Current(r)} ELSE {}
    /\ \A r, q \in Runs : r # q =>
        \A x \in tx[r].rows, y \in tx[q].rows : ~SameKey(x, y)

LedgerInv ==
    /\ \A x, y \in ledger : SameKey(x, y) => x = y
    /\ \A r \in Runs : \A x \in tx[r].rows, y \in ledger : ~SameKey(x, y)
    /\ \A x \in Row : effects[x] = IF x \in ledger THEN 1 ELSE 0

\* Holds in every reachable state, with every fault of Env, and makes itself true.
IInv == TypeOK /\ MutexInv /\ ConnInv /\ LockInv /\ TxInv /\ LedgerInv

-----------------------------------------------------------------------------
(* What else is invariant, given IInv, and what it takes.                   *)

Applying == {"loop"} \union InTx

Recorded(r, name) == \E x \in RowsOf(r) : x.name = name

\* A call applies a valid release in order and passes no migration that is not
\* in the ledger, with whatever text. Like IInv it takes nothing.
ProgressInv ==
    \A r \in Runs :
        /\ Active(r) => release[r] \in Releases /\ Valid(release[r])
        /\ Active(r) /\ pc[r] \notin Applying \union {"unlock"} => next[r] = 1
        /\ pc[r] \in Applying =>
            /\ \A n \in applied[r] : Recorded(r, n)
            /\ \A k \in DOMAIN release[r] : k < next[r] => Recorded(r, release[r][k].name)
        /\ pc[r] \in {"unlock", "returned"} /\ result[r] = "ok" =>
            \A k \in DOMAIN release[r] : Recorded(r, release[r][k].name)

\* Sessions die where the database drops them and nowhere else, and only Postgres
\* has any of them pinned.
SessionInv ==
    /\ "session" \notin Env => dead = {}
    /\ ~Postgres => \A r \in Runs : conn[r] = NoSession

\* What serializes the calls is not defeated: on Postgres no session is lost while it
\* holds the lock, and without it "the embedded profile is one process over one file
\* by definition" (migrate.go:39).
Alone ==
    \/ Postgres /\ "session" \notin Env
    \/ \A r, q \in Runs : ProcOf[r] = ProcOf[q]

\* What a call read of the ledger then stays true until it is done.
TextInv ==
    \A r \in Runs :
        /\ pc[r] \in Applying => RowsOf(r) \subseteq Shipped(r)
        /\ pc[r] \in {"unlock", "returned"} /\ result[r] = "ok" => Shipped(r) \subseteq ledger
        /\ pc[r] \in {"exec", "insert"} => \A x \in ledger : ~SameKey(x, Current(r))

\* With nothing around that fails by itself, and no Status.
Quiet == Env \intersect {"statement", "session", "status"} = {}

TableInv == status = "idle" /\ \A r \in Runs : pc[r] = "create" => ~table

\* Releases that agree on what they both ship.
OnlyAppended ==
    /\ \E ms \in Releases : Valid(ms)
    /\ \A ms, ns \in {m \in Releases : Valid(m)} :
        \A i \in DOMAIN ms \intersect DOMAIN ns : ms[i] = ns[i]

-----------------------------------------------------------------------------
(* The contract: Run implements Schema. A call is running from the moment   *)
(* it is made to its return, and applies a migration when the transaction   *)
(* that has its SQL commits, whether or not the answer arrives.             *)

StateOf(r) ==
    IF Active(r) THEN "running"
    ELSE IF pc[r] = "idle" THEN "out"
    ELSE IF result[r] = "ok" THEN "ok" ELSE "failed"

Contract == INSTANCE Schema WITH
    Callers <- Runs,
    Accepted <- {ms \in Releases : Valid(ms)},
    Exclusive <- Alone,
    times <- effects,
    ships <- release,
    state <- [r \in Runs |-> StateOf(r)]

\* "Run applies whatever of migrations this database has not seen, in order"
\* (migrate.go:110), whatever Env does: each in one step and once; and without a
\* build at work on a schema it does not ship while calls exclude each other.
ImplementsSchema == Contract!Spec

=============================================================================
