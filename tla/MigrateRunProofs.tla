-------------------------- MODULE MigrateRunProofs --------------------------
(***************************************************************************)
(* More proofs about Migrate, on top of its inductive invariant: what the  *)
(* calls of Run leave in the ledger and what they return. Some of it takes *)
(* the locks to hold (Alone), an environment in which nothing else fails   *)
(* (Quiet), or releases that only append (OnlyAppended).                   *)
(***************************************************************************)
EXTENDS MigrateProofs

-----------------------------------------------------------------------------
(* What a step does to one call, and to the ledger. *)

Still(r) ==
    /\ pc'[r] = pc[r] /\ result'[r] = result[r] /\ applied'[r] = applied[r]
    /\ next'[r] = next[r] /\ release'[r] = release[r]

\* A step of one call leaves the others where they are.
LEMMA OnlyOneActs ==
    ASSUME TypeOK, NEW q \in Runs, Call(q) \/ Step(q) \/ Cancel(q), NEW r \in Runs \ {q}
    PROVE  Still(r)
<1> USE DEF TypeOK, Still, callVars, lockVars, dbVars, Goto, Abort, Return, Runnable
<1>1. CASE Call(q) \/ Cancel(q)
    BY <1>1 DEF Call, Cancel
<1>2. CASE LockMutex(q) \/ TakeConn(q) \/ AcquireLock(q) \/ LockFails(q)
    BY <1>2 DEF LockMutex, TakeConn, AcquireLock, LockFails
<1>3. CASE EnsureLedger(q) \/ CreateLedger(q) \/ ReadLedger(q)
    BY <1>3 DEF EnsureLedger, CreateLedger, ReadLedger
<1>4. CASE Recheck(q) \/ LoopDone(q)
    BY <1>4 DEF Recheck, LoopDone
<1>5. CASE Exec(q) \/ Insert(q)
    BY <1>5 DEF Exec, Insert
<1>6. CASE Commit(q) \/ CommitUnanswered(q) \/ StatementFails(q)
    BY <1>6 DEF Commit, CommitUnanswered, StatementFails
<1>7. CASE Unlock(q) \/ UnlockFails(q)
    BY <1>7 DEF Unlock, UnlockFails
<1>8. QED
    BY <1>1, <1>2, <1>3, <1>4, <1>5, <1>6, <1>7 DEF Step

\* A call stays where it is, takes a step, or ends with its process.
LEMMA WhoActs ==
    ASSUME TypeOK, [Next]_vars, NEW r \in Runs
    PROVE  \/ Still(r) \/ Call(r) \/ Step(r)
           \/ pc'[r] = "idle" /\ result'[r] = result[r]
<1>1. ASSUME NEW q \in Runs, q # r, Call(q) \/ Step(q) \/ Cancel(q) PROVE Still(r)
    BY <1>1, OnlyOneActs
<1>2. ASSUME Cancel(r) PROVE Still(r)
    BY <1>2 DEF Cancel, Still, callVars
<1>3. ASSUME NEW p \in Procs, Crash(p)
      PROVE  Still(r) \/ (pc'[r] = "idle" /\ result'[r] = result[r])
    BY <1>3 DEF Crash, Still
<1>4. CASE SessionDies \/ StatusLooks \/ StatusCreates \/ Finished \/ UNCHANGED vars
    BY <1>4 DEF SessionDies, StatusLooks, StatusCreates, Finished, Still, vars, callVars
<1>5. QED
    BY <1>1, <1>2, <1>3, <1>4 DEF Next

\* Rows are added by the commit of one transaction, and never removed.
LEMMA LedgerGrows ==
    ASSUME IInv, [Next]_vars
    PROVE  \/ ledger' = ledger
           \/ \E q \in Runs : /\ pc[q] = "commit" /\ pc'[q] # "commit"
                              /\ ledger' = ledger \union {Current(q)}
<1>1. ASSUME NEW q \in Runs, Commit(q) \/ CommitUnanswered(q)
      PROVE  /\ pc[q] = "commit" /\ pc'[q] # "commit"
             /\ ledger' = ledger \union {Current(q)}
    <2>1. pc[q] = "commit" /\ tx[q].rows = {Current(q)}
        BY <1>1 DEF Commit, CommitUnanswered, Runnable, IInv, TxInv
    <2>2. ledger' = ledger \union tx[q].rows
        BY <1>1 DEF Commit, CommitUnanswered, Durable
    <2>3. pc'[q] # "commit"
        BY <1>1 DEF Commit, CommitUnanswered, Abort, Goto, IInv, TypeOK
    <2>4. QED
        BY <2>1, <2>2, <2>3
<1>2. ledger' = ledger \/ \E q \in Runs : Commit(q) \/ CommitUnanswered(q)
    BY DEF Next, Call, Step, Cancel, Crash, SessionDies, StatusLooks, StatusCreates, Finished,
        LockMutex, TakeConn, AcquireLock, LockFails, EnsureLedger, CreateLedger, ReadLedger,
        Recheck, LoopDone, Exec, Insert, StatementFails, Unlock, UnlockFails, Return,
        vars, callVars, lockVars, dbVars
<1>3. QED
    BY <1>1, <1>2

\* So what is recorded stays recorded.
LEMMA RecordedStays ==
    ASSUME IInv, [Next]_vars, NEW r \in Runs, NEW n, Recorded(r, n)
    PROVE  Recorded(r, n)'
<1>1. ledger \subseteq ledger'
    BY LedgerGrows
<1>2. QED
    BY <1>1 DEF Recorded, RowsOf

-----------------------------------------------------------------------------
(* Sessions, and the lock that a call may leave behind. *)

LEMMA SessionStep == IInv /\ SessionInv /\ [Next]_vars => SessionInv'
<1> SUFFICES ASSUME IInv, SessionInv, [Next]_vars PROVE SessionInv'
    OBVIOUS
<1>1. dead' \subseteq dead \/ "session" \in Env
    BY DEF Next, Call, Step, Cancel, Crash, SessionDies, StatusLooks, StatusCreates, Finished,
        LockMutex, TakeConn, AcquireLock, LockFails, EnsureLedger, CreateLedger, ReadLedger,
        Recheck, LoopDone, Exec, Insert, Commit, CommitUnanswered, StatementFails, Unlock,
        UnlockFails, Return, vars, callVars, lockVars, dbVars
<1>2. ASSUME ~Postgres, NEW r \in Runs PROVE conn'[r] = NoSession
    <2>1. ~\E q \in Runs : TakeConn(q)
        BY <1>2 DEF TakeConn, Runnable, IInv, ConnInv
    <2>2. \/ UNCHANGED conn
          \/ \E q \in Runs : conn' = [conn EXCEPT ![q] = NoSession]
          \/ \E p \in Procs : Crash(p)
        BY <2>1 DEF Next, Call, Step, Cancel, SessionDies, StatusLooks, StatusCreates, Finished,
            LockMutex, AcquireLock, LockFails, EnsureLedger, CreateLedger, ReadLedger,
            Recheck, LoopDone, Exec, Insert, Commit, CommitUnanswered, StatementFails, Unlock,
            UnlockFails, Return, vars, callVars, lockVars, dbVars
    <2>3. QED
        BY <1>2, <2>2 DEF SessionInv, Crash, IInv, TypeOK
<1>3. QED
    BY <1>1, <1>2 DEF SessionInv

THEOREM SessionsDieOnce == Spec => []SessionInv
<1>1. Init => SessionInv
    BY DEF Init, SessionInv
<1>2. QED
    BY <1>1, SessionStep, Invariant, PTL DEF Spec

\* The call that works under the advisory lock.
Owner(r) == pc[r] \in Locked /\ conn[r] # NoSession /\ conn[r] = lock.session

\* Of the holds of the lock one is its owner's; the rest have none.
Holds ==
    /\ lock.count \in Nat
    /\ (\E r \in Runs : Owner(r)) => lock.count >= 1 /\ Orphans = lock.count - 1
    /\ ~(\E r \in Runs : Owner(r)) => Orphans = lock.count

LEMMA HoldsWithoutOwner == IInv => Holds
<1> SUFFICES ASSUME IInv PROVE Holds
    OBVIOUS
<1>1. lock.count \in Nat
    BY DEF IInv, TypeOK
<1>2. (\E r \in Runs : Owner(r)) => lock.session # NoSession
    BY DEF Owner
<1>3. lock.session # NoSession => lock.count # 0
    BY DEF IInv, LockInv
<1>4. QED
    BY <1>1, <1>2, <1>3 DEF Holds, Orphans, Owner

\* While the lock stays as it is and its owner with it, no hold is left behind.
LEMMA OwnerStays ==
    ASSUME Holds, Holds', lock' = lock, \A r \in Runs : Owner(r) => Owner(r)'
    PROVE  ~(Orphans' > Orphans)
BY DEF Holds

\* A lock that nobody holds has no holds.
LEMMA NothingHeld ==
    ASSUME Holds, Holds', lock' = Unlocked
    PROVE  ~(Orphans' > Orphans)
<1>1. ~\E r \in Runs : Owner(r)'
    BY DEF Owner, Unlocked
<1>2. Orphans' = 0
    BY <1>1 DEF Holds, Unlocked
<1>3. QED
    BY <1>2 DEF Holds

\* A call on its way to the lock, or working under it, leaves no hold behind.
LEMMA WorkLeavesNothing ==
    ASSUME IInv, Holds, Holds', NEW r \in Runs,
           \/ Call(r) \/ Cancel(r) \/ LockMutex(r) \/ TakeConn(r) \/ LockFails(r)
           \/ EnsureLedger(r) \/ CreateLedger(r) \/ ReadLedger(r) \/ Recheck(r)
           \/ LoopDone(r) \/ Exec(r) \/ Insert(r) \/ Commit(r) \/ CommitUnanswered(r)
           \/ StatementFails(r)
    PROVE  ~(Orphans' > Orphans)
<1> USE DEF TypeOK, callVars, lockVars, dbVars, Goto, Abort, Runnable
<1>0. TypeOK
    BY DEF IInv
<1>1. CASE Call(r) \/ Cancel(r) \/ LockMutex(r) \/ TakeConn(r) \/ LockFails(r)
    <2>1. lock' = lock
        BY <1>1 DEF Call, Cancel, LockMutex, TakeConn, LockFails
    <2>2. pc' = pc \/ pc[r] \notin Locked
        BY <1>1 DEF Call, Cancel, LockMutex, TakeConn, LockFails, Active, Locked, InTx
    <2>3. \A q \in Runs \ {r} : pc'[q] = pc[q] /\ conn'[q] = conn[q]
        BY <1>0, <1>1 DEF Call, Cancel, LockMutex, TakeConn, LockFails
    <2>4. pc[r] \in Locked => conn' = conn
        BY <1>1 DEF Call, Cancel, LockMutex, TakeConn, LockFails, Locked, InTx
    <2>5. \A q \in Runs : Owner(q) => Owner(q)'
        BY <2>1, <2>2, <2>3, <2>4 DEF Owner
    <2>6. QED
        BY <2>1, <2>5, OwnerStays
<1>2. CASE \/ EnsureLedger(r) \/ CreateLedger(r) \/ ReadLedger(r) \/ Recheck(r)
           \/ LoopDone(r) \/ Exec(r) \/ Insert(r) \/ Commit(r) \/ CommitUnanswered(r)
           \/ StatementFails(r)
    <2>1. lock' = lock /\ conn' = conn
        BY <1>2 DEF EnsureLedger, CreateLedger, ReadLedger, Recheck, LoopDone, Exec, Insert,
            Commit, CommitUnanswered, StatementFails
    <2>2. pc'[r] \in Locked
        BY <1>0, <1>2 DEF EnsureLedger, CreateLedger, ReadLedger, Recheck, LoopDone, Exec,
            Insert, Commit, CommitUnanswered, StatementFails, Locked, InTx
    <2>3. \A q \in Runs \ {r} : pc'[q] = pc[q]
        BY <1>0, <1>2 DEF EnsureLedger, CreateLedger, ReadLedger, Recheck, LoopDone, Exec,
            Insert, Commit, CommitUnanswered, StatementFails
    <2>4. \A q \in Runs : Owner(q) => Owner(q)'
        BY <2>1, <2>2, <2>3 DEF Owner
    <2>5. QED
        BY <2>1, <2>4, OwnerStays
<1>3. QED
    BY <1>1, <1>2

\* The lock is taken for the call that asks for it, with the holds it had before.
LEMMA AcquireLeavesNothing ==
    ASSUME IInv, Holds, Holds', NEW r \in Runs, AcquireLock(r)
    PROVE  ~(Orphans' > Orphans)
<1>1. /\ pc[r] = "lock" /\ pc'[r] \in Locked /\ conn' = conn
      /\ lock.session \in {NoSession, conn[r]}
      /\ lock'.session = conn[r] /\ lock'.count = lock.count + 1
    BY DEF AcquireLock, Runnable, Goto, Locked, IInv, TypeOK
<1>2. conn[r] # NoSession
    BY <1>1 DEF IInv, ConnInv
<1>3. ~\E q \in Runs : Owner(q)
    BY <1>1, <1>2 DEF Owner, Locked, InTx, IInv, ConnInv
<1>4. Owner(r)'
    BY <1>1, <1>2 DEF Owner
<1>5. lock.count \in Nat /\ Orphans = lock.count
    BY <1>3 DEF Holds
<1>6. Orphans' = lock'.count - 1
    BY <1>4 DEF Holds
<1>7. QED
    BY <1>1, <1>5, <1>6

\* A successful unlock gives back the hold of the call that makes it.
LEMMA UnlockLeavesNothing ==
    ASSUME IInv, Holds, Holds', SessionInv, NEW r \in Runs, Unlock(r)
    PROVE  ~(Orphans' > Orphans)
<1>1. CASE Postgres
    <2>1. pc[r] = "unlock" /\ conn[r] \notin dead
        BY <1>1 DEF Unlock
    <2>2. Owner(r)
        BY <1>1, <2>1 DEF Owner, Locked, IInv, ConnInv, LockInv
    <2>3. lock.count \in Nat /\ lock.count >= 1 /\ Orphans = lock.count - 1
        BY <2>2 DEF Holds
    <2>4. lock'.count = lock.count - 1
        BY <1>1, <2>3 DEF Unlock, Unlocked, IInv, TypeOK
    <2>5. lock'.count \in Nat /\ (Orphans' = lock'.count \/ Orphans' = lock'.count - 1)
        BY DEF Holds
    <2>6. QED
        BY <2>3, <2>4, <2>5
<1>2. CASE ~Postgres
    <2>1. \A q \in Runs : ~Owner(q)
        BY <1>2 DEF SessionInv, Owner
    <2>2. lock' = lock
        BY <1>2 DEF Unlock
    <2>3. QED
        BY <2>1, <2>2, OwnerStays
<1>3. QED
    BY <1>1, <1>2

\* A process that dies takes the lock along, or had nothing to do with it.
LEMMA CrashLeavesNothing ==
    ASSUME IInv, Holds, Holds', NEW p \in Procs, Crash(p)
    PROVE  ~(Orphans' > Orphans)
<1>1. CASE lock.session # NoSession /\ PoolOf[lock.session] = p
    <2>1. lock' = Unlocked
        BY <1>1 DEF Crash
    <2>2. QED
        BY <2>1, NothingHeld
<1>2. CASE ~(lock.session # NoSession /\ PoolOf[lock.session] = p)
    <2>1. lock' = lock
        BY <1>2 DEF Crash
    <2>2. ASSUME NEW q \in Runs, Owner(q) PROVE Owner(q)'
        <3>1. ProcOf[q] # p
            BY <1>2, <2>2 DEF Owner, IInv, ConnInv
        <3>2. pc'[q] = pc[q] /\ conn'[q] = conn[q]
            BY <3>1 DEF Crash
        <3>3. QED
            BY <2>1, <2>2, <3>2 DEF Owner
    <2>3. QED
        BY <2>1, <2>2, OwnerStays
<1>3. QED
    BY <1>1, <1>2

\* Whoever leaves a hold of the advisory lock behind in the pool, the first of its
\* session or one on top of others, fails; nothing else leaves one behind.
THEOREM LeaksAreTold == Spec => LeakFailsTheRun
<1>1. ASSUME IInv, Holds, Holds', SessionInv, [Next]_vars, Orphans' > Orphans
      PROVE  \E r \in Runs : pc[r] = "unlock" /\ pc'[r] = "returned" /\ result'[r] # "ok"
    <2>1. ASSUME NEW r \in Runs, UnlockFails(r)
          PROVE  pc[r] = "unlock" /\ pc'[r] = "returned" /\ result'[r] # "ok"
        <3>1. pc[r] = "unlock" /\ Return(r, "unlock")
            BY <2>1 DEF UnlockFails
        <3>2. /\ pc' = [pc EXCEPT ![r] = "returned"]
              /\ result' = [result EXCEPT ![r] = IF @ = "ok" THEN "unlock" ELSE @]
            BY <3>1 DEF Return, Goto
        <3>3. pc \in [Runs -> Places] /\ result \in [Runs -> Results]
            BY <1>1 DEF IInv, TypeOK
        <3>4. pc'[r] = "returned"
            BY <3>2, <3>3
        <3>5. result'[r] # "ok"
            BY <3>2, <3>3
        <3>6. QED
            BY <3>1, <3>4, <3>5
    <2>2. ASSUME NEW r \in Runs, Call(r) \/ Step(r) \/ Cancel(r) PROVE UnlockFails(r)
        BY <1>1, <2>2, WorkLeavesNothing, AcquireLeavesNothing, UnlockLeavesNothing DEF Step
    <2>3. ~\E p \in Procs : Crash(p)
        BY <1>1, CrashLeavesNothing
    <2>4. ~SessionDies
        BY <1>1, NothingHeld DEF SessionDies
    <2>5. ~(StatusLooks \/ StatusCreates \/ Finished \/ UNCHANGED vars)
        <3>1. SUFFICES ASSUME StatusLooks \/ StatusCreates \/ Finished \/ UNCHANGED vars
                       PROVE  FALSE
            OBVIOUS
        <3>2. lock' = lock /\ pc' = pc /\ conn' = conn
            BY <3>1 DEF StatusLooks, StatusCreates, Finished, vars, lockVars
        <3>3. QED
            BY <1>1, <3>2, OwnerStays DEF Owner
    <2>6. QED
        BY <1>1, <2>1, <2>2, <2>3, <2>4, <2>5 DEF Next
<1>2. IInv /\ Holds /\ Holds' /\ SessionInv /\ [Next]_vars =>
        [Orphans' > Orphans =>
            \E r \in Runs : pc[r] = "unlock" /\ pc'[r] = "returned" /\ result'[r] # "ok"]_vars
    BY <1>1
<1>3. QED
    BY <1>2, HoldsWithoutOwner, Invariant, SessionsDieOnce, PTL DEF Spec, LeakFailsTheRun

-----------------------------------------------------------------------------
(* Progress through a release. *)

\* What ProgressInv says of one call.
Follows(r) ==
    /\ Active(r) => release[r] \in Releases /\ Valid(release[r])
    /\ Active(r) /\ pc[r] \notin Applying \union {"unlock"} => next[r] = 1
    /\ pc[r] \in Applying =>
        /\ \A n \in applied[r] : Recorded(r, n)
        /\ \A k \in DOMAIN release[r] : k < next[r] => Recorded(r, release[r][k].name)
    /\ pc[r] \in {"unlock", "returned"} /\ result[r] = "ok" =>
        \A k \in DOMAIN release[r] : Recorded(r, release[r][k].name)

LEMMA ByFollows == ProgressInv <=> \A r \in Runs : Follows(r)
BY Zenon DEF ProgressInv, Follows

\* The position of a call in its release is a natural number, and the release
\* a sequence.
LEMMA Position ==
    ASSUME TypeOK, NEW r \in Runs
    PROVE  next[r] \in Nat \ {0} /\ DOMAIN release[r] = 1 .. Len(release[r])
           /\ Len(release[r]) \in Nat
BY DEF TypeOK

\* A call that goes on within its release, or ends with an error.
LEMMA FollowsOn ==
    ASSUME IInv, ProgressInv, [Next]_vars, NEW r \in Runs,
           Active(r), release'[r] = release[r],
           \/ pc'[r] \in Applying /\ pc[r] \in Applying /\ applied'[r] = applied[r]
                /\ next'[r] = next[r]
           \/ pc'[r] \in {"unlock", "returned"} /\ result'[r] # "ok"
           \/ pc'[r] \in {"mutex", "conn", "lock", "ensure", "create", "read"}
                /\ pc[r] \notin Applying \union {"unlock"} /\ next'[r] = next[r]
    PROVE  Follows(r)'
<1>1. Follows(r)
    BY ByFollows
<1>2. \A n : Recorded(r, n) => Recorded(r, n)'
    BY RecordedStays
<1>3. QED
    BY <1>1, <1>2 DEF Follows, Active, Applying, InTx

\* The loop meets a migration that it has passed or that its snapshot names.
LEMMA PassedOrRead ==
    ASSUME TypeOK, NEW r \in Runs, Follows(r), pc[r] \in Applying,
           NEW k \in DOMAIN release[r], NEW j \in Nat, k < j,
           \A i \in next[r] .. j - 1 : release[r][i].name \in applied[r]
    PROVE  Recorded(r, release[r][k].name)
<1>1. k \in Nat /\ next[r] \in Nat
    BY Position
<1>2. k < next[r] \/ k \in next[r] .. j - 1
    BY <1>1
<1>3. QED
    BY <1>2 DEF Follows

\* A loop with nothing left to apply has all its release recorded.
LEMMA AllRecorded ==
    ASSUME TypeOK, NEW r \in Runs, Follows(r), pc[r] = "loop",
           \A k \in next[r] .. Len(release[r]) : release[r][k].name \in applied[r]
    PROVE  \A k \in DOMAIN release[r] : Recorded(r, release[r][k].name)
<1> SUFFICES ASSUME NEW k \in DOMAIN release[r] PROVE Recorded(r, release[r][k].name)
    OBVIOUS
<1>1. k \in 1 .. Len(release[r]) /\ next[r] \in Nat /\ Len(release[r]) \in Nat
    BY Position
<1>2. k < next[r] \/ k \in next[r] .. Len(release[r])
    BY <1>1
<1>3. QED
    BY <1>2 DEF Follows, Applying

LEMMA FollowsStep ==
    ASSUME IInv, ProgressInv, [Next]_vars, TypeOK', NEW r \in Runs
    PROVE  Follows(r)'
<1>1. Follows(r) /\ TypeOK
    BY ByFollows DEF IInv
<1>2. \A n : Recorded(r, n) => Recorded(r, n)'
    BY RecordedStays
<1>3. CASE Still(r)
    BY <1>1, <1>2, <1>3 DEF Still, Follows, Active
<1>4. CASE pc'[r] = "idle"
    BY <1>4 DEF Follows, Active, Applying, InTx
<1>5. CASE Call(r)
    BY <1>1, <1>5 DEF Call, Follows, Active, Applying, InTx, Goto, TypeOK
<1> USE DEF TypeOK, Goto, Abort, Return, Runnable, callVars
<1>6. CASE LockMutex(r) \/ TakeConn(r) \/ AcquireLock(r) \/ LockFails(r)
    BY <1>1, <1>6, FollowsOn
    DEF LockMutex, TakeConn, AcquireLock, LockFails, Active, Applying, InTx
<1>7. CASE EnsureLedger(r)
    BY <1>1, <1>7, FollowsOn DEF EnsureLedger, Active, Applying, InTx
<1>8. CASE CreateLedger(r)
    BY <1>1, <1>8, FollowsOn DEF CreateLedger, Active, Applying, InTx
<1>9. CASE ReadLedger(r)
    <2>1. /\ pc[r] = "read" /\ release' = release /\ next' = next /\ ledger' = ledger
          /\ result'[r] = Verdict(release[r], RowsOf(r))
          /\ applied'[r] = {x.name : x \in RowsOf(r)}
          /\ pc'[r] = IF Verdict(release[r], RowsOf(r)) = "ok" THEN "loop" ELSE "unlock"
        BY <1>1, <1>9 DEF ReadLedger, dbVars
    <2>2. next[r] = 1 /\ release[r] \in Releases /\ Valid(release[r])
        BY <1>1, <2>1 DEF Follows, Active, Applying, InTx
    <2>3. \A n \in applied'[r] : Recorded(r, n)'
        BY <2>1 DEF Recorded, RowsOf
    <2>4. ~\E k \in DOMAIN release[r] : k < 1
        BY <1>1, Position
    <2>5. QED
        BY <2>1, <2>2, <2>3, <2>4 DEF Follows, Active, Applying, InTx
<1>10. CASE Recheck(r)
    <2>1. PICK j \in next[r] .. Len(release[r]) :
            /\ \A k \in next[r] .. j - 1 : release[r][k].name \in applied[r]
            /\ IF \E x \in ledger : SameKey(x, RowFor(r, release[r][j]))
               THEN next' = [next EXCEPT ![r] = j + 1] /\ UNCHANGED pc
               ELSE next' = [next EXCEPT ![r] = j] /\ Goto(r, "exec")
        BY <1>10 DEF Recheck
    <2>0. j \in Nat
        BY <1>1, Position
    <2>2. /\ pc[r] = "loop" /\ pc'[r] \in {"loop", "exec"}
          /\ UNCHANGED <<release, applied, ledger, result>>
        BY <1>1, <1>10, <2>1 DEF Recheck, dbVars
    <2>3. ASSUME NEW k \in DOMAIN release[r], k < j PROVE Recorded(r, release[r][k].name)
        BY <1>1, <2>0, <2>1, <2>2, <2>3, PassedOrRead DEF Applying
    <2>4. \/ next'[r] = j
          \/ next'[r] = j + 1 /\ Recorded(r, release[r][j].name)
        BY <1>1, <2>1 DEF Recorded, RowsOf, SameKey, RowFor
    <2>5. \A k \in DOMAIN release[r] : k < next'[r] => Recorded(r, release[r][k].name)
        BY <2>1, <2>3, <2>4, Position
    <2>6. QED
        BY <1>1, <1>2, <2>2, <2>5 DEF Follows, Active, Applying, InTx
<1>11. CASE LoopDone(r)
    <2>1. /\ pc[r] = "loop" /\ pc'[r] = "unlock" /\ release' = release
          /\ \A k \in next[r] .. Len(release[r]) : release[r][k].name \in applied[r]
        BY <1>1, <1>11 DEF LoopDone
    <2>2. \A k \in DOMAIN release[r] : Recorded(r, release[r][k].name)
        BY <1>1, <2>1, AllRecorded
    <2>3. QED
        BY <1>1, <1>2, <2>1, <2>2 DEF Follows, Active, Applying, InTx
<1>12. CASE Exec(r)
    BY <1>1, <1>12, FollowsOn DEF Exec, Active, Applying, InTx
<1>13. CASE Insert(r)
    BY <1>1, <1>13, FollowsOn DEF Insert, Active, Applying, InTx
<1>14. CASE Commit(r)
    <2>1. /\ pc[r] = "commit" /\ pc'[r] = "loop" /\ next'[r] = next[r] + 1
          /\ UNCHANGED <<release, applied>>
          /\ ledger' = ledger \union tx[r].rows
        BY <1>1, <1>14 DEF Commit, Durable
    <2>2. Current(r) \in ledger'
        BY <2>1 DEF IInv, TxInv
    <2>3. PICK m : m = release[r][next[r]]
        OBVIOUS
    <2>4. Recorded(r, m.name)'
        <3>1. PICK x : x = Current(r)
            OBVIOUS
        <3>2. x.name = m.name /\ x.module = ModuleOf[r]
            BY <2>3, <3>1 DEF Current, RowFor
        <3>3. x \in RowsOf(r)'
            BY <2>2, <3>1, <3>2 DEF RowsOf
        <3>4. QED
            BY <3>2, <3>3 DEF Recorded
    <2>5. ASSUME NEW k \in DOMAIN release'[r], k < next'[r]
          PROVE  Recorded(r, release[r][k].name)'
        <3>1. k \in 1 .. Len(release[r]) /\ (k < next[r] \/ k = next[r])
            BY <1>1, <2>1, <2>5, Position
        <3>2. PICK n : n = release[r][k].name
            OBVIOUS
        <3>3. Recorded(r, n)'
            BY <1>1, <1>2, <2>1, <2>3, <2>4, <3>1, <3>2 DEF Follows, Applying, InTx
        <3>4. QED
            BY <2>1, <3>2, <3>3
    <2>6. \A n \in applied'[r] : Recorded(r, n)'
        BY <1>1, <1>2, <2>1 DEF Follows, Applying, InTx
    <2>7. QED
        BY <1>1, <2>1, <2>5, <2>6 DEF Follows, Active, Applying, InTx
<1>15. CASE CommitUnanswered(r) \/ StatementFails(r)
    BY <1>1, <1>15, FollowsOn DEF CommitUnanswered, StatementFails, Active, Locked, Applying, InTx
<1>16. CASE Unlock(r) \/ UnlockFails(r)
    <2>1. /\ pc[r] = "unlock" /\ pc'[r] = "returned" /\ release' = release
          /\ result'[r] = "ok" => result[r] = "ok"
        BY <1>1, <1>16 DEF Unlock, UnlockFails
    <2>2. QED
        BY <1>1, <1>2, <2>1 DEF Follows, Active, Applying, InTx
<1>17. QED
    BY <1>1, <1>3, <1>4, <1>5, <1>6, <1>7, <1>8, <1>9, <1>10, <1>11, <1>12, <1>13, <1>14, <1>15,
        <1>16, WhoActs DEF Step

\* Whatever Env allows: a call passes no migration that the ledger lacks, and one
\* that returns nil leaves every name of its release there.
THEOREM Progress == Spec => []ProgressInv
<1>1. Init => ProgressInv
    BY DEF Init, ProgressInv, Active, Applying, InTx
<1>2. IInv /\ IInv' /\ ProgressInv /\ [Next]_vars => ProgressInv'
    <2> SUFFICES ASSUME IInv, IInv', ProgressInv, [Next]_vars PROVE ProgressInv'
        OBVIOUS
    <2>1. \A r \in Runs : Follows(r)'
        BY FollowsStep DEF IInv
    <2>2. QED
        BY Zenon, <2>1 DEF ProgressInv, Follows
<1>3. QED
    BY <1>1, <1>2, Invariant, PTL DEF Spec

-----------------------------------------------------------------------------
(* While releases only append, the ledger is a prefix of one. *)

\* A valid release has no name twice.
LEMMA NamesTell ==
    ASSUME NEW ms \in Seq(Migrations), Valid(ms),
           NEW i \in DOMAIN ms, NEW j \in DOMAIN ms, ms[i].name = ms[j].name
    PROVE  i = j
<1>1. ms[i].name \in Nat /\ ms[j].name \in Nat
    <2>1. ms[i] \in Migrations /\ ms[j] \in Migrations
        OBVIOUS
    <2>2. QED
        BY <2>1, ConstantsOK DEF Migrations
<1>2. i \in Nat /\ j \in Nat
    OBVIOUS
<1>3. QED
    BY <1>1, <1>2 DEF Valid

\* The first n migrations of a release, as rows of the module of a call.
Prefix(r, ms, n) == {RowFor(r, ms[i]) : i \in 1 .. n}

LEMMA PrefixStep ==
    ASSUME OnlyAppended, IInv, ProgressInv, LedgerIsReleasePrefix, [Next]_vars
    PROVE  LedgerIsReleasePrefix'
<1> SUFFICES ASSUME NEW r \in Runs
             PROVE  \E ms \in {m \in Releases : Valid(m)} : \E n \in 0 .. Len(ms) :
                        RowsOf(r)' = Prefix(r, ms, n)
    BY DEF LedgerIsReleasePrefix, Prefix, RowFor
<1>0. PICK ms \in {m \in Releases : Valid(m)} :
        \E k \in 0 .. Len(ms) : RowsOf(r) = Prefix(r, ms, k)
    BY DEF LedgerIsReleasePrefix, Prefix
<1>1. PICK k \in 0 .. Len(ms) : RowsOf(r) = Prefix(r, ms, k)
    BY <1>0
<1>2. CASE RowsOf(r)' = RowsOf(r)
    BY <1>1, <1>2
<1>3. ASSUME NEW q \in Runs, pc[q] = "commit", ledger' = ledger \union {Current(q)},
             ModuleOf[q] = ModuleOf[r]
      PROVE  \E ns \in {m \in Releases : Valid(m)} : \E n \in 0 .. Len(ns) :
                RowsOf(r)' = Prefix(r, ns, n)
    <2>1. PICK ns, n : ns = release[q] /\ n = next[q]
        OBVIOUS
    <2>2. /\ ns \in Releases /\ Valid(ns)
          /\ \A i \in DOMAIN ns : i < n => Recorded(q, ns[i].name)
        BY <1>3, <2>1 DEF ProgressInv, Active, Applying, InTx
    <2>3. /\ ns \in Seq(Migrations) /\ ms \in Seq(Migrations)
          /\ n \in Nat \ {0} /\ n <= Len(ns) /\ Len(ns) \in Nat /\ Len(ms) \in Nat
        <3>1. n <= Len(ns)
            BY <1>3, <2>1 DEF IInv, TxInv, InTx
        <3>2. QED
            BY <1>1, <2>1, <2>2, <3>1, ConstantsOK DEF IInv, TypeOK
    <2>4. \A i \in DOMAIN ms \intersect DOMAIN ns : ms[i] = ns[i]
        BY <1>1, <2>2 DEF OnlyAppended
    <2>5. RowsOf(q) = RowsOf(r)
        BY <1>3 DEF RowsOf
    <2>6. ASSUME NEW i \in DOMAIN ns, i < n PROVE i <= k
        <3>1. PICK j \in 1 .. k : ms[j].name = ns[i].name
            <4>1. PICK x \in RowsOf(r) : x.name = ns[i].name
                BY <2>2, <2>5, <2>6 DEF Recorded
            <4>2. PICK j \in 1 .. k : x = RowFor(r, ms[j])
                BY <1>1, <4>1 DEF Prefix
            <4>3. QED
                BY <4>1, <4>2 DEF RowFor
        <3>2. ASSUME i > k PROVE FALSE
            <4>1. j \in DOMAIN ms /\ j \in DOMAIN ns
                BY <1>1, <2>3, <2>6, <3>1, <3>2
            <4>2. ns[j].name = ns[i].name
                BY <2>4, <3>1, <4>1
            <4>3. i = j
                BY <2>2, <2>3, <2>6, <4>1, <4>2, NamesTell
            <4>4. QED
                BY <3>1, <3>2, <4>3, <1>1
        <3>3. QED
            BY <1>1, <2>3, <2>6, <3>2
    <2>7. ~(n <= k)
        <3> SUFFICES ASSUME n <= k PROVE FALSE
            OBVIOUS
        <3>1. n \in DOMAIN ms /\ n \in DOMAIN ns
            BY <1>1, <2>3
        <3>2. RowFor(r, ns[n]) \in RowsOf(r)
            BY <1>1, <2>3, <2>4, <3>1 DEF Prefix
        <3>3. Current(q) = RowFor(r, ns[n]) /\ Current(q) \in ledger
            BY <1>3, <2>1, <3>2 DEF Current, RowsOf, RowFor
        <3>4. Current(q) \in tx[q].rows
            BY <1>3 DEF IInv, TxInv
        <3>5. QED
            BY <3>3, <3>4 DEF IInv, LedgerInv, SameKey
    <2>8. k = n - 1
        <3>1. CASE n = 1
            BY <1>1, <2>3, <2>7, <3>1
        <3>2. CASE n > 1
            <4>1. n - 1 \in DOMAIN ns /\ n - 1 < n
                BY <2>3, <3>2
            <4>2. n - 1 <= k
                BY <2>6, <4>1
            <4>3. QED
                BY <1>1, <2>3, <2>7, <4>2
        <3>3. QED
            BY <2>3, <3>1, <3>2
    <2>9. RowsOf(r) = {RowFor(r, ns[i]) : i \in 1 .. n - 1}
        <3>1. \A i \in 1 .. n - 1 : ms[i] = ns[i]
            BY <1>1, <2>3, <2>4, <2>8
        <3>2. RowsOf(r) = {RowFor(r, ms[i]) : i \in 1 .. n - 1}
            BY <1>1, <2>8 DEF Prefix
        <3>3. QED
            BY <3>1, <3>2
    <2>10. RowsOf(r)' = RowsOf(r) \union {RowFor(r, ns[n])}
        BY <1>3, <2>1 DEF RowsOf, Current, RowFor
    <2>11. RowsOf(r)' = Prefix(r, ns, n)
        <3>1. 1 .. n = (1 .. n - 1) \union {n}
            BY <2>3
        <3>2. QED
            BY <2>9, <2>10, <3>1 DEF Prefix
    <2>12. QED
        BY <2>2, <2>3, <2>11
<1>4. ASSUME NEW q \in Runs, pc[q] = "commit", ledger' = ledger \union {Current(q)},
             ModuleOf[q] # ModuleOf[r]
      PROVE  RowsOf(r)' = RowsOf(r)
    BY <1>4 DEF RowsOf, Current, RowFor
<1>5. QED
    BY <1>2, <1>3, <1>4, LedgerGrows DEF RowsOf

\* Releases that only append to each other leave a ledger without a gap, whatever
\* fails and although the locks may be lost.
THEOREM LedgersArePrefixes == ASSUME OnlyAppended PROVE Spec => []LedgerIsReleasePrefix
<1>1. Init => LedgerIsReleasePrefix
    <2> SUFFICES ASSUME Init, NEW r \in Runs
                 PROVE  \E ms \in {m \in Releases : Valid(m)} : \E n \in 0 .. Len(ms) :
                            RowsOf(r) = {RowFor(r, ms[i]) : i \in 1 .. n}
        BY DEF LedgerIsReleasePrefix
    <2>1. PICK ms \in Releases : Valid(ms)
        BY DEF OnlyAppended
    <2>2. 0 \in 0 .. Len(ms) /\ 1 .. 0 = {}
        <3>1. Len(ms) \in Nat
            BY <2>1, ConstantsOK
        <3>2. QED
            BY <3>1
    <2>3. RowsOf(r) = {RowFor(r, ms[i]) : i \in 1 .. 0}
        BY <2>2 DEF Init, RowsOf
    <2>4. QED
        BY <2>1, <2>2, <2>3
<1>2. IInv /\ ProgressInv /\ LedgerIsReleasePrefix /\ [Next]_vars => LedgerIsReleasePrefix'
    BY PrefixStep
<1>3. QED
    BY <1>1, <1>2, Invariant, Progress, PTL DEF Spec

-----------------------------------------------------------------------------
(* While calls really are alone between lock and unlock, what one has read  *)
(* of the ledger stays true.                                                *)

LEMMA Solo ==
    ASSUME Alone, IInv, SessionInv, NEW r \in Runs, NEW q \in Runs, r # q,
           pc[r] \in Locked, pc[q] \in Locked
    PROVE  FALSE
<1>1. ProcOf[r] # ProcOf[q] /\ (Postgres => conn[r] \in dead \/ conn[q] \in dead)
    BY LocksExclude DEF MutualExclusion
<1>2. QED
    BY <1>1 DEF Alone, SessionInv

\* reconcile lets a ledger pass only if the build ships all of it, unchanged.
LEMMA VerdictShips ==
    ASSUME TypeOK, NEW r \in Runs, Verdict(release[r], RowsOf(r)) = "ok"
    PROVE  RowsOf(r) \subseteq Shipped(r)
<1>1. Unshipped(release[r], RowsOf(r)) = {} /\ Changed(release[r], RowsOf(r)) = {}
    <2>1. Unshipped(release[r], RowsOf(r)) \union Changed(release[r], RowsOf(r)) = {}
        BY Zenon DEF Verdict
    <2>2. QED
        BY <2>1
<1>2. ASSUME NEW x \in RowsOf(r) PROVE x \in Shipped(r)
    <2>1. x \in Row /\ x.module = ModuleOf[r]
        BY DEF RowsOf, TypeOK
    <2>2. PICK i \in DOMAIN release[r] : release[r][i].name = x.name
        BY <1>1 DEF Unshipped, NamesIn
    <2>3. release[r][i].sum = x.sum
        BY <1>1, <2>2 DEF Changed
    <2>4. x = RowFor(r, release[r][i])
        BY <2>1, <2>2, <2>3 DEF RowFor, Row
    <2>5. QED
        BY <2>4 DEF Shipped
<1>3. QED
    BY <1>2

\* If all that is there was shipped, all that is recorded is there as shipped.
LEMMA RecordedAsShipped ==
    ASSUME TypeOK, NEW r \in Runs, Valid(release[r]), RowsOf(r) \subseteq Shipped(r),
           \A k \in DOMAIN release[r] : Recorded(r, release[r][k].name)
    PROVE  Shipped(r) \subseteq ledger
<1> SUFFICES ASSUME NEW k \in DOMAIN release[r] PROVE RowFor(r, release[r][k]) \in ledger
    BY DEF Shipped
<1>1. PICK x \in RowsOf(r) : x.name = release[r][k].name
    BY DEF Recorded
<1>2. PICK i \in DOMAIN release[r] : x = RowFor(r, release[r][i])
    BY <1>1 DEF Shipped
<1>3. release[r] \in Seq(Migrations) /\ release[r][i].name = release[r][k].name
    BY <1>1, <1>2 DEF RowFor, TypeOK
<1>4. i = k
    BY <1>3, NamesTell
<1>5. QED
    BY <1>1, <1>2, <1>4 DEF RowsOf

\* What TextInv says of one call.
Texts(r) ==
    /\ pc[r] \in Applying => RowsOf(r) \subseteq Shipped(r)
    /\ pc[r] \in {"unlock", "returned"} /\ result[r] = "ok" => Shipped(r) \subseteq ledger
    /\ pc[r] \in {"exec", "insert"} => \A x \in ledger : ~SameKey(x, Current(r))

LEMMA ByTexts == TextInv <=> \A r \in Runs : Texts(r)
BY Zenon DEF TextInv, Texts

\* A call between lock and unlock that does not commit keeps the ledger to itself.
LEMMA LedgerKept ==
    ASSUME Alone, IInv, SessionInv, [Next]_vars, NEW r \in Runs,
           pc[r] \in Locked, pc[r] # "commit" \/ pc'[r] = pc[r]
    PROVE  ledger' = ledger
BY LedgerGrows, Solo DEF Locked, InTx

LEMMA TextsStep ==
    ASSUME Alone, IInv, SessionInv, ProgressInv, TextInv, [Next]_vars, NEW r \in Runs
    PROVE  Texts(r)'
<1>0. Texts(r) /\ TypeOK /\ ledger \subseteq ledger'
    BY ByTexts, LedgerGrows DEF IInv
<1>1. CASE Still(r)
    <2>1. Shipped(r)' = Shipped(r) /\ Current(r)' = Current(r)
        BY <1>1 DEF Still, Shipped, Current, RowFor
    <2>2. pc[r] \in Applying => ledger' = ledger /\ RowsOf(r)' = RowsOf(r)
        BY <1>1, LedgerKept DEF Still, Applying, Locked, RowsOf
    <2>3. QED
        BY <1>0, <1>1, <2>1, <2>2 DEF Still, Texts, Applying, InTx
<1>2. ASSUME pc'[r] \notin Applying, result'[r] # "ok" \/ pc'[r] \notin {"unlock", "returned"}
      PROVE  Texts(r)'
    BY <1>2 DEF Texts, Applying, InTx
<1> USE DEF TypeOK, Goto, Abort, Return, Runnable, callVars, dbVars
<1>3. CASE Call(r)
    BY <1>0, <1>2, <1>3 DEF Call, Applying, InTx
<1>4. CASE LockMutex(r) \/ TakeConn(r) \/ AcquireLock(r) \/ LockFails(r)
    BY <1>0, <1>2, <1>4 DEF LockMutex, TakeConn, AcquireLock, LockFails, Applying, InTx
<1>5. CASE EnsureLedger(r) \/ CreateLedger(r)
    BY <1>0, <1>2, <1>5 DEF EnsureLedger, CreateLedger, Applying, InTx
<1>6. CASE ReadLedger(r)
    <2>1. UNCHANGED <<ledger, release, next>>
        BY <1>6 DEF ReadLedger
    <2>2. CASE Verdict(release[r], RowsOf(r)) = "ok"
        <3>1. RowsOf(r) \subseteq Shipped(r)
            BY <1>0, <2>2, VerdictShips
        <3>2. pc'[r] = "loop"
            BY <1>0, <1>6, <2>2 DEF ReadLedger
        <3>3. QED
            BY <2>1, <3>1, <3>2 DEF Texts, RowsOf, Shipped
    <2>3. CASE Verdict(release[r], RowsOf(r)) # "ok"
        BY <1>0, <1>2, <1>6, <2>3 DEF ReadLedger, Applying, InTx
    <2>4. QED
        BY <2>2, <2>3
<1>7. CASE Recheck(r)
    <2>1. PICK j \in next[r] .. Len(release[r]) :
            IF \E x \in ledger : SameKey(x, RowFor(r, release[r][j]))
            THEN next' = [next EXCEPT ![r] = j + 1] /\ UNCHANGED pc
            ELSE next' = [next EXCEPT ![r] = j] /\ Goto(r, "exec")
        BY <1>7 DEF Recheck
    <2>2. pc[r] = "loop" /\ UNCHANGED <<ledger, release>>
        BY <1>7 DEF Recheck
    <2>3. RowsOf(r)' \subseteq Shipped(r)'
        BY <1>0, <2>2 DEF Texts, Applying, RowsOf, Shipped
    <2>4. CASE \E x \in ledger : SameKey(x, RowFor(r, release[r][j]))
        BY <2>1, <2>2, <2>3, <2>4 DEF Texts
    <2>5. CASE ~ \E x \in ledger : SameKey(x, RowFor(r, release[r][j]))
        <3>1. next'[r] = j /\ pc'[r] = "exec"
            BY <1>0, <2>1, <2>5
        <3>2. \A x \in ledger' : ~SameKey(x, Current(r)')
            BY <2>2, <2>5, <3>1 DEF Current, RowFor, SameKey
        <3>3. QED
            BY <2>3, <3>1, <3>2 DEF Texts, SameKey
    <2>6. QED
        BY <2>4, <2>5
<1>8. CASE LoopDone(r)
    <2>1. /\ pc[r] = "loop" /\ pc'[r] = "unlock" /\ UNCHANGED <<ledger, release>>
          /\ \A k \in next[r] .. Len(release[r]) : release[r][k].name \in applied[r]
        BY <1>0, <1>8 DEF LoopDone
    <2>2. \A k \in DOMAIN release[r] : Recorded(r, release[r][k].name)
        BY <1>0, <2>1, AllRecorded, ByFollows
    <2>3. Valid(release[r])
        BY <2>1 DEF ProgressInv, Active
    <2>4. Shipped(r) \subseteq ledger
        BY <1>0, <2>1, <2>2, <2>3, RecordedAsShipped DEF Texts, Applying
    <2>5. QED
        BY <2>1, <2>4 DEF Texts, Applying, InTx, Shipped
<1>9. CASE Exec(r)
    <2>1. /\ pc[r] = "exec" /\ pc'[r] = "insert" /\ UNCHANGED <<ledger, release, next>>
        BY <1>0, <1>9 DEF Exec
    <2>2. QED
        BY <1>0, <2>1 DEF Texts, Applying, InTx, RowsOf, Shipped, Current
<1>10. CASE Insert(r)
    <2>1. /\ pc[r] = "insert" /\ UNCHANGED <<ledger, release, next>>
          /\ pc'[r] = "commit" \/ (pc'[r] = "unlock" /\ result'[r] = "failed")
        BY <1>0, <1>10 DEF Insert
    <2>2. QED
        BY <1>0, <2>1 DEF Texts, Applying, InTx, RowsOf, Shipped
<1>11. CASE Commit(r)
    <2>1. /\ pc[r] = "commit" /\ pc'[r] = "loop" /\ release' = release
          /\ ledger' = ledger \union {Current(r)}
        BY <1>0, <1>11 DEF Commit, Durable, IInv, TxInv
    <2>2. Current(r) \in Shipped(r)
        <3>1. next[r] \in DOMAIN release[r]
            <4>1. next[r] <= Len(release[r])
                BY <2>1 DEF IInv, TxInv, InTx
            <4>2. QED
                BY <1>0, <4>1, Position
        <3>2. QED
            BY <3>1 DEF Shipped, Current
    <2>3. RowsOf(r)' \subseteq RowsOf(r) \union {Current(r)}
        BY <2>1 DEF RowsOf
    <2>4. RowsOf(r)' \subseteq Shipped(r)'
        BY <1>0, <2>1, <2>2, <2>3 DEF Texts, Applying, InTx, Shipped
    <2>5. QED
        BY <2>1, <2>4 DEF Texts
<1>12. CASE CommitUnanswered(r) \/ StatementFails(r)
    BY <1>0, <1>2, <1>12 DEF CommitUnanswered, StatementFails, Applying, InTx
<1>13. CASE Unlock(r) \/ UnlockFails(r)
    <2>1. /\ pc[r] = "unlock" /\ pc'[r] = "returned" /\ release' = release
          /\ result'[r] = "ok" => result[r] = "ok"
        BY <1>0, <1>13 DEF Unlock, UnlockFails
    <2>2. QED
        BY <1>0, <2>1 DEF Texts, Applying, InTx, Shipped
<1>14. CASE pc'[r] = "idle"
    BY <1>14, <1>2 DEF Applying, InTx
<1>15. QED
    BY <1>0, <1>1, <1>3, <1>4, <1>5, <1>6, <1>7, <1>8, <1>9, <1>10, <1>11, <1>12, <1>13, <1>14,
        WhoActs DEF Step

\* With the locks intact, the ledger that a call has read keeps to its release
\* until the call is done.
THEOREM TextsHold == ASSUME Alone PROVE Spec => []TextInv
<1>1. Init => TextInv
    BY DEF Init, TextInv, Applying, InTx
<1>2. IInv /\ SessionInv /\ ProgressInv /\ TextInv /\ [Next]_vars => TextInv'
    <2> SUFFICES ASSUME IInv, SessionInv, ProgressInv, TextInv, [Next]_vars PROVE TextInv'
        OBVIOUS
    <2>1. \A r \in Runs : Texts(r)'
        BY TextsStep
    <2>2. QED
        BY Zenon, <2>1 DEF TextInv, Texts
<1>3. QED
    BY <1>1, <1>2, Invariant, SessionsDieOnce, Progress, PTL DEF Spec

\* Run returned nil: all that its build ships is in the ledger, as it ships it.
THEOREM NilMeansMigrated == ASSUME Alone PROVE Spec => []OkMeansMigrated
<1>1. TextInv => OkMeansMigrated
    BY DEF TextInv, OkMeansMigrated
<1>2. QED
    BY <1>1, TextsHold, PTL

\* No build changes the schema under a ledger that it does not ship.
THEOREM CommitsAreCompatible == ASSUME Alone PROVE Spec => CommitIsCompatible
<1>1. IInv /\ TextInv /\ [Next]_vars =>
        [\A r \in Runs :
            tx[r].rows # {} /\ tx[r].rows \subseteq ledger' /\ ~(tx[r].rows \subseteq ledger)
            => RowsOf(r) \subseteq Shipped(r)]_vars
    BY DEF IInv, TxInv, TextInv, Applying, InTx
<1>2. QED
    BY <1>1, Invariant, TextsHold, PTL DEF Spec, CommitIsCompatible

-----------------------------------------------------------------------------
(* Calls do not make each other fail. *)

QuietInv == SafeConcurrently /\ TableInv

\* Whose step it is not, or whose process dies, has the result and context it had.
LEMMA OthersKept ==
    ASSUME TypeOK, [Next]_vars, NEW r \in Runs
    PROVE  \/ cancelled'[r] = cancelled[r] /\ result'[r] = result[r]
           \/ Call(r) \/ Cancel(r) \/ Step(r)
<1> USE DEF TypeOK, callVars, lockVars, dbVars, Goto, Abort, Return
<1>1. ASSUME NEW q \in Runs \ {r}, Call(q) \/ Cancel(q)
      PROVE  cancelled'[r] = cancelled[r] /\ result'[r] = result[r]
    BY <1>1 DEF Call, Cancel
<1>2. ASSUME NEW q \in Runs \ {r}, Step(q)
      PROVE  cancelled'[r] = cancelled[r] /\ result'[r] = result[r]
    <2>1. result'[r] = result[r]
        BY <1>2, OnlyOneActs DEF Still
    <2>2. cancelled' = cancelled
        BY <1>2 DEF Step, LockMutex, TakeConn, AcquireLock, LockFails, EnsureLedger,
            CreateLedger, ReadLedger, Recheck, LoopDone, Exec, Insert, Commit,
            CommitUnanswered, StatementFails, Unlock, UnlockFails
    <2>3. QED
        BY <2>1, <2>2
<1>3. ASSUME NEW p \in Procs, Crash(p)
      PROVE  cancelled' = cancelled /\ result' = result
    BY <1>3 DEF Crash
<1>4. CASE SessionDies \/ StatusLooks \/ StatusCreates \/ Finished \/ UNCHANGED vars
    BY <1>4 DEF SessionDies, StatusLooks, StatusCreates, Finished, vars
<1>5. QED
    BY <1>1, <1>2, <1>3, <1>4 DEF Next

LEMMA QuietStep ==
    ASSUME Alone, Quiet, IInv, SessionInv, TextInv, QuietInv, [Next]_vars
    PROVE  QuietInv'
<1> USE DEF TypeOK, Goto, Abort, Return, Runnable, callVars, dbVars, lockVars
<1>0. TypeOK /\ status = "idle" /\ "statement" \notin Env /\ "status" \notin Env /\ dead = {}
    BY DEF IInv, SessionInv, QuietInv, TableInv, Quiet
<1>1. status' = "idle"
    BY <1>0 DEF Next, Call, Step, Cancel, Crash, SessionDies, StatusLooks, StatusCreates,
        Finished, LockMutex, TakeConn, AcquireLock, LockFails, EnsureLedger, CreateLedger,
        ReadLedger, Recheck, LoopDone, Exec, Insert, Commit, CommitUnanswered, StatementFails,
        Unlock, UnlockFails, vars
<1>2. ASSUME NEW r \in Runs, pc'[r] = "create" PROVE ~table'
    <2>1. CASE Still(r)
        <3>1. pc[r] = "create" /\ ~table
            BY <1>2, <2>1 DEF Still, QuietInv, TableInv
        <3>2. ASSUME NEW q \in Runs, CreateLedger(q) PROVE FALSE
            <4>1. pc[q] = "create" /\ pc'[q] # "create"
                BY <1>0, <3>2 DEF CreateLedger
            <4>2. QED
                BY <1>2, <3>1, <4>1, Solo DEF Locked
        <3>3. table' = table
            BY <1>0, <3>2 DEF Next, Call, Step, Cancel, Crash, SessionDies, StatusLooks,
                StatusCreates, Finished, LockMutex, TakeConn, AcquireLock, LockFails,
                EnsureLedger, ReadLedger, Recheck, LoopDone, Exec, Insert, Commit,
                CommitUnanswered, StatementFails, Unlock, UnlockFails, vars
        <3>4. QED
            BY <3>1, <3>3
    <2>2. CASE EnsureLedger(r)
        BY <1>0, <1>2, <2>2 DEF EnsureLedger
    <2>3. ~Still(r) => EnsureLedger(r)
        BY <1>0, <1>2, WhoActs DEF Step, Call, LockMutex, TakeConn, AcquireLock, LockFails,
            CreateLedger, ReadLedger, Recheck, LoopDone, Exec, Insert, Commit,
            CommitUnanswered, StatementFails, Unlock, UnlockFails
    <2>4. QED
        BY <2>1, <2>2, <2>3
<1>3. ASSUME NEW r \in Runs, result'[r] = "failed" PROVE cancelled'[r]
    <2>0. result[r] = "failed" => cancelled[r]
        BY DEF QuietInv, SafeConcurrently
    <2>1. CASE cancelled'[r] = cancelled[r] /\ result'[r] = result[r]
        BY <1>3, <2>0, <2>1
    <2>2. CASE Call(r)
        BY <1>0, <1>3, <2>2 DEF Call
    <2>3. CASE Cancel(r)
        BY <1>0, <2>3 DEF Cancel
    <2>4. CASE LockFails(r) \/ StatementFails(r)
        BY <1>0, <2>4 DEF LockFails, StatementFails
    <2>5. CASE CreateLedger(r)
        <3>1. ~table
            BY <2>5 DEF CreateLedger, QuietInv, TableInv
        <3>2. QED
            BY <1>3, <2>0, <2>5, <3>1 DEF CreateLedger
    <2>6. CASE ReadLedger(r)
        BY <1>0, <1>3, <2>6, VerdictType DEF ReadLedger
    <2>7. CASE Insert(r)
        <3>1. ~\E x \in ledger : SameKey(x, Current(r))
            BY <2>7 DEF Insert, TextInv
        <3>2. QED
            BY <1>3, <2>0, <2>7, <3>1 DEF Insert
    <2>8. CASE Unlock(r) \/ UnlockFails(r)
        BY <1>0, <1>3, <2>0, <2>8 DEF Unlock, UnlockFails
    <2>9. ~CommitUnanswered(r)
        BY <1>0 DEF CommitUnanswered
    <2>10. \/ cancelled'[r] = cancelled[r] /\ result'[r] = result[r]
           \/ Call(r) \/ Cancel(r) \/ Step(r)
        BY <1>0, OthersKept
    <2>11. QED
        BY <1>0, <2>1, <2>2, <2>3, <2>4, <2>5, <2>6, <2>7, <2>8, <2>9, <2>10
        DEF Step, LockMutex, TakeConn, AcquireLock, EnsureLedger, Recheck, LoopDone, Exec, Commit
<1>4. QED
    BY <1>1, <1>2, <1>3 DEF QuietInv, SafeConcurrently, TableInv

\* With the locks intact and nothing failing by itself, a call fails only when its
\* own context is done, whatever its peers do, die or not.
THEOREM PeersAreHarmless == ASSUME Alone, Quiet PROVE Spec => []SafeConcurrently
<1>1. Init => QuietInv
    BY DEF Init, QuietInv, SafeConcurrently, TableInv
<1>2. IInv /\ SessionInv /\ TextInv /\ QuietInv /\ [Next]_vars => QuietInv'
    BY QuietStep
<1>3. QuietInv => SafeConcurrently
    BY DEF QuietInv
<1>4. QED
    BY <1>1, <1>2, <1>3, Invariant, SessionsDieOnce, TextsHold, PTL DEF Spec

-----------------------------------------------------------------------------
(* Run implements Schema. *)

\* While calls exclude each other, what they read stays true; otherwise nothing is
\* said of the texts.
ExclusiveTexts == Alone => TextInv

THEOREM ExclusiveTextsHold == Spec => []ExclusiveTexts
<1>1. CASE Alone
    <2>1. TextInv => ExclusiveTexts
        BY DEF ExclusiveTexts
    <2>2. QED
        BY <1>1, <2>1, TextsHold, PTL
<1>2. CASE ~Alone
    <2>1. ExclusiveTexts
        BY <1>2 DEF ExclusiveTexts
    <2>2. QED
        BY <2>1, PTL
<1>3. QED
    BY <1>1, <1>2

\* The abstract schema is the ledger.
LEMMA MadeIsRows ==
    ASSUME IInv
    PROVE  /\ Contract!Applied = ledger
           /\ \A r \in Runs :
                /\ Contract!Made(r) = RowsOf(r)
                /\ Contract!Build(r) = Shipped(r)
                /\ \A n : Contract!Has(r, n) <=> Recorded(r, n)
<1>1. Contract!Applied = ledger
    BY DEF Contract!Applied, IInv, TypeOK, LedgerInv
<1>2. ASSUME NEW r \in Runs PROVE Contract!Made(r) = RowsOf(r)
    BY <1>1 DEF Contract!Made, RowsOf
<1>3. ASSUME NEW r \in Runs PROVE Contract!Build(r) = Shipped(r)
    BY DEF Contract!Build, Contract!Of, Shipped, RowFor
<1>4. ASSUME NEW r \in Runs, NEW n PROVE Contract!Has(r, n) <=> Recorded(r, n)
    BY <1>2 DEF Contract!Has, Recorded
<1>5. QED
    BY <1>1, <1>2, <1>3, <1>4

\* A step that leaves the database, the builds and the progress of calls alone.
LEMMA Stutters ==
    ASSUME UNCHANGED <<effects, release>>, \A r \in Runs : StateOf(r)' = StateOf(r)
    PROVE  UNCHANGED Contract!vars
BY DEF Contract!vars

\* A step of one call that leaves the database and the builds alone changes the
\* state of that call only.
LEMMA OneMoves ==
    ASSUME TypeOK, NEW r \in Runs, Call(r) \/ Step(r) \/ Cancel(r)
    PROVE  [q \in Runs |-> StateOf(q)]'
                = [[q \in Runs |-> StateOf(q)] EXCEPT ![r] = StateOf(r)']
<1>1. ASSUME NEW q \in Runs, q # r PROVE StateOf(q)' = StateOf(q)
    BY <1>1, OnlyOneActs DEF Still, StateOf, Active
<1>2. QED
    BY <1>1

\* A commit is the next migration of a build, applied for the first time.
LEMMA CommitApplies ==
    ASSUME IInv, ProgressInv, ExclusiveTexts, NEW r \in Runs,
           Commit(r) \/ CommitUnanswered(r)
    PROVE  Contract!Apply(r)
<1>1. pc[r] = "commit" /\ tx[r] = [sql |-> {Current(r)}, rows |-> {Current(r)}]
    <2>1. pc[r] = "commit"
        BY DEF Commit, CommitUnanswered, Runnable
    <2>2. QED
        BY <2>1 DEF IInv, TypeOK, TxInv
<1>2. /\ next[r] \in DOMAIN release[r]
      /\ Current(r) = Contract!Of(r, release[r][next[r]])
    <2>1. next[r] <= Len(release[r])
        BY <1>1 DEF IInv, TxInv, InTx
    <2>2. next[r] \in DOMAIN release[r]
        BY <2>1, Position DEF IInv
    <2>3. QED
        BY <2>2 DEF Current, RowFor, Contract!Of
<1>3. ~Contract!Has(r, release[r][next[r]].name)
    <2>1. ASSUME NEW x \in RowsOf(r), x.name = release[r][next[r]].name PROVE FALSE
        <3>1. x \in ledger /\ SameKey(Current(r), x)
            BY <2>1 DEF RowsOf, SameKey, Current, RowFor
        <3>2. QED
            BY <1>1, <3>1 DEF IInv, LedgerInv
    <2>2. QED
        BY <2>1, MadeIsRows DEF Recorded
<1>4. \A j \in DOMAIN release[r] : j < next[r] => Contract!Has(r, release[r][j].name)
    BY <1>1, MadeIsRows DEF ProgressInv, Applying, InTx
<1>5. effects' = [effects EXCEPT ![Current(r)] = 1]
    <2>1. effects' = [x \in Row |-> IF x \in {Current(r)} THEN effects[x] + 1 ELSE effects[x]]
        BY <1>1 DEF Commit, CommitUnanswered, Durable
    <2>2. Current(r) \in Row /\ effects \in [Row -> Nat]
        BY <1>1 DEF IInv, TypeOK
    <2>3. Current(r) \notin ledger
        BY <1>1 DEF IInv, LedgerInv, SameKey
    <2>4. effects[Current(r)] = 0
        BY <2>2, <2>3 DEF IInv, LedgerInv
    <2>5. PICK y \in Row : y = Current(r)
        BY <2>2
    <2>6. effects' = [effects EXCEPT ![y] = 1]
        <3>1. effects[y] + 1 = 1
            BY <2>4, <2>5
        <3>2. effects' = [x \in Row |-> IF x = y THEN 1 ELSE effects[x]]
            BY <2>1, <2>5, <3>1
        <3>3. QED
            BY <2>2, <3>2
    <2>7. QED
        BY <2>5, <2>6
<1>6. Alone => Contract!Made(r) \subseteq Contract!Build(r)
    BY <1>1, MadeIsRows DEF ExclusiveTexts, TextInv, Applying, InTx
<1>7. StateOf(r) = "running"
    BY <1>1 DEF StateOf, Active
<1>8. UNCHANGED release /\ StateOf(r)' = StateOf(r)
    BY <1>1, <1>7 DEF Commit, CommitUnanswered, Abort, Goto, StateOf, Active, IInv, TypeOK
<1>9. UNCHANGED [q \in Runs |-> StateOf(q)]
    <2>1. Step(r)
        BY DEF Step
    <2>2. QED
        BY <1>8, <2>1, OneMoves DEF IInv
<1>10. QED
    BY <1>2, <1>3, <1>4, <1>5, <1>6, <1>7, <1>8, <1>9 DEF Contract!Apply

\* A return is a success, with all that the build ships in the database, or a
\* failure.
LEMMA ReturnEnds ==
    ASSUME IInv, ProgressInv, ExclusiveTexts, NEW r \in Runs,
           LockFails(r) \/ Unlock(r) \/ UnlockFails(r)
    PROVE  Contract!Succeed(r) \/ Contract!Fail(r)
<1>1. /\ pc[r] \in {"conn", "lock", "unlock"} /\ pc'[r] = "returned"
      /\ UNCHANGED <<effects, release>>
      /\ result'[r] = "ok" => pc[r] = "unlock" /\ result[r] = "ok"
    BY DEF LockFails, Unlock, UnlockFails, Return, Goto, callVars, dbVars, IInv, TypeOK
<1>2. StateOf(r) = "running"
    BY <1>1 DEF StateOf, Active
<1>3. Step(r) /\ TypeOK
    BY DEF Step, IInv
<1>4. CASE result'[r] = "ok"
    <2>1. StateOf(r)' = "ok"
        BY <1>1, <1>4 DEF StateOf, Active
    <2>2. \A i \in DOMAIN release[r] : Contract!Has(r, release[r][i].name)
        BY <1>1, <1>4, MadeIsRows DEF ProgressInv
    <2>3. Alone => Contract!Build(r) \subseteq Contract!Applied
        BY <1>1, <1>4, MadeIsRows DEF ExclusiveTexts, TextInv
    <2>4. Contract!Succeed(r)
        BY <1>1, <1>2, <1>3, <2>1, <2>2, <2>3, OneMoves DEF Contract!Succeed
    <2>5. QED
        BY <2>4
<1>5. CASE result'[r] # "ok"
    <2>1. StateOf(r)' = "failed"
        BY <1>1, <1>5 DEF StateOf, Active
    <2>2. Contract!Fail(r)
        BY <1>1, <1>2, <1>3, <2>1, OneMoves DEF Contract!Fail
    <2>3. QED
        BY <2>2
<1>6. QED
    BY <1>4, <1>5

\* A call begins; one with a release that validate refuses has failed at once.
LEMMA CallBegins ==
    ASSUME IInv, NEW r \in Runs, Call(r)
    PROVE  Contract!Begin(r)
<1>1. PICK ms \in Releases :
        /\ release' = [release EXCEPT ![r] = ms]
        /\ pc' = [pc EXCEPT ![r] = IF Valid(ms) THEN "mutex" ELSE "returned"]
        /\ result' = [result EXCEPT ![r] = IF Valid(ms) THEN "ok" ELSE "invalid"]
    BY DEF Call, Goto
<1>2. StateOf(r)' = IF Valid(ms) THEN "running" ELSE "failed"
    BY <1>1 DEF StateOf, Active, IInv, TypeOK
<1>3. StateOf(r) # "running" /\ UNCHANGED effects
    BY DEF Call, StateOf, dbVars
<1>4. ms \in {m \in Releases : Valid(m)} <=> Valid(ms)
    OBVIOUS
<1>5. [q \in Runs |-> StateOf(q)]'
        = [[q \in Runs |-> StateOf(q)] EXCEPT ![r] =
            IF ms \in {m \in Releases : Valid(m)} THEN "running" ELSE "failed"]
    BY <1>2, <1>4, OneMoves DEF IInv
<1>6. QED
    BY <1>1, <1>3, <1>5 DEF Contract!Begin

\* The rest of a call goes on unnoticed.
LEMMA WorkIsHidden ==
    ASSUME IInv, NEW r \in Runs,
           \/ LockMutex(r) \/ TakeConn(r) \/ AcquireLock(r) \/ EnsureLedger(r)
           \/ CreateLedger(r) \/ ReadLedger(r) \/ Recheck(r) \/ LoopDone(r)
           \/ Exec(r) \/ Insert(r) \/ StatementFails(r) \/ Cancel(r)
    PROVE  UNCHANGED Contract!vars
<1>1. UNCHANGED <<effects, release>>
    BY DEF LockMutex, TakeConn, AcquireLock, EnsureLedger, CreateLedger, ReadLedger, Recheck,
        LoopDone, Exec, Insert, StatementFails, Cancel, callVars, dbVars
<1>2. Active(r) /\ Active(r)'
    BY DEF LockMutex, TakeConn, AcquireLock, EnsureLedger, CreateLedger, ReadLedger, Recheck,
        LoopDone, Exec, Insert, StatementFails, Cancel, Runnable, Goto, Abort, Active, Locked,
        InTx, IInv, TypeOK
<1>3. ASSUME NEW q \in Runs PROVE StateOf(q)' = StateOf(q)
    <2>1. CASE q = r
        BY <1>2, <2>1 DEF StateOf
    <2>2. CASE q # r
        <3>1. Step(r) \/ Cancel(r)
            BY DEF Step
        <3>2. QED
            BY <2>2, <3>1, OnlyOneActs DEF Still, StateOf, Active, IInv
    <2>3. QED
        BY <2>1, <2>2
<1>4. QED
    BY <1>1, <1>3, Stutters

\* The calls of a process that dies are gone.
LEMMA CrashLeaves ==
    ASSUME IInv, NEW p \in Procs, Crash(p)
    PROVE  Contract!Leave
<1>1. PICK cs \in SUBSET Runs : cs = {r \in Runs : ProcOf[r] = p}
    OBVIOUS
<1>2. /\ pc' = [r \in Runs |-> IF r \in cs THEN "idle" ELSE pc[r]]
      /\ UNCHANGED <<result, release, effects>>
    BY <1>1 DEF Crash, dbVars
<1>3. ASSUME NEW r \in Runs
      PROVE  StateOf(r)' = IF r \in cs THEN "out" ELSE StateOf(r)
    BY <1>2 DEF StateOf, Active
<1>4. QED
    BY <1>2, <1>3 DEF Contract!Leave

LEMMA SchemaStep ==
    ASSUME IInv, ProgressInv, ExclusiveTexts, [Next]_vars
    PROVE  [Contract!Next]_(Contract!vars)
<1>1. ASSUME NEW r \in Runs, Call(r) PROVE Contract!Next
    BY <1>1, CallBegins DEF Contract!Next
<1>2. ASSUME NEW r \in Runs, Step(r) \/ Cancel(r) PROVE [Contract!Next]_(Contract!vars)
    <2>1. CASE Commit(r) \/ CommitUnanswered(r)
        BY <2>1, CommitApplies DEF Contract!Next
    <2>2. CASE LockFails(r) \/ Unlock(r) \/ UnlockFails(r)
        BY <2>2, ReturnEnds DEF Contract!Next
    <2>3. CASE ~(Commit(r) \/ CommitUnanswered(r) \/ LockFails(r) \/ Unlock(r) \/ UnlockFails(r))
        BY <1>2, <2>3, WorkIsHidden DEF Step
    <2>4. QED
        BY <2>1, <2>2, <2>3
<1>3. ASSUME NEW p \in Procs, Crash(p) PROVE Contract!Next
    BY <1>3, CrashLeaves DEF Contract!Next
<1>4. CASE SessionDies \/ StatusLooks \/ StatusCreates \/ Finished \/ UNCHANGED vars
    <2>1. UNCHANGED <<effects, release, pc, result>>
        BY <1>4 DEF SessionDies, StatusLooks, StatusCreates, Finished, vars, callVars, dbVars
    <2>2. \A r \in Runs : StateOf(r)' = StateOf(r)
        BY <2>1 DEF StateOf, Active
    <2>3. QED
        BY <2>1, <2>2, Stutters
<1>5. QED
    BY <1>1, <1>2, <1>3, <1>4 DEF Next

\* Whatever fails, and whether or not the locks hold: Run applies what a build
\* ships in order, each migration in one step and once for all callers, takes
\* nothing back, and returns nil only when all of it is there.
THEOREM Refinement == Spec => ImplementsSchema
<1>1. Init => Contract!Init
    BY DEF Init, Contract!Init, StateOf, Active
<1>2. IInv /\ ProgressInv /\ ExclusiveTexts /\ [Next]_vars
        => [Contract!Next]_(Contract!vars)
    BY SchemaStep
<1>3. QED
    BY <1>1, <1>2, Invariant, Progress, ExclusiveTextsHold, PTL
    DEF Spec, ImplementsSchema, Contract!Spec

=============================================================================
