---------------------------- MODULE ConsoleProofs ----------------------------
(***************************************************************************)
(* Proofs about Console, that is the shell, the branding module and the    *)
(* browsers together, for every choice of tenants, logos, calls, modules   *)
(* and faults: the inductive invariant IInv, and what it says of the setup *)
(* gate, of saves, of the addresses of logos and of the rail. That of the  *)
(* rail needs two inductions of its own: over the members that are merged  *)
(* into groups, one after the other, and, since no theorem about all       *)
(* numbers can be instantiated, the one that takes its place here, from    *)
(* the least number of a finite set.                                       *)
(***************************************************************************)
EXTENDS Console, FiniteSetTheorems, TLAPS

-----------------------------------------------------------------------------
(* Seconds                                                                  *)

LEMMA SecondsGrow ==
    \A a, b \in Nat : a <= b =>
        /\ Brand!Second(a) \in Nat /\ Brand!Second(b) \in Nat
        /\ Brand!Second(a) <= Brand!Second(b)
BY ConsoleOK DEF Brand!Second

LEMMA SecondsType ==
    \A a \in 0 .. MaxTime : Brand!Second(a) \in Seconds
BY ConsoleOK, SecondsGrow DEF Brand!Second, Seconds

-----------------------------------------------------------------------------
(* Branding profiles                                                        *)

BrandInv == Brand!TypeOK /\ Brand!RowInv /\ Brand!CallInv

\* The type of a call.
CallType ==
    [ pc : {"idle", "read", "stamp", "write", "answered"},
      tenant : Tenants \union {NoTenant},
      kind : {"none", "save", "skip"}, logo : Logos \union {NoLogo},
      rec : Brand!Records \union {NoRow}, at : 0 .. MaxTime,
      result : {"none", "saved", "error", "unsaved"} ]

LEMMA BrandTypes ==
    Brand!TypeOK <=>
        /\ now \in 0 .. MaxTime
        /\ row \in [Tenants -> Brand!Rows \union {NoRow}]
        /\ call \in [Calls -> CallType]
BY Zenon DEF Brand!TypeOK, CallType

LEMMA BrandTypesNext ==
    Brand!TypeOK' <=>
        /\ now' \in 0 .. MaxTime
        /\ row' \in [Tenants -> Brand!Rows \union {NoRow}]
        /\ call' \in [Calls -> CallType]
BY Zenon DEF Brand!TypeOK, CallType

\* What a step does to the rows: none goes, none has been newer, and in one second none
\* forgets a logo that it has shown.
RowsGrow ==
    \A t \in Tenants : row[t] # NoRow =>
        /\ row'[t] # NoRow
        /\ Brand!Second(row[t].newest) <= Brand!Second(row'[t].newest)
        /\ Brand!Second(row[t].newest) = Brand!Second(row'[t].newest) =>
               row[t].shown \subseteq row'[t].shown

\* A row that is there has been sent, and a call that is answered stays so.
SentStays ==
    \A c \in Calls : Brand!Sent(c) =>
        call'[c].result = call[c].result /\ call'[c].tenant = call[c].tenant

\* A row that is not written is the row it was.
LEMMA RowsStand ==
    ASSUME BrandInv, UNCHANGED row
    PROVE  RowsGrow
<1>1. \A t \in Tenants : row[t] # NoRow => row[t].newest \in Nat
    BY BrandTypes, ConsoleOK DEF BrandInv, Brand!Rows
<1>2. QED
    BY <1>1, SecondsGrow DEF RowsGrow

\* What a call writes is a record with a stamp.
LEMMA StampedRecord ==
    ASSUME NEW rec \in Brand!Records, NEW at \in 0 .. MaxTime
    PROVE  /\ Brand!Stamped(rec, at) \in Brand!Records
           /\ Brand!Stamped(rec, at).stamp # Never
           /\ rec.stamp # Never => Brand!Stamped(rec, at) = rec
<1>1. at \in Nat /\ at # Never
    BY ConsoleOK
<1>2. QED
    BY <1>1 DEF Brand!Stamped, Brand!Records

LEMMA MergedRecord ==
    ASSUME NEW rec \in Brand!Records, NEW logo \in Logos \union {NoLogo}
    PROVE  /\ Brand!Merge(rec, logo) \in Brand!Records
           /\ Brand!Merge(rec, logo).stamp = rec.stamp
           /\ logo = NoLogo => Brand!Merge(rec, logo) = rec
BY DEF Brand!Merge, Brand!Records

LEMMA FreshRecord == Brand!Fresh \in Brand!Records
BY DEF Brand!Fresh, Brand!Records

LEMMA WrittenRecord ==
    ASSUME BrandInv, NEW c \in Calls
    PROVE  /\ Brand!Written(c) \in Brand!Records
           /\ Brand!Written(c).stamp # Never
<1>1. call[c] \in CallType
    BY BrandTypes DEF BrandInv
<1>2. PICK rec \in Brand!Records :
          rec = IF call[c].rec = NoRow THEN Brand!Fresh ELSE call[c].rec
    BY <1>1, FreshRecord DEF CallType
<1>3. PICK m \in Brand!Records : m = Brand!Merge(rec, call[c].logo)
    BY <1>1, MergedRecord DEF CallType
<1>4. PICK at \in 0 .. MaxTime : at = call[c].at
    BY <1>1 DEF CallType
<1>5. Brand!Written(c) = IF call[c].kind = "skip" THEN Brand!Stamped(Brand!Fresh, at)
                         ELSE Brand!Stamped(m, at)
    BY <1>2, <1>3, <1>4 DEF Brand!Written
<1>6. QED
    BY <1>5, StampedRecord, FreshRecord

\* The row of t is written, with a time that may be long past.
LEMMA UpsertedRow ==
    ASSUME BrandInv, NEW t \in Tenants, NEW rec \in Brand!Records, NEW at \in 0 .. MaxTime,
           row' = Brand!Upserted(t, rec, at)
    PROVE  /\ row' \in [Tenants -> Brand!Rows \union {NoRow}]
           /\ row'[t] # NoRow /\ row'[t].stamp = rec.stamp /\ row'[t].logo = rec.logo
           /\ row'[t].logo \in row'[t].shown
           /\ \A u \in Tenants \ {t} : row'[u] = row[u]
           /\ RowsGrow
           /\ row'[t].updated <= row'[t].newest
<1> DEFINE older == row[t] # NoRow /\ at <= row[t].newest
           same == row[t] # NoRow /\ Brand!Second(at) <= Brand!Second(row[t].newest)
           newest == IF older THEN row[t].newest ELSE at
           shown == {rec.logo} \union (IF same THEN row[t].shown ELSE {})
           new == [ logo |-> rec.logo, stamp |-> rec.stamp, updated |-> at,
                    newest |-> newest, shown |-> shown ]
<1>1. row \in [Tenants -> Brand!Rows \union {NoRow}] /\ at \in Nat
    BY BrandTypes, ConsoleOK DEF BrandInv
<1>2. row' = [row EXCEPT ![t] = new]
    BY DEF Brand!Upserted
<1>3. rec.logo \in Logos \union {NoLogo} /\ rec.stamp \in Nat \union {Never}
    BY DEF Brand!Records
<1>4. row[t] # NoRow => /\ row[t].newest \in 0 .. MaxTime /\ row[t].newest \in Nat
                        /\ row[t].shown \in SUBSET (Logos \union {NoLogo})
    BY <1>1, ConsoleOK DEF Brand!Rows
<1>5. newest \in 0 .. MaxTime /\ at <= newest
      /\ (row[t] # NoRow => row[t].newest <= newest)
    BY <1>1, <1>4
<1>6. shown \in SUBSET (Logos \union {NoLogo}) /\ rec.logo \in shown
    BY <1>3, <1>4
<1>7. row[t] # NoRow /\ Brand!Second(row[t].newest) = Brand!Second(newest) =>
          row[t].shown \subseteq shown
    <2>1. CASE same
        BY <2>1
    <2>2. CASE ~same /\ row[t] # NoRow
        <3>1. Brand!Second(at) > Brand!Second(row[t].newest)
            BY <1>1, <1>4, <2>2, SecondsGrow
        <3>2. ~older
            BY <1>1, <1>4, <3>1, SecondsGrow
        <3>3. QED
            BY <1>1, <1>4, <3>1, <3>2, SecondsGrow
    <2>3. QED
        BY <2>1, <2>2
<1>8. new \in Brand!Rows
    BY <1>3, <1>5, <1>6 DEF Brand!Rows
<1>9. new # NoRow
    BY <1>8, ConsoleOK
<1> HIDE DEF newest, shown, older, same
<1>10. /\ new.updated = at /\ new.shown = shown /\ new.newest = newest
       /\ new.logo = rec.logo /\ new.stamp = rec.stamp
    OBVIOUS
<1> HIDE DEF new
<1>11. row' \in [Tenants -> Brand!Rows \union {NoRow}] /\ row'[t] = new
       /\ \A u \in Tenants \ {t} : row'[u] = row[u]
    BY <1>1, <1>2, <1>8
<1>12. RowsGrow
    <2>1. \A u \in Tenants : row[u] # NoRow => row[u].newest \in Nat
        BY <1>1, ConsoleOK DEF Brand!Rows
    <2>2. newest \in Nat
        BY <1>5, ConsoleOK
    <2>3. QED
        BY <1>4, <1>5, <1>7, <1>9, <1>10, <1>11, <2>1, <2>2, SecondsGrow DEF RowsGrow
<1>13. QED
    BY <1>5, <1>6, <1>9, <1>10, <1>11, <1>12

\* One call moves, and no row goes.
LEMMA OneCallMoves ==
    ASSUME BrandInv, NEW c \in Calls, call' \in [Calls -> CallType],
           \A b \in Calls \ {c} : call'[b] = call[b], RowsGrow,
           call'[c].pc \in {"read", "stamp", "write"} => call'[c].tenant \in Tenants,
           call'[c].pc = "answered" \/ call'[c].result = "none",
           call'[c].result = "saved" =>
               call'[c].tenant \in Tenants /\ row'[call'[c].tenant] # NoRow
    PROVE  Brand!CallInv'
BY DEF Brand!CallInv, Brand!At, RowsGrow, BrandInv

\* The changes that the steps make to a call keep its type.
LEMMA IdleType ==
    Brand!Idle \in CallType /\ Brand!Idle.result = "none" /\ Brand!Idle.pc = "idle"
BY ConsoleOK DEF Brand!Idle, CallType

Answering(x, t, w) == [x EXCEPT !.pc = "answered", !.tenant = t, !.result = w]

LEMMA AnswerType ==
    ASSUME NEW x \in CallType, NEW t \in Tenants \union {NoTenant},
           NEW w \in {"saved", "error", "unsaved"}
    PROVE  /\ Answering(x, t, w) \in CallType
           /\ Answering(x, t, w).pc = "answered"
           /\ Answering(x, t, w).result = w
           /\ Answering(x, t, w).tenant = t
BY DEF CallType, Answering

LEMMA LoadType ==
    ASSUME NEW x \in CallType, NEW r \in Brand!Records \union {NoRow}
    PROVE  LET y == [x EXCEPT !.pc = "stamp", !.rec = r]
           IN  y \in CallType /\ y.pc = "stamp" /\ y.result = x.result /\ y.tenant = x.tenant
BY DEF CallType

LEMMA StampType ==
    ASSUME NEW x \in CallType, NEW time \in 0 .. MaxTime
    PROVE  LET y == [x EXCEPT !.pc = "write", !.at = time]
           IN  y \in CallType /\ y.pc = "write" /\ y.result = x.result /\ y.tenant = x.tenant
BY DEF CallType

Saving(x, t, logo) ==
    [x EXCEPT !.pc = "read", !.tenant = t, !.kind = "save", !.logo = logo]

LEMMA SaveType ==
    ASSUME NEW x \in CallType, NEW t \in Tenants, NEW logo \in Logos \union {NoLogo}
    PROVE  /\ Saving(x, t, logo) \in CallType
           /\ Saving(x, t, logo).result = x.result
           /\ Saving(x, t, logo).tenant = t
BY DEF CallType, Saving

LEMMA SkipType ==
    ASSUME NEW x \in CallType, NEW t \in Tenants
    PROVE  LET y == [x EXCEPT !.pc = "stamp", !.tenant = t, !.kind = "skip"]
           IN  y \in CallType /\ y.pc = "stamp" /\ y.result = x.result /\ y.tenant = t
BY DEF CallType

\* A call that is not answered has no result, so that its steps leave what was sent.
LEMMA OthersStay ==
    ASSUME BrandInv, NEW c \in Calls, ~Brand!At(c, "answered"),
           \A b \in Calls \ {c} : call'[b] = call[b]
    PROVE  SentStays
BY DEF SentStays, Brand!Sent, BrandInv, Brand!CallInv, Brand!At

\* Rows stay right where calls stay sent, if those that are new have been sent.
LEMMA RowsStayRight ==
    ASSUME BrandInv, SentStays, UNCHANGED row
    PROVE  Brand!RowInv'
BY DEF BrandInv, Brand!RowInv, SentStays, Brand!Sent

\* An answer, of a call whose row is there if it was saved.
LEMMA Answered ==
    ASSUME BrandInv, NEW c \in Calls, NEW w \in {"saved", "error", "unsaved"},
           Brand!Answer(c, w), ~Brand!At(c, "answered"),
           now' = now, RowsGrow, row' \in [Tenants -> Brand!Rows \union {NoRow}],
           \/ UNCHANGED row
           \/ /\ w # "error" /\ call[c].tenant \in Tenants
              /\ row'[call[c].tenant].stamp # Never
              /\ row'[call[c].tenant].logo \in row'[call[c].tenant].shown
              /\ row'[call[c].tenant].updated <= row'[call[c].tenant].newest
              /\ \A u \in Tenants \ {call[c].tenant} : row'[u] = row[u],
           w = "saved" => call[c].tenant \in Tenants /\ row'[call[c].tenant] # NoRow
    PROVE  BrandInv' /\ RowsGrow /\ SentStays
<1>1. call \in [Calls -> CallType] /\ call[c].tenant \in Tenants \union {NoTenant}
      /\ now \in 0 .. MaxTime
    BY BrandTypes DEF BrandInv, CallType
<1>2. PICK t \in Tenants \union {NoTenant} : t = call[c].tenant
    BY <1>1
<1> DEFINE y == Answering(Brand!Idle, t, w)
<1>3. y \in CallType /\ y.pc = "answered" /\ y.result = w /\ y.tenant = t
    BY IdleType, AnswerType
<1>4. call' = [call EXCEPT ![c] = y]
    BY <1>2 DEF Brand!Answer, Answering
<1> HIDE DEF y
<1>5. call' \in [Calls -> CallType] /\ call'[c] = y
      /\ \A b \in Calls \ {c} : call'[b] = call[b]
    BY <1>1, <1>3, <1>4
<1>6. Brand!CallInv'
    BY <1>2, <1>3, <1>5, OneCallMoves
<1>7. SentStays
    BY <1>5, OthersStay
<1>8. Brand!RowInv'
    <2>1. CASE UNCHANGED row
        BY <1>7, <2>1, RowsStayRight
    <2>2. CASE /\ w # "error" /\ call[c].tenant \in Tenants
               /\ row'[call[c].tenant].stamp # Never
               /\ row'[call[c].tenant].logo \in row'[call[c].tenant].shown
               /\ row'[call[c].tenant].updated <= row'[call[c].tenant].newest
               /\ \A u \in Tenants \ {call[c].tenant} : row'[u] = row[u]
        <3>1. call'[c].tenant = call[c].tenant /\ Brand!Sent(c)'
            BY <1>2, <1>3, <1>5, <2>2 DEF Brand!Sent
        <3>2. \A u \in Tenants \ {call[c].tenant} : row[u] # NoRow =>
                  \E b \in Calls : call'[b].tenant = u /\ Brand!Sent(b)'
            BY <1>7 DEF BrandInv, Brand!RowInv, SentStays, Brand!Sent
        <3>3. QED
            BY <2>2, <3>1, <3>2 DEF BrandInv, Brand!RowInv
    <2>3. QED
        BY <2>1, <2>2
<1>9. QED
    BY <1>1, <1>5, <1>6, <1>7, <1>8, BrandTypesNext DEF BrandInv

\* A step before the answer, which writes no row.
LEMMA Moved ==
    ASSUME BrandInv, NEW c \in Calls, NEW y \in CallType, call' = [call EXCEPT ![c] = y],
           UNCHANGED <<now, row>>, ~Brand!At(c, "answered"),
           y.tenant \in Tenants, y.result = "none"
    PROVE  BrandInv' /\ RowsGrow /\ SentStays
<1>1. call \in [Calls -> CallType] /\ now \in 0 .. MaxTime
      /\ row \in [Tenants -> Brand!Rows \union {NoRow}]
    BY BrandTypes DEF BrandInv
<1>2. call' \in [Calls -> CallType] /\ call'[c] = y
      /\ \A b \in Calls \ {c} : call'[b] = call[b]
    BY <1>1
<1>3. RowsGrow
    BY RowsStand
<1>4. Brand!CallInv'
    BY <1>2, <1>3, OneCallMoves
<1>5. SentStays /\ Brand!RowInv'
    BY <1>2, OthersStay, RowsStayRight
<1>6. QED
    BY <1>1, <1>2, <1>3, <1>4, <1>5, BrandTypesNext DEF BrandInv

\* A write of a row by a call, which is then answered.
LEMMA WroteRow ==
    ASSUME BrandInv, NEW c \in Calls, Brand!At(c, "write"), row' = Brand!Write(c)
    PROVE  /\ row' \in [Tenants -> Brand!Rows \union {NoRow}]
           /\ call[c].tenant \in Tenants /\ row'[call[c].tenant] # NoRow
           /\ row'[call[c].tenant].stamp # Never
           /\ row'[call[c].tenant].logo \in row'[call[c].tenant].shown
           /\ row'[call[c].tenant].updated <= row'[call[c].tenant].newest
           /\ \A u \in Tenants \ {call[c].tenant} : row'[u] = row[u]
           /\ RowsGrow
<1>1. call[c].tenant \in Tenants
    BY DEF BrandInv, Brand!CallInv, Brand!At
<1>2. call[c].at \in 0 .. MaxTime
    BY BrandTypes DEF BrandInv, CallType
<1>3. row' = Brand!Upserted(call[c].tenant, Brand!Written(c), call[c].at)
    BY DEF Brand!Write
<1>4. QED
    BY <1>1, <1>2, <1>3, WrittenRecord, UpsertedRow

LEMMA BrandSteps ==
    ASSUME BrandInv, NEW c \in Calls, Brand!Step(c)
    PROVE  BrandInv' /\ RowsGrow /\ SentStays
<1>1. /\ call \in [Calls -> CallType] /\ call[c] \in CallType
      /\ row \in [Tenants -> Brand!Rows \union {NoRow}] /\ now \in 0 .. MaxTime
    BY BrandTypes DEF BrandInv
<1>2. UNCHANGED <<now, row>> =>
          RowsGrow /\ row' \in [Tenants -> Brand!Rows \union {NoRow}]
    BY <1>1, RowsStand
<1>3. ~Brand!At(c, "answered")
    BY DEF Brand!Step, Brand!Save, Brand!Refuse, Brand!Skip, Brand!LoadOrNew, Brand!LoadFails,
           Brand!Stamp, Brand!Upsert, Brand!UpsertFails, Brand!At
<1>4. ASSUME NEW t \in Tenants, NEW logo \in Logos \union {NoLogo}, Brand!Save(c, t, logo)
      PROVE  BrandInv' /\ RowsGrow /\ SentStays
    <2> DEFINE y == Saving(Brand!Idle, t, logo)
    <2>1. y \in CallType /\ y.result = "none" /\ y.tenant = t
        BY IdleType, SaveType
    <2>2. call' = [call EXCEPT ![c] = y] /\ UNCHANGED <<now, row>>
        BY <1>4 DEF Brand!Save, Saving
    <2> HIDE DEF y
    <2>3. QED
        BY <1>3, <2>1, <2>2, Moved
<1>5. ASSUME NEW t \in Tenants, Brand!Skip(c, t)
      PROVE  BrandInv' /\ RowsGrow /\ SentStays
    <2> DEFINE y == [Brand!Idle EXCEPT !.pc = "stamp", !.tenant = t, !.kind = "skip"]
    <2>1. y \in CallType /\ y.result = "none" /\ y.tenant = t
        BY IdleType, SkipType
    <2>2. call' = [call EXCEPT ![c] = y] /\ UNCHANGED <<now, row>>
        BY <1>5 DEF Brand!Skip
    <2> HIDE DEF y
    <2>3. QED
        BY <1>3, <2>1, <2>2, Moved
<1>6. CASE Brand!Refuse(c)
    BY <1>2, <1>3, <1>6, Answered DEF Brand!Refuse
<1>7. CASE Brand!LoadOrNew(c)
    <2> DEFINE y == [call[c] EXCEPT !.pc = "stamp", !.rec = Brand!Stored(call[c].tenant)]
    <2>1. Brand!At(c, "read") /\ UNCHANGED <<now, row>>
          /\ call' = [call EXCEPT ![c].pc = "stamp", ![c].rec = Brand!Stored(call[c].tenant)]
        BY <1>7 DEF Brand!LoadOrNew
    <2>2. call[c].tenant \in Tenants /\ call[c].result = "none"
        BY <2>1 DEF BrandInv, Brand!CallInv, Brand!At
    <2>3. Brand!Stored(call[c].tenant) \in Brand!Records \union {NoRow}
        BY <1>1, <2>2 DEF Brand!Stored, Brand!Rows, Brand!Records
    <2>4. y \in CallType /\ y.result = call[c].result /\ y.tenant = call[c].tenant
        BY <1>1, <2>3, LoadType
    <2>5. call' = [call EXCEPT ![c] = y]
        BY <1>1, <2>1
    <2> HIDE DEF y
    <2>6. QED
        BY <1>3, <2>1, <2>2, <2>4, <2>5, Moved
<1>8. CASE Brand!LoadFails(c)
    BY <1>2, <1>3, <1>8, Answered DEF Brand!LoadFails
<1>9. CASE Brand!Stamp(c)
    <2> DEFINE y == [call[c] EXCEPT !.pc = "write", !.at = now]
    <2>1. Brand!At(c, "stamp") /\ UNCHANGED <<now, row>>
          /\ call' = [call EXCEPT ![c].pc = "write", ![c].at = now]
        BY <1>9 DEF Brand!Stamp
    <2>2. call[c].tenant \in Tenants /\ call[c].result = "none"
        BY <2>1 DEF BrandInv, Brand!CallInv, Brand!At
    <2>3. y \in CallType /\ y.result = call[c].result /\ y.tenant = call[c].tenant
        BY <1>1, StampType
    <2>4. call' = [call EXCEPT ![c] = y]
        BY <1>1, <2>1
    <2> HIDE DEF y
    <2>5. QED
        BY <1>3, <2>1, <2>2, <2>3, <2>4, Moved
<1>10. CASE Brand!Upsert(c)
    BY <1>3, <1>10, WroteRow, Answered DEF Brand!Upsert
<1>11. CASE Brand!UpsertFails(c)
    <2>1. Brand!At(c, "write") /\ Brand!Answer(c, "unsaved") /\ now' = now
          /\ (row' = row \/ row' = Brand!Write(c))
        BY <1>11 DEF Brand!UpsertFails
    <2>2. CASE row' = row
        BY <1>2, <1>3, <2>1, <2>2, Answered
    <2>3. CASE row' = Brand!Write(c)
        BY <1>3, <2>1, <2>3, WroteRow, Answered
    <2>4. QED
        BY <2>1, <2>2, <2>3
<1>12. QED
    BY <1>4, <1>5, <1>6, <1>7, <1>8, <1>9, <1>10, <1>11 DEF Brand!Step

LEMMA BrandTicks ==
    ASSUME BrandInv, Brand!Tick
    PROVE  BrandInv' /\ RowsGrow /\ SentStays
<1>1. now' = now + 1 /\ now < MaxTime /\ UNCHANGED <<row, call>>
    BY DEF Brand!Tick
<1>2. now \in 0 .. MaxTime /\ now' \in 0 .. MaxTime
    BY <1>1, BrandTypes, ConsoleOK DEF BrandInv
<1>3. SentStays /\ Brand!RowInv' /\ Brand!CallInv'
    BY <1>1 DEF BrandInv, Brand!RowInv, Brand!CallInv, SentStays, Brand!Sent, Brand!At
<1>4. QED
    BY <1>1, <1>2, <1>3, BrandTypes, BrandTypesNext, RowsStand DEF BrandInv

LEMMA BrandStays ==
    ASSUME BrandInv, UNCHANGED <<now, row, call>>
    PROVE  BrandInv' /\ RowsGrow /\ SentStays
<1>1. BrandInv' /\ SentStays
    BY DEF BrandInv, Brand!TypeOK, Brand!RowInv, Brand!CallInv, Brand!Sent, Brand!At, SentStays
<1>2. QED
    BY <1>1, RowsStand

-----------------------------------------------------------------------------
(* The shell                                                                *)

LEMMA LabelSet ==
    Shell!ToSet(Shell!Labels) = {"Access", "Operations", "Publishing", "Workspace"}
<1> DEFINE labels == <<"Access", "Operations", "Publishing", "Workspace">>
<1>1. DOMAIN labels = 1 .. 4
    OBVIOUS
<1>2. /\ labels[1] = "Access" /\ labels[2] = "Operations"
      /\ labels[3] = "Publishing" /\ labels[4] = "Workspace"
    OBVIOUS
<1>3. Shell!Labels = labels
    BY DEF Shell!Labels
<1> HIDE DEF labels
<1>4. {labels[i] : i \in 1 .. 4} = {labels[1], labels[2], labels[3], labels[4]}
    OBVIOUS
<1>5. QED
    BY <1>1, <1>2, <1>3, <1>4 DEF Shell!ToSet

LEMMA SetOfAppended ==
    ASSUME NEW T, NEW s \in Seq(T), NEW e \in T
    PROVE  /\ Append(s, e) \in Seq(T)
           /\ Shell!ToSet(Append(s, e)) = Shell!ToSet(s) \union {e}
<1>1. Append(s, e) \in Seq(T) /\ DOMAIN Append(s, e) = 1 .. Len(s) + 1 /\ DOMAIN s = 1 .. Len(s)
      /\ Len(s) \in Nat
    OBVIOUS
<1>2. Append(s, e)[Len(s) + 1] = e /\ \A i \in 1 .. Len(s) : Append(s, e)[i] = s[i]
    OBVIOUS
<1>3. 1 .. Len(s) + 1 = (1 .. Len(s)) \union {Len(s) + 1}
    BY <1>1
<1>4. QED
    BY <1>1, <1>2, <1>3 DEF Shell!ToSet

\* What a package declares; all but the branding module list a resource under their
\* own name and have no page.
GoodDeclaration(m, d) ==
    /\ d.label \in Shell!ToSet(Shell!Labels) /\ d.order \in Nat
    /\ d.resource.may \in SUBSET {"create", "edit", "delete"}
    /\ m = "branding_management" =>
          d.page = BrandingPage /\ d.item = BrandingPage
    /\ m # "branding_management" =>
          d.page = <<>> /\ d.item = <<"/admin", m, d.resource.entity>>

LEMMA Declarations ==
    ASSUME NEW m \in Shell!Packages \ {"auth_management"}
    PROVE  GoodDeclaration(m, Shell!Declared(m))
<1>1. CASE m = "tenant_management"
    <2>1. Shell!Tenant.label \in Shell!ToSet(Shell!Labels) /\ Shell!Tenant.order \in Nat
        <3>1. Shell!Tenant.label = "Workspace" /\ Shell!Tenant.order = 10
            BY DEF Shell!Tenant, Shell!Listed, Shell!Declaration
        <3>2. QED
            BY <3>1, LabelSet
    <2>2. Shell!Tenant.page = <<>>
        BY DEF Shell!Tenant, Shell!Listed, Shell!Declaration
    <2>3. Shell!Tenant.item = <<"/admin", m, Shell!Tenant.resource.entity>>
        BY Zenon, <1>1 DEF Shell!Tenant, Shell!Listed, Shell!Declaration
    <2>4. Shell!Tenant.resource.may \in SUBSET {"create", "edit", "delete"}
        <3>1. Shell!Tenant.resource.may = {"edit"}
            BY DEF Shell!Tenant, Shell!Listed, Shell!Declaration
        <3>2. QED
            BY <3>1
    <2>5. Shell!Declared(m) = Shell!Tenant
        BY <1>1 DEF Shell!Declared
    <2>6. m # "branding_management"
        BY <1>1
    <2>7. QED
        BY Zenon, <2>1, <2>2, <2>3, <2>4, <2>5, <2>6 DEF GoodDeclaration
<1>2. CASE m = "user_management"
    <2>1. Shell!User.label \in Shell!ToSet(Shell!Labels) /\ Shell!User.order \in Nat
        <3>1. Shell!User.label = "Access" /\ Shell!User.order = 20
            BY DEF Shell!User, Shell!Listed, Shell!Declaration
        <3>2. QED
            BY <3>1, LabelSet
    <2>2. Shell!User.page = <<>>
        BY DEF Shell!User, Shell!Listed, Shell!Declaration
    <2>3. Shell!User.item = <<"/admin", m, Shell!User.resource.entity>>
        BY Zenon, <1>2 DEF Shell!User, Shell!Listed, Shell!Declaration
    <2>4. Shell!User.resource.may \in SUBSET {"create", "edit", "delete"}
        <3>1. Shell!User.resource.may = {"create", "edit", "delete"}
            BY DEF Shell!User, Shell!Listed, Shell!Declaration
        <3>2. QED
            BY <3>1
    <2>5. Shell!Declared(m) = Shell!User
        BY <1>2 DEF Shell!Declared
    <2>6. m # "branding_management"
        BY <1>2
    <2>7. QED
        BY Zenon, <2>1, <2>2, <2>3, <2>4, <2>5, <2>6 DEF GoodDeclaration
<1>3. CASE m = "api_key_management"
    <2>1. Shell!APIKey.label \in Shell!ToSet(Shell!Labels) /\ Shell!APIKey.order \in Nat
        <3>1. Shell!APIKey.label = "Access" /\ Shell!APIKey.order = 30
            BY DEF Shell!APIKey, Shell!Listed, Shell!Declaration
        <3>2. QED
            BY <3>1, LabelSet
    <2>2. Shell!APIKey.page = <<>>
        BY DEF Shell!APIKey, Shell!Listed, Shell!Declaration
    <2>3. Shell!APIKey.item = <<"/admin", m, Shell!APIKey.resource.entity>>
        BY Zenon, <1>3 DEF Shell!APIKey, Shell!Listed, Shell!Declaration
    <2>4. Shell!APIKey.resource.may \in SUBSET {"create", "edit", "delete"}
        <3>1. Shell!APIKey.resource.may = {"create", "delete"}
            BY DEF Shell!APIKey, Shell!Listed, Shell!Declaration
        <3>2. QED
            BY <3>1
    <2>5. Shell!Declared(m) = Shell!APIKey
        BY <1>3 DEF Shell!Declared
    <2>6. m # "branding_management"
        BY <1>3
    <2>7. QED
        BY Zenon, <2>1, <2>2, <2>3, <2>4, <2>5, <2>6 DEF GoodDeclaration
<1>4. CASE m = "content_management"
    <2>1. Shell!Content.label \in Shell!ToSet(Shell!Labels) /\ Shell!Content.order \in Nat
        <3>1. Shell!Content.label = "Publishing" /\ Shell!Content.order = 40
            BY DEF Shell!Content, Shell!Listed, Shell!Declaration
        <3>2. QED
            BY <3>1, LabelSet
    <2>2. Shell!Content.page = <<>>
        BY DEF Shell!Content, Shell!Listed, Shell!Declaration
    <2>3. Shell!Content.item = <<"/admin", m, Shell!Content.resource.entity>>
        BY Zenon, <1>4 DEF Shell!Content, Shell!Listed, Shell!Declaration
    <2>4. Shell!Content.resource.may \in SUBSET {"create", "edit", "delete"}
        <3>1. Shell!Content.resource.may = {"create", "edit", "delete"}
            BY DEF Shell!Content, Shell!Listed, Shell!Declaration
        <3>2. QED
            BY <3>1
    <2>5. Shell!Declared(m) = Shell!Content
        BY <1>4 DEF Shell!Declared
    <2>6. m # "branding_management"
        BY <1>4
    <2>7. QED
        BY Zenon, <2>1, <2>2, <2>3, <2>4, <2>5, <2>6 DEF GoodDeclaration
<1>5. CASE m = "notification_management"
    <2>1. Shell!Notification.label \in Shell!ToSet(Shell!Labels) /\ Shell!Notification.order \in Nat
        <3>1. Shell!Notification.label = "Operations" /\ Shell!Notification.order = 50
            BY DEF Shell!Notification, Shell!Listed, Shell!Declaration
        <3>2. QED
            BY <3>1, LabelSet
    <2>2. Shell!Notification.page = <<>>
        BY DEF Shell!Notification, Shell!Listed, Shell!Declaration
    <2>3. Shell!Notification.item = <<"/admin", m, Shell!Notification.resource.entity>>
        BY Zenon, <1>5 DEF Shell!Notification, Shell!Listed, Shell!Declaration
    <2>4. Shell!Notification.resource.may \in SUBSET {"create", "edit", "delete"}
        <3>1. Shell!Notification.resource.may = {"create"}
            BY DEF Shell!Notification, Shell!Listed, Shell!Declaration
        <3>2. QED
            BY <3>1
    <2>5. Shell!Declared(m) = Shell!Notification
        BY <1>5 DEF Shell!Declared
    <2>6. m # "branding_management"
        BY <1>5
    <2>7. QED
        BY Zenon, <2>1, <2>2, <2>3, <2>4, <2>5, <2>6 DEF GoodDeclaration
<1>6. CASE m = "audit_management"
    <2>1. Shell!Audit.label \in Shell!ToSet(Shell!Labels) /\ Shell!Audit.order \in Nat
        <3>1. Shell!Audit.label = "Operations" /\ Shell!Audit.order = 90
            BY DEF Shell!Audit, Shell!Listed, Shell!Declaration
        <3>2. QED
            BY <3>1, LabelSet
    <2>2. Shell!Audit.page = <<>>
        BY DEF Shell!Audit, Shell!Listed, Shell!Declaration
    <2>3. Shell!Audit.item = <<"/admin", m, Shell!Audit.resource.entity>>
        BY Zenon, <1>6 DEF Shell!Audit, Shell!Listed, Shell!Declaration
    <2>4. Shell!Audit.resource.may \in SUBSET {"create", "edit", "delete"}
        <3>1. Shell!Audit.resource.may = {}
            BY DEF Shell!Audit, Shell!Listed, Shell!Declaration
        <3>2. QED
            BY <3>1
    <2>5. Shell!Declared(m) = Shell!Audit
        BY <1>6 DEF Shell!Declared
    <2>6. m # "branding_management"
        BY <1>6
    <2>7. QED
        BY Zenon, <2>1, <2>2, <2>3, <2>4, <2>5, <2>6 DEF GoodDeclaration
<1>7. CASE m = "health_management"
    <2>1. Shell!Health.label \in Shell!ToSet(Shell!Labels) /\ Shell!Health.order \in Nat
        <3>1. Shell!Health.label = "Operations" /\ Shell!Health.order = 80
            BY DEF Shell!Health, Shell!Listed, Shell!Declaration
        <3>2. QED
            BY <3>1, LabelSet
    <2>2. Shell!Health.page = <<>>
        BY DEF Shell!Health, Shell!Listed, Shell!Declaration
    <2>3. Shell!Health.item = <<"/admin", m, Shell!Health.resource.entity>>
        BY Zenon, <1>7 DEF Shell!Health, Shell!Listed, Shell!Declaration
    <2>4. Shell!Health.resource.may \in SUBSET {"create", "edit", "delete"}
        <3>1. Shell!Health.resource.may = {}
            BY DEF Shell!Health, Shell!Listed, Shell!Declaration
        <3>2. QED
            BY <3>1
    <2>5. Shell!Declared(m) = Shell!Health
        BY <1>7 DEF Shell!Declared
    <2>6. m # "branding_management"
        BY <1>7
    <2>7. QED
        BY Zenon, <2>1, <2>2, <2>3, <2>4, <2>5, <2>6 DEF GoodDeclaration
<1>8. CASE m = "branding_management"
    <2>1. Shell!Branding.label \in Shell!ToSet(Shell!Labels) /\ Shell!Branding.order \in Nat
        <3>1. Shell!Branding.label = "Workspace" /\ Shell!Branding.order = 95
            BY DEF Shell!Branding, Shell!Declaration
        <3>2. QED
            BY <3>1, LabelSet
    <2>2. Shell!Branding.page = BrandingPage /\ Shell!Branding.item = BrandingPage
        BY Zenon DEF Shell!Branding, Shell!Declaration, BrandingPage
    <2>3. Shell!Branding.resource.may \in SUBSET {"create", "edit", "delete"}
        <3>1. Shell!Branding.resource.may = {}
            BY DEF Shell!Branding, Shell!Declaration, Shell!NoResource
        <3>2. QED
            BY <3>1
    <2>4. Shell!Declared(m) = Shell!Branding
        BY <1>8 DEF Shell!Declared
    <2>5. QED
        BY Zenon, <1>8, <2>1, <2>2, <2>3, <2>4 DEF GoodDeclaration
<1>9. QED
    BY <1>1, <1>2, <1>3, <1>4, <1>5, <1>6, <1>7, <1>8 DEF Shell!Packages

LEMMA ModulesAreDeclared ==
    ASSUME NEW m \in Managed
    PROVE  GoodDeclaration(m, Shell!Declared(m))
BY ConsoleOK, Declarations

\* No two modules declare one item.
LEMMA ItemsDiffer ==
    ASSUME NEW m \in Managed, NEW n \in Managed, m # n
    PROVE  Shell!Declared(m).item # Shell!Declared(n).item
<1>1. GoodDeclaration(m, Shell!Declared(m)) /\ GoodDeclaration(n, Shell!Declared(n))
    BY ModulesAreDeclared
<1>2. \A e, f : <<"/admin", m, e>> # <<"/admin", n, f>>
    OBVIOUS
<1>3. \A k, e : <<"/admin", k, e>> # BrandingPage
    <2>1. \A k, e : Len(<<"/admin", k, e>>) = 3
        OBVIOUS
    <2>2. Len(BrandingPage) = 2
        BY DEF BrandingPage
    <2>3. QED
        BY <2>1, <2>2
<1>4. QED
    BY <1>1, <1>2, <1>3 DEF GoodDeclaration

Resources ==
    [ module : Managed, entity : {Shell!Declared(m).resource.entity : m \in Managed},
      may : SUBSET {"create", "edit", "delete"} ]

Pages == [module : Managed, path : {Shell!Declared(m).page : m \in Managed}]

Sections ==
    [ module : Managed, label : Shell!ToSet(Shell!Labels), order : Nat,
      items : {<<Shell!Declared(m).item>> : m \in Managed} ]

Stages == {"none", "store", "resource", "page", "section", "health"}

LEMMA ShellTypes ==
    Shell!TypeOK <=>
        /\ resources \in Seq(Resources) /\ pages \in Seq(Pages) /\ sidebar \in Seq(Sections)
        /\ checks \subseteq Modules /\ up \subseteq Modules
        /\ building \in [module : Modules \union {Nobody}, at : Stages]
BY Zenon DEF Shell!TypeOK, Resources, Pages, Sections, Stages

LEMMA ShellTypesNext ==
    Shell!TypeOK' <=>
        /\ resources' \in Seq(Resources) /\ pages' \in Seq(Pages) /\ sidebar' \in Seq(Sections)
        /\ checks' \subseteq Modules /\ up' \subseteq Modules
        /\ building' \in [module : Modules \union {Nobody}, at : Stages]
BY Zenon DEF Shell!TypeOK, Resources, Pages, Sections, Stages

ShellInv == Shell!TypeOK /\ Shell!BuildInv /\ Shell!UpInv /\ Shell!SectionInv

\* What is registered stays registered.
RegistriesGrow ==
    /\ Shell!ToSet(resources) \subseteq Shell!ToSet(resources')
    /\ Shell!ToSet(pages) \subseteq Shell!ToSet(pages')
    /\ Shell!ToSet(sidebar) \subseteq Shell!ToSet(sidebar')

LEMMA SurfacesStay ==
    ASSUME RegistriesGrow, NEW m
    PROVE  /\ Shell!Surfaced(m) => Shell!Surfaced(m)'
           /\ m \in Shell!Shown => m \in Shell!Shown'
<1>1. \A path : Shell!HasPage(m, path) => Shell!HasPage(m, path)'
    BY Zenon DEF RegistriesGrow, Shell!HasPage
<1>2. \A r : Shell!HasResource(m, r) => Shell!HasResource(m, r)'
    BY Zenon DEF RegistriesGrow, Shell!HasResource
<1>3. m \in Shell!Shown => m \in Shell!Shown'
    BY Zenon DEF RegistriesGrow, Shell!Shown
<1>4. QED
    BY Zenon, <1>1, <1>2, <1>3 DEF Shell!Surfaced

\* The sections are as they were, and what they lead to is still there.
LEMMA SectionsStay ==
    ASSUME Shell!SectionInv, RegistriesGrow, UNCHANGED sidebar
    PROVE  Shell!SectionInv'
<1>1. \A x \in Shell!ToSet(sidebar) : Shell!Surfaced(x.module)'
    BY SurfacesStay DEF Shell!SectionInv
<1>2. QED
    BY Zenon, <1>1 DEF Shell!SectionInv

\* What follows for the modules that are up, none of which is new.
LEMMA UpStays ==
    ASSUME Shell!UpInv, RegistriesGrow, UNCHANGED <<up, checks>>
    PROVE  Shell!UpInv'
BY SurfacesStay DEF Shell!UpInv

\* A module that goes from one stage to the next, or fails and is nobody.
Stage(m, at) ==
    /\ at # "none" => m \in Modules
    /\ at = "resource" => m \in Managed /\ Shell!Declared(m).page = <<>>
    /\ at = "page" => m \in Managed /\ Shell!Declared(m).page # <<>>
    /\ at = "section" => m \in Managed /\ Shell!Surfaced(m)
    /\ at = "health" /\ m \in Managed => Shell!Surfaced(m) /\ m \in Shell!Shown

LEMMA ByStage == Shell!BuildInv <=> Stage(building.module, building.at)
BY Zenon DEF Shell!BuildInv, Stage, Shell!Reached

LEMMA ByStageNext == Shell!BuildInv' <=> Stage(building.module, building.at)'
BY Zenon DEF Shell!BuildInv, Stage, Shell!Reached

LEMMA FailedBuild ==
    ASSUME Shell!Fail
    PROVE  /\ building' \in [module : Modules \union {Nobody}, at : Stages]
           /\ Shell!BuildInv'
<1>1. building' = [module |-> Nobody, at |-> "none"]
    BY DEF Shell!Fail
<1>2. building'.at = "none"
    BY <1>1
<1>3. Stage(building.module, building.at)'
    BY <1>2 DEF Stage
<1>4. QED
    BY <1>1, <1>3, ByStageNext DEF Stages

LEMMA BuildWentOn ==
    ASSUME Shell!TypeOK, building.module \in Modules, Shell!GoOn,
           NEW next \in Stages, next = Shell!NextStep(building.module, building.at)
    PROVE  /\ building' \in [module : Modules \union {Nobody}, at : Stages]
           /\ building'.module = building.module /\ building'.at = next
<1>1. building \in [module : Modules \union {Nobody}, at : Stages]
    BY ShellTypes
<1>2. building' = [building EXCEPT !.at = next]
    BY DEF Shell!GoOn
<1>3. QED
    BY <1>1, <1>2

LEMMA ShellInit == Shell!Init => ShellInv
<1> SUFFICES ASSUME Shell!Init PROVE ShellInv
    OBVIOUS
<1> USE DEF Shell!Init
<1>1. building.at = "none" /\ building \in [module : Modules \union {Nobody}, at : Stages]
    BY DEF Stages
<1>2. Shell!TypeOK
    BY <1>1, ShellTypes
<1>3. Shell!BuildInv
    BY <1>1, ByStage DEF Stage
<1>4. Shell!UpInv
    BY DEF Shell!UpInv
<1>5. Shell!SectionInv
    <2>1. Shell!ToSet(sidebar) = {} /\ DOMAIN sidebar = {}
        BY DEF Shell!ToSet
    <2>2. QED
        BY <2>1 DEF Shell!SectionInv
<1>6. QED
    BY <1>2, <1>3, <1>4, <1>5 DEF ShellInv

\* Where a module goes when its store is open, or has none.
LEMMA SurfaceOf ==
    ASSUME NEW m, NEW next, next = Shell!Surface(m)
    PROVE  \/ next = "health" /\ m \notin Managed
           \/ next = "page" /\ m \in Managed /\ Shell!Declared(m).page # <<>>
           \/ next = "resource" /\ m \in Managed /\ Shell!Declared(m).page = <<>>
BY DEF Shell!Surface

LEMMA NewModuleStep ==
    ASSUME ShellInv, NEW m \in Modules, Shell!NewModule(m)
    PROVE  ShellInv'
<1>1. PICK next : next = Shell!NextStep(m, "none")
    OBVIOUS
<1>2. /\ building' = [module |-> m, at |-> next]
      /\ UNCHANGED <<resources, pages, sidebar, checks, up>>
    BY <1>1 DEF Shell!NewModule
<1>3. \/ next = "store"
      \/ next = "health" /\ m \notin Managed
      \/ next = "page" /\ m \in Managed /\ Shell!Declared(m).page # <<>>
      \/ next = "resource" /\ m \in Managed /\ Shell!Declared(m).page = <<>>
    BY <1>1, SurfaceOf DEF Shell!NextStep
<1>4. Shell!TypeOK'
    BY <1>2, <1>3, ShellTypes, ShellTypesNext DEF ShellInv, Stages
<1>5. building'.at = next /\ building'.module = m
    BY <1>2
<1>6. Shell!BuildInv'
    BY <1>3, <1>5, ByStageNext DEF Stage
<1>7. Shell!UpInv' /\ Shell!SectionInv'
    BY <1>2, UpStays, SectionsStay DEF ShellInv, RegistriesGrow
<1>8. QED
    BY <1>4, <1>6, <1>7 DEF ShellInv

LEMMA OpenStoreStep ==
    ASSUME ShellInv, Shell!OpenStore
    PROVE  ShellInv'
<1>1. /\ building.at = "store" /\ (Shell!GoOn \/ Shell!Fail)
      /\ UNCHANGED <<resources, pages, sidebar, checks, up>>
    BY DEF Shell!OpenStore, Shell!Reached
<1>2. PICK m : m = building.module
    OBVIOUS
<1>3. m \in Modules
    BY <1>1, <1>2, ByStage DEF ShellInv, Stage
<1>4. building' \in [module : Modules \union {Nobody}, at : Stages] /\ Shell!BuildInv'
    <2>1. CASE Shell!GoOn
        <3>1. PICK next : next = Shell!NextStep(m, "store")
            OBVIOUS
        <3>2. \/ next = "health" /\ m \notin Managed
              \/ next = "page" /\ m \in Managed /\ Shell!Declared(m).page # <<>>
              \/ next = "resource" /\ m \in Managed /\ Shell!Declared(m).page = <<>>
            BY <3>1, SurfaceOf DEF Shell!NextStep
        <3>3. /\ building' \in [module : Modules \union {Nobody}, at : Stages]
              /\ building'.module = m /\ building'.at = next
            BY <1>1, <1>2, <1>3, <2>1, <3>1, <3>2, BuildWentOn DEF ShellInv, Stages
        <3>4. Stage(building.module, building.at)'
            BY <1>3, <3>2, <3>3 DEF Stage
        <3>5. QED
            BY <3>3, <3>4, ByStageNext
    <2>2. CASE Shell!Fail
        BY <2>2, FailedBuild
    <2>3. QED
        BY <1>1, <2>1, <2>2
<1>5. Shell!TypeOK'
    BY <1>1, <1>4, ShellTypes, ShellTypesNext DEF ShellInv
<1>6. Shell!UpInv' /\ Shell!SectionInv'
    BY <1>1, UpStays, SectionsStay DEF ShellInv, RegistriesGrow
<1>7. QED
    BY <1>4, <1>5, <1>6 DEF ShellInv

\* A registration that is refused changes no registry.
LEMMA RefusedStep ==
    ASSUME ShellInv, Shell!Fail, UNCHANGED <<resources, pages, sidebar, checks, up>>
    PROVE  ShellInv'
<1>1. Shell!TypeOK' /\ Shell!BuildInv'
    BY FailedBuild, ShellTypes, ShellTypesNext DEF ShellInv
<1>2. Shell!UpInv' /\ Shell!SectionInv'
    BY UpStays, SectionsStay DEF ShellInv, RegistriesGrow
<1>3. QED
    BY <1>1, <1>2 DEF ShellInv

LEMMA RegisterResourceStep ==
    ASSUME ShellInv, Shell!RegisterResource
    PROVE  ShellInv'
<1> DEFINE m == building.module
           r == Shell!Declared(m).resource
           x == [module |-> m, entity |-> r.entity, may |-> r.may]
<1>1. building.at = "resource" /\ UNCHANGED <<pages, sidebar, checks, up>>
    BY DEF Shell!RegisterResource, Shell!Reached
<1>2. m \in Modules /\ m \in Managed /\ Shell!Declared(m).page = <<>>
    BY <1>1, ByStage DEF ShellInv, Stage
<1>3. CASE resources' = Append(resources, x) /\ Shell!GoOn
    <2>1. r.may \in SUBSET {"create", "edit", "delete"}
        BY <1>2, ModulesAreDeclared DEF GoodDeclaration
    <2>2. x \in Resources /\ x.module = m /\ x.entity = r.entity
        BY <1>2, <2>1 DEF Resources
    <2>3. resources \in Seq(Resources)
        BY ShellTypes DEF ShellInv
    <2> HIDE DEF x
    <2>4. resources' \in Seq(Resources)
          /\ Shell!ToSet(resources') = Shell!ToSet(resources) \union {x}
        BY <1>3, <2>2, <2>3, SetOfAppended
    <2>5. RegistriesGrow
        BY <1>1, <2>4 DEF RegistriesGrow
    <2>6. Shell!NextStep(m, building.at) = "section"
        BY <1>1 DEF Shell!NextStep
    <2>7. /\ building' \in [module : Modules \union {Nobody}, at : Stages]
          /\ building'.module = m /\ building'.at = "section"
        BY <1>2, <1>3, <2>6, BuildWentOn DEF ShellInv, Stages
    <2>8. Shell!HasResource(m, r)'
        <3>1. \E y \in Shell!ToSet(resources') : y.module = m /\ y.entity = r.entity
            BY <2>2, <2>4
        <3>2. PICK k : k = m
            OBVIOUS
        <3>3. building'.module = k
            BY <2>7, <3>2
        <3>4. \E y \in Shell!ToSet(resources') :
                  y.module = k /\ y.entity = Shell!Declared(k).resource.entity
            BY <3>1, <3>2
        <3>5. QED
            BY <3>3, <3>4 DEF Shell!HasResource
    <2>9. Shell!Surfaced(building.module)'
        BY <1>2, <2>7, <2>8 DEF Shell!Surfaced
    <2>10. Shell!BuildInv'
        BY <1>2, <2>7, <2>9, ByStageNext DEF Stage
    <2>11. Shell!TypeOK'
        BY <1>1, <2>4, <2>7, ShellTypes, ShellTypesNext DEF ShellInv
    <2>12. Shell!UpInv' /\ Shell!SectionInv'
        BY <1>1, <2>5, UpStays, SectionsStay DEF ShellInv
    <2>13. QED
        BY <2>10, <2>11, <2>12 DEF ShellInv
<1>4. CASE Shell!Fail /\ UNCHANGED resources
    BY <1>1, <1>4, RefusedStep
<1>5. QED
    BY <1>3, <1>4 DEF Shell!RegisterResource

LEMMA RegisterPageStep ==
    ASSUME ShellInv, Shell!RegisterPage
    PROVE  ShellInv'
<1> DEFINE m == building.module
           path == Shell!Declared(m).page
           x == [module |-> m, path |-> path]
<1>1. building.at = "page" /\ UNCHANGED <<resources, sidebar, checks, up>>
    BY DEF Shell!RegisterPage, Shell!Reached
<1>2. m \in Modules /\ m \in Managed /\ path # <<>>
    BY <1>1, ByStage DEF ShellInv, Stage
<1>3. CASE pages' = Append(pages, x) /\ Shell!GoOn
    <2>1. x \in Pages /\ x.module = m /\ x.path = path
        BY <1>2 DEF Pages
    <2>2. pages \in Seq(Pages)
        BY ShellTypes DEF ShellInv
    <2> HIDE DEF x
    <2>3. pages' \in Seq(Pages)
          /\ Shell!ToSet(pages') = Shell!ToSet(pages) \union {x}
        BY <1>3, <2>1, <2>2, SetOfAppended
    <2>4. RegistriesGrow
        BY <1>1, <2>3 DEF RegistriesGrow
    <2>5. Shell!NextStep(m, building.at) = "section"
        BY <1>1 DEF Shell!NextStep
    <2>6. /\ building' \in [module : Modules \union {Nobody}, at : Stages]
          /\ building'.module = m /\ building'.at = "section"
        BY <1>2, <1>3, <2>5, BuildWentOn DEF ShellInv, Stages
    <2>7. Shell!Surfaced(building.module)'
        <3>1. PICK k : k = m
            OBVIOUS
        <3>2. building'.module = k /\ Shell!Declared(k).page # <<>>
            BY <1>2, <2>6, <3>1
        <3>3. \E y \in Shell!ToSet(pages') : y.module = k /\ y.path = Shell!Declared(k).page
            BY <2>1, <2>3, <3>1
        <3>4. QED
            BY <3>2, <3>3 DEF Shell!Surfaced, Shell!HasPage
    <2>8. Shell!BuildInv'
        BY <1>2, <2>6, <2>7, ByStageNext DEF Stage
    <2>9. Shell!TypeOK'
        BY <1>1, <2>3, <2>6, ShellTypes, ShellTypesNext DEF ShellInv
    <2>10. Shell!UpInv' /\ Shell!SectionInv'
        BY <1>1, <2>4, UpStays, SectionsStay DEF ShellInv
    <2>11. QED
        BY <2>8, <2>9, <2>10 DEF ShellInv
<1>4. CASE Shell!Fail /\ UNCHANGED pages
    BY <1>1, <1>4, RefusedStep
<1>5. QED
    BY <1>3, <1>4 DEF Shell!RegisterPage

\* A section is refused to a module that has it already, so that no module has two.
LEMMA RegisterSidebarSectionStep ==
    ASSUME ShellInv, Shell!RegisterSidebarSection
    PROVE  ShellInv'
<1> DEFINE m == building.module
           d == Shell!Declared(m)
           x == [module |-> m, label |-> d.label, order |-> d.order, items |-> <<d.item>>]
<1>1. building.at = "section" /\ UNCHANGED <<resources, pages, checks, up>>
    BY DEF Shell!RegisterSidebarSection, Shell!Reached
<1>2. m \in Modules /\ m \in Managed /\ Shell!Surfaced(m)
    BY <1>1, ByStage DEF ShellInv, Stage
<1>3. CASE /\ ~Shell!HasSection(m, d.label)
           /\ sidebar' = Append(sidebar, x) /\ Shell!GoOn
    <2>1. d.label \in Shell!ToSet(Shell!Labels) /\ d.order \in Nat
        BY <1>2, ModulesAreDeclared DEF GoodDeclaration
    <2>2. /\ x \in Sections /\ x.module = m /\ x.label = d.label
          /\ x.order = d.order /\ x.items = <<d.item>>
        BY <1>2, <2>1 DEF Sections
    <2>3. sidebar \in Seq(Sections)
        BY ShellTypes DEF ShellInv
    <2> HIDE DEF x
    <2>4. sidebar' \in Seq(Sections)
          /\ Shell!ToSet(sidebar') = Shell!ToSet(sidebar) \union {x}
        BY <1>3, <2>2, <2>3, SetOfAppended
    <2>5. RegistriesGrow
        BY <1>1, <2>4 DEF RegistriesGrow
    <2>6. Shell!NextStep(m, building.at) = "health"
        BY <1>1 DEF Shell!NextStep
    <2>7. /\ building' \in [module : Modules \union {Nobody}, at : Stages]
          /\ building'.module = m /\ building'.at = "health"
        BY <1>2, <1>3, <2>6, BuildWentOn DEF ShellInv, Stages
    <2>8. Shell!Surfaced(building.module)' /\ (building.module \in Shell!Shown)'
        <3>1. PICK k : k = m
            OBVIOUS
        <3>2. Shell!Surfaced(k)'
            BY <1>2, <2>5, <3>1, SurfacesStay
        <3>3. k \in Shell!Shown'
            BY <1>2, <2>2, <2>4, <3>1 DEF Shell!Shown
        <3>4. building'.module = k
            BY <2>7, <3>1
        <3>5. QED
            BY <3>2, <3>3, <3>4 DEF Shell!Surfaced, Shell!HasPage, Shell!HasResource
    <2>9. Shell!BuildInv'
        BY <1>2, <2>7, <2>8, ByStageNext DEF Stage
    <2>10. Shell!TypeOK'
        BY <1>1, <2>4, <2>7, ShellTypes, ShellTypesNext DEF ShellInv
    <2>11. Shell!UpInv'
        BY <1>1, <2>5, UpStays DEF ShellInv
    <2>12. Shell!SectionInv'
        <3>1. \A y \in Shell!ToSet(sidebar) :
                  /\ y.label = Shell!Declared(y.module).label
                  /\ y.order = Shell!Declared(y.module).order
                  /\ y.items = <<Shell!Declared(y.module).item>>
                  /\ Shell!Surfaced(y.module)
            BY DEF ShellInv, Shell!SectionInv
        <3>2. \A y \in Shell!ToSet(sidebar) : y.module # m
            BY <1>3, <3>1 DEF Shell!HasSection
        <3>3. ASSUME NEW y \in Shell!ToSet(sidebar')
              PROVE  /\ y.label = Shell!Declared(y.module).label
                     /\ y.order = Shell!Declared(y.module).order
                     /\ y.items = <<Shell!Declared(y.module).item>>
                     /\ Shell!Surfaced(y.module)'
            <4>1. PICK k : k = y.module
                OBVIOUS
            <4>2. Shell!Surfaced(k)
                BY <1>2, <2>2, <2>4, <3>1, <4>1
            <4>3. Shell!Surfaced(k)'
                BY <2>5, <4>2, SurfacesStay
            <4>4. Shell!Surfaced(y.module)'
                BY Zenon, <4>1, <4>3
            <4>5. QED
                BY <2>2, <2>4, <3>1, <4>4
        <3>4. /\ Len(sidebar) \in Nat /\ DOMAIN sidebar = 1 .. Len(sidebar)
              /\ DOMAIN sidebar' = 1 .. Len(sidebar) + 1
              /\ sidebar'[Len(sidebar) + 1] = x
              /\ \A i \in 1 .. Len(sidebar) : sidebar'[i] = sidebar[i]
            BY <1>3, <2>3
        <3>5. \A i \in 1 .. Len(sidebar) : sidebar[i] \in Shell!ToSet(sidebar)
            BY <3>4 DEF Shell!ToSet
        <3>6. \A i, j \in 1 .. Len(sidebar) : i # j => sidebar[i].module # sidebar[j].module
            BY <3>4 DEF ShellInv, Shell!SectionInv
        <3>7. \A i, j \in DOMAIN sidebar' : i # j => sidebar'[i].module # sidebar'[j].module
            <4>1. \A i \in DOMAIN sidebar' : i \in 1 .. Len(sidebar) \/ i = Len(sidebar) + 1
                BY <3>4
            <4>2. \A i \in 1 .. Len(sidebar) : sidebar'[i].module # m
                BY <3>2, <3>4, <3>5
            <4>3. sidebar'[Len(sidebar) + 1].module = m
                BY <2>2, <3>4
            <4>4. QED
                BY <3>4, <3>6, <4>1, <4>2, <4>3
        <3>8. QED
            BY Zenon, <3>3, <3>7 DEF Shell!SectionInv
    <2>13. QED
        BY <2>9, <2>10, <2>11, <2>12 DEF ShellInv
<1>4. CASE Shell!Fail /\ UNCHANGED sidebar
    BY <1>1, <1>4, RefusedStep
<1>5. QED
    BY <1>3, <1>4 DEF Shell!RegisterSidebarSection

LEMMA RegisterHealthStep ==
    ASSUME ShellInv, Shell!RegisterHealth
    PROVE  ShellInv'
<1> DEFINE m == building.module
<1>1. /\ building.at = "health"
      /\ checks' = checks \union ({m} \ {"health_management"})
      /\ up' = up \union {m}
      /\ building' = [module |-> Nobody, at |-> "none"]
      /\ UNCHANGED <<resources, pages, sidebar>>
    BY DEF Shell!RegisterHealth, Shell!Reached
<1>2. m \in Modules /\ (m \in Managed => Shell!Surfaced(m) /\ m \in Shell!Shown)
    BY <1>1, ByStage DEF ShellInv, Stage
<1>3. building' \in [module : Modules \union {Nobody}, at : Stages] /\ Shell!BuildInv'
    BY <1>1, FailedBuild DEF Shell!Fail
<1>4. Shell!TypeOK'
    BY <1>1, <1>2, <1>3, ShellTypes, ShellTypesNext DEF ShellInv
<1>5. RegistriesGrow
    BY <1>1 DEF RegistriesGrow
<1>6. \A k \in up' \intersect Managed : Shell!Surfaced(k)' /\ k \in Shell!Shown'
    BY <1>1, <1>2, <1>5, SurfacesStay DEF ShellInv, Shell!UpInv
<1>7. up' \ {"health_management"} = checks'
    BY <1>1 DEF ShellInv, Shell!UpInv
<1>8. Shell!UpInv'
    BY Zenon, <1>6, <1>7 DEF Shell!UpInv
<1>9. Shell!SectionInv'
    BY <1>1, <1>5, SectionsStay DEF ShellInv
<1>10. QED
    BY <1>3, <1>4, <1>8, <1>9 DEF ShellInv

LEMMA ShellSteps ==
    ASSUME ShellInv, Shell!Build
    PROVE  ShellInv'
BY NewModuleStep, OpenStoreStep, RegisterResourceStep, RegisterPageStep,
   RegisterSidebarSectionStep, RegisterHealthStep DEF Shell!Build

LEMMA ShellStays ==
    ASSUME ShellInv, UNCHANGED <<resources, pages, sidebar, checks, building, up>>
    PROVE  ShellInv'
<1>1. Shell!TypeOK'
    BY ShellTypes, ShellTypesNext DEF ShellInv
<1>2. Shell!BuildInv' /\ Shell!UpInv' /\ Shell!SectionInv'
    BY UpStays, SectionsStay
    DEF ShellInv, RegistriesGrow, Shell!BuildInv, Shell!Surfaced, Shell!HasPage,
        Shell!HasResource, Shell!Shown, Shell!Reached
<1>3. QED
    BY <1>1, <1>2 DEF ShellInv

-----------------------------------------------------------------------------
(* The console                                                              *)

BrowserTypes ==
    /\ serving \in BOOLEAN
    /\ request \in [Tenants -> Requests \union {NoRequest}]
    /\ view \in [Tenants -> [place : Places, url : Seconds \union {Never}]]
    /\ cache \in [Tenants -> [Seconds -> Logos \union {NoLogo}]]

BrowserInv == BrowserTypes /\ ServingInv /\ RequestInv /\ AddressInv /\ CacheInv

LEMMA ByPart == IInv <=> ShellInv /\ BrandInv /\ BrowserInv
BY Zenon DEF IInv, TypeOK, ShellInv, BrandInv, BrowserInv, BrowserTypes

LEMMA ByPartNext == IInv' <=> ShellInv' /\ BrandInv' /\ BrowserInv'
BY Zenon DEF IInv, TypeOK, ShellInv, BrandInv, BrowserInv, BrowserTypes

LEMMA SecondsAreNumbers == Seconds \subseteq Nat /\ Never \notin Seconds
<1>1. Seconds \subseteq Nat
    BY ConsoleOK, SecondsGrow DEF Seconds, Brand!Second
<1>2. QED
    BY <1>1, ConsoleOK

LEMMA RowTimes ==
    ASSUME BrandInv, NEW t \in Tenants, row[t] # NoRow
    PROVE  /\ Brand!Second(row[t].newest) \in Seconds
           /\ Brand!Second(row[t].updated) \in Seconds
           /\ row[t].newest \in Nat /\ row[t].updated \in Nat
           /\ row[t].logo \in row[t].shown /\ row[t].logo \in Logos \union {NoLogo}
<1>1. row[t] \in Brand!Rows /\ row[t].logo \in row[t].shown
    BY BrandTypes DEF BrandInv, Brand!RowInv
<1>2. QED
    BY <1>1, SecondsType, ConsoleOK DEF Brand!Rows

\* The address of today's logo is one that may be known.
LEMMA AddressOfNow ==
    ASSUME BrandInv, BrowserInv, NEW t \in Tenants
    PROVE  /\ Brand!LogoURL(t) \in Seconds \union {Never}
           /\ Brand!LogoURL(t) # Never =>
                  row[t] # NoRow /\ Brand!LogoURL(t) <= Brand!Second(row[t].newest)
<1>1. CASE row[t] = NoRow
    BY <1>1 DEF Brand!LogoURL
<1>2. CASE row[t] # NoRow
    <2>1. row[t].updated <= row[t].newest
        BY <1>2 DEF BrandInv, Brand!RowInv
    <2>2. QED
        BY <1>2, <2>1, RowTimes, SecondsGrow DEF Brand!LogoURL
<1>3. QED
    BY <1>1, <1>2

\* Where the rows grow and the browsers stand still, addresses and caches stay right:
\* what is kept under the second of a new write was got in that very second.
LEMMA BrowsersStand ==
    ASSUME BrandInv, BrandInv', BrowserInv, RowsGrow, UNCHANGED <<request, view, cache>>,
           serving' \in BOOLEAN, serving => serving', ServingInv'
    PROVE  BrowserInv'
<1>1. \A t \in Tenants : row'[t] # NoRow => Brand!Second(row'[t].newest) \in Seconds
    <2>1. PICK next : next = row'
        OBVIOUS
    <2>2. next \in [Tenants -> Brand!Rows \union {NoRow}]
        BY <2>1, BrandTypesNext DEF BrandInv
    <2>3. \A t \in Tenants : next[t] # NoRow => next[t].newest \in 0 .. MaxTime
        BY <2>2 DEF Brand!Rows
    <2>4. QED
        BY <2>1, <2>3, SecondsType
<1>2. \A t \in Tenants : row[t] # NoRow => Brand!Second(row[t].newest) \in Seconds
    BY RowTimes
<1>3. AddressInv'
    <2>1. ASSUME NEW t \in Tenants, NEW s \in Seconds, Known(t, s)
          PROVE  row'[t] # NoRow /\ s <= Brand!Second(row'[t].newest)
        <3>1. row[t] # NoRow /\ s <= Brand!Second(row[t].newest)
            BY <2>1 DEF BrowserInv, AddressInv
        <3>2. row'[t] # NoRow /\ Brand!Second(row[t].newest) <= Brand!Second(row'[t].newest)
            BY <3>1 DEF RowsGrow
        <3>3. s \in Nat /\ Brand!Second(row[t].newest) \in Nat
              /\ Brand!Second(row'[t].newest) \in Nat
            BY <1>1, <1>2, <3>1, <3>2, SecondsAreNumbers
        <3>4. QED
            BY <3>1, <3>2, <3>3
    <2>2. QED
        BY <2>1 DEF AddressInv, Known
<1>4. CacheInv'
    <2>1. ASSUME NEW t \in Tenants, row'[t] # NoRow,
                 cache[t][Brand!Second(row'[t].newest)] # NoLogo
          PROVE  cache[t][Brand!Second(row'[t].newest)] \in row'[t].shown
        <3>1. PICK s \in Seconds : s = Brand!Second(row'[t].newest)
            BY <1>1, <2>1
        <3>2. row[t] # NoRow /\ s <= Brand!Second(row[t].newest)
            BY <2>1, <3>1 DEF BrowserInv, AddressInv, Known
        <3>3. Brand!Second(row[t].newest) <= s
            BY <3>1, <3>2 DEF RowsGrow
        <3>4. s = Brand!Second(row[t].newest)
            <4>1. s \in Nat /\ Brand!Second(row[t].newest) \in Nat
                BY <1>2, <3>2, SecondsAreNumbers
            <4>2. QED
                BY <3>2, <3>3, <4>1
        <3>5. row[t].shown \subseteq row'[t].shown
            BY <3>1, <3>2, <3>4 DEF RowsGrow
        <3>6. cache[t][s] \in row[t].shown \union {NoLogo}
            BY <3>2, <3>4 DEF BrowserInv, CacheInv
        <3>7. QED
            BY <2>1, <3>1, <3>5, <3>6
    <2>2. QED
        BY <2>1 DEF CacheInv
<1>5. BrowserTypes' /\ RequestInv'
    BY DEF BrowserInv, BrowserTypes, RequestInv, RowsGrow
<1>6. QED
    BY <1>3, <1>4, <1>5 DEF BrowserInv

LEMMA RouteType ==
    ASSUME NEW path
    PROVE  Shell!Route(path) \in {"page", "home", "list", "form", "not found"}
BY DEF Shell!Route

\* What is served names the address of the logo of now, of when the request came, or none.
LEMMA ServedType ==
    ASSUME NEW t \in Tenants, NEW q \in Requests, NEW v \in Served(t, q),
           Brand!LogoURL(t) \in Seconds \union {Never}
    PROVE  /\ v \in [place : Places, url : Seconds \union {Never}]
           /\ v.url \in {Never, q.url, Brand!LogoURL(t)}
           /\ v.place = "setup" <=> Gated(q)
<1>1. q.url \in Seconds \union {Never}
    BY DEF Requests
<1>2. PICK url \in Seconds \union {Never} : url = Brand!LogoURL(t)
    OBVIOUS
<1>3. PICK place \in {"page", "home", "list", "form", "not found"} : place = Shell!Route(q.path)
    BY RouteType
<1>4. CASE Gated(q)
    <2>1. v = Seen("setup", Never)
        BY <1>4 DEF Served
    <2>2. QED
        BY <1>4, <2>1 DEF Seen, Places
<1>5. CASE ~Gated(q)
    <2>1. v \in Rendered(t, q)
        BY <1>5 DEF Served
    <2>2. v \in {Seen(place, url), Seen(place, Never), Seen(place, q.url), Seen("error", Never)}
        BY <1>2, <1>3, <2>1 DEF Rendered
    <2>3. PICK p \in {"page", "home", "list", "form", "not found", "error"},
               u \in {Never, q.url, url} : v = [place |-> p, url |-> u]
        BY <1>3, <2>2 DEF Seen
    <2>4. v.place = p /\ v.url = u /\ p # "setup" /\ p \in Places
        BY <2>3 DEF Places
    <2>5. v \in [place : Places, url : Seconds \union {Never}]
        BY <1>1, <2>3, <2>4
    <2>6. QED
        BY <1>2, <1>5, <2>4, <2>5
<1>6. QED
    BY <1>4, <1>5

LEMMA VisitStep ==
    ASSUME IInv, NEW t \in Tenants, NEW path \in Paths, Visit(t, path)
    PROVE  IInv'
<1>1. ShellInv /\ BrandInv /\ BrowserInv
    BY ByPart
<1>2. PICK resolved \in BOOLEAN :
          request' = [request EXCEPT ![t] =
               [ path |-> path, resolved |-> resolved,
                 complete |-> resolved /\ Brand!SetupComplete(t),
                 url |-> IF resolved THEN Brand!LogoURL(t) ELSE Never,
                 settled |-> Brand!Saved(t) ]]
    BY ConsoleOK DEF Visit
<1>3. serving /\ UNCHANGED <<serving, view, cache>> /\ Elsewhere
    BY DEF Visit
<1>4. ShellInv' /\ BrandInv'
    BY <1>1, <1>3, ShellStays, BrandStays DEF Elsewhere
<1>5. PICK complete \in BOOLEAN : complete = (resolved /\ Brand!SetupComplete(t))
    BY DEF Brand!SetupComplete
<1>6. PICK settled \in BOOLEAN : settled = Brand!Saved(t)
    BY DEF Brand!Saved
<1>7. PICK url \in Seconds \union {Never} : url = IF resolved THEN Brand!LogoURL(t) ELSE Never
    BY <1>1, AddressOfNow
<1> DEFINE q == [ path |-> path, resolved |-> resolved, complete |-> complete, url |-> url,
                  settled |-> settled ]
<1>8. q \in Requests /\ q.resolved = resolved /\ q.complete = complete
      /\ q.url = url /\ q.settled = settled
    BY DEF Requests
<1>9. request' = [request EXCEPT ![t] = q]
    BY <1>2, <1>5, <1>6, <1>7
<1>10. settled => Brand!SetupComplete(t)
    BY <1>1, <1>6 DEF Brand!Saved, BrandInv, Brand!CallInv, Brand!RowInv, Brand!SetupComplete
<1> HIDE DEF q
<1>11. request \in [Tenants -> Requests \union {NoRequest}]
    BY <1>1 DEF BrowserInv, BrowserTypes
<1>12. /\ request' \in [Tenants -> Requests \union {NoRequest}]
       /\ request'[t] = q /\ \A u \in Tenants \ {t} : request'[u] = request[u]
    BY <1>8, <1>9, <1>11
<1>13. row' = row /\ serving' = serving /\ view' = view /\ cache' = cache /\ up' = up
    BY <1>3 DEF Elsewhere
<1>14. AddressInv'
    <2>1. ASSUME NEW u \in Tenants, NEW s \in Seconds, Known(u, s)'
          PROVE  row[u] # NoRow /\ s <= Brand!Second(row[u].newest)
        <3>1. CASE u = t /\ url = s
            <4>1. Brand!LogoURL(t) = s /\ s # Never
                BY <1>7, <3>1, SecondsAreNumbers
            <4>2. QED
                BY <1>1, <3>1, <4>1, AddressOfNow
        <3>2. CASE ~(u = t /\ url = s)
            <4>1. Known(u, s)
                BY <1>8, <1>12, <1>13, <2>1, <3>2 DEF Known
            <4>2. QED
                BY <1>1, <4>1 DEF BrowserInv, AddressInv
        <3>3. QED
            BY <3>1, <3>2
    <2>2. QED
        BY <1>13, <2>1 DEF AddressInv
<1>15. RequestInv'
    <2>1. complete => resolved /\ row[t] # NoRow
        BY <1>5 DEF Brand!SetupComplete
    <2>2. resolved /\ settled => complete
        BY <1>5, <1>10
    <2>3. QED
        BY <1>1, <1>3, <1>8, <1>12, <1>13, <2>1, <2>2 DEF BrowserInv, RequestInv
<1>16. BrowserTypes' /\ ServingInv' /\ CacheInv'
    BY <1>1, <1>12, <1>13 DEF BrowserInv, BrowserTypes, ServingInv, CacheInv
<1>17. QED
    BY <1>4, <1>14, <1>15, <1>16, ByPartNext DEF BrowserInv

LEMMA RespondStep ==
    ASSUME IInv, NEW t \in Tenants, Respond(t)
    PROVE  IInv'
<1>1. ShellInv /\ BrandInv /\ BrowserInv
    BY ByPart
<1>2. /\ request[t] # NoRequest /\ request' = [request EXCEPT ![t] = NoRequest]
      /\ UNCHANGED <<serving, cache>> /\ Elsewhere
    BY DEF Respond
<1>3. PICK v \in Served(t, request[t]) : view' = [view EXCEPT ![t] = v]
    BY DEF Respond
<1>4. ShellInv' /\ BrandInv'
    BY <1>1, <1>2, ShellStays, BrandStays DEF Elsewhere
<1>5. /\ view \in [Tenants -> [place : Places, url : Seconds \union {Never}]]
      /\ request \in [Tenants -> Requests \union {NoRequest}]
    BY <1>1 DEF BrowserInv, BrowserTypes
<1>6. PICK q \in Requests : q = request[t]
    BY <1>2, <1>5
<1>7. /\ v \in [place : Places, url : Seconds \union {Never}]
      /\ v.url \in {Never, q.url, Brand!LogoURL(t)}
    BY <1>1, <1>3, <1>6, AddressOfNow, ServedType
<1>8. /\ view' \in [Tenants -> [place : Places, url : Seconds \union {Never}]]
      /\ view'[t] = v /\ \A u \in Tenants \ {t} : view'[u] = view[u]
      /\ request' \in [Tenants -> Requests \union {NoRequest}]
      /\ request'[t] = NoRequest /\ \A u \in Tenants \ {t} : request'[u] = request[u]
    BY <1>2, <1>3, <1>5, <1>7
<1>9. row' = row /\ serving' = serving /\ cache' = cache /\ up' = up
    BY <1>2 DEF Elsewhere
<1>10. AddressInv'
    <2>1. ASSUME NEW u \in Tenants, NEW s \in Seconds, Known(u, s)'
          PROVE  row[u] # NoRow /\ s <= Brand!Second(row[u].newest)
        <3>1. CASE u = t /\ v.url = s /\ s = Brand!LogoURL(t)
            BY <1>1, <3>1, AddressOfNow, SecondsAreNumbers
        <3>2. CASE ~(u = t /\ v.url = s /\ s = Brand!LogoURL(t))
            <4>1. Known(u, s)
                BY <1>2, <1>6, <1>7, <1>8, <1>9, <2>1, <3>2, SecondsAreNumbers DEF Known
            <4>2. QED
                BY <1>1, <4>1 DEF BrowserInv, AddressInv
        <3>3. QED
            BY <3>1, <3>2
    <2>2. QED
        BY <1>9, <2>1 DEF AddressInv
<1>11. RequestInv'
    BY <1>1, <1>8, <1>9 DEF BrowserInv, RequestInv
<1>12. BrowserTypes' /\ ServingInv' /\ CacheInv'
    BY <1>1, <1>8, <1>9 DEF BrowserInv, BrowserTypes, ServingInv, CacheInv
<1>13. QED
    BY <1>4, <1>10, <1>11, <1>12, ByPartNext DEF BrowserInv

\* The logo of now comes under whatever address the page names; that of the row is the
\* only one that matters, and the row shows the logo.
LEMMA FetchLogoStep ==
    ASSUME IInv, NEW t \in Tenants, FetchLogo(t)
    PROVE  IInv'
<1>1. ShellInv /\ BrandInv /\ BrowserInv
    BY ByPart
<1>2. /\ view[t].url # Never /\ row[t].logo # NoLogo
      /\ cache' = [cache EXCEPT ![t][view[t].url] = row[t].logo]
      /\ UNCHANGED <<serving, request, view>> /\ Elsewhere
    BY DEF FetchLogo
<1>3. ShellInv' /\ BrandInv'
    BY <1>1, <1>2, ShellStays, BrandStays DEF Elsewhere
<1>4. /\ view \in [Tenants -> [place : Places, url : Seconds \union {Never}]]
      /\ cache \in [Tenants -> [Seconds -> Logos \union {NoLogo}]]
    BY <1>1 DEF BrowserInv, BrowserTypes
<1>5. PICK k \in Seconds : k = view[t].url
    BY <1>2, <1>4
<1>6. row[t] # NoRow /\ k <= Brand!Second(row[t].newest)
    BY <1>1, <1>5 DEF BrowserInv, AddressInv, Known
<1>7. PICK logo \in Logos \union {NoLogo} : logo = row[t].logo /\ logo \in row[t].shown
    BY <1>1, <1>6, RowTimes
<1>8. cache' = [cache EXCEPT ![t][k] = logo]
    BY <1>2, <1>5, <1>7
<1>9. /\ cache' \in [Tenants -> [Seconds -> Logos \union {NoLogo}]]
      /\ cache'[t][k] = logo
      /\ \A u \in Tenants, s \in Seconds : ~(u = t /\ s = k) => cache'[u][s] = cache[u][s]
    BY <1>4, <1>8
<1>10. row' = row /\ serving' = serving /\ view' = view /\ request' = request /\ up' = up
    BY <1>2 DEF Elsewhere
<1>11. AddressInv'
    <2>1. ASSUME NEW u \in Tenants, NEW s \in Seconds, Known(u, s)'
          PROVE  row[u] # NoRow /\ s <= Brand!Second(row[u].newest)
        <3>1. CASE u = t /\ s = k
            BY <1>6, <3>1
        <3>2. CASE ~(u = t /\ s = k)
            BY <1>1, <1>9, <1>10, <2>1, <3>2 DEF BrowserInv, AddressInv, Known
        <3>3. QED
            BY <3>1, <3>2
    <2>2. QED
        BY <1>10, <2>1 DEF AddressInv
<1>12. CacheInv'
    <2>1. ASSUME NEW u \in Tenants, row[u] # NoRow
          PROVE  cache'[u][Brand!Second(row[u].newest)] \in row[u].shown \union {NoLogo}
        <3>1. PICK s \in Seconds : s = Brand!Second(row[u].newest)
            BY <1>1, <2>1, RowTimes
        <3>2. cache[u][s] \in row[u].shown \union {NoLogo}
            BY <1>1, <2>1, <3>1 DEF BrowserInv, CacheInv
        <3>3. cache'[u][s] \in row[u].shown \union {NoLogo}
            BY <1>7, <1>9, <3>2
        <3>4. QED
            BY <3>1, <3>3
    <2>2. QED
        BY <1>1, <1>10, <2>1 DEF BrowserInv, CacheInv
<1>13. BrowserTypes' /\ ServingInv' /\ RequestInv'
    BY <1>1, <1>4, <1>9, <1>10 DEF BrowserInv, BrowserTypes, ServingInv, RequestInv
<1>14. QED
    BY <1>3, <1>11, <1>12, <1>13, ByPartNext DEF BrowserInv

LEMMA ForgetStep ==
    ASSUME IInv, NEW t \in Tenants, NEW k \in Seconds, Forget(t, k)
    PROVE  IInv'
<1>1. ShellInv /\ BrandInv /\ BrowserInv
    BY ByPart
<1>2. /\ cache' = [cache EXCEPT ![t][k] = NoLogo]
      /\ UNCHANGED <<serving, request, view>> /\ Elsewhere
    BY DEF Forget
<1>3. ShellInv' /\ BrandInv'
    BY <1>1, <1>2, ShellStays, BrandStays DEF Elsewhere
<1>4. /\ cache \in [Tenants -> [Seconds -> Logos \union {NoLogo}]]
    BY <1>1 DEF BrowserInv, BrowserTypes
<1>5. /\ cache' \in [Tenants -> [Seconds -> Logos \union {NoLogo}]]
      /\ \A u \in Tenants, s \in Seconds : cache'[u][s] \in {cache[u][s], NoLogo}
    BY <1>2, <1>4
<1>6. row' = row /\ serving' = serving /\ view' = view /\ request' = request /\ up' = up
    BY <1>2 DEF Elsewhere
<1>7. AddressInv'
    <2>1. \A u \in Tenants, s \in Seconds : Known(u, s)' => Known(u, s)
        BY <1>5, <1>6 DEF Known
    <2>2. QED
        BY <1>1, <1>6, <2>1 DEF BrowserInv, AddressInv
<1>8. CacheInv'
    <2>1. ASSUME NEW u \in Tenants, row[u] # NoRow
          PROVE  cache'[u][Brand!Second(row[u].newest)] \in row[u].shown \union {NoLogo}
        <3>1. PICK s \in Seconds : s = Brand!Second(row[u].newest)
            BY <1>1, <2>1, RowTimes
        <3>2. cache[u][s] \in row[u].shown \union {NoLogo}
            BY <1>1, <2>1, <3>1 DEF BrowserInv, CacheInv
        <3>3. QED
            BY <1>5, <3>1, <3>2
    <2>2. QED
        BY <1>1, <1>6, <2>1 DEF BrowserInv, CacheInv
<1>9. BrowserTypes' /\ ServingInv' /\ RequestInv'
    BY <1>1, <1>5, <1>6 DEF BrowserInv, BrowserTypes, ServingInv, RequestInv
<1>10. QED
    BY <1>3, <1>7, <1>8, <1>9, ByPartNext DEF BrowserInv

LEMMA InitCorrect == Init => IInv
<1> SUFFICES ASSUME Init PROVE IInv
    OBVIOUS
<1>1. ShellInv
    BY ShellInit DEF Init
<1>2. BrandInv
    <2> USE DEF Init, Brand!Init
    <2>1. Brand!TypeOK
        BY BrandTypes, IdleType, ConsoleOK
    <2>2. Brand!RowInv
        BY DEF Brand!RowInv
    <2>3. \A c \in Calls : call[c].pc = "idle" /\ call[c].result = "none"
        BY IdleType
    <2>4. Brand!CallInv
        BY <2>3 DEF Brand!CallInv, Brand!At
    <2>5. QED
        BY <2>1, <2>2, <2>4 DEF BrandInv
<1>3. \A t \in Tenants : view[t] = Seen("none", Never) /\ row[t] = NoRow
                         /\ request[t] = NoRequest
                         /\ \A s \in Seconds : cache[t][s] = NoLogo
    BY DEF Init, Brand!Init
<1>4. Seen("none", Never) \in [place : Places, url : Seconds \union {Never}]
      /\ Seen("none", Never).url = Never
    <2>1. "none" \in Places
        BY DEF Places
    <2>2. QED
        BY <2>1 DEF Seen
<1>5. BrowserTypes
    BY <1>4 DEF BrowserTypes, Init
<1>6. RequestInv /\ AddressInv /\ CacheInv
    BY <1>3, <1>4, SecondsAreNumbers DEF RequestInv, AddressInv, CacheInv, Known
<1>7. ServingInv
    BY DEF ServingInv, Init
<1>8. QED
    BY <1>1, <1>2, <1>5, <1>6, <1>7, ByPart DEF BrowserInv

LEMMA StepCorrect == IInv /\ [Next]_vars => IInv'
<1> SUFFICES ASSUME IInv, [Next]_vars PROVE IInv'
    OBVIOUS
<1>1. ShellInv /\ BrandInv /\ BrowserInv
    BY ByPart
<1>2. CASE Build
    <2>1. ~serving /\ Shell!Build /\ UNCHANGED <<now, row, call, serving, request, view, cache>>
        BY <1>2 DEF Build
    <2>2. ShellInv' /\ BrandInv'
        BY <1>1, <2>1, ShellSteps, BrandStays
    <2>3. BrowserInv'
        BY <1>1, <2>1, <2>2, RowsStand, BrowsersStand DEF ServingInv, BrowserInv, BrowserTypes
    <2>4. QED
        BY <2>2, <2>3, ByPartNext
<1>3. CASE Serve
    <2>1. up = Modules /\ serving' = TRUE /\ UNCHANGED <<request, view, cache>> /\ Elsewhere
        BY <1>3 DEF Serve
    <2>2. ShellInv' /\ BrandInv'
        BY <1>1, <2>1, ShellStays, BrandStays DEF Elsewhere
    <2>3. BrowserInv'
        BY <1>1, <2>1, <2>2, RowsStand, BrowsersStand DEF ServingInv, Elsewhere
    <2>4. QED
        BY <2>2, <2>3, ByPartNext
<1>4. CASE Branded
    <2>1. Brand!Next
          /\ UNCHANGED <<resources, pages, sidebar, checks, building, up, serving, request, view, cache>>
        BY <1>4 DEF Branded
    <2>2. ShellInv' /\ BrandInv' /\ RowsGrow
        BY <1>1, <2>1, ShellStays, BrandSteps, BrandTicks DEF Brand!Next
    <2>3. BrowserInv'
        BY <1>1, <2>1, <2>2, BrowsersStand DEF BrowserInv, BrowserTypes, ServingInv
    <2>4. QED
        BY <2>2, <2>3, ByPartNext
<1>5. CASE UNCHANGED vars
    <2>1. Elsewhere /\ UNCHANGED <<serving, request, view, cache>>
        BY <1>5 DEF vars, Elsewhere
    <2>2. ShellInv' /\ BrandInv'
        BY <1>1, <2>1, ShellStays, BrandStays DEF Elsewhere
    <2>3. BrowserInv'
        BY <1>1, <2>1, <2>2, RowsStand, BrowsersStand
        DEF Elsewhere, BrowserInv, BrowserTypes, ServingInv
    <2>4. QED
        BY <2>2, <2>3, ByPartNext
<1>6. QED
    BY <1>2, <1>3, <1>4, <1>5, VisitStep, RespondStep, FetchLogoStep, ForgetStep DEF Next

-----------------------------------------------------------------------------
(* Counting, and induction up to a number.                                  *)

\* Before tells of each member of a finite set what comes before it.
Ordered(S, Before) ==
    /\ IsFiniteSet(S)
    /\ \A x \in S : Before[x] \subseteq S \ {x}
    /\ \A x, y \in S : x # y => x \in Before[y] \/ y \in Before[x]
    /\ \A x, y \in S : x \in Before[y] => Before[x] \subseteq Before[y]

LEMMA CountsRise ==
    ASSUME NEW S, NEW Before, Ordered(S, Before), NEW x \in S
    PROVE  /\ Cardinality(Before[x]) \in 0 .. Cardinality(S) - 1
           /\ \A y \in S : y \in Before[x] => Cardinality(Before[y]) < Cardinality(Before[x])
<1>1. IsFiniteSet(S) /\ Before[x] \in SUBSET (S \ {x})
    BY DEF Ordered
<1>2. IsFiniteSet(S \ {x}) /\ Cardinality(S \ {x}) = Cardinality(S) - 1 /\ Cardinality(S) \in Nat
    BY <1>1, FS_RemoveElement, FS_CardinalityType
<1>3. IsFiniteSet(Before[x]) /\ Cardinality(Before[x]) <= Cardinality(S \ {x})
    BY <1>1, <1>2, FS_Subset
<1>4. Cardinality(Before[x]) \in Nat
    BY <1>3, FS_CardinalityType
<1>5. ASSUME NEW y \in S, y \in Before[x]
      PROVE  Cardinality(Before[y]) < Cardinality(Before[x])
    <2>1. Before[y] \in SUBSET Before[x] /\ Before[y] # Before[x]
        BY <1>5 DEF Ordered
    <2>2. /\ IsFiniteSet(Before[y])
          /\ Cardinality(Before[y]) <= Cardinality(Before[x])
          /\ Cardinality(Before[y]) # Cardinality(Before[x])
        BY <1>3, <2>1, FS_Subset
    <2>3. Cardinality(Before[y]) \in Nat
        BY <2>2, FS_CardinalityType
    <2>4. QED
        BY <1>4, <2>2, <2>3
<1>6. QED
    BY <1>2, <1>3, <1>4, <1>5

\* As many come before one member as before no other, and every number is taken.
LEMMA CountsAreTaken ==
    ASSUME NEW S, NEW Before, Ordered(S, Before), NEW k \in 0 .. Cardinality(S) - 1
    PROVE  \E x \in S : Cardinality(Before[x]) = k
<1> DEFINE n == Cardinality(S)
           f == [x \in S |-> Cardinality(Before[x])]
<1>1. IsFiniteSet(S) /\ n \in Nat
    BY FS_CardinalityType DEF Ordered
<1>2. IsFiniteSet(0 .. n - 1) /\ Cardinality(0 .. n - 1) = n
    <2>1. 0 \in Int /\ n - 1 \in Int /\ ~(0 > n - 1) /\ (n - 1) - 0 + 1 = n
        BY <1>1
    <2>2. QED
        BY <2>1, FS_Interval
<1>3. f \in [S -> 0 .. n - 1]
    BY CountsRise
<1>4. ASSUME NEW x \in S, NEW y \in S, x # y
      PROVE  f[x] # f[y]
    <2>1. x \in Before[y] \/ y \in Before[x]
        BY <1>4 DEF Ordered
    <2>2. f[x] < f[y] \/ f[y] < f[x]
        BY <2>1, CountsRise
    <2>3. QED
        BY <1>3, <2>2
<1>5. f \in Injection(S, 0 .. n - 1)
    BY <1>3, <1>4 DEF Injection, IsInjective
<1>6. f \in Surjection(S, 0 .. n - 1)
    BY <1>1, <1>2, <1>5, FS_Injection
<1>7. QED
    BY <1>6 DEF Surjection

\* So that something is first.
LEMMA OneIsFirst ==
    ASSUME NEW S, NEW Before, Ordered(S, Before), S # {}
    PROVE  \E x \in S : Before[x] = {}
<1>1. IsFiniteSet(S) /\ Cardinality(S) \in Nat /\ Cardinality(S) # 0
    BY FS_CardinalityType, FS_EmptySet DEF Ordered
<1>2. PICK k \in 0 .. Cardinality(S) - 1 : k = 0
    BY <1>1
<1>3. PICK x \in S : Cardinality(Before[x]) = k
    BY CountsAreTaken
<1>4. Before[x] \in SUBSET S
    BY DEF Ordered
<1>5. IsFiniteSet(Before[x])
    BY <1>1, <1>4, FS_Subset
<1>6. QED
    BY <1>2, <1>3, <1>5, FS_EmptySet

LEMMA LeastNumber ==
    ASSUME NEW T, IsFiniteSet(T), T # {}
    PROVE  T \subseteq Nat => \E x \in T : \A y \in T : x <= y
<1>1. PICK Before : Before = [x \in T |-> {y \in T : y < x}]
    OBVIOUS
<1>2. ASSUME T \subseteq Nat
      PROVE  Ordered(T, Before)
    <2>1. \A x \in T : x \in Nat /\ Before[x] = {y \in T : y < x}
        BY <1>1, <1>2
    <2>2. \A x \in T : Before[x] \subseteq T \ {x}
        BY <2>1
    <2>3. \A x, y \in T : x # y => x \in Before[y] \/ y \in Before[x]
        BY <2>1
    <2>4. ASSUME NEW x \in T, NEW y \in T, x \in Before[y]
          PROVE  Before[x] \subseteq Before[y]
        BY <2>1, <2>4
    <2>5. QED
        BY <2>2, <2>3, <2>4 DEF Ordered
<1>3. Ordered(T, Before) => \E x \in T : Before[x] = {}
    BY OneIsFirst
<1>4. ASSUME T \subseteq Nat, NEW x \in T, Before[x] = {}
      PROVE  \A y \in T : x <= y
    <2>1. \A y \in T : ~(y < x)
        BY <1>1, <1>4
    <2>2. QED
        BY <1>4, <2>1
<1>5. QED
    BY Zenon, <1>2, <1>3, <1>4

LEMMA InductionTo ==
    ASSUME NEW n \in Nat, NEW S, 0 \in S,
           \A k \in 0 .. n - 1 : k \in S => k + 1 \in S
    PROVE  \A k \in 0 .. n : k \in S
<1> DEFINE T == (0 .. n) \ S
<1> SUFFICES ASSUME T # {} PROVE FALSE
    OBVIOUS
<1>1. T \subseteq Nat /\ IsFiniteSet(T)
    <2>1. IsFiniteSet(0 .. n)
        BY FS_Interval
    <2>2. QED
        BY <2>1, FS_Subset
<1>2. PICK k \in T : \A j \in T : k <= j
    BY <1>1, LeastNumber
<1>3. k \in 1 .. n
    BY <1>2
<1>4. k - 1 \in 0 .. n - 1 /\ k - 1 \notin T
    BY <1>2, <1>3
<1>5. k - 1 \in S
    BY <1>3, <1>4
<1>6. (k - 1) + 1 \in S
    BY <1>4, <1>5
<1>7. QED
    BY <1>2, <1>3, <1>6

-----------------------------------------------------------------------------
(* The members of the rail: the sections, sorted. *)

\* No two packages have one order, so that labels never decide.
LEMMA OrdersDiffer ==
    ASSUME NEW m \in Managed, NEW n \in Managed, m # n
    PROVE  Shell!Declared(m).order # Shell!Declared(n).order
<1>1. ASSUME NEW k \in Managed
      PROVE  \/ k = "tenant_management" /\ Shell!Declared(k).order = 10
             \/ k = "user_management" /\ Shell!Declared(k).order = 20
             \/ k = "api_key_management" /\ Shell!Declared(k).order = 30
             \/ k = "content_management" /\ Shell!Declared(k).order = 40
             \/ k = "notification_management" /\ Shell!Declared(k).order = 50
             \/ k = "audit_management" /\ Shell!Declared(k).order = 90
             \/ k = "health_management" /\ Shell!Declared(k).order = 80
             \/ k = "branding_management" /\ Shell!Declared(k).order = 95
    <2>1. Shell!Tenant.order = 10 /\ Shell!User.order = 20
        BY DEF Shell!Tenant, Shell!User, Shell!Listed, Shell!Declaration
    <2>2. Shell!APIKey.order = 30 /\ Shell!Content.order = 40
        BY DEF Shell!APIKey, Shell!Content, Shell!Listed, Shell!Declaration
    <2>3. Shell!Notification.order = 50 /\ Shell!Audit.order = 90
        BY DEF Shell!Notification, Shell!Audit, Shell!Listed, Shell!Declaration
    <2>4. Shell!Health.order = 80 /\ Shell!Branding.order = 95
        BY DEF Shell!Health, Shell!Branding, Shell!Listed, Shell!Declaration
    <2>5. k \in Shell!Packages \ {"auth_management"}
        BY ConsoleOK
    <2>6. QED
        BY <2>1, <2>2, <2>3, <2>4, <2>5 DEF Shell!Packages, Shell!Declared
<1>2. QED
    BY <1>1

LEMMA LabelRanks ==
    ASSUME NEW a \in Shell!ToSet(Shell!Labels), NEW b \in Shell!ToSet(Shell!Labels)
    PROVE  /\ Shell!Rank(a) \in Int
           /\ Shell!Rank(a) = Shell!Rank(b) => a = b
<1>1. DOMAIN Shell!Labels = 1 .. 4
    BY DEF Shell!Labels
<1>2. ASSUME NEW l \in Shell!ToSet(Shell!Labels)
      PROVE  Shell!Rank(l) \in DOMAIN Shell!Labels /\ Shell!Labels[Shell!Rank(l)] = l
    <2>1. \E i \in DOMAIN Shell!Labels : Shell!Labels[i] = l
        BY <1>2 DEF Shell!ToSet
    <2>2. QED
        BY Zenon, <2>1 DEF Shell!Rank
<1>3. QED
    BY <1>1, <1>2

SectionsBefore == [i \in DOMAIN sidebar |-> {j \in DOMAIN sidebar : Shell!Sooner(j, i)}]

LEMMA SectionsAreOrdered ==
    ASSUME sidebar \in Seq(Sections)
    PROVE  Ordered(DOMAIN sidebar, SectionsBefore)
<1>1. DOMAIN sidebar = 1 .. Len(sidebar) /\ Len(sidebar) \in Nat
    OBVIOUS
<1>2. IsFiniteSet(DOMAIN sidebar)
    BY <1>1, FS_Interval
<1>3. ASSUME NEW i \in DOMAIN sidebar
      PROVE  /\ sidebar[i].order \in Nat /\ i \in Nat
             /\ sidebar[i].label \in Shell!ToSet(Shell!Labels)
             /\ Shell!Rank(sidebar[i].label) \in Int
    <2>1. sidebar[i] \in Sections
        BY <1>3
    <2>2. QED
        BY <1>1, <2>1, LabelRanks DEF Sections
<1>4. ASSUME NEW i \in DOMAIN sidebar, NEW j \in DOMAIN sidebar
      PROVE  /\ ~Shell!Sooner(i, i)
             /\ i # j => Shell!Sooner(i, j) \/ Shell!Sooner(j, i)
    <2>1. Shell!Rank(sidebar[i].label) = Shell!Rank(sidebar[j].label)
            => sidebar[i].label = sidebar[j].label
        BY <1>3, <1>4, LabelRanks
    <2>2. QED
        BY <1>3, <1>4, <2>1 DEF Shell!Sooner
<1>5. ASSUME NEW h \in DOMAIN sidebar, NEW i \in DOMAIN sidebar, NEW j \in DOMAIN sidebar,
             Shell!Sooner(h, i), Shell!Sooner(i, j)
      PROVE  Shell!Sooner(h, j)
    BY <1>3, <1>5 DEF Shell!Sooner
<1>6. QED
    BY <1>2, <1>4, <1>5 DEF Ordered, SectionsBefore

\* Sorting leaves the sections what they are.
LEMMA MembersAreSorted ==
    ASSUME sidebar \in Seq(Sections)
    PROVE  \E p \in [DOMAIN sidebar -> DOMAIN sidebar] :
                /\ \A n \in DOMAIN sidebar : Shell!Members[n] = sidebar[p[n]]
                /\ \A i \in DOMAIN sidebar : \E n \in DOMAIN sidebar : p[n] = i
                /\ \A m, n \in DOMAIN sidebar : m < n => Shell!Sooner(p[m], p[n])
<1> DEFINE D == DOMAIN sidebar
           p == [n \in D |-> CHOOSE i \in D : Shell!Place(i) = n]
<1>1. D = 1 .. Len(sidebar) /\ Len(sidebar) \in Nat
    OBVIOUS
<1>2. IsFiniteSet(D) /\ Cardinality(D) = Len(sidebar)
    <2>1. /\ IsFiniteSet(1 .. Len(sidebar))
          /\ Cardinality(1 .. Len(sidebar)) =
                IF 1 > Len(sidebar) THEN 0 ELSE Len(sidebar) - 1 + 1
        BY <1>1, FS_Interval
    <2>2. QED
        BY <1>1, <2>1
<1>3. Ordered(D, SectionsBefore)
    BY SectionsAreOrdered
<1>4. ASSUME NEW i \in D
      PROVE  Shell!Place(i) = 1 + Cardinality(SectionsBefore[i])
    BY <1>4 DEF Shell!Place, SectionsBefore, Shell!Cardinality, Cardinality
<1>5. ASSUME NEW i \in D
      PROVE  Shell!Place(i) \in D
    <2>1. Cardinality(SectionsBefore[i]) \in 0 .. Cardinality(D) - 1
        BY <1>3, <1>5, CountsRise
    <2>2. QED
        BY <1>1, <1>2, <1>4, <1>5, <2>1
<1>6. ASSUME NEW n \in D
      PROVE  \E i \in D : Shell!Place(i) = n
    <2>1. n - 1 \in 0 .. Cardinality(D) - 1
        BY <1>1, <1>2, <1>6
    <2>2. PICK i \in D : Cardinality(SectionsBefore[i]) = n - 1
        BY <1>3, <2>1, CountsAreTaken
    <2>3. QED
        BY <1>1, <1>4, <1>6, <2>2
<1>7. ASSUME NEW i \in D, NEW j \in D, Shell!Sooner(i, j)
      PROVE  Shell!Place(i) < Shell!Place(j)
    <2>1. i \in SectionsBefore[j]
        BY <1>7 DEF SectionsBefore
    <2>2. /\ Cardinality(SectionsBefore[i]) < Cardinality(SectionsBefore[j])
          /\ Cardinality(SectionsBefore[i]) \in 0 .. Cardinality(D) - 1
          /\ Cardinality(SectionsBefore[j]) \in 0 .. Cardinality(D) - 1
        BY <1>3, <1>7, <2>1, CountsRise
    <2>3. QED
        BY <1>1, <1>2, <1>4, <1>7, <2>2
<1>8. ASSUME NEW i \in D, NEW j \in D, i # j
      PROVE  Shell!Sooner(i, j) \/ Shell!Sooner(j, i)
    BY <1>3, <1>8 DEF Ordered, SectionsBefore
<1>9. ASSUME NEW n \in D
      PROVE  p[n] \in D /\ Shell!Place(p[n]) = n
    BY Zenon, <1>6, <1>9
<1>10. ASSUME NEW n \in D
       PROVE  Shell!Members[n] = sidebar[p[n]]
    <2>1. Shell!Members = [k \in D |-> sidebar[CHOOSE i \in D : Shell!Place(i) = k]]
        BY Zenon DEF Shell!Members
    <2>2. Shell!Members[n] = sidebar[CHOOSE i \in D : Shell!Place(i) = n]
        BY <1>10, <2>1
    <2>3. p[n] = CHOOSE i \in D : Shell!Place(i) = n
        BY Zenon, <1>10
    <2>4. QED
        BY Zenon, <2>2, <2>3
<1> HIDE DEF p
<1>11. ASSUME NEW i \in D PROVE \E n \in D : p[n] = i
    <2>1. PICK n \in D : n = Shell!Place(i)
        BY <1>5, <1>11
    <2>2. p[n] \in D /\ Shell!Place(p[n]) = Shell!Place(i)
        BY <1>9, <2>1
    <2>3. p[n] # i => Shell!Place(p[n]) < Shell!Place(i) \/ Shell!Place(i) < Shell!Place(p[n])
        BY <1>7, <1>8, <1>11, <2>2
    <2>4. Shell!Place(i) \in Nat
        BY <1>1, <1>5, <1>11
    <2>5. QED
        BY <2>2, <2>3, <2>4
<1>12. ASSUME NEW m \in D, NEW n \in D, m < n PROVE Shell!Sooner(p[m], p[n])
    <2>1. p[m] \in D /\ p[n] \in D /\ Shell!Place(p[m]) = m /\ Shell!Place(p[n]) = n
        BY <1>9, <1>12
    <2>2. m \in Nat /\ n \in Nat
        BY <1>1, <1>12
    <2>3. p[m] # p[n] /\ ~(Shell!Place(p[n]) < Shell!Place(p[m]))
        BY <1>12, <2>1, <2>2
    <2>4. QED
        BY <1>7, <1>8, <2>1, <2>3
<1>13. p \in [D -> D]
    BY <1>9 DEF p
<1>14. QED
    BY <1>10, <1>11, <1>12, <1>13

-----------------------------------------------------------------------------
(* The groups of the rail. *)

Item(n) == Shell!Declared(Shell!Members[n].module).item

Items == {Shell!Declared(m).item : m \in Managed}

\* The members in their order, each of its module and each module once.
InOrder ==
    /\ DOMAIN sidebar = 1 .. Len(sidebar) /\ Len(sidebar) \in Nat
    /\ \A n \in DOMAIN sidebar :
        LET x == Shell!Members[n] IN
        /\ x \in Sections /\ x.module \in Managed
        /\ x.label = Shell!Declared(x.module).label
        /\ x.order = Shell!Declared(x.module).order
        /\ x.items = <<Item(n)>> /\ Item(n) \in Items
        /\ Shell!Surfaced(x.module)
    /\ \A m, n \in DOMAIN sidebar :
        m < n => Shell!Members[m].order < Shell!Members[n].order
    /\ Shell!Shown = {Shell!Members[n].module : n \in DOMAIN sidebar}

LEMMA MembersInOrder ==
    ASSUME IInv
    PROVE  InOrder
<1>1. sidebar \in Seq(Sections) /\ Shell!SectionInv
    BY ShellTypes DEF IInv, TypeOK
<1>2. DOMAIN sidebar = 1 .. Len(sidebar) /\ Len(sidebar) \in Nat
    BY <1>1
<1>3. PICK p \in [DOMAIN sidebar -> DOMAIN sidebar] :
        /\ \A n \in DOMAIN sidebar : Shell!Members[n] = sidebar[p[n]]
        /\ \A i \in DOMAIN sidebar : \E n \in DOMAIN sidebar : p[n] = i
        /\ \A m, n \in DOMAIN sidebar : m < n => Shell!Sooner(p[m], p[n])
    BY <1>1, MembersAreSorted
<1>4. ASSUME NEW i \in DOMAIN sidebar
      PROVE  /\ sidebar[i] \in Sections /\ sidebar[i] \in Shell!ToSet(sidebar)
             /\ sidebar[i].module \in Managed
             /\ sidebar[i].order \in Nat
    <2>1. sidebar[i] \in Sections
        BY <1>1, <1>4
    <2>2. QED
        BY <2>1, <1>4, ConsoleOK DEF Sections, Shell!ToSet
<1>5. ASSUME NEW n \in DOMAIN sidebar
      PROVE  LET x == Shell!Members[n] IN
             /\ x \in Sections /\ x.module \in Managed
             /\ x.label = Shell!Declared(x.module).label
             /\ x.order = Shell!Declared(x.module).order
             /\ x.items = <<Item(n)>> /\ Item(n) \in Items
             /\ Shell!Surfaced(x.module)
    <2>1. PICK x \in Shell!ToSet(sidebar) : x = Shell!Members[n]
        BY <1>3, <1>4, <1>5
    <2>2. x \in Sections /\ x.module \in Managed
        BY <1>3, <1>4, <1>5, <2>1
    <2>3. /\ x.label = Shell!Declared(x.module).label
          /\ x.order = Shell!Declared(x.module).order
          /\ x.items = <<Shell!Declared(x.module).item>>
          /\ Shell!Surfaced(x.module)
        BY <1>1, <2>1 DEF Shell!SectionInv
    <2>4. Shell!Declared(x.module).item \in Items
        BY <2>2 DEF Items
    <2>5. QED
        BY Zenon, <2>1, <2>2, <2>3, <2>4 DEF Item
<1>6. ASSUME NEW m \in DOMAIN sidebar, NEW n \in DOMAIN sidebar, m < n
      PROVE  Shell!Members[m].order < Shell!Members[n].order
    <2>1. PICK x, y : x = Shell!Members[m] /\ y = Shell!Members[n]
        OBVIOUS
    <2>2. p[m] \in DOMAIN sidebar /\ p[n] \in DOMAIN sidebar /\ Shell!Sooner(p[m], p[n])
          /\ x = sidebar[p[m]] /\ y = sidebar[p[n]]
        BY <1>3, <1>6, <2>1
    <2>3. p[m] # p[n]
        <3>1. Ordered(DOMAIN sidebar, SectionsBefore)
            BY <1>1, SectionsAreOrdered
        <3>2. ~Shell!Sooner(p[m], p[m])
            BY <2>2, <3>1 DEF Ordered, SectionsBefore
        <3>3. QED
            BY <2>2, <3>2
    <2>4. x.module # y.module /\ x.module \in Managed /\ y.module \in Managed
        BY <1>1, <1>4, <2>2, <2>3 DEF Shell!SectionInv
    <2>5. x.order # y.order
        BY <1>5, <1>6, <2>1, <2>4, OrdersDiffer
    <2>6. x.order \in Nat /\ y.order \in Nat /\ x.order <= y.order
        BY <1>4, <2>2 DEF Shell!Sooner
    <2>7. x.order < y.order
        BY <2>5, <2>6
    <2>8. QED
        BY <2>1, <2>7
<1>7. Shell!Shown = {Shell!Members[n].module : n \in DOMAIN sidebar}
    <2>1. ASSUME NEW m \in Shell!Shown
          PROVE  \E n \in DOMAIN sidebar : Shell!Members[n].module = m
        <3>1. PICK i \in DOMAIN sidebar : sidebar[i].module = m
            BY <2>1 DEF Shell!Shown, Shell!ToSet
        <3>2. QED
            BY <1>3, <3>1
    <2>2. ASSUME NEW n \in DOMAIN sidebar
          PROVE  Shell!Members[n].module \in Shell!Shown
        <3>1. PICK x \in Shell!ToSet(sidebar) : x = Shell!Members[n]
            BY <1>3, <1>4, <2>2
        <3>2. x.module \in Managed
            BY <1>5, <2>2, <3>1
        <3>3. QED
            BY <3>1, <3>2 DEF Shell!Shown
    <2>3. QED
        BY <2>1, <2>2
<1>8. QED
    BY <1>2, <1>5, <1>6, <1>7 DEF InOrder

\* The items q are those of the members up to k of one label, in their order.
Filed(q, label, k) ==
    /\ q \in Seq(Items)
    /\ \A n \in 1 .. k : Shell!Members[n].label = label => \E a \in DOMAIN q : q[a] = Item(n)
    /\ \A a \in DOMAIN q : \E n \in 1 .. k : Shell!Members[n].label = label /\ q[a] = Item(n)
    /\ \A a, b \in DOMAIN q : a < b =>
        \E m, n \in 1 .. k : m < n /\ q[a] = Item(m) /\ q[b] = Item(n)

Groups == [label : Shell!ToSet(Shell!Labels), module : Managed, order : Nat, items : Seq(Items)]

\* r has the groups of the members up to k: a group for each label, where the label
\* comes first.
Grouped(r, k) ==
    /\ r \in Seq(Groups)
    /\ \A n \in 1 .. k : \E g \in DOMAIN r : r[g].label = Shell!Members[n].label
    /\ \A g \in DOMAIN r : \E n \in 1 .. k : Shell!Members[n].label = r[g].label
    /\ \A g, h \in DOMAIN r : g < h =>
        /\ r[g].label # r[h].label
        /\ \E n \in 1 .. k : /\ Shell!Members[n].label = r[g].label
                             /\ \A i \in 1 .. n : Shell!Members[i].label # r[h].label
    /\ \A g \in DOMAIN r : Filed(r[g].items, r[g].label, k)

LEMMA FiledFirst ==
    ASSUME NEW k \in Nat, NEW label, Item(k + 1) \in Items,
           Shell!Members[k + 1].label = label,
           \A n \in 1 .. k : Shell!Members[n].label # label
    PROVE  Filed(<<Item(k + 1)>>, label, k + 1)
<1>1. PICK q : q = <<Item(k + 1)>>
    OBVIOUS
<1>2. q \in Seq(Items) /\ DOMAIN q = {1} /\ q[1] = Item(k + 1)
    BY <1>1
<1>3. \A n \in 1 .. k + 1 : n \in 1 .. k \/ n = k + 1
    OBVIOUS
<1>4. k + 1 \in 1 .. k + 1
    OBVIOUS
<1>5. Filed(q, label, k + 1)
    BY <1>2, <1>3, <1>4 DEF Filed
<1>6. QED
    BY <1>1, <1>5

LEMMA FiledMore ==
    ASSUME NEW k \in Nat, NEW label, NEW q, Filed(q, label, k), Item(k + 1) \in Items,
           Shell!Members[k + 1].label = label
    PROVE  Filed(q \o <<Item(k + 1)>>, label, k + 1)
<1>1. PICK e \in Items : e = Item(k + 1)
    OBVIOUS
<1>2. PICK s : s = q \o <<e>>
    OBVIOUS
<1>3. q \in Seq(Items) /\ DOMAIN q = 1 .. Len(q) /\ Len(q) \in Nat
    BY DEF Filed
<1>4. /\ s \in Seq(Items) /\ DOMAIN s = 1 .. Len(q) + 1
      /\ \A a \in DOMAIN q : s[a] = q[a]
      /\ s[Len(q) + 1] = e
    BY <1>2, <1>3
<1>5. /\ \A n \in 1 .. k + 1 : n \in 1 .. k \/ n = k + 1
      /\ \A n \in 1 .. k : n \in 1 .. k + 1 /\ n < k + 1
      /\ k + 1 \in 1 .. k + 1
    OBVIOUS
<1>6. /\ \A a \in DOMAIN s : a \in DOMAIN q \/ a = Len(q) + 1
      /\ \A a \in DOMAIN q : a \in DOMAIN s
      /\ Len(q) + 1 \in DOMAIN s
    BY <1>3, <1>4
<1>7. ASSUME NEW n \in 1 .. k + 1, Shell!Members[n].label = label
      PROVE  \E a \in DOMAIN s : s[a] = Item(n)
    BY <1>1, <1>4, <1>5, <1>6, <1>7 DEF Filed
<1>8. ASSUME NEW a \in DOMAIN s
      PROVE  \E n \in 1 .. k + 1 : Shell!Members[n].label = label /\ s[a] = Item(n)
    BY <1>1, <1>4, <1>5, <1>6, <1>8 DEF Filed
<1>9. ASSUME NEW a \in DOMAIN s, NEW b \in DOMAIN s, a < b
      PROVE  \E m, n \in 1 .. k + 1 : m < n /\ s[a] = Item(m) /\ s[b] = Item(n)
    <2>1. CASE b \in DOMAIN q
        <3>1. a \in DOMAIN q
            BY <1>3, <1>6, <1>9, <2>1
        <3>2. QED
            BY <1>4, <1>5, <1>9, <2>1, <3>1 DEF Filed
    <2>2. CASE b = Len(q) + 1
        <3>1. a \in DOMAIN q
            BY <1>3, <1>6, <1>9, <2>2
        <3>2. PICK m \in 1 .. k : q[a] = Item(m)
            BY <3>1 DEF Filed
        <3>3. QED
            BY <1>1, <1>4, <1>5, <2>2, <3>1, <3>2
    <2>3. QED
        BY <1>6, <2>1, <2>2
<1>10. Filed(s, label, k + 1)
    BY <1>4, <1>7, <1>8, <1>9 DEF Filed
<1>11. QED
    BY <1>1, <1>2, <1>10

LEMMA FiledElsewhere ==
    ASSUME NEW k \in Nat, NEW label, NEW q, Filed(q, label, k),
           Shell!Members[k + 1].label # label
    PROVE  Filed(q, label, k + 1)
<1>1. /\ \A n \in 1 .. k + 1 : n \in 1 .. k \/ n = k + 1
      /\ \A n \in 1 .. k : n \in 1 .. k + 1
    OBVIOUS
<1>2. \A n \in 1 .. k + 1 : Shell!Members[n].label = label => \E a \in DOMAIN q : q[a] = Item(n)
    BY <1>1 DEF Filed
<1>3. \A a \in DOMAIN q : \E n \in 1 .. k + 1 : Shell!Members[n].label = label /\ q[a] = Item(n)
    BY <1>1 DEF Filed
<1>4. ASSUME NEW a \in DOMAIN q, NEW b \in DOMAIN q, a < b
      PROVE  \E m, n \in 1 .. k + 1 : m < n /\ q[a] = Item(m) /\ q[b] = Item(n)
    <2>1. PICK m \in 1 .. k, n \in 1 .. k : m < n /\ q[a] = Item(m) /\ q[b] = Item(n)
        BY <1>4 DEF Filed
    <2>2. QED
        BY <1>1, <2>1
<1>5. QED
    BY <1>2, <1>3, <1>4 DEF Filed

\* A member's section is a group of its own, or its items join a group.
LEMMA MemberIsAGroup ==
    ASSUME InOrder, NEW n \in DOMAIN sidebar
    PROVE  Shell!Members[n] \in Groups
<1>1. PICK x \in Sections : x = Shell!Members[n]
    BY DEF InOrder
<1>2. x.items \in Seq(Items)
    <2>1. PICK e \in Items : e = Item(n) /\ Shell!Members[n].items = <<e>>
        BY DEF InOrder
    <2>2. QED
        BY <1>1, <2>1
<1>3. x \in Groups
    BY <1>2 DEF Sections, Groups
<1>4. QED
    BY <1>1, <1>3

\* No section goes into a group of another label, so that a label without a group
\* gets one at the end of the rail.
LEMMA NewGroup ==
    ASSUME InOrder, NEW k \in Nat, k + 1 \in DOMAIN sidebar, NEW r, Grouped(r, k),
           \A g \in DOMAIN r : r[g].label # Shell!Members[k + 1].label
    PROVE  Grouped(Append(r, Shell!Members[k + 1]), k + 1)
<1>1. PICK x \in Groups : x = Shell!Members[k + 1]
    BY MemberIsAGroup
<1>2. PICK s : s = Append(r, x)
    OBVIOUS
<1>3. r \in Seq(Groups) /\ DOMAIN r = 1 .. Len(r) /\ Len(r) \in Nat
    BY DEF Grouped
<1>4. /\ s \in Seq(Groups) /\ DOMAIN s = 1 .. Len(r) + 1
      /\ \A g \in DOMAIN r : s[g] = r[g]
      /\ s[Len(r) + 1] = x
    BY <1>1, <1>2, <1>3
<1>5. /\ \A n \in 1 .. k + 1 : n \in 1 .. k \/ n = k + 1
      /\ \A n \in 1 .. k : n \in 1 .. k + 1
      /\ k + 1 \in 1 .. k + 1
    OBVIOUS
<1>6. /\ \A g \in DOMAIN s : g \in DOMAIN r \/ g = Len(r) + 1
      /\ \A g \in DOMAIN r : g \in DOMAIN s
      /\ Len(r) + 1 \in DOMAIN s
    BY <1>3, <1>4
<1>7. ASSUME NEW n \in 1 .. k + 1
      PROVE  \E g \in DOMAIN s : s[g].label = Shell!Members[n].label
    <2>1. CASE n \in 1 .. k
        <3>1. PICK g \in DOMAIN r : r[g].label = Shell!Members[n].label
            BY <2>1 DEF Grouped
        <3>2. s[g] = r[g] /\ g \in DOMAIN s
            BY <1>4, <1>6
        <3>3. QED
            BY Zenon, <3>1, <3>2
    <2>2. CASE n = k + 1
        BY Zenon, <1>1, <1>4, <1>6, <2>2
    <2>3. QED
        BY <1>5, <2>1, <2>2
<1>8. ASSUME NEW g \in DOMAIN s
      PROVE  \E n \in 1 .. k + 1 : Shell!Members[n].label = s[g].label
    <2>1. CASE g \in DOMAIN r
        <3>1. PICK n \in 1 .. k : Shell!Members[n].label = r[g].label
            BY <2>1 DEF Grouped
        <3>2. s[g] = r[g] /\ n \in 1 .. k + 1
            BY <1>4, <1>5, <2>1
        <3>3. QED
            BY Zenon, <3>1, <3>2
    <2>2. CASE g = Len(r) + 1
        BY Zenon, <1>1, <1>4, <1>5, <2>2
    <2>3. QED
        BY <1>6, <2>1, <2>2
<1>9. \A n \in 1 .. k : Shell!Members[n].label # x.label
    BY <1>1 DEF Grouped
<1>10. ASSUME NEW g \in DOMAIN s, NEW h \in DOMAIN s, g < h
       PROVE  /\ s[g].label # s[h].label
              /\ \E n \in 1 .. k + 1 :
                    /\ Shell!Members[n].label = s[g].label
                    /\ \A i \in 1 .. n : Shell!Members[i].label # s[h].label
    <2>1. g \in DOMAIN r
        BY <1>3, <1>4, <1>6, <1>10
    <2>2. CASE h \in DOMAIN r
        <3>1. s[g] = r[g] /\ s[h] = r[h]
            BY <1>4, <2>1, <2>2
        <3>2. /\ r[g].label # r[h].label
              /\ \E n \in 1 .. k : /\ Shell!Members[n].label = r[g].label
                                   /\ \A i \in 1 .. n : Shell!Members[i].label # r[h].label
            BY <1>10, <2>1, <2>2 DEF Grouped
        <3>3. QED
            BY <1>5, <3>1, <3>2
    <2>3. CASE h = Len(r) + 1
        <3>1. PICK n \in 1 .. k : Shell!Members[n].label = r[g].label
            BY <2>1 DEF Grouped
        <3>2. \A i \in 1 .. n : i \in 1 .. k
            OBVIOUS
        <3>3. \A i \in 1 .. n : Shell!Members[i].label # s[h].label
            BY <1>4, <1>9, <2>3, <3>2
        <3>4. s[g].label # s[h].label
            BY <1>1, <1>4, <2>1, <2>3
        <3>5. QED
            BY <1>4, <1>5, <2>1, <3>1, <3>3, <3>4
    <2>4. QED
        BY <1>6, <2>2, <2>3
<1>11. ASSUME NEW g \in DOMAIN s
       PROVE  Filed(s[g].items, s[g].label, k + 1)
    <2>1. CASE g \in DOMAIN r
        <3>1. Filed(r[g].items, r[g].label, k) /\ Shell!Members[k + 1].label # r[g].label
            BY <2>1 DEF Grouped
        <3>2. QED
            BY <1>4, <2>1, <3>1, FiledElsewhere
    <2>2. CASE g = Len(r) + 1
        <3>1. x.items = <<Item(k + 1)>> /\ Item(k + 1) \in Items
            BY <1>1 DEF InOrder
        <3>2. Filed(<<Item(k + 1)>>, x.label, k + 1)
            BY <1>1, <1>9, <3>1, FiledFirst
        <3>3. QED
            BY <1>4, <2>2, <3>1, <3>2
    <2>3. QED
        BY <1>6, <2>1, <2>2
<1>12. Grouped(s, k + 1)
    BY <1>4, <1>7, <1>8, <1>10, <1>11 DEF Grouped
<1>13. QED
    BY <1>1, <1>2, <1>12

\* The items of a section join those of the group of its label, where there is one.
GroupWith(x, more) == [x EXCEPT !.items = @ \o more]

LEMMA GroupIsLonger ==
    ASSUME NEW x \in Groups, NEW e \in Items
    PROVE  LET y == GroupWith(x, <<e>>)
           IN  y \in Groups /\ y.label = x.label /\ y.items = x.items \o <<e>>
<1>1. PICK p \in Seq(Items) : p = x.items
    BY DEF Groups
<1>2. PICK q \in Seq(Items) : q = p \o <<e>>
    <2>1. <<e>> \in Seq(Items)
        OBVIOUS
    <2>2. p \o <<e>> \in Seq(Items)
        BY <2>1
    <2>3. QED
        BY <2>2
<1>3. PICK y : y = [x EXCEPT !.items = q]
    OBVIOUS
<1>4. y \in Groups /\ y.label = x.label /\ y.items = q
    BY <1>3 DEF Groups
<1>5. GroupWith(x, <<e>>) = y
    BY <1>1, <1>2, <1>3 DEF GroupWith
<1>6. QED
    BY <1>1, <1>2, <1>4, <1>5

LEMMA OldGroup ==
    ASSUME InOrder, NEW k \in Nat, k + 1 \in DOMAIN sidebar, NEW r, Grouped(r, k),
           NEW member, member = Shell!Members[k + 1],
           NEW at \in DOMAIN r, r[at].label = member.label,
           NEW s, s \in [DOMAIN r -> {r[g] : g \in DOMAIN r} \union {s[at]}],
           \A g \in DOMAIN r : r[g].label # member.label => s[g] = r[g],
           s[at] = GroupWith(r[at], member.items)
    PROVE  Grouped(s, k + 1)
<1>1. r \in Seq(Groups) /\ DOMAIN r = 1 .. Len(r) /\ Len(r) \in Nat
    BY DEF Grouped
<1>2. PICK e \in Items : e = Item(k + 1) /\ member.items = <<e>>
    BY DEF InOrder
<1>3. PICK x \in Groups : x = r[at]
    BY <1>1
<1>4. PICK y \in Groups : y = s[at] /\ y.label = x.label /\ y.items = x.items \o <<e>>
    <2>1. s[at] = GroupWith(x, <<e>>)
        BY Zenon, <1>2, <1>3
    <2>2. QED
        BY Zenon, <2>1, GroupIsLonger
<1>5. \A g \in DOMAIN r : g # at => r[g].label # r[at].label
    <2>1. \A g, h \in DOMAIN r : g < h => r[g].label # r[h].label
        BY DEF Grouped
    <2>2. \A g \in DOMAIN r : g # at => g < at \/ at < g
        BY <1>1
    <2>3. QED
        BY <2>1, <2>2
<1>6. /\ DOMAIN s = DOMAIN r
      /\ \A g \in DOMAIN r : (g # at => s[g] = r[g]) /\ s[g].label = r[g].label
    <2>1. \A g \in DOMAIN r : g # at => s[g] = r[g]
        BY <1>5
    <2>2. s[at].label = r[at].label
        BY <1>3, <1>4
    <2>3. QED
        BY <2>1, <2>2
<1>7. s \in Seq(Groups)
    <2>1. \A g \in DOMAIN r : r[g] \in Groups
        BY <1>1
    <2>2. s \in [1 .. Len(r) -> Groups]
        BY <1>1, <1>4, <2>1
    <2>3. QED
        BY <1>1, <2>2
<1>8. /\ \A n \in 1 .. k + 1 : n \in 1 .. k \/ n = k + 1
      /\ \A n \in 1 .. k : n \in 1 .. k + 1
    OBVIOUS
<1>9. ASSUME NEW n \in 1 .. k + 1
      PROVE  \E g \in DOMAIN s : s[g].label = Shell!Members[n].label
    <2>1. PICK g \in DOMAIN r : r[g].label = Shell!Members[n].label
        <3>1. CASE n \in 1 .. k
            BY <3>1 DEF Grouped
        <3>2. CASE n = k + 1
            BY <3>2
        <3>3. QED
            BY <1>8, <3>1, <3>2
    <2>2. QED
        BY <1>6, <2>1
<1>10. ASSUME NEW g \in DOMAIN s
       PROVE  \E n \in 1 .. k + 1 : Shell!Members[n].label = s[g].label
    <2>1. PICK n \in 1 .. k : Shell!Members[n].label = r[g].label
        BY <1>6 DEF Grouped
    <2>2. QED
        BY <1>6, <1>8, <2>1
<1>11. ASSUME NEW g \in DOMAIN s, NEW h \in DOMAIN s, g < h
       PROVE  /\ s[g].label # s[h].label
              /\ \E n \in 1 .. k + 1 :
                    /\ Shell!Members[n].label = s[g].label
                    /\ \A i \in 1 .. n : Shell!Members[i].label # s[h].label
    <2>1. /\ r[g].label # r[h].label
          /\ \E n \in 1 .. k : /\ Shell!Members[n].label = r[g].label
                               /\ \A i \in 1 .. n : Shell!Members[i].label # r[h].label
        <3>1. g \in DOMAIN r /\ h \in DOMAIN r
            BY <1>6
        <3>2. QED
            BY Zenon, <1>11, <3>1 DEF Grouped
    <2>2. QED
        BY <1>6, <1>8, <1>11, <2>1
<1>12. ASSUME NEW g \in DOMAIN s
       PROVE  Filed(s[g].items, s[g].label, k + 1)
    <2>1. Filed(r[g].items, r[g].label, k)
        BY <1>6 DEF Grouped
    <2>2. CASE g = at
        <3>1. Filed(x.items, x.label, k)
            BY <1>3, <2>1, <2>2
        <3>2. Filed(x.items \o <<Item(k + 1)>>, x.label, k + 1)
            BY <1>2, <1>3, <3>1, FiledMore
        <3>3. QED
            BY <1>2, <1>4, <2>2, <3>2
    <2>3. CASE g # at
        <3>1. s[g] = r[g] /\ r[g].label # Shell!Members[k + 1].label
            BY <1>5, <1>6, <2>3
        <3>2. QED
            BY <2>1, <3>1, FiledElsewhere
    <2>4. QED
        BY <2>2, <2>3
<1>13. QED
    BY <1>7, <1>9, <1>10, <1>11, <1>12 DEF Grouped

LEMMA GroupedMore ==
    ASSUME InOrder, NEW k \in Nat, k + 1 \in DOMAIN sidebar, NEW r, Grouped(r, k)
    PROVE  Grouped(Shell!Merged(r, Shell!Members[k + 1]), k + 1)
<1>1. PICK x : x = Shell!Members[k + 1]
    OBVIOUS
<1>2. CASE \E g \in DOMAIN r : r[g].label = x.label
    <2>1. PICK at \in DOMAIN r : r[at].label = x.label
        BY <1>2
    <2>2. PICK s : s = [g \in DOMAIN r |-> IF r[g].label = x.label
                            THEN GroupWith(r[g], x.items) ELSE r[g]]
        OBVIOUS
    <2>3. Shell!Merged(r, x) = s
        BY Zenon, <1>2, <2>2 DEF Shell!Merged, Shell!Joined, GroupWith
    <2>4. \A g \in DOMAIN r :
              r[g].label = x.label => s[g] = GroupWith(r[g], x.items) /\ g = at
        <3>1. r \in Seq(Groups) /\ \A g, h \in DOMAIN r : g < h => r[g].label # r[h].label
            BY DEF Grouped
        <3>2. \A g \in DOMAIN r : g # at => g < at \/ at < g
            BY <3>1
        <3>3. QED
            BY <2>1, <2>2, <3>1, <3>2
    <2>5. \A g \in DOMAIN r : r[g].label # x.label => s[g] = r[g]
        BY <2>2
    <2>6. s \in [DOMAIN r -> {r[g] : g \in DOMAIN r} \union {s[at]}]
        BY <2>2, <2>4, <2>5
    <2>7. Grouped(s, k + 1)
        BY <1>1, <2>1, <2>4, <2>5, <2>6, OldGroup
    <2>8. QED
        BY <1>1, <2>3, <2>7
<1>3. CASE \A g \in DOMAIN r : r[g].label # x.label
    <2>1. Shell!Merged(r, x) = Append(r, x)
        BY <1>3 DEF Shell!Merged, Shell!Joined
    <2>2. QED
        BY <1>1, <1>3, <2>1, NewGroup
<1>4. QED
    BY <1>2, <1>3

-----------------------------------------------------------------------------
(* The rail: the groups of all members.                                     *)

\* g merges the members up to k one after the other.
Chain(g, k) ==
    g = [n \in 0 .. k |-> IF n = 0 THEN <<>> ELSE Shell!Merged(g[n - 1], Shell!Members[n])]

LEMMA ChainGrows ==
    ASSUME NEW k \in Nat, NEW g, Chain(g, k)
    PROVE  \E f : Chain(f, k + 1)
<1>1. PICK f : f = [n \in 0 .. k + 1 |-> IF n = 0 THEN <<>>
                       ELSE Shell!Merged(g[n - 1], Shell!Members[n])]
    OBVIOUS
<1>2. \A n \in 0 .. k : n \in 0 .. k + 1
    OBVIOUS
<1>3. ASSUME NEW n \in 0 .. k
      PROVE  f[n] = g[n]
    <2>1. f[n] = IF n = 0 THEN <<>> ELSE Shell!Merged(g[n - 1], Shell!Members[n])
        BY <1>1, <1>2
    <2>2. g[n] = IF n = 0 THEN <<>> ELSE Shell!Merged(g[n - 1], Shell!Members[n])
        BY Zenon DEF Chain
    <2>3. QED
        BY <2>1, <2>2
<1>4. ASSUME NEW n \in 0 .. k + 1, n # 0
      PROVE  f[n - 1] = g[n - 1]
    <2>1. n - 1 \in 0 .. k
        BY <1>4
    <2>2. QED
        BY <1>3, <2>1
<1>5. f = [n \in 0 .. k + 1 |-> IF n = 0 THEN <<>>
              ELSE Shell!Merged(f[n - 1], Shell!Members[n])]
    <2>1. \A n \in 0 .. k + 1 :
              (IF n = 0 THEN <<>> ELSE Shell!Merged(g[n - 1], Shell!Members[n])) =
              (IF n = 0 THEN <<>> ELSE Shell!Merged(f[n - 1], Shell!Members[n]))
        BY Zenon, <1>4
    <2>2. QED
        BY Zenon, <1>1, <2>1
<1>6. QED
    BY Zenon, <1>5 DEF Chain

LEMMA ChainsAreThere ==
    ASSUME NEW k \in Nat
    PROVE  \E g : Chain(g, k)
<1> DEFINE S == {n \in Nat : \E g : Chain(g, n)}
<1>1. 0 \in S
    <2>1. PICK f : f = [n \in 0 .. 0 |-> <<>>]
        OBVIOUS
    <2>2. \A n \in 0 .. 0 : n = 0
        OBVIOUS
    <2>3. \A n \in 0 .. 0 :
              <<>> = IF n = 0 THEN <<>> ELSE Shell!Merged(f[n - 1], Shell!Members[n])
        BY Zenon, <2>2
    <2>4. Chain(f, 0)
        BY Zenon, <2>1, <2>3 DEF Chain
    <2>5. QED
        BY <2>4
<1>2. \A n \in 0 .. k - 1 : n \in S => n + 1 \in S
    BY ChainGrows
<1> HIDE DEF S
<1>3. \A n \in 0 .. k : n \in S
    BY <1>1, <1>2, InductionTo
<1>4. k \in S
    BY <1>3
<1>5. QED
    BY Zenon, <1>4 DEF S

LEMMA GroupsByMember ==
    ASSUME Len(sidebar) \in Nat
    PROVE  /\ Shell!Groups[0] = <<>>
           /\ \A k \in 0 .. Len(sidebar) - 1 :
                 Shell!Groups[k + 1] = Shell!Merged(Shell!Groups[k], Shell!Members[k + 1])
<1>1. Shell!Groups = CHOOSE g : Chain(g, Len(sidebar))
    BY Zenon DEF Shell!Groups, Chain
<1>2. \E g : Chain(g, Len(sidebar))
    BY ChainsAreThere
<1>3. Chain(CHOOSE g : Chain(g, Len(sidebar)), Len(sidebar))
    BY Zenon, <1>2
<1>4. Chain(Shell!Groups, Len(sidebar))
    BY Zenon, <1>1, <1>3
<1>5. ASSUME NEW n \in 0 .. Len(sidebar)
      PROVE  Shell!Groups[n] = IF n = 0 THEN <<>>
                               ELSE Shell!Merged(Shell!Groups[n - 1], Shell!Members[n])
    BY Zenon, <1>4 DEF Chain
<1>6. 0 \in 0 .. Len(sidebar)
    OBVIOUS
<1>7. ASSUME NEW k \in 0 .. Len(sidebar) - 1
      PROVE  Shell!Groups[k + 1] = Shell!Merged(Shell!Groups[k], Shell!Members[k + 1])
    <2>1. k + 1 \in 0 .. Len(sidebar) /\ k + 1 # 0 /\ (k + 1) - 1 = k
        OBVIOUS
    <2>2. Shell!Groups[k + 1] = Shell!Merged(Shell!Groups[(k + 1) - 1], Shell!Members[k + 1])
        BY Zenon, <1>5, <2>1
    <2>3. QED
        BY Zenon, <2>1, <2>2
<1>8. Shell!Groups[0] = <<>>
    BY Zenon, <1>5, <1>6
<1>9. QED
    BY <1>7, <1>8

LEMMA RailHasTheGroups ==
    ASSUME InOrder
    PROVE  Grouped(Shell!SidebarSections, Len(sidebar))
<1> DEFINE S == {n \in Nat : Grouped(Shell!Groups[n], n)}
<1>1. DOMAIN sidebar = 1 .. Len(sidebar) /\ Len(sidebar) \in Nat
    BY DEF InOrder
<1>2. 0 \in S
    <2>1. Grouped(<<>>, 0)
        BY DEF Grouped
    <2>2. QED
        BY <1>1, <2>1, GroupsByMember
<1>3. ASSUME NEW n \in 0 .. Len(sidebar) - 1, n \in S
      PROVE  n + 1 \in S
    <2>1. n + 1 \in DOMAIN sidebar /\ n \in Nat
        BY <1>1, <1>3
    <2>2. Grouped(Shell!Merged(Shell!Groups[n], Shell!Members[n + 1]), n + 1)
        BY <1>3, <2>1, GroupedMore
    <2>3. Shell!Groups[n + 1] = Shell!Merged(Shell!Groups[n], Shell!Members[n + 1])
        BY <1>1, <1>3, GroupsByMember
    <2>4. Grouped(Shell!Groups[n + 1], n + 1)
        BY Zenon, <2>2, <2>3
    <2>5. QED
        BY <2>1, <2>4
<1> HIDE DEF S
<1>4. \A n \in 0 .. Len(sidebar) : n \in S
    BY <1>1, <1>2, <1>3, InductionTo
<1>5. Len(sidebar) \in S
    BY <1>1, <1>4
<1>6. QED
    BY Zenon, <1>5 DEF S, Shell!SidebarSections

\* What the shell shows is grouped by label, the groups and the items of each in order.
LEMMA RailIsInOrder ==
    ASSUME IInv
    PROVE  Shell!RailIsGrouped
<1> DEFINE rail == Shell!SidebarSections
<1>1. InOrder
    BY MembersInOrder
<1>2. Grouped(rail, Len(sidebar))
    BY <1>1, RailHasTheGroups
<1> HIDE DEF rail
<1>3. ASSUME NEW n \in 1 .. Len(sidebar)
      PROVE  /\ n \in DOMAIN sidebar
             /\ Shell!Members[n].module \in Managed
             /\ Shell!Members[n].module \in Shell!Shown
             /\ Shell!Members[n].label = Shell!Declared(Shell!Members[n].module).label
             /\ Shell!Members[n].order = Shell!Declared(Shell!Members[n].module).order
             /\ Shell!Members[n].order \in Nat
    BY <1>1 DEF InOrder, Sections
<1>4. ASSUME NEW m \in Shell!Shown
      PROVE  m \in Managed /\ \E n \in 1 .. Len(sidebar) : m = Shell!Members[n].module
    BY <1>1, <1>3 DEF InOrder
<1>5. ASSUME NEW i \in 1 .. Len(sidebar), NEW j \in 1 .. Len(sidebar), i < j
      PROVE  Shell!Members[i].order < Shell!Members[j].order
    BY <1>1, <1>5 DEF InOrder
<1>6. {rail[g].label : g \in DOMAIN rail} = {Shell!Declared(m).label : m \in Shell!Shown}
    <2>1. ASSUME NEW g \in DOMAIN rail
          PROVE  \E m \in Shell!Shown : rail[g].label = Shell!Declared(m).label
        <3>1. PICK n \in 1 .. Len(sidebar) : Shell!Members[n].label = rail[g].label
            BY <1>2 DEF Grouped
        <3>2. QED
            BY <1>3, <3>1
    <2>2. ASSUME NEW m \in Shell!Shown
          PROVE  \E g \in DOMAIN rail : rail[g].label = Shell!Declared(m).label
        <3>1. PICK n \in 1 .. Len(sidebar) : m = Shell!Members[n].module
            BY <1>4
        <3>2. \E g \in DOMAIN rail : rail[g].label = Shell!Members[n].label
            BY <1>2 DEF Grouped
        <3>3. QED
            BY <1>3, <3>1, <3>2
    <2>3. QED
        BY <2>1, <2>2
<1>7. ASSUME NEW g \in DOMAIN rail, NEW h \in DOMAIN rail, g < h
      PROVE  /\ rail[g].label # rail[h].label
             /\ \E m \in Shell!Shown : Shell!Declared(m).label = rail[g].label /\
                    \A n \in Shell!Shown : Shell!Declared(n).label = rail[h].label =>
                        Shell!Declared(m).order <= Shell!Declared(n).order
    <2>1. /\ rail[g].label # rail[h].label
          /\ \E n \in 1 .. Len(sidebar) :
                /\ Shell!Members[n].label = rail[g].label
                /\ \A i \in 1 .. n : Shell!Members[i].label # rail[h].label
        BY Zenon, <1>2, <1>7 DEF Grouped
    <2>2. PICK i \in 1 .. Len(sidebar) :
              /\ Shell!Members[i].label = rail[g].label
              /\ \A k \in 1 .. i : Shell!Members[k].label # rail[h].label
        BY <2>1
    <2>3. PICK m \in Shell!Shown : m = Shell!Members[i].module
        BY <1>3
    <2>4. ASSUME NEW n \in Shell!Shown, Shell!Declared(n).label = rail[h].label
          PROVE  Shell!Declared(m).order <= Shell!Declared(n).order
        <3>1. PICK j \in 1 .. Len(sidebar) : n = Shell!Members[j].module
            BY <1>4
        <3>2. Shell!Members[j].label = rail[h].label
            BY <1>3, <2>4, <3>1
        <3>3. i < j
            BY <2>2, <3>2
        <3>4. Shell!Members[i].order < Shell!Members[j].order
            BY <1>5, <3>3
        <3>5. /\ Shell!Members[i].order = Shell!Declared(m).order
              /\ Shell!Members[j].order = Shell!Declared(n).order
              /\ Shell!Members[i].order \in Nat /\ Shell!Members[j].order \in Nat
            BY <1>3, <2>3, <3>1
        <3>6. QED
            BY <3>4, <3>5
    <2>5. Shell!Declared(m).label = rail[g].label
        BY <1>3, <2>2, <2>3
    <2>6. QED
        BY Zenon, <2>1, <2>4, <2>5
<1>8. ASSUME NEW g \in DOMAIN rail
      PROVE  LET items == rail[g].items
                 mine == {m \in Shell!Shown : Shell!Declared(m).label = rail[g].label}
             IN  /\ Shell!ToSet(items) = {Shell!Declared(m).item : m \in mine}
                 /\ \A m, n \in mine : \A i, j \in DOMAIN items :
                        items[i] = Shell!Declared(m).item /\ items[j] = Shell!Declared(n).item
                        /\ i < j => Shell!Declared(m).order < Shell!Declared(n).order
    <2>1. PICK q, label : q = rail[g].items /\ label = rail[g].label
        OBVIOUS
    <2>2. Filed(q, label, Len(sidebar))
        BY <1>2, <2>1 DEF Grouped
    <2>3. PICK mine : mine = {m \in Shell!Shown : Shell!Declared(m).label = label}
        OBVIOUS
    <2>4. ASSUME NEW a \in DOMAIN q
          PROVE  \E m \in mine : q[a] = Shell!Declared(m).item
        <3>1. PICK n \in 1 .. Len(sidebar) : Shell!Members[n].label = label /\ q[a] = Item(n)
            BY <2>2 DEF Filed
        <3>2. PICK m \in Shell!Shown : m = Shell!Members[n].module
            BY <1>3
        <3>3. m \in mine
            BY <1>3, <2>3, <3>1, <3>2
        <3>4. QED
            BY <3>1, <3>2, <3>3 DEF Item
    <2>5. ASSUME NEW m \in mine
          PROVE  \E a \in DOMAIN q : q[a] = Shell!Declared(m).item
        <3>1. PICK n \in 1 .. Len(sidebar) : m = Shell!Members[n].module
            BY <1>4, <2>3
        <3>2. Shell!Members[n].label = label
            BY <1>3, <2>3, <3>1
        <3>3. \E a \in DOMAIN q : q[a] = Item(n)
            BY <2>2, <3>2 DEF Filed
        <3>4. QED
            BY <3>1, <3>3 DEF Item
    <2>6. Shell!ToSet(q) = {Shell!Declared(m).item : m \in mine}
        BY <2>4, <2>5 DEF Shell!ToSet
    <2>7. ASSUME NEW m \in mine, NEW n \in mine, NEW a \in DOMAIN q, NEW b \in DOMAIN q,
                 q[a] = Shell!Declared(m).item, q[b] = Shell!Declared(n).item, a < b
          PROVE  Shell!Declared(m).order < Shell!Declared(n).order
        <3>1. PICK i \in 1 .. Len(sidebar), j \in 1 .. Len(sidebar) :
                  i < j /\ q[a] = Item(i) /\ q[b] = Item(j)
            BY <2>2, <2>7 DEF Filed
        <3>2. PICK k \in Managed, l \in Managed :
                  k = Shell!Members[i].module /\ l = Shell!Members[j].module
            BY <1>3
        <3>3. m \in Managed /\ n \in Managed
            BY <1>4, <2>3
        <3>4. /\ Shell!Declared(k).item = Shell!Declared(m).item
              /\ Shell!Declared(l).item = Shell!Declared(n).item
            BY <2>7, <3>1, <3>2 DEF Item
        <3>5. k = m /\ l = n
            BY <3>3, <3>4, ItemsDiffer
        <3>6. /\ Shell!Members[i].order = Shell!Declared(m).order
              /\ Shell!Members[j].order = Shell!Declared(n).order
            BY <1>3, <3>2, <3>5
        <3>7. QED
            BY <1>5, <3>1, <3>6
    <2>8. QED
        BY Zenon, <2>1, <2>3, <2>6, <2>7
<1>9. QED
    <2>1. \A g, h \in DOMAIN rail : g < h =>
              /\ rail[g].label # rail[h].label
              /\ \E m \in Shell!Shown : Shell!Declared(m).label = rail[g].label /\
                     \A n \in Shell!Shown : Shell!Declared(n).label = rail[h].label =>
                         Shell!Declared(m).order <= Shell!Declared(n).order
        BY Zenon, <1>7
    <2>2. \A g \in DOMAIN rail :
              LET items == rail[g].items
                  mine == {m \in Shell!Shown : Shell!Declared(m).label = rail[g].label}
              IN  /\ Shell!ToSet(items) = {Shell!Declared(m).item : m \in mine}
                  /\ \A m, n \in mine : \A i, j \in DOMAIN items :
                         items[i] = Shell!Declared(m).item /\ items[j] = Shell!Declared(n).item
                         /\ i < j => Shell!Declared(m).order < Shell!Declared(n).order
        BY Zenon, <1>8
    <2>3. QED
        BY Zenon, <1>6, <2>1, <2>2 DEF Shell!RailIsGrouped, rail

LEMMA WholeSubSeq ==
    ASSUME NEW T, NEW t \in Seq(T), Len(t) = 3
    PROVE  SubSeq(t, 1, 3) = t
OBVIOUS

LEMMA TriplesWhole ==
    ASSUME NEW b, NEW m, NEW e
    PROVE  Len(<<b, m, e>>) = 3 /\ SubSeq(<<b, m, e>>, 1, 3) = <<b, m, e>>
<1>1. PICK t : t = <<b, m, e>>
    OBVIOUS
<1>2. t \in Seq({b, m, e}) /\ Len(t) = 3
    BY <1>1
<1>3. SubSeq(t, 1, 3) = t
    BY <1>2, WholeSubSeq
<1>4. QED
    BY <1>1, <1>2, <1>3

\* Under "/admin" a link leads to what its module has registered.
LEMMA LinksLeadSomewhere ==
    ASSUME IInv, Base = "/admin"
    PROVE  Shell!LinksResolve
<1>1. InOrder
    BY MembersInOrder
<1>2. PICK rail : rail = Shell!SidebarSections
    OBVIOUS
<1>3. Grouped(rail, Len(sidebar))
    BY <1>1, <1>2, RailHasTheGroups
<1>4. ASSUME NEW m \in Managed, Shell!Surfaced(m)
      PROVE  Shell!Route(Shell!Declared(m).item) # "not found"
    <2>1. GoodDeclaration(m, Shell!Declared(m))
        BY ModulesAreDeclared
    <2>2. PICK path : path = Shell!Declared(m).item
        OBVIOUS
    <2>3. CASE m = "branding_management"
        <3>1. Shell!Declared(m).page = BrandingPage /\ path = BrandingPage
            BY <2>1, <2>2, <2>3 DEF GoodDeclaration
        <3>2. BrandingPage # <<>>
            BY DEF BrandingPage
        <3>3. \E x \in Shell!ToSet(pages) : x.path = path
            BY <1>4, <3>1, <3>2 DEF Shell!Surfaced, Shell!HasPage
        <3>4. Shell!Route(path) = "page"
            BY <3>3 DEF Shell!Route
        <3>5. QED
            BY <2>2, <3>4
    <2>4. CASE m # "branding_management"
        <3>1. PICK e : e = Shell!Declared(m).resource.entity
            OBVIOUS
        <3>2. Shell!Declared(m).page = <<>> /\ path = <<Base, m, e>>
            BY <2>1, <2>2, <2>4, <3>1 DEF GoodDeclaration
        <3>3. PICK x \in Shell!ToSet(resources) : x.module = m /\ x.entity = e
            BY <1>4, <3>1, <3>2 DEF Shell!Surfaced, Shell!HasResource
        <3>4. Len(path) = 3 /\ SubSeq(path, 1, 3) = <<Base, x.module, x.entity>>
            <4>1. PICK b : b = Base
                OBVIOUS
            <4>2. Len(<<b, m, e>>) = 3 /\ SubSeq(<<b, m, e>>, 1, 3) = <<b, m, e>>
                BY TriplesWhole
            <4>3. QED
                BY Zenon, <3>2, <3>3, <4>1, <4>2
        <3>5. PICK found : found = {y \in Shell!ToSet(resources) :
                  Len(path) > 2 /\ SubSeq(path, 1, 3) = <<Base, y.module, y.entity>>}
            OBVIOUS
        <3>6. x \in found
            BY <3>4, <3>5
        <3>7. Shell!Route(path) \in {"page", "home", "list"}
            BY Zenon, <3>4, <3>5, <3>6 DEF Shell!Route
        <3>8. "not found" \notin {"page", "home", "list"}
            OBVIOUS
        <3>9. QED
            BY Zenon, <2>2, <3>7, <3>8
    <2>5. QED
        BY <2>3, <2>4
<1>5. ASSUME NEW g \in DOMAIN rail, NEW path \in Shell!ToSet(rail[g].items)
      PROVE  Shell!Route(path) # "not found"
    <2>1. PICK q : q = rail[g].items
        OBVIOUS
    <2>2. Filed(q, rail[g].label, Len(sidebar))
        BY <1>3, <2>1 DEF Grouped
    <2>3. PICK a \in DOMAIN q : q[a] = path
        BY <2>1, <1>5 DEF Shell!ToSet
    <2>4. PICK n \in 1 .. Len(sidebar) : q[a] = Item(n)
        BY <2>2 DEF Filed
    <2>5. PICK m \in Managed : m = Shell!Members[n].module /\ Shell!Surfaced(m)
        <3>1. PICK x : x = Shell!Members[n]
            OBVIOUS
        <3>2. x.module \in Managed /\ Shell!Surfaced(x.module)
            BY <1>1, <3>1 DEF InOrder
        <3>3. QED
            BY Zenon, <3>1, <3>2
    <2>6. path = Shell!Declared(m).item
        BY <2>3, <2>4, <2>5 DEF Item
    <2>7. QED
        BY Zenon, <1>4, <2>5, <2>6
<1>6. QED
    BY Zenon, <1>2, <1>5 DEF Shell!LinksResolve

\* What NewModule has returned is there, and shown once.
LEMMA ModulesAreThere ==
    ASSUME IInv
    PROVE  Shell!WhatIsUpIsThere
<1>1. ASSUME NEW m \in up \intersect Managed
      PROVE  m \in Shell!Shown \intersect Shell!ModulesSummary
    <2>1. Shell!Surfaced(m) /\ m \in Shell!Shown
        BY <1>1 DEF IInv, Shell!UpInv
    <2>2. m \in Shell!ModulesSummary
        BY <2>1 DEF Shell!Surfaced, Shell!HasPage, Shell!HasResource, Shell!ModulesSummary
    <2>3. QED
        BY <2>1, <2>2
<1>2. ASSUME NEW i \in DOMAIN sidebar, NEW j \in DOMAIN sidebar, i # j
      PROVE  sidebar[i].items # sidebar[j].items
    <2>1. sidebar \in Seq(Sections)
        BY ShellTypes DEF IInv, TypeOK
    <2>2. PICK m \in Managed, n \in Managed :
              m = sidebar[i].module /\ n = sidebar[j].module /\ m # n
        <3>1. sidebar[i] \in Sections /\ sidebar[j] \in Sections
            BY <2>1
        <3>2. sidebar[i].module \in Managed /\ sidebar[j].module \in Managed
            BY <3>1, ConsoleOK DEF Sections
        <3>3. sidebar[i].module # sidebar[j].module
            BY <1>2 DEF IInv, Shell!SectionInv
        <3>4. QED
            BY <3>2, <3>3
    <2>3. sidebar[i] \in Shell!ToSet(sidebar) /\ sidebar[j] \in Shell!ToSet(sidebar)
        BY DEF Shell!ToSet
    <2>4. /\ sidebar[i].items = <<Shell!Declared(m).item>>
          /\ sidebar[j].items = <<Shell!Declared(n).item>>
        BY <2>2, <2>3 DEF IInv, Shell!SectionInv
    <2>5. QED
        BY <2>2, <2>4, ItemsDiffer
<1>3. up \ {"health_management"} = checks
    BY DEF IInv, Shell!UpInv
<1>4. QED
    BY <1>1, <1>2, <1>3 DEF Shell!WhatIsUpIsThere

-----------------------------------------------------------------------------
(* Theorems                                                                 *)

\* The inductive invariant of the console: what a module has registered at each stage
\* of its construction, that rows have stamps, and which seconds browsers know.
THEOREM Invariant == Spec => []IInv
BY InitCorrect, StepCorrect, PTL DEF Spec

\* Registries, profiles, calls and browsers are of their types.
THEOREM TypeCorrect == Spec => []TypeOK
<1>1. IInv => TypeOK
    BY DEF IInv
<1>2. QED
    BY <1>1, Invariant, PTL

\* What a browser has for the address of today's logo is no older than the second of
\* the last save, although pages and logos are got by different requests and others
\* write in between, unless the last save has come behind one of a later second.
THEOREM LogosAreCurrent == Spec => []LogoIsCurrent
<1>1. IInv => LogoIsCurrent
    BY DEF IInv, CacheInv, LogoIsCurrent, InTime, Brand!LogoURL
<1>2. QED
    BY <1>1, Invariant, PTL

\* A call that leaves the place where it writes has written its record, or nothing.
LEMMA WritesItsRecord ==
    ASSUME BrandInv, [Brand!Next]_<<now, row, call>>, NEW c \in Calls,
           Brand!At(c, "write"), ~Brand!At(c, "write")', row' # row
    PROVE  row' = Brand!Write(c)
<1>1. call \in [Calls -> CallType]
    BY BrandTypes DEF BrandInv
<1>2. call'[c] # call[c]
    BY DEF Brand!At
<1>3. PICK b \in Calls : Brand!Step(b)
    BY <1>2 DEF Brand!Next, Brand!Tick
<1>4. b = c
    BY <1>1, <1>2, <1>3
    DEF Brand!Step, Brand!Save, Brand!Refuse, Brand!Skip, Brand!LoadOrNew, Brand!LoadFails,
        Brand!Stamp, Brand!Upsert, Brand!UpsertFails, Brand!Answer
<1>5. Brand!Upsert(c) \/ Brand!UpsertFails(c)
    BY <1>3, <1>4
    DEF Brand!Step, Brand!Save, Brand!Refuse, Brand!Skip, Brand!LoadOrNew, Brand!LoadFails,
        Brand!Stamp
<1>6. QED
    BY <1>5 DEF Brand!Upsert, Brand!UpsertFails

\* Stamp and logo of a row outlive every save that was given no logo, unless another
\* call has written the row since this one read it.
THEOREM NotGivenStays == Spec => NotGivenIsKept
<1>1. ASSUME IInv, [Next]_vars
      PROVE  [\A c \in Calls : \A t \in Tenants :
                (Brand!At(c, "write") /\ ~Brand!At(c, "write")' /\ call[c].tenant = t
                    /\ row[t] # NoRow /\ row'[t] # row[t]) =>
                        \/ Brand!Overtaken(c)
                        \/ /\ row'[t].stamp = row[t].stamp
                           /\ call[c].logo = NoLogo => row'[t].logo = row[t].logo]_<<row, call>>
    <2> SUFFICES ASSUME NEW c \in Calls, NEW t \in Tenants,
                        Brand!At(c, "write"), ~Brand!At(c, "write")', call[c].tenant = t,
                        row[t] # NoRow, row'[t] # row[t], ~Brand!Overtaken(c)
                 PROVE  /\ row'[t].stamp = row[t].stamp
                        /\ call[c].logo = NoLogo => row'[t].logo = row[t].logo
        OBVIOUS
    <2>1. BrandInv
        BY <1>1, ByPart
    <2>2. [Brand!Next]_<<now, row, call>>
        BY <1>1 DEF Next, vars, Build, Serve, Branded, Visit, Respond, FetchLogo, Forget, Elsewhere
    <2>3. row' = Brand!Upserted(t, Brand!Written(c), call[c].at)
        BY <2>1, <2>2, WritesItsRecord DEF Brand!Write
    <2>4. call[c].kind # "skip" /\ call[c].rec = Brand!Stored(t)
        BY DEF Brand!Overtaken
    <2>5. PICK old \in Brand!Records : old = Brand!Stored(t) /\ old # NoRow
                                       /\ old.stamp = row[t].stamp /\ old.stamp # Never
                                       /\ old.logo = row[t].logo
        <3>1. row[t] \in Brand!Rows /\ row[t].stamp # Never
            BY <2>1, BrandTypes DEF BrandInv, Brand!RowInv
        <3>2. Brand!Stored(t) = [logo |-> row[t].logo, stamp |-> row[t].stamp]
            BY DEF Brand!Stored
        <3>3. Brand!Stored(t) \in Brand!Records
            BY <3>1, <3>2 DEF Brand!Rows, Brand!Records
        <3>4. QED
            BY <3>1, <3>2, <3>3, ConsoleOK
    <2>6. call[c].logo \in Logos \union {NoLogo} /\ call[c].at \in 0 .. MaxTime
        BY <2>1, BrandTypes DEF BrandInv, CallType
    <2>7. PICK m \in Brand!Records : /\ m = Brand!Merge(old, call[c].logo)
                                     /\ m.stamp = old.stamp
                                     /\ call[c].logo = NoLogo => m = old
        BY <2>6, MergedRecord
    <2>8. Brand!Written(c) = Brand!Stamped(m, call[c].at)
        BY <2>4, <2>5, <2>7 DEF Brand!Written
    <2>9. Brand!Written(c) = m
        BY <2>5, <2>6, <2>7, <2>8, StampedRecord
    <2>10. row'[t].stamp = m.stamp /\ row'[t].logo = m.logo
        BY <2>1, <2>3, <2>6, <2>9, UpsertedRow
    <2>11. QED
        BY <2>5, <2>7, <2>10
<1>2. QED
    BY <1>1, Invariant, PTL DEF Spec, NotGivenIsKept, Brand!NotGivenIsKept

\* The branding page is there once the application listens.
LEMMA BrandingPageIsServed ==
    ASSUME IInv, serving
    PROVE  Shell!Route(BrandingPage) = "page"
<1> DEFINE m == "branding_management"
<1>1. m \in up \intersect Managed
    BY ConsoleOK DEF IInv, ServingInv
<1>2. Shell!Surfaced(m)
    BY <1>1 DEF IInv, Shell!UpInv
<1>3. Shell!Declared(m).page = BrandingPage
    BY <1>1, ModulesAreDeclared DEF GoodDeclaration
<1>4. BrandingPage # <<>>
    BY DEF BrandingPage
<1>5. \E x \in Shell!ToSet(pages) : x.path = BrandingPage
    BY <1>2, <1>3, <1>4 DEF Shell!Surfaced, Shell!HasPage
<1>6. QED
    BY <1>5 DEF Shell!Route

\* The gate asks for the setup until somebody has sent it and never once a save or skip
\* was answered; it sends nobody who is on the branding page, whose profile could not be
\* resolved, or to where nothing is.
THEOREM SetupStaysDone == Spec => SetupIsFinal
<1>1. ASSUME IInv, [Next]_vars
      PROVE  [\A t \in Tenants : LET q == request[t] IN
                q # NoRequest /\ request'[t] = NoRequest =>
                    IF view'[t].place = "setup"
                    THEN /\ q.resolved /\ ~q.settled /\ q.path # BrandingPage
                         /\ Shell!Route(BrandingPage) = "page"
                    ELSE q.resolved /\ q.path # BrandingPage =>
                             \E c \in Calls : call[c].tenant = t /\ Brand!Sent(c)]_<<request, view>>
    <2> SUFFICES ASSUME NEW t \in Tenants, request[t] # NoRequest, request'[t] = NoRequest
                 PROVE  LET q == request[t] IN
                        IF view'[t].place = "setup"
                        THEN /\ q.resolved /\ ~q.settled /\ q.path # BrandingPage
                             /\ Shell!Route(BrandingPage) = "page"
                        ELSE q.resolved /\ q.path # BrandingPage =>
                                 \E c \in Calls : call[c].tenant = t /\ Brand!Sent(c)
        OBVIOUS
    <2>1. /\ view \in [Tenants -> [place : Places, url : Seconds \union {Never}]]
          /\ request \in [Tenants -> Requests \union {NoRequest}]
        BY <1>1 DEF IInv, TypeOK
    <2>2. PICK q \in Requests : q = request[t]
        BY <2>1
    <2>3. BrandInv /\ BrowserInv
        BY <1>1, ByPart
    <2>4. Respond(t)
        <3>1. request' # request
            OBVIOUS
        <3>2. CASE \E u \in Tenants, path \in Paths : Visit(u, path)
            <4>1. PICK u \in Tenants : request[u] = NoRequest
                                       /\ \E x : request' = [request EXCEPT ![u] = x]
                BY <3>2 DEF Visit
            <4>2. u # t
                BY <4>1
            <4>3. QED
                BY <2>1, <4>1, <4>2
        <3>3. CASE \E u \in Tenants : Respond(u)
            <4>1. PICK u \in Tenants : Respond(u)
                BY <3>3
            <4>2. request' = [request EXCEPT ![u] = NoRequest]
                BY <4>1 DEF Respond
            <4>3. u = t
                BY <2>1, <4>2
            <4>4. QED
                BY <4>1, <4>3
        <3>4. QED
            BY <1>1, <3>1, <3>2, <3>3
            DEF Next, vars, Build, Serve, Branded, FetchLogo, Forget
    <2>5. PICK v \in Served(t, q) : view' = [view EXCEPT ![t] = v]
        BY <2>2, <2>4 DEF Respond
    <2>6. view'[t] = v
        BY <2>1, <2>5
    <2>7. view'[t].place = "setup" <=> Gated(q)
        BY <2>3, <2>6, AddressOfNow, ServedType
    <2>8. serving /\ (q.complete => row[t] # NoRow) /\ (q.resolved /\ q.settled => q.complete)
        BY <2>2, <2>3 DEF BrowserInv, RequestInv
    <2>9. CASE Gated(q)
        BY <1>1, <2>2, <2>7, <2>8, <2>9, BrandingPageIsServed DEF Gated
    <2>10. CASE ~Gated(q)
        <3>1. q.resolved /\ q.path # BrandingPage =>
                  \E c \in Calls : call[c].tenant = t /\ Brand!Sent(c)
            BY <2>3, <2>8, <2>10 DEF Gated, BrandInv, Brand!RowInv
        <3>2. QED
            BY <2>2, <2>7, <2>10, <3>1
    <2>11. QED
        BY <2>9, <2>10
<1>2. QED
    BY <1>1, Invariant, PTL DEF Spec, SetupIsFinal

\* "One group per distinct label, in Order" (shell.go:283), "a route the shell actually
\* serves" (portslib.go:48): in whichever order modules are built, and again after
\* errors, the rail is the one they declare, what is up is in it once, and under
\* "/admin" each link leads to a page or a list.
THEOREM RailStaysRight == Spec => []RailIsRight
<1>1. IInv => RailIsRight
    BY RailIsInOrder, ModulesAreThere, LinksLeadSomewhere DEF RailIsRight
<1>2. QED
    BY <1>1, Invariant, PTL

=============================================================================
