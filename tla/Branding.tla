------------------------------ MODULE Branding ------------------------------
(***************************************************************************)
(* Branding profiles, src/pkg/branding: Save of service.go reads the row   *)
(* of the tenant, merges what it was given into it and writes it whole;    *)
(* Skip writes a row with nothing in it but the name. Both stamp that the  *)
(* setup is complete. Names, colours and fonts are checked and written     *)
(* whole and tell nothing apart here; a logo is kept when none is given.   *)
(***************************************************************************)
EXTENDS Naturals

CONSTANTS
    Tenants,
    Logos,
    Calls,      \* requests to save or to skip, one each
    Faulty,     \* whether a statement may fail or its answer be lost
    PerSecond,  \* instants the clock tells apart in a second
    MaxTime,    \* bound on the clock
    NoRow, NoLogo, NoTenant, Never

VARIABLES
    now,
    row,    \* branding_profiles
    call

vars == <<now, row, call>>

\* What a call reads of a row, and writes.
Records == [logo : Logos \union {NoLogo}, stamp : Nat \union {Never}]

\* newest: the latest updated that the row has had; shown: its logos since the second
\* of newest was first written. Both are bookkeeping for properties, which nothing reads.
Rows == [ logo : Logos \union {NoLogo}, stamp : Nat \union {Never},
          updated : 0 .. MaxTime, newest : 0 .. MaxTime,
          shown : SUBSET (Logos \union {NoLogo}) ]

\* at: the time that the call has taken for its write.
Idle == [ pc |-> "idle", tenant |-> NoTenant, kind |-> "none", logo |-> NoLogo,
          rec |-> NoRow, at |-> 0, result |-> "none" ]

At(c, place) == call[c].pc = place
Answer(c, what) ==
    call' = [call EXCEPT ![c] = [Idle EXCEPT
                !.pc = "answered", !.tenant = call[c].tenant, !.result = what]]
Second(time) == time \div PerSecond

\* A tenant without a record, as loadOrNew makes it.
Fresh == [logo |-> NoLogo, stamp |-> Never]
Stored(t) == IF row[t] = NoRow THEN NoRow ELSE [logo |-> row[t].logo, stamp |-> row[t].stamp]

-----------------------------------------------------------------------------
(* Faults: what single definitions would be with a plausible bug.           *)

MergeWhole(rec, logo) == [rec EXCEPT !.logo = logo]

\* An address for every instant, and one that never changes.
LogoURLInInstants(t) == IF row[t] = NoRow \/ row[t].logo = NoLogo THEN Never ELSE row[t].updated

LogoURLUnversioned(t) == IF row[t] = NoRow \/ row[t].logo = NoLogo THEN Never ELSE 0

-----------------------------------------------------------------------------

\* stampSetupComplete
Stamped(rec, at) == IF rec.stamp = Never THEN [rec EXCEPT !.stamp = at] ELSE rec

\* No logo given: the record keeps the one it has.
Merge(rec, logo) == IF logo = NoLogo THEN rec ELSE [rec EXCEPT !.logo = logo]

\* Upsert: everything of the row but created_at, with the time that was taken.
Upserted(t, rec, at) ==
    LET older == row[t] # NoRow /\ at <= row[t].newest
        same == row[t] # NoRow /\ Second(at) <= Second(row[t].newest)
    IN  [row EXCEPT ![t] =
            [ logo |-> rec.logo, stamp |-> rec.stamp, updated |-> at,
              newest |-> IF older THEN row[t].newest ELSE at,
              shown |-> {rec.logo} \union (IF same THEN row[t].shown ELSE {}) ]]

\* What the call writes.
Written(c) ==
    IF call[c].kind = "skip" THEN Stamped(Fresh, call[c].at)
    ELSE Stamped(Merge(IF call[c].rec = NoRow THEN Fresh ELSE call[c].rec, call[c].logo),
                 call[c].at)

Write(c) == Upserted(call[c].tenant, Written(c), call[c].at)

\* A call that has been answered after its statement was sent, or was saved.
Sent(c) == call[c].result \in {"saved", "unsaved"}
Saved(t) == \E c \in Calls : call[c].tenant = t /\ call[c].result = "saved"

SetupComplete(t) == row[t] # NoRow /\ row[t].stamp # Never

\* The cache-busting address of the logo: the second of the last write.
LogoURL(t) == IF row[t] = NoRow \/ row[t].logo = NoLogo THEN Never ELSE Second(row[t].updated)

-----------------------------------------------------------------------------

\* POST of the form, with or without a logo.
Save(c, t, logo) ==
    /\ At(c, "idle")
    /\ call' = [call EXCEPT ![c] = [Idle EXCEPT !.pc = "read", !.tenant = t,
                    !.kind = "save", !.logo = logo]]
    /\ UNCHANGED <<now, row>>

\* A name, a logo or a text that is not valid, before anything is read.
Refuse(c) ==
    /\ At(c, "idle")
    /\ Answer(c, "error")
    /\ UNCHANGED <<now, row>>

Skip(c, t) ==
    /\ At(c, "idle")
    /\ call' = [call EXCEPT ![c] = [Idle EXCEPT !.pc = "stamp", !.tenant = t, !.kind = "skip"]]
    /\ UNCHANGED <<now, row>>

LoadOrNew(c) ==
    /\ At(c, "read")
    /\ call' = [call EXCEPT ![c].pc = "stamp", ![c].rec = Stored(call[c].tenant)]
    /\ UNCHANGED <<now, row>>

LoadFails(c) ==
    /\ Faulty /\ At(c, "read")
    /\ Answer(c, "error")
    /\ UNCHANGED <<now, row>>

\* The time is taken, of the setup and of the write, before the statement is sent: it
\* may wait for a connection or a lock, and others write meanwhile.
Stamp(c) ==
    /\ At(c, "stamp")
    /\ call' = [call EXCEPT ![c].pc = "write", ![c].at = now]
    /\ UNCHANGED <<now, row>>

Upsert(c) ==
    /\ At(c, "write")
    /\ row' = Write(c)
    /\ Answer(c, "saved")
    /\ UNCHANGED now

\* Not done, or done and not heard of.
UpsertFails(c) ==
    /\ Faulty /\ At(c, "write")
    /\ row' \in {row, Write(c)}
    /\ Answer(c, "unsaved")
    /\ UNCHANGED now

Tick ==
    /\ now < MaxTime
    /\ now' = now + 1
    /\ UNCHANGED <<row, call>>

Init ==
    /\ now = 0
    /\ row = [t \in Tenants |-> NoRow]
    /\ call = [c \in Calls |-> Idle]

Step(c) ==
    \/ \E t \in Tenants : \/ \E logo \in Logos \union {NoLogo} : Save(c, t, logo)
                          \/ Skip(c, t)
    \/ Refuse(c)
    \/ LoadOrNew(c) \/ LoadFails(c)
    \/ Stamp(c)
    \/ Upsert(c) \/ UpsertFails(c)

Next == Tick \/ \E c \in Calls : Step(c)

-----------------------------------------------------------------------------

TypeOK ==
    /\ now \in 0 .. MaxTime
    /\ row \in [Tenants -> Rows \union {NoRow}]
    /\ call \in [Calls ->
        [ pc : {"idle", "read", "stamp", "write", "answered"},
          tenant : Tenants \union {NoTenant},
          kind : {"none", "save", "skip"}, logo : Logos \union {NoLogo},
          rec : Records \union {NoRow}, at : 0 .. MaxTime,
          result : {"none", "saved", "error", "unsaved"} ]]

\* "Save preserves whatever logo is already on record", and "leaves [the stamp]
\* untouched on every later Save" (service.go:75, 154): both are lost to a Skip, or to
\* a save that has read the row before another call wrote it, and to nothing else.
Overtaken(c) == call[c].kind = "skip" \/ call[c].rec # Stored(call[c].tenant)

NotGivenIsKept ==
    [][\A c \in Calls : \A t \in Tenants :
        (At(c, "write") /\ ~At(c, "write")' /\ call[c].tenant = t
            /\ row[t] # NoRow /\ row'[t] # row[t]) =>
                \/ Overtaken(c)
                \/ /\ row'[t].stamp = row[t].stamp
                   /\ call[c].logo = NoLogo => row'[t].logo = row[t].logo]_<<row, call>>

-----------------------------------------------------------------------------
(* Parts of the inductive invariant of Console.                             *)

\* Rows have stamps and were never newer than newest, and somebody has sent
\* the statement that wrote them.
RowInv ==
    \A t \in Tenants : row[t] # NoRow =>
        /\ row[t].stamp # Never /\ row[t].logo \in row[t].shown
        /\ row[t].updated <= row[t].newest
        /\ \E c \in Calls : call[c].tenant = t /\ Sent(c)

CallInv ==
    \A c \in Calls :
        /\ call[c].pc \in {"read", "stamp", "write"} => call[c].tenant \in Tenants
        /\ ~At(c, "answered") => call[c].result = "none"
        /\ call[c].result = "saved" =>
               call[c].tenant \in Tenants /\ row[call[c].tenant] # NoRow

=============================================================================
