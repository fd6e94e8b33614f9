------------------------------- MODULE ApiKey -------------------------------
(***************************************************************************)
(* API keys, src/pkg/apikey: Issue, Verify and Revoke of service.go over   *)
(* the api_keys table. Verify is the authentication path of every request  *)
(* and is three separate steps (read the rows of the prefix, compare and   *)
(* decide by the clock, record the use), Revoke up to three (read the      *)
(* clock, update, look again when nothing was updated). Other callers run  *)
(* between any two of them.                                                *)
(***************************************************************************)
EXTENDS Naturals

CONSTANTS
    Tenants,
    Ids,        \* primary keys that generateID may draw
    Secrets,    \* plaintexts; the bcrypt hash of a row matches one of them
    PrefixOf,   \* the first 12 characters of each, the indexed column
    TTLs,       \* lifetimes that a key may be issued with; 0 is for ever
    Callers,    \* requests in flight
    Faulty,     \* whether statements may fail
    MaxTime,    \* bound on the clock
    MaxCalls,   \* bound: calls each caller makes
    NoKey, NoId, Never

ASSUME ConstantsOK ==
    /\ Tenants # {} /\ Secrets # {}
    /\ TTLs \subseteq Nat
    /\ Faulty \in BOOLEAN
    /\ MaxTime \in Nat /\ MaxCalls \in Nat
    /\ Never \notin Nat
    /\ NoId \notin Ids
    /\ NoKey \notin [tenant : Tenants, secret : Secrets, expires : Nat \union {Never}]

VARIABLES
    clock,
    key,        \* the columns of each row that Issue writes and nothing changes
    revokedAt,  \* column revoked_at
    usedAt,     \* column last_used_at
    trail,      \* audit events emitted: the action, and the tenant and key it names
    pc,         \* where each call is
    calls,      \* calls made so far
    presented,  \* Verify: the plaintext of the request
    rows,       \* Verify: the rows read, and those of them read as revoked
    target,     \* Revoke: tenant and id of the request. Verify: the matched row
    now,        \* the time the call has read
    result,     \* what the call has returned
    live        \* history: the rows that Verify had to accept when it read them

tableVars == <<key, revokedAt, usedAt>>
callVars == <<pc, calls, presented, rows, target, now, result, live>>
vars == <<clock, tableVars, trail, callVars>>

-----------------------------------------------------------------------------

Times == Nat \union {Never}
Keys == [tenant : Tenants, secret : Secrets, expires : Times]
Targets == [tenant : Tenants, id : Ids \union {NoId}]

Results == {"none", "ok", "invalid", "revoked", "expired", "notfound", "error"}
Places == {"idle", "found", "touch", "verified", "update", "get", "answered",
           "unread"}

Issued == {i \in Ids : key[i] # NoKey}

\* The service emits an event after the change, and does not care if it fails.
MayEmit(e) == trail' = trail \/ trail' = trail \union {e}

Answer(c, place, what) ==
    /\ pc' = [pc EXCEPT ![c] = place]
    /\ result' = [result EXCEPT ![c] = what]

-----------------------------------------------------------------------------
(* Faults: what single actions would be with a plausible bug in the code.   *)
(* Nothing below uses them.                                                 *)

\* The first row of the prefix accepted without comparing its hash.
AnyMatch(c) == rows[c].read

\* now.Before(*ExpiresAt) read the wrong way round at the boundary.
ExpiredAtLimit(i, t) == key[i].expires # Never /\ t >= key[i].expires

\* A lifetime subtracted instead of added.
IssueBackdated(i, t, s, ttl) ==
    /\ key[i] = NoKey
    /\ \A j \in Issued : key[j].secret # s
    /\ key' = [key EXCEPT ![i] =
                [tenant |-> t, secret |-> s,
                 expires |-> IF ttl > 0 THEN clock - ttl ELSE Never]]
    /\ MayEmit(<<"issued", [tenant |-> t, id |-> i]>>)
    /\ UNCHANGED <<clock, revokedAt, usedAt, callVars>>

\* An update without "AND revoked_at IS NULL", and one without the tenant.
UpdateAgain(c) ==
    LET i == target[c].id
    IN  /\ pc[c] = "update"
        /\ IF key[i].tenant = target[c].tenant
           THEN /\ revokedAt' = [revokedAt EXCEPT ![i] = now[c]]
                /\ MayEmit(<<"revoked", target[c]>>)
                /\ Answer(c, "answered", "ok")
           ELSE /\ pc' = [pc EXCEPT ![c] = "get"]
                /\ UNCHANGED <<revokedAt, trail, result>>
        /\ UNCHANGED <<clock, key, usedAt, calls, presented, rows, target, now, live>>

UpdateAnyTenant(c) ==
    LET i == target[c].id
    IN  /\ pc[c] = "update"
        /\ IF revokedAt[i] = Never
           THEN /\ revokedAt' = [revokedAt EXCEPT ![i] = now[c]]
                /\ MayEmit(<<"revoked", target[c]>>)
                /\ Answer(c, "answered", "ok")
           ELSE /\ pc' = [pc EXCEPT ![c] = "get"]
                /\ UNCHANGED <<revokedAt, trail, result>>
        /\ UNCHANGED <<clock, key, usedAt, calls, presented, rows, target, now, live>>

\* The event emitted before the error of the update is looked at.
EmitAnyway(c) ==
    /\ Faulty /\ pc[c] = "update"
    /\ MayEmit(<<"revoked", target[c]>>)
    /\ Answer(c, "answered", "error")
    /\ UNCHANGED <<clock, tableVars, calls, presented, rows, target, now, live>>

-----------------------------------------------------------------------------

\* now.After(*ExpiresAt): a key is still good at the instant it expires.
Expired(i, t) == key[i].expires # Never /\ t > key[i].expires

\* The rows that hold the presented plaintext.
Matches(c) == {i \in rows[c].read : key[i].secret = presented[c]}

Init ==
    /\ clock = 0
    /\ key = [i \in Ids |-> NoKey]
    /\ revokedAt = [i \in Ids |-> Never]
    /\ usedAt = [i \in Ids |-> Never]
    /\ trail = {}
    /\ pc = [c \in Callers |-> "idle"]
    /\ calls = [c \in Callers |-> 0]
    /\ presented = [c \in Callers |-> CHOOSE s \in Secrets : TRUE]
    /\ rows = [c \in Callers |-> [read |-> {}, revoked |-> {}]]
    /\ target = [c \in Callers |-> [tenant |-> CHOOSE t \in Tenants : TRUE, id |-> NoId]]
    /\ now = [c \in Callers |-> 0]
    /\ result = [c \in Callers |-> "none"]
    /\ live = [c \in Callers |-> {}]

Tick ==
    /\ clock < MaxTime
    /\ clock' = clock + 1
    /\ UNCHANGED <<tableVars, trail, callVars>>

\* Issue: 32 random bytes make a plaintext that no other key has; a drawn id
\* that is in use is ErrDuplicate and changes nothing.
Issue(i, t, s, ttl) ==
    /\ key[i] = NoKey
    /\ \A j \in Issued : key[j].secret # s
    /\ key' = [key EXCEPT ![i] =
                [tenant |-> t, secret |-> s,
                 expires |-> IF ttl > 0 THEN clock + ttl ELSE Never]]
    /\ MayEmit(<<"issued", [tenant |-> t, id |-> i]>>)
    /\ UNCHANGED <<clock, revokedAt, usedAt, callVars>>

Start(c) ==
    /\ pc[c] \in {"idle", "verified", "answered", "unread"}
    /\ calls[c] < MaxCalls
    /\ calls' = [calls EXCEPT ![c] = @ + 1]

\* Verify: GetByPrefix reads the rows of the prefix, of every tenant.
Lookup(c, s) ==
    LET found == {i \in Issued : PrefixOf[key[i].secret] = PrefixOf[s]}
    IN  /\ Start(c)
        /\ presented' = [presented EXCEPT ![c] = s]
        /\ rows' = [rows EXCEPT ![c] =
                [read |-> found, revoked |-> {i \in found : revokedAt[i] # Never}]]
        /\ live' = [live EXCEPT ![c] = {i \in Issued :
                /\ key[i].secret = s
                /\ revokedAt[i] = Never
                /\ ~(key[i].expires # Never /\ clock > key[i].expires)}]
        /\ pc' = [pc EXCEPT ![c] = "found"]
        /\ result' = [result EXCEPT ![c] = "none"]
        /\ UNCHANGED <<clock, tableVars, trail, target, now>>

LookupFails(c) ==
    /\ Faulty
    /\ Start(c)
    /\ Answer(c, "answered", "error")
    /\ UNCHANGED <<clock, tableVars, trail, presented, rows, target, now, live>>

\* The clock is read and the rows are gone through: the one whose hash matches
\* decides, by what was read of it.
Decide(c) ==
    /\ pc[c] = "found"
    /\ now' = [now EXCEPT ![c] = clock]
    /\ \/ /\ Matches(c) = {}
          /\ Answer(c, "verified", "invalid")
          /\ UNCHANGED target
       \/ \E i \in Matches(c) :
          /\ target' = [target EXCEPT ![c] = [tenant |-> key[i].tenant, id |-> i]]
          /\ IF i \in rows[c].revoked THEN Answer(c, "verified", "revoked")
             ELSE IF Expired(i, clock) THEN Answer(c, "verified", "expired")
             ELSE Answer(c, "touch", "none")
    /\ UNCHANGED <<clock, tableVars, trail, calls, presented, rows, live>>

\* UpdateLastUsed, with the time read before; its failure is ignored. The key
\* becomes the principal of the request.
Touch(c) ==
    /\ pc[c] = "touch"
    /\ \/ usedAt' = [usedAt EXCEPT ![target[c].id] = now[c]]
       \/ Faulty /\ UNCHANGED usedAt
    /\ Answer(c, "verified", "ok")
    /\ UNCHANGED <<clock, key, revokedAt, trail, calls, presented, rows, target, now, live>>

\* Revoke: an id that was issued, by whatever tenant, in a tenant's name.
Revoke(c, t, i) ==
    /\ Start(c)
    /\ i \in Issued
    /\ target' = [target EXCEPT ![c] = [tenant |-> t, id |-> i]]
    /\ now' = [now EXCEPT ![c] = clock]
    /\ pc' = [pc EXCEPT ![c] = "update"]
    /\ result' = [result EXCEPT ![c] = "none"]
    /\ UNCHANGED <<clock, tableVars, trail, presented, rows, live>>

\* UPDATE ... WHERE id = ? AND tenant_id = ? AND revoked_at IS NULL
RevokeUpdate(c) ==
    LET i == target[c].id
    IN  /\ pc[c] = "update"
        /\ IF key[i].tenant = target[c].tenant /\ revokedAt[i] = Never
           THEN /\ revokedAt' = [revokedAt EXCEPT ![i] = now[c]]
                /\ MayEmit(<<"revoked", target[c]>>)
                /\ Answer(c, "answered", "ok")
           ELSE /\ pc' = [pc EXCEPT ![c] = "get"]
                /\ UNCHANGED <<revokedAt, trail, result>>
        /\ UNCHANGED <<clock, key, usedAt, calls, presented, rows, target, now, live>>

\* No row was updated: Get tells a key of another tenant from a revoked one.
RevokeGet(c) ==
    LET i == target[c].id
    IN  /\ pc[c] = "get"
        /\ IF key[i].tenant = target[c].tenant
           THEN MayEmit(<<"revoked", target[c]>>) /\ Answer(c, "answered", "ok")
           ELSE Answer(c, "answered", "notfound") /\ UNCHANGED trail
        /\ UNCHANGED <<clock, tableVars, calls, presented, rows, target, now, live>>

\* The update fails: an error, and the row is as it was or, if only the answer
\* was lost, revoked.
RevokeUpdateFails(c) ==
    LET i == target[c].id
    IN  /\ Faulty /\ pc[c] = "update"
        /\ \/ UNCHANGED revokedAt
           \/ /\ key[i].tenant = target[c].tenant /\ revokedAt[i] = Never
              /\ revokedAt' = [revokedAt EXCEPT ![i] = now[c]]
        /\ Answer(c, "answered", "error")
        /\ UNCHANGED <<clock, key, usedAt, trail, calls, presented, rows, target, now, live>>

\* Get fails with anything but ErrNotFound: the store returns nil all the same.
RevokeGetFails(c) ==
    /\ Faulty /\ pc[c] = "get"
    /\ MayEmit(<<"revoked", target[c]>>)
    /\ Answer(c, "unread", "ok")
    /\ UNCHANGED <<clock, tableVars, calls, presented, rows, target, now, live>>

Verify(c) ==
    (\E s \in Secrets : Lookup(c, s)) \/ LookupFails(c) \/ Decide(c) \/ Touch(c)

RevokeStep(c) ==
    \/ \E t \in Tenants, i \in Ids : Revoke(c, t, i)
    \/ RevokeUpdate(c) \/ RevokeGet(c)
    \/ RevokeUpdateFails(c) \/ RevokeGetFails(c)

Next ==
    \/ Tick
    \/ \E i \in Ids, t \in Tenants, s \in Secrets, ttl \in TTLs : Issue(i, t, s, ttl)
    \/ \E c \in Callers : Verify(c) \/ RevokeStep(c)

Spec == Init /\ [][Next]_vars

-----------------------------------------------------------------------------
(* Properties *)

TypeOK ==
    /\ clock \in Nat
    /\ key \in [Ids -> Keys \union {NoKey}]
    /\ revokedAt \in [Ids -> Times]
    /\ usedAt \in [Ids -> Times]
    /\ trail \subseteq {"issued", "revoked"} \X Targets
    /\ pc \in [Callers -> Places]
    /\ calls \in [Callers -> Nat]
    /\ presented \in [Callers -> Secrets]
    /\ rows \in [Callers -> [read : SUBSET Ids, revoked : SUBSET Ids]]
    /\ target \in [Callers -> Targets]
    /\ now \in [Callers -> Nat]
    /\ result \in [Callers -> Results]
    /\ live \in [Callers -> SUBSET Ids]

\* Verify accepts only a key that was neither revoked nor expired at the instant
\* it read the table. So once Revoke has returned, no call that starts later
\* accepts the key, and never one whose secret only shares the prefix.
AcceptedKeyWasLive ==
    \A c \in Callers :
        pc[c] = "verified" /\ result[c] = "ok" => target[c].id \in live[c]

\* Verify refuses a key that was good when it read the table only if the key
\* has expired since: a collision of prefixes or the key of another tenant
\* under the same prefix does not lock its owner out.
RefusedKeyIsDead ==
    \A c \in Callers :
        pc[c] = "verified" /\ result[c] # "ok" =>
            \A i \in live[c] : key[i].expires # Never /\ clock > key[i].expires

\* Key by key, what a client of the module sees is a registry of credentials: an
\* issued secret never comes back once it is revoked or expired, and Verify says
\* of a secret what was true when it read the table or is true when it answers.
Lifetime(s) ==
    LET held == {i \in Issued : key[i].secret = s}
    IN  IF held = {} THEN "none"
        ELSE IF \E i \in held :
                /\ revokedAt[i] = Never
                /\ key[i].expires = Never \/ clock <= key[i].expires
        THEN "live" ELSE "ended"

Checking(c) ==
    [of |-> IF pc[c] \in {"found", "touch"} THEN {presented[c]} ELSE {},
     live |-> pc[c] \in {"found", "touch"} /\ live[c] # {}]

Answered(c) ==
    IF pc[c] # "verified" THEN "none" ELSE IF result[c] = "ok" THEN "yes" ELSE "no"

Registry == INSTANCE Credentials WITH
    Creds <- Secrets,
    Checkers <- Callers,
    state <- [s \in Secrets |-> Lifetime(s)],
    check <- [c \in Callers |-> Checking(c)],
    answer <- [c \in Callers |-> Answered(c)]

ImplementsCredentials == Registry!Spec

\* "A no-op when the key is already revoked" (store.go:57): of several calls of
\* Revoke the first one fixes the time, whichever order their updates take.
RevokedOnce ==
    [][\A i \in Ids : revokedAt[i] # Never => revokedAt'[i] = revokedAt[i]]_revokedAt

\* "It returns ErrNotFound when no key exists in that tenant" (store.go:56): a
\* caller that is told nil has a key of its tenant, and it is revoked. It does not
\* hold of a call whose second look has failed; the property after it leaves those out.
RevokedAt(c) ==
    /\ key[target[c].id].tenant = target[c].tenant
    /\ revokedAt[target[c].id] # Never

RevokeIsTruthful ==
    \A c \in Callers :
        pc[c] \in {"answered", "unread"} /\ result[c] = "ok" => RevokedAt(c)

\* The same of every call but the one whose last look at the row has failed.
RevokeIsTruthfulWhenRead ==
    \A c \in Callers : pc[c] = "answered" /\ result[c] = "ok" => RevokedAt(c)

\* The audit trail of a tenant never reports that one of its keys was revoked
\* when it was not, whichever statements fail.
TrailIsTruthful ==
    \A i \in Issued :
        <<"revoked", [tenant |-> key[i].tenant, id |-> i]>> \in trail =>
            revokedAt[i] # Never

-----------------------------------------------------------------------------
(* The inductive invariant behind AcceptedKeyWasLive, RefusedKeyIsDead and  *)
(* the refinement: what each call knows of the table at each place.         *)

SecretsAreUnique ==
    \A i, j \in Issued : key[i].secret = key[j].secret => i = j

TargetInv ==
    \A c \in Callers :
        pc[c] \in {"touch", "update", "get"} => target[c].id \in Issued

\* The rows that had to be accepted hold the presented secret ...
LiveInv ==
    \A c \in Callers : \A i \in live[c] : i \in Issued /\ key[i].secret = presented[c]

\* ... are among the rows read as not revoked, and the others have expired.
FoundInv ==
    \A c \in Callers : pc[c] = "found" =>
        /\ rows[c].read \subseteq Issued
        /\ live[c] \subseteq rows[c].read \ rows[c].revoked
        /\ \A i \in Matches(c) \ (live[c] \union rows[c].revoked) :
            key[i].expires # Never /\ clock > key[i].expires

TouchInv == \A c \in Callers : pc[c] = "touch" => target[c].id \in live[c]

IInv ==
    /\ TypeOK /\ SecretsAreUnique
    /\ TargetInv /\ LiveInv /\ FoundInv /\ TouchInv
    /\ AcceptedKeyWasLive /\ RefusedKeyIsDead

\* What is behind RevokeIsTruthfulWhenRead and TrailIsTruthful: when the update
\* changed no row, the key is revoked or belongs to somebody else ...
LookInv ==
    \A c \in Callers :
        pc[c] = "get" /\ key[target[c].id].tenant = target[c].tenant =>
            revokedAt[target[c].id] # Never

\* ... a caller that was told nil has named a key ...
ToldInv ==
    \A c \in Callers : pc[c] = "answered" /\ result[c] = "ok" =>
        target[c].id \in Issued /\ RevokedAt(c)

\* ... and so does every event, which may name the wrong tenant.
EventInv ==
    \A x \in Targets : <<"revoked", x>> \in trail =>
        /\ x.id \in Issued
        /\ key[x.id].tenant = x.tenant => revokedAt[x.id] # Never

RevocationInv == LookInv /\ ToldInv /\ EventInv

=============================================================================
