---------------------------- MODULE ApiKeyProofs ----------------------------
(***************************************************************************)
(* Proofs about ApiKey for every number of keys, tenants and callers: the  *)
(* inductive invariant IInv, what Verify accepts and refuses, what Revoke  *)
(* and the audit trail tell, and that the module implements the registry   *)
(* of Credentials.                                                         *)
(***************************************************************************)
EXTENDS ApiKey, TLAPS

Dead(i) == key[i].expires # Never /\ clock > key[i].expires

\* What IInv says of one caller.
CallInv(c) ==
    /\ pc[c] \in {"touch", "update", "get"} => target[c].id \in Issued
    /\ \A i \in live[c] : i \in Issued /\ key[i].secret = presented[c]
    /\ pc[c] = "found" =>
        /\ rows[c].read \subseteq Issued
        /\ live[c] \subseteq rows[c].read \ rows[c].revoked
        /\ \A i \in Matches(c) \ (live[c] \union rows[c].revoked) : Dead(i)
    /\ pc[c] = "touch" => target[c].id \in live[c]
    /\ pc[c] = "verified" /\ result[c] = "ok" => target[c].id \in live[c]
    /\ pc[c] = "verified" /\ result[c] # "ok" => \A i \in live[c] : Dead(i)

LEMMA ByCaller ==
    IInv <=> TypeOK /\ SecretsAreUnique /\ \A c \in Callers : CallInv(c)
BY Zenon DEF IInv, CallInv, Dead, TargetInv, LiveInv, FoundInv, TouchInv,
    AcceptedKeyWasLive, RefusedKeyIsDead

\* An event about a tenant and one of its keys keeps the trail well typed.
LEMMA EmitType ==
    ASSUME TypeOK, NEW a \in {"issued", "revoked"}, NEW x \in Targets, MayEmit(<<a, x>>)
    PROVE  trail' \subseteq {"issued", "revoked"} \X Targets
BY SMT DEF MayEmit, TypeOK

\* The rows that a call compares exist and are those of some tenant.
LEMMA MatchType ==
    ASSUME IInv, NEW c \in Callers, pc[c] = "found", NEW i \in Matches(c)
    PROVE  i \in Issued /\ i \in Ids /\ key[i] \in Keys
<1>1. i \in Issued
    BY DEF Matches, IInv, FoundInv
<1>2. i \in Ids /\ key[i] \in Keys
    BY <1>1 DEF IInv, TypeOK, Issued
<1>3. QED
    BY <1>1, <1>2

\* A step keeps every variable in its type.
LEMMA TypeStep == IInv /\ [Next]_vars => TypeOK'
<1> SUFFICES ASSUME IInv, [Next]_vars PROVE TypeOK'
    OBVIOUS
<1> USE ConstantsOK DEF vars, tableVars, callVars, IInv, TypeOK, Places, Results, Times, Answer, Start
<1>1. CASE Tick
    BY <1>1 DEF Tick
<1>2. ASSUME NEW i \in Ids, NEW t \in Tenants, NEW s \in Secrets, NEW ttl \in TTLs,
             Issue(i, t, s, ttl)
      PROVE TypeOK'
    <2> DEFINE until == IF ttl > 0 THEN clock + ttl ELSE Never
    <2>1. until \in Times
        OBVIOUS
    <2>2. [tenant |-> t, secret |-> s, expires |-> until] \in Keys
        BY <2>1, Zenon DEF Keys
    <2>3. key' \in [Ids -> Keys \union {NoKey}]
        BY <1>2, <2>2, Zenon DEF Issue
    <2>4. [tenant |-> t, id |-> i] \in Targets
        BY DEF Targets
    <2>5. trail' \subseteq {"issued", "revoked"} \X Targets
        BY <1>2, <2>4, EmitType, Zenon DEF Issue
    <2>6. QED
        BY <1>2, <2>3, <2>5 DEF Issue
<1>3. ASSUME NEW c \in Callers, NEW s \in Secrets, Lookup(c, s) PROVE TypeOK'
    BY <1>3 DEF Lookup, Issued
<1>4. ASSUME NEW c \in Callers, LookupFails(c) PROVE TypeOK'
    BY <1>4 DEF LookupFails
<1>5. ASSUME NEW c \in Callers, Decide(c) PROVE TypeOK'
    <2>1. \A i \in Matches(c) : [tenant |-> key[i].tenant, id |-> i] \in Targets
        BY <1>5, MatchType DEF Decide, Keys, Targets
    <2>2. target' = target \/ \E i \in Matches(c) :
            target' = [target EXCEPT ![c] = [tenant |-> key[i].tenant, id |-> i]]
        BY <1>5, Zenon DEF Decide
    <2>3. target' \in [Callers -> Targets]
        BY <2>1, <2>2
    <2>4. \E p \in Places, x \in Results :
            pc' = [pc EXCEPT ![c] = p] /\ result' = [result EXCEPT ![c] = x]
        BY <1>5 DEF Decide
    <2>5. pc' \in [Callers -> Places] /\ result' \in [Callers -> Results]
        BY <2>4
    <2>6. QED
        BY <1>5, <2>3, <2>5 DEF Decide
<1>6. ASSUME NEW c \in Callers, Touch(c) PROVE TypeOK'
    BY <1>6 DEF Touch
<1>7. ASSUME NEW c \in Callers, NEW t \in Tenants, NEW i \in Ids, Revoke(c, t, i) PROVE TypeOK'
    BY <1>7 DEF Revoke, Targets
<1>8. ASSUME NEW c \in Callers, RevokeUpdate(c) PROVE TypeOK'
    <2>1. target[c] \in Targets
        OBVIOUS
    <2>2. trail' \subseteq {"issued", "revoked"} \X Targets
        BY <1>8, <2>1, EmitType, Zenon DEF RevokeUpdate
    <2>3. revokedAt' \in [Ids -> Times]
        BY <1>8 DEF RevokeUpdate
    <2>4. pc' \in [Callers -> Places] /\ result' \in [Callers -> Results]
        BY <1>8 DEF RevokeUpdate
    <2>5. QED
        BY <1>8, <2>2, <2>3, <2>4 DEF RevokeUpdate
<1>9. ASSUME NEW c \in Callers, RevokeGet(c) PROVE TypeOK'
    <2>1. target[c] \in Targets
        OBVIOUS
    <2>2. trail' \subseteq {"issued", "revoked"} \X Targets
        BY <1>9, <2>1, EmitType, Zenon DEF RevokeGet
    <2>3. pc' \in [Callers -> Places] /\ result' \in [Callers -> Results]
        BY <1>9 DEF RevokeGet
    <2>4. QED
        BY <1>9, <2>2, <2>3 DEF RevokeGet
<1>10. ASSUME NEW c \in Callers, RevokeUpdateFails(c) PROVE TypeOK'
    BY <1>10 DEF RevokeUpdateFails
<1>11. ASSUME NEW c \in Callers, RevokeGetFails(c) PROVE TypeOK'
    <2>1. target[c] \in Targets
        OBVIOUS
    <2>2. trail' \subseteq {"issued", "revoked"} \X Targets
        BY <1>11, <2>1, EmitType, Zenon DEF RevokeGetFails
    <2>3. QED
        BY <1>11, <2>2 DEF RevokeGetFails
<1>12. CASE UNCHANGED vars
    BY <1>12
<1>13. QED
    BY <1>1, <1>2, <1>3, <1>4, <1>5, <1>6, <1>7, <1>8, <1>9, <1>10, <1>11, <1>12
    DEF Next, Verify, RevokeStep

\* Rows are neither deleted nor changed in the columns of key, and time passes.
LEMMA RowsStay ==
    ASSUME IInv, [Next]_vars
    PROVE  /\ clock' >= clock
           /\ \A i \in Issued : i \in Issued' /\ key'[i] = key[i]
<1> USE ConstantsOK DEF vars, tableVars, callVars, IInv, TypeOK, Issued
<1>1. CASE Tick
    BY <1>1 DEF Tick
<1>2. ASSUME NEW i \in Ids, NEW t \in Tenants, NEW s \in Secrets, NEW ttl \in TTLs,
             Issue(i, t, s, ttl)
      PROVE  /\ clock' >= clock
             /\ \A j \in Issued : j \in Issued' /\ key'[j] = key[j]
    BY <1>2 DEF Issue
<1>3. CASE UNCHANGED <<clock, key>>
    BY <1>3
<1>4. \/ Tick
      \/ \E i \in Ids, t \in Tenants, s \in Secrets, ttl \in TTLs : Issue(i, t, s, ttl)
      \/ UNCHANGED <<clock, key>>
    BY DEF Next, Verify, RevokeStep, Lookup, LookupFails, Decide, Touch, Revoke,
        RevokeUpdate, RevokeGet, RevokeUpdateFails, RevokeGetFails
<1>5. QED
    BY <1>1, <1>2, <1>3, <1>4

\* No two rows hold the same secret.
LEMMA SecretsStep == IInv /\ [Next]_vars => SecretsAreUnique'
<1> SUFFICES ASSUME IInv, [Next]_vars PROVE SecretsAreUnique'
    OBVIOUS
<1> USE DEF vars, tableVars, callVars, IInv, TypeOK, SecretsAreUnique, Issued
<1>1. ASSUME NEW i \in Ids, NEW t \in Tenants, NEW s \in Secrets, NEW ttl \in TTLs,
             Issue(i, t, s, ttl)
      PROVE  SecretsAreUnique'
    BY <1>1 DEF Issue
<1>2. CASE UNCHANGED key
    BY <1>2
<1>3. \/ \E i \in Ids, t \in Tenants, s \in Secrets, ttl \in TTLs : Issue(i, t, s, ttl)
      \/ UNCHANGED key
    BY DEF Next, Tick, Verify, RevokeStep, Lookup, LookupFails, Decide, Touch, Revoke,
        RevokeUpdate, RevokeGet, RevokeUpdateFails, RevokeGetFails
<1>4. QED
    BY <1>1, <1>2, <1>3

\* A key that has expired stays expired.
LEMMA DeadStays ==
    ASSUME IInv, [Next]_vars, TypeOK', NEW i \in Issued, Dead(i)
    PROVE  Dead(i)'
<1>1. clock' >= clock /\ key'[i] = key[i] /\ i \in Ids
    BY RowsStay DEF Issued
<1>2. key[i] \in Keys
    BY DEF IInv, TypeOK, Issued
<1>3. clock \in Nat /\ clock' \in Nat
    BY DEF IInv, TypeOK
<1>4. QED
    BY <1>1, <1>2, <1>3 DEF Dead, Keys, Times

\* A call that a step leaves where it is keeps its invariant.
Still(q) ==
    /\ pc'[q] = pc[q] /\ result'[q] = result[q] /\ target'[q] = target[q]
    /\ live'[q] = live[q] /\ presented'[q] = presented[q] /\ rows'[q] = rows[q]

LEMMA CallFrame ==
    ASSUME IInv, [Next]_vars, TypeOK', NEW q \in Callers, Still(q)
    PROVE  CallInv(q)'
<1> USE RowsStay DEF Still
<1>1. CallInv(q)
    BY Zenon, ByCaller
<1>2. pc'[q] \in {"touch", "update", "get"} => target'[q].id \in Issued'
    BY <1>1 DEF CallInv
<1>3. \A i \in live'[q] : i \in Issued' /\ key'[i].secret = presented'[q]
    BY <1>1 DEF CallInv
<1>4. ASSUME pc'[q] = "found"
      PROVE  /\ rows'[q].read \subseteq Issued'
             /\ live'[q] \subseteq rows'[q].read \ rows'[q].revoked
             /\ \A i \in Matches(q)' \ (live'[q] \union rows'[q].revoked) : Dead(i)'
    <2>1. rows[q].read \subseteq Issued /\ live[q] \subseteq rows[q].read \ rows[q].revoked
        BY <1>1, <1>4 DEF CallInv
    <2>2. Matches(q)' = Matches(q)
        BY <2>1 DEF Matches
    <2>3. \A i \in Matches(q) \ (live[q] \union rows[q].revoked) : i \in Issued /\ Dead(i)
        BY <1>1, <1>4, <2>1 DEF CallInv, Matches
    <2>4. QED
        BY <2>1, <2>2, <2>3, DeadStays
<1>5. pc'[q] = "touch" => target'[q].id \in live'[q]
    BY <1>1 DEF CallInv
<1>6. pc'[q] = "verified" /\ result'[q] = "ok" => target'[q].id \in live'[q]
    BY <1>1 DEF CallInv
<1>7. ASSUME pc'[q] = "verified", result'[q] # "ok"
      PROVE  \A i \in live'[q] : Dead(i)'
    <2>1. \A i \in live[q] : i \in Issued /\ Dead(i)
        BY <1>1, <1>7 DEF CallInv
    <2>2. QED
        BY <2>1, DeadStays
<1>8. QED
    BY <1>2, <1>3, <1>4, <1>5, <1>6, <1>7 DEF CallInv

\* A step of one call leaves the others where they are.
LEMMA OnlyOneActs ==
    ASSUME IInv, NEW c \in Callers, Verify(c) \/ RevokeStep(c), NEW q \in Callers \ {c}
    PROVE  Still(q)
<1> USE DEF IInv, TypeOK, Still, vars, tableVars, callVars, Answer, Start
<1>1. ASSUME NEW s \in Secrets, Lookup(c, s) PROVE Still(q)
    BY <1>1 DEF Lookup
<1>2. CASE LookupFails(c)
    BY <1>2 DEF LookupFails
<1>3. CASE Decide(c)
    BY <1>3 DEF Decide
<1>4. CASE Touch(c)
    BY <1>4 DEF Touch
<1>5. ASSUME NEW t \in Tenants, NEW i \in Ids, Revoke(c, t, i) PROVE Still(q)
    BY <1>5 DEF Revoke
<1>6. CASE RevokeUpdate(c)
    BY <1>6 DEF RevokeUpdate
<1>7. CASE RevokeGet(c)
    BY <1>7 DEF RevokeGet
<1>8. CASE RevokeUpdateFails(c)
    BY <1>8 DEF RevokeUpdateFails
<1>9. CASE RevokeGetFails(c)
    BY <1>9 DEF RevokeGetFails
<1>10. QED
    BY <1>1, <1>2, <1>3, <1>4, <1>5, <1>6, <1>7, <1>8, <1>9 DEF Verify, RevokeStep

\* A step is about one call at most.
LEMMA WhoActs ==
    ASSUME IInv, [Next]_vars, NEW q \in Callers
    PROVE  \/ Still(q)
           \/ \E s \in Secrets : Lookup(q, s)
           \/ LookupFails(q) \/ Decide(q) \/ Touch(q)
           \/ \E t \in Tenants, i \in Ids : Revoke(q, t, i)
           \/ RevokeUpdate(q) \/ RevokeGet(q)
           \/ RevokeUpdateFails(q) \/ RevokeGetFails(q)
<1> USE DEF IInv, TypeOK, Still, vars, tableVars, callVars, Answer, Start
<1>1. ASSUME NEW c \in Callers, c # q, Verify(c) \/ RevokeStep(c)
      PROVE  Still(q)
    BY <1>1, OnlyOneActs
<1>2. CASE \/ Tick \/ UNCHANGED vars
           \/ \E i \in Ids, t \in Tenants, s \in Secrets, ttl \in TTLs : Issue(i, t, s, ttl)
    BY <1>2 DEF Tick, Issue
<1>3. QED
    BY <1>1, <1>2, Zenon DEF Next, Verify, RevokeStep

\* What a call knows of the rows it read, and of a row that must be accepted:
\* it is among those that match, and it is the only one.
LEMMA FoundFacts ==
    ASSUME IInv, NEW c \in Callers, pc[c] = "found"
    PROVE  /\ \A j \in live[c] : j \in Matches(c) /\ j \notin rows[c].revoked
           /\ \A i, j \in Matches(c) : i = j
           /\ \A i \in Matches(c) : i \in live[c] \/ i \in rows[c].revoked \/ Dead(i)
<1>1. CallInv(c) /\ SecretsAreUnique
    BY Zenon, ByCaller
<1>2. QED
    BY <1>1, MatchType DEF CallInv, SecretsAreUnique, Matches

\* The outcomes of Decide.
LEMMA DecideStep ==
    ASSUME IInv, TypeOK', NEW c \in Callers, Decide(c)
    PROVE  \/ /\ pc'[c] = "verified" /\ result'[c] # "ok"
              /\ \A i \in live[c] : Dead(i)
           \/ pc'[c] = "touch" /\ target'[c].id \in live[c]
<1> USE DEF IInv, TypeOK, Answer
<1>1. pc[c] = "found"
    BY DEF Decide
<1>2. CASE Matches(c) = {} /\ Answer(c, "verified", "invalid")
    <2>1. live[c] = {}
        BY <1>1, <1>2, FoundFacts
    <2>2. QED
        BY <1>2, <2>1
<1>3. ASSUME NEW i \in Matches(c),
             target' = [target EXCEPT ![c] = [tenant |-> key[i].tenant, id |-> i]],
             IF i \in rows[c].revoked THEN Answer(c, "verified", "revoked")
             ELSE IF Expired(i, clock) THEN Answer(c, "verified", "expired")
             ELSE Answer(c, "touch", "none")
      PROVE  \/ /\ pc'[c] = "verified" /\ result'[c] # "ok"
                /\ \A j \in live[c] : Dead(j)
             \/ pc'[c] = "touch" /\ target'[c].id \in live[c]
    <2>1. CASE i \in rows[c].revoked
        <3>1. live[c] = {}
            BY <1>1, <2>1, FoundFacts
        <3>2. QED
            BY <1>3, <2>1, <3>1
    <2>2. CASE i \notin rows[c].revoked /\ Expired(i, clock)
        <3>1. \A j \in live[c] : Dead(j)
            BY <1>1, <2>2, FoundFacts DEF Expired, Dead
        <3>2. QED
            BY <1>3, <2>2, <3>1
    <2>3. CASE i \notin rows[c].revoked /\ ~Expired(i, clock)
        <3>1. i \in live[c]
            BY <1>1, <2>3, FoundFacts DEF Expired, Dead
        <3>2. target'[c].id = i
            BY <1>3
        <3>3. QED
            BY <1>3, <2>3, <3>1, <3>2
    <2>4. QED
        BY <2>1, <2>2, <2>3
<1>4. QED
    BY <1>2, <1>3, Zenon DEF Decide

\* Every call knows what it has to know after every step.
LEMMA CallStep ==
    ASSUME IInv, [Next]_vars, TypeOK', NEW q \in Callers
    PROVE  CallInv(q)'
<1> USE DEF TypeOK, Answer, Start
<1>1. CallInv(q) /\ TypeOK
    BY Zenon, ByCaller
<1>2. CASE Still(q)
    BY <1>2, CallFrame
<1>3. ASSUME NEW s \in Secrets, Lookup(q, s) PROVE CallInv(q)'
    <2>1. /\ pc'[q] = "found" /\ presented'[q] = s
          /\ rows'[q].read = {i \in Issued : PrefixOf[key[i].secret] = PrefixOf[s]}
          /\ rows'[q].revoked = {i \in rows'[q].read : revokedAt[i] # Never}
          /\ live'[q] = {i \in Issued : /\ key[i].secret = s
                                        /\ revokedAt[i] = Never
                                        /\ ~Dead(i)}
          /\ key' = key /\ clock' = clock
        BY <1>1, <1>3 DEF Lookup, tableVars, Dead
    <2>2. Issued' = Issued /\ \A i \in Ids : Dead(i)' <=> Dead(i)
        BY <2>1 DEF Issued, Dead
    <2>3. Matches(q)' = {i \in rows'[q].read : key[i].secret = s}
        BY <2>1 DEF Matches
    <2>4. QED
        BY <2>1, <2>2, <2>3 DEF CallInv, Issued
<1>4. CASE LookupFails(q)
    BY <1>1, <1>4 DEF LookupFails, CallInv, tableVars, Issued
<1>5. CASE Decide(q)
    <2>1. UNCHANGED <<clock, key, presented, live>>
        BY <1>5 DEF Decide, tableVars
    <2>2. Issued' = Issued /\ \A i \in Ids : Dead(i)' <=> Dead(i)
        BY <2>1 DEF Issued, Dead
    <2>3. QED
        BY <1>1, <1>5, <2>1, <2>2, DecideStep DEF CallInv
<1>6. CASE Touch(q)
    BY <1>1, <1>6 DEF Touch, CallInv, Issued
<1>7. ASSUME NEW t \in Tenants, NEW i \in Ids, Revoke(q, t, i) PROVE CallInv(q)'
    BY <1>1, <1>7 DEF Revoke, CallInv, tableVars, Issued
<1>8. CASE RevokeUpdate(q)
    BY <1>1, <1>8 DEF RevokeUpdate, CallInv, Issued
<1>9. CASE RevokeGet(q)
    BY <1>1, <1>9 DEF RevokeGet, CallInv, tableVars, Issued
<1>10. CASE RevokeUpdateFails(q)
    BY <1>1, <1>10 DEF RevokeUpdateFails, CallInv, Issued
<1>11. CASE RevokeGetFails(q)
    BY <1>1, <1>11 DEF RevokeGetFails, CallInv, tableVars, Issued
<1>12. QED
    BY <1>2, <1>3, <1>4, <1>5, <1>6, <1>7, <1>8, <1>9, <1>10, <1>11, WhoActs

\* In the first state nothing has been issued or asked.
LEMMA InitHolds == Init => IInv
<1> SUFFICES ASSUME Init PROVE IInv
    OBVIOUS
<1>1. TypeOK
    BY ConstantsOK DEF Init, TypeOK, Places, Results, Times, Targets
<1>2. Issued = {}
    BY DEF Init, Issued
<1>3. ASSUME NEW c \in Callers PROVE CallInv(c)
    BY DEF Init, CallInv
<1>4. QED
    BY <1>1, <1>2, <1>3, ByCaller DEF SecretsAreUnique

\* The inductive invariant: at each place of a call, what it knows of the rows
\* it has read still tells it what to answer.
THEOREM Invariant == Spec => []IInv
<1>1. IInv /\ [Next]_vars => IInv'
    <2> SUFFICES ASSUME IInv, [Next]_vars PROVE IInv'
        OBVIOUS
    <2>1. TypeOK' /\ SecretsAreUnique'
        BY TypeStep, SecretsStep
    <2>2. \A c \in Callers : CallInv(c)'
        BY <2>1, CallStep
    <2>3. IInv'
        BY <2>1, <2>2, Zenon DEF IInv, CallInv, Dead, TargetInv, LiveInv, FoundInv, TouchInv,
            AcceptedKeyWasLive, RefusedKeyIsDead
    <2>4. QED
        BY <2>3
<1>2. QED
    BY InitHolds, <1>1, PTL DEF Spec

\* Type correctness.
THEOREM TypeCorrect == Spec => []TypeOK
BY Invariant, PTL DEF IInv

\* Verify accepts only a key that was live when it read the table.
THEOREM AcceptsLiveKeys == Spec => []AcceptedKeyWasLive
BY Invariant, PTL DEF IInv

\* Verify refuses no key that was live then, unless it has expired since.
THEOREM RefusesDeadKeys == Spec => []RefusedKeyIsDead
BY Invariant, PTL DEF IInv

-----------------------------------------------------------------------------
(* What Revoke and the audit trail tell. *)

\* No statement takes a revocation back or gives it another time.
LEMMA RevokedStays ==
    ASSUME IInv, [Next]_vars, NEW i \in Ids, revokedAt[i] # Never
    PROVE  revokedAt'[i] = revokedAt[i]
<1> USE DEF IInv, TypeOK
<1>1. ASSUME NEW c \in Callers, RevokeUpdate(c) \/ RevokeUpdateFails(c)
      PROVE  revokedAt'[i] = revokedAt[i]
    BY <1>1 DEF RevokeUpdate, RevokeUpdateFails
<1>2. CASE UNCHANGED revokedAt
    BY <1>2
<1>3. UNCHANGED revokedAt \/ \E c \in Callers : RevokeUpdate(c) \/ RevokeUpdateFails(c)
    BY DEF Next, Verify, RevokeStep, Tick, Issue, Lookup, LookupFails, Decide, Touch, Revoke,
        RevokeGet, RevokeGetFails, vars, tableVars
<1>4. QED
    BY <1>1, <1>2, <1>3

\* Of several revocations the first one fixes the time.
THEOREM FirstRevocationCounts == Spec => RevokedOnce
<1>1. IInv /\ [Next]_vars =>
        [\A i \in Ids : revokedAt[i] # Never => revokedAt'[i] = revokedAt[i]]_revokedAt
    BY RevokedStays
<1>2. QED
    BY <1>1, Invariant, PTL DEF Spec, RevokedOnce

\* What RevocationInv says of one caller.
Told(c) ==
    /\ pc[c] = "get" /\ key[target[c].id].tenant = target[c].tenant =>
        revokedAt[target[c].id] # Never
    /\ pc[c] = "answered" /\ result[c] = "ok" => target[c].id \in Issued /\ RevokedAt(c)

\* What an event has to be about.
Reported(x) ==
    /\ x.id \in Issued
    /\ key[x.id].tenant = x.tenant => revokedAt[x.id] # Never

LEMMA ByTold ==
    RevocationInv <=> /\ \A c \in Callers : Told(c)
                      /\ \A x \in Targets : <<"revoked", x>> \in trail => Reported(x)
BY Zenon DEF RevocationInv, LookInv, ToldInv, EventInv, Told, Reported

\* A key that is revoked stays so, and stays the same tenant's.
LEMMA ReportedStays ==
    ASSUME IInv, [Next]_vars, NEW x, Reported(x)
    PROVE  Reported(x)'
<1>1. x.id \in Issued /\ x.id \in Ids
    BY DEF Reported, Issued
<1>2. x.id \in Issued' /\ key'[x.id] = key[x.id]
    BY <1>1, RowsStay
<1>3. revokedAt[x.id] # Never => revokedAt'[x.id] = revokedAt[x.id]
    BY <1>1, RevokedStays
<1>4. QED
    BY <1>2, <1>3 DEF Reported

\* What a caller was told remains true.
LEMMA ToldStep ==
    ASSUME IInv, RevocationInv, [Next]_vars, TypeOK', NEW q \in Callers
    PROVE  Told(q)'
<1> USE DEF TypeOK, Answer, Start
<1>1. Told(q) /\ TypeOK /\ ConstantsOK
    BY Zenon, ByTold, ConstantsOK DEF IInv
<1>2. pc[q] \in {"get", "update"} => target[q].id \in Issued /\ target[q].id \in Ids
    BY DEF IInv, TargetInv, Issued
<1>3. CASE Still(q)
    <2>1. pc[q] = "get" => Told(q)'
        <3> SUFFICES ASSUME pc[q] = "get" PROVE Told(q)'
            OBVIOUS
        <3>1. key'[target[q].id] = key[target[q].id]
            BY <1>2, RowsStay
        <3>2. revokedAt[target[q].id] # Never => revokedAt'[target[q].id] = revokedAt[target[q].id]
            BY <1>2, RevokedStays
        <3>3. QED
            BY <1>1, <1>3, <3>1, <3>2 DEF Told, Still
    <2>2. pc[q] = "answered" /\ result[q] = "ok" => Told(q)'
        <3> SUFFICES ASSUME pc[q] = "answered", result[q] = "ok" PROVE Told(q)'
            OBVIOUS
        <3>1. target[q].id \in Issued /\ RevokedAt(q) /\ target[q].id \in Ids
            BY <1>1 DEF Told, Issued
        <3>2. target[q].id \in Issued' /\ key'[target[q].id] = key[target[q].id]
            BY <3>1, RowsStay
        <3>3. revokedAt'[target[q].id] = revokedAt[target[q].id]
            BY <3>1, RevokedStays DEF RevokedAt
        <3>4. QED
            BY <1>3, <3>1, <3>2, <3>3 DEF Told, Still, RevokedAt
    <2>3. QED
        BY <1>3, <2>1, <2>2 DEF Told, Still
<1>4. ASSUME NEW s \in Secrets, Lookup(q, s) PROVE Told(q)'
    BY <1>1, <1>4 DEF Lookup, Told
<1>5. CASE LookupFails(q)
    BY <1>1, <1>5 DEF LookupFails, Told
<1>6. CASE Decide(q)
    <2>1. pc'[q] # "get" /\ pc'[q] # "answered"
        BY <1>1, <1>6 DEF Decide
    <2>2. QED
        BY <2>1 DEF Told
<1>7. CASE Touch(q)
    BY <1>1, <1>7 DEF Touch, Told
<1>8. ASSUME NEW t \in Tenants, NEW i \in Ids, Revoke(q, t, i) PROVE Told(q)'
    BY <1>1, <1>8 DEF Revoke, Told
<1>9. CASE RevokeUpdate(q)
    <2>1. /\ target'[q] = target[q] /\ key' = key /\ pc[q] = "update"
          /\ now[q] \in Nat
        BY <1>1, <1>9 DEF RevokeUpdate
    <2>2. CASE key[target[q].id].tenant = target[q].tenant /\ revokedAt[target[q].id] = Never
        BY <1>1, <1>2, <1>9, <2>1, <2>2 DEF RevokeUpdate, Told, RevokedAt, Issued, ConstantsOK
    <2>3. CASE ~(key[target[q].id].tenant = target[q].tenant /\ revokedAt[target[q].id] = Never)
        BY <1>1, <1>9, <2>1, <2>3 DEF RevokeUpdate, Told
    <2>4. QED
        BY <2>2, <2>3
<1>10. CASE RevokeGet(q)
    BY <1>1, <1>2, <1>10 DEF RevokeGet, tableVars, Told, RevokedAt, Issued
<1>11. CASE RevokeUpdateFails(q)
    BY <1>1, <1>11 DEF RevokeUpdateFails, Told
<1>12. CASE RevokeGetFails(q)
    BY <1>1, <1>12 DEF RevokeGetFails, Told
<1>13. QED
    BY <1>3, <1>4, <1>5, <1>6, <1>7, <1>8, <1>9, <1>10, <1>11, <1>12, WhoActs

\* Every new event is about a key that the revocation has just met.
LEMMA EventStep ==
    ASSUME IInv, RevocationInv, [Next]_vars, TypeOK', NEW x \in Targets,
           <<"revoked", x>> \in trail'
    PROVE  Reported(x)'
<1> USE DEF MayEmit
<1>1. CASE <<"revoked", x>> \in trail
    BY <1>1, ByTold, ReportedStays
<1>2. ASSUME <<"revoked", x>> \notin trail
      PROVE  \E c \in Callers : \/ RevokeUpdate(c) /\ pc'[c] = "answered"
                                \/ RevokeGet(c) \/ RevokeGetFails(c)
    <2>1. trail' # trail
        BY <1>2
    <2>2. ~\E i \in Ids, t \in Tenants, s \in Secrets, ttl \in TTLs : Issue(i, t, s, ttl)
        BY <1>2 DEF Issue
    <2>3. \E c \in Callers : RevokeUpdate(c) \/ RevokeGet(c) \/ RevokeGetFails(c)
        BY <2>1, <2>2 DEF Next, Verify, RevokeStep, Tick, Lookup, LookupFails, Decide, Touch,
            Revoke, RevokeUpdateFails, vars
    <2>4. \A c \in Callers : RevokeUpdate(c) => pc'[c] = "answered"
        BY <2>1 DEF RevokeUpdate, Answer, IInv, TypeOK
    <2>5. QED
        BY <2>3, <2>4
<1>3. ASSUME NEW c \in Callers, <<"revoked", x>> \notin trail,
             \/ RevokeUpdate(c) /\ pc'[c] = "answered"
             \/ RevokeGet(c) \/ RevokeGetFails(c)
      PROVE  Reported(x)'
    <2>1. x = target[c]
        BY <1>3 DEF RevokeUpdate, RevokeGet, RevokeGetFails
    <2>2. target[c].id \in Issued /\ target[c].id \in Ids
        BY <1>3 DEF RevokeUpdate, RevokeGet, RevokeGetFails, IInv, TargetInv, Issued
    <2>3. CASE RevokeUpdate(c) /\ pc'[c] = "answered"
        <3>1. revokedAt'[target[c].id] = now[c] /\ now[c] \in Nat /\ key' = key
            BY <2>2, <2>3 DEF RevokeUpdate, IInv, TypeOK
        <3>2. QED
            BY <2>1, <2>2, <3>1, ConstantsOK DEF Reported, Issued
    <2>4. CASE RevokeGet(c) \/ RevokeGetFails(c)
        <3>1. Told(c) /\ pc[c] = "get" /\ UNCHANGED <<key, revokedAt>>
            BY <2>4, ByTold DEF RevokeGet, RevokeGetFails, tableVars
        <3>2. QED
            BY <2>1, <2>2, <3>1 DEF Reported, Told, Issued
    <2>5. QED
        BY <1>3, <2>3, <2>4
<1>4. QED
    BY <1>1, <1>2, <1>3

\* What callers and the trail are told of revocations is true, by an invariant
\* that is inductive together with IInv.
THEOREM Revocations == Spec => []RevocationInv
<1>1. Init => RevocationInv
    <2> SUFFICES ASSUME Init PROVE RevocationInv
        OBVIOUS
    <2>1. \A c \in Callers : pc[c] = "idle"
        BY DEF Init
    <2>2. trail = {}
        BY DEF Init
    <2>3. QED
        BY <2>1, <2>2, ByTold DEF Told
<1>2. IInv /\ IInv' /\ RevocationInv /\ [Next]_vars => RevocationInv'
    <2> SUFFICES ASSUME IInv, IInv', RevocationInv, [Next]_vars PROVE RevocationInv'
        OBVIOUS
    <2>0. TypeOK'
        BY DEF IInv
    <2>1. \A c \in Callers : Told(c)'
        BY <2>0, ToldStep
    <2>2. \A x \in Targets : <<"revoked", x>> \in trail' => Reported(x)'
        BY <2>0, EventStep
    <2>3. QED
        BY <2>1, <2>2, Zenon DEF RevocationInv, LookInv, ToldInv, EventInv, Told, Reported
<1>3. QED
    BY Invariant, <1>1, <1>2, PTL DEF Spec

\* A caller who is told that a key is revoked, by a call whose last look at the
\* row did not fail, has a key of its tenant, and that is revoked.
THEOREM RevokeTellsTheTruth == Spec => []RevokeIsTruthfulWhenRead
<1>1. RevocationInv => RevokeIsTruthfulWhenRead
    BY DEF RevocationInv, ToldInv, RevokeIsTruthfulWhenRead
<1>2. QED
    BY Revocations, <1>1, PTL

\* The trail of a tenant reports no revocation of its keys that has not happened.
THEOREM TrailTellsTheTruth == Spec => []TrailIsTruthful
<1>1. IInv /\ RevocationInv => TrailIsTruthful
    <2> SUFFICES ASSUME IInv, RevocationInv, NEW i \in Issued,
                        <<"revoked", [tenant |-> key[i].tenant, id |-> i]>> \in trail
                 PROVE  revokedAt[i] # Never
        BY DEF TrailIsTruthful
    <2>1. [tenant |-> key[i].tenant, id |-> i] \in Targets
        BY DEF IInv, TypeOK, Issued, Keys, Targets
    <2>2. QED
        BY <2>1 DEF RevocationInv, EventInv
<1>2. QED
    BY Invariant, Revocations, <1>1, PTL

-----------------------------------------------------------------------------
(* ApiKey implements Credentials. *)

\* While no key is issued, the lifetime of a secret can only end.
LEMMA LifeStep ==
    ASSUME IInv, TypeOK', clock' >= clock, key' = key,
           \A i \in Ids : revokedAt[i] # Never => revokedAt'[i] # Never,
           NEW s \in Secrets
    PROVE  \/ Lifetime(s)' = Lifetime(s)
           \/ Lifetime(s) = "live" /\ Lifetime(s)' = "ended"
<1> DEFINE held == {i \in Issued : key[i].secret = s}
           good(i, t, r) == r[i] = Never /\ (key[i].expires = Never \/ t <= key[i].expires)
<1>1. Issued' = Issued
    BY DEF Issued
<1>2. Lifetime(s) = IF held = {} THEN "none"
                    ELSE IF \E i \in held : good(i, clock, revokedAt) THEN "live" ELSE "ended"
    BY DEF Lifetime
<1>3. Lifetime(s)' = IF held = {} THEN "none"
                     ELSE IF \E i \in held : good(i, clock', revokedAt') THEN "live" ELSE "ended"
    BY <1>1 DEF Lifetime
<1>4. ASSUME NEW i \in held, good(i, clock', revokedAt') PROVE good(i, clock, revokedAt)
    <2>1. i \in Ids /\ key[i] \in Keys
        BY DEF IInv, TypeOK, Issued
    <2>2. clock \in Nat /\ clock' \in Nat
        BY DEF IInv, TypeOK
    <2>3. QED
        BY <1>4, <2>1, <2>2 DEF Keys, Times
<1>5. QED
    BY <1>2, <1>3, <1>4

\* A secret is live exactly if some row makes Verify accept it.
LEMMA LiveRows ==
    ASSUME IInv, NEW s \in Secrets
    PROVE  Lifetime(s) = "live" <=>
            {i \in Issued : key[i].secret = s /\ revokedAt[i] = Never /\ ~Dead(i)} # {}
<1>1. \A i \in Issued :
        ~Dead(i) <=> key[i].expires = Never \/ clock <= key[i].expires
    <2>1. \A i \in Issued : key[i] \in Keys
        BY DEF IInv, TypeOK, Issued
    <2>2. QED
        BY <2>1 DEF Dead, Keys, Times, IInv, TypeOK
<1>2. QED
    BY <1>1 DEF Lifetime

St == [s \in Secrets |-> Lifetime(s)]
Ch == [c \in Callers |-> Checking(c)]
An == [c \in Callers |-> Answered(c)]

\* A step that issues nothing and that no checker can see ends some credentials.
LEMMA EndStep ==
    ASSUME IInv, TypeOK', clock' >= clock, key' = key,
           \A i \in Ids : revokedAt[i] # Never => revokedAt'[i] # Never,
           Ch' = Ch, An' = An
    PROVE  Registry!Next
<1> DEFINE ks == {s \in Secrets : Lifetime(s) = "live" /\ Lifetime(s)' = "ended"}
<1>1. ks \in SUBSET {k \in Secrets : St[k] = "live"}
    BY DEF St
<1>2. \A s \in Secrets : Lifetime(s)' = IF s \in ks THEN "ended" ELSE St[s]
    BY LifeStep DEF St
<1>3. St' = [k \in Secrets |-> IF k \in ks THEN "ended" ELSE St[k]]
    BY <1>2 DEF St
<1>4. Registry!End
    BY <1>1, <1>3 DEF Registry!End, St, Ch, An
<1>5. QED
    BY <1>4 DEF Registry!Next

\* Issue gives its secret a life, of any length.
LEMMA IssueStep ==
    ASSUME IInv, TypeOK', NEW i \in Ids, NEW t \in Tenants, NEW s \in Secrets,
           NEW ttl \in TTLs, Issue(i, t, s, ttl)
    PROVE  Registry!Next
<1> USE DEF IInv, TypeOK
<1>1. /\ key' = [key EXCEPT ![i] = key'[i]] /\ key'[i].secret = s /\ key'[i] # NoKey
      /\ UNCHANGED <<clock, revokedAt, callVars>>
    BY ConstantsOK DEF Issue, Keys, Times
<1>2. Issued' = Issued \union {i} /\ i \notin Issued
    BY <1>1 DEF Issue, Issued
<1>3. St[s] = "none"
    BY DEF Issue, St, Lifetime
<1>4. St'[s] \in {"live", "ended"}
    <2>1. i \in {j \in Issued' : key'[j].secret = s}
        BY <1>1, <1>2
    <2>2. Lifetime(s)' \in {"live", "ended"}
        BY <2>1 DEF Lifetime
    <2>3. QED
        BY <2>2 DEF St
<1>5. ASSUME NEW k \in Secrets, k # s PROVE St'[k] = St[k]
    <2>1. \A j \in Issued : key'[j] = key[j]
        BY <1>1, <1>2 DEF Issued
    <2>2. {j \in Issued' : key'[j].secret = k} = {j \in Issued : key[j].secret = k}
        BY <1>1, <1>2, <1>5, <2>1
    <2>3. Lifetime(k)' = Lifetime(k)
        BY <1>1, <2>1, <2>2 DEF Lifetime
    <2>4. QED
        BY <2>3 DEF St
<1>6. St' = [St EXCEPT ![s] = St'[s]]
    BY <1>5 DEF St
<1>7. Ch' = Ch /\ An' = An
    BY <1>1 DEF Ch, An, Checking, Answered, callVars
<1>8. Registry!Issue(s)
    BY <1>3, <1>4, <1>6, <1>7 DEF Registry!Issue, St, Ch, An
<1>9. QED
    BY <1>8 DEF Registry!Next

\* The registry sees no difference in the callers that stay where they are.
LEMMA OthersStill ==
    ASSUME NEW c \in Callers, \A q \in Callers \ {c} : Still(q)
    PROVE  /\ Ch' = [Ch EXCEPT ![c] = Checking(c)']
           /\ An' = [An EXCEPT ![c] = Answered(c)']
<1>1. \A q \in Callers \ {c} : Checking(q)' = Checking(q) /\ Answered(q)' = Answered(q)
    BY DEF Still, Checking, Answered
<1>2. QED
    BY <1>1 DEF Ch, An

\* Lifetimes depend on the clock and the table only.
LEMMA TableStill ==
    ASSUME UNCHANGED <<clock, key, revokedAt>>
    PROVE  St' = St
BY DEF St, Lifetime, Issued

\* What each step of a call is to the registry.
LEMMA LookupAsks ==
    ASSUME IInv, [Next]_vars, TypeOK', NEW c \in Callers, NEW s \in Secrets, Lookup(c, s),
           \A q \in Callers \ {c} : Still(q)
    PROVE  Registry!Next
<1> USE DEF IInv, TypeOK, Start
<1>1. St' = St
    BY TableStill DEF Lookup, tableVars
<1>2. Ch[c] = Registry!NoCheck
    BY DEF Lookup, Ch, Checking, Registry!NoCheck
<1>3. live'[c] = {i \in Issued : key[i].secret = s /\ revokedAt[i] = Never /\ ~Dead(i)}
    BY DEF Lookup, Dead
<1>4. live'[c] # {} <=> St[s] = "live"
    BY <1>3, LiveRows DEF St
<1>5. Checking(c)' = [of |-> {s}, live |-> St[s] = "live"]
    BY <1>4 DEF Lookup, Checking
<1>6. Answered(c)' = "none"
    BY DEF Lookup, Answered
<1>7. Registry!Ask(c, s)
    BY <1>1, <1>2, <1>5, <1>6, OthersStill DEF Registry!Ask, St, Ch, An
<1>8. QED
    BY <1>7 DEF Registry!Next

LEMMA OtherCallLeaves ==
    ASSUME IInv, TypeOK', NEW c \in Callers,
           LookupFails(c) \/ \E t \in Tenants, i \in Ids : Revoke(c, t, i),
           \A q \in Callers \ {c} : Still(q)
    PROVE  Registry!Next
<1> USE DEF IInv, TypeOK, Start, Answer
<1>1. St' = St
    BY TableStill DEF LookupFails, Revoke, tableVars
<1>2. Ch[c] = Registry!NoCheck /\ Checking(c)' = Registry!NoCheck /\ Answered(c)' = "none"
    BY DEF LookupFails, Revoke, Ch, Checking, Answered, Registry!NoCheck
<1>3. Registry!Leave(c)
    BY <1>1, <1>2, OthersStill DEF Registry!Leave, St, Ch, An
<1>4. QED
    BY <1>3 DEF Registry!Next

\* The answer of a check, for one of the two truths it may tell.
LEMMA ReplyIs ==
    ASSUME NEW c \in Callers, \A q \in Callers \ {c} : Still(q), St' = St,
           presented[c] \in Ch[c].of, Checking(c)' = Registry!NoCheck,
           \/ /\ TRUE \in {Ch[c].live, St[presented[c]] = "live"}
              /\ Answered(c)' = "yes"
           \/ /\ FALSE \in {Ch[c].live, St[presented[c]] = "live"}
              /\ Answered(c)' = "no"
    PROVE  Registry!Reply(c)
<1>1. Ch' = [Ch EXCEPT ![c] = Registry!NoCheck]
    BY OthersStill
<1>2. An' = [An EXCEPT ![c] = Answered(c)']
    BY OthersStill
<1>3. \E y \in {Ch[c].live, St[presented[c]] = "live"} :
        Answered(c)' = IF y THEN "yes" ELSE "no"
    BY Zenon
<1>4. \E k \in Ch[c].of : \E y \in {Ch[c].live, St[k] = "live"} :
        An' = [An EXCEPT ![c] = IF y THEN "yes" ELSE "no"]
    BY <1>2, <1>3, Zenon
<1>5. QED
    BY <1>1, <1>4, Zenon DEF Registry!Reply, St, Ch, An

\* A refusal tells what was true when the table was read, or is true now.
LEMMA RefusalReplies ==
    ASSUME IInv, [Next]_vars, TypeOK', NEW c \in Callers, Decide(c), pc'[c] = "verified",
           \A q \in Callers \ {c} : Still(q)
    PROVE  Registry!Next
<1> USE DEF IInv, TypeOK
<1>1. St' = St
    BY TableStill DEF Decide, tableVars
<1>2. Checking(c)' = Registry!NoCheck /\ Answered(c)' = "no"
    BY DecideStep DEF Checking, Answered, Registry!NoCheck
<1>3. presented[c] \in Ch[c].of /\ Ch[c].live = (live[c] # {})
    BY DEF Decide, Ch, Checking
<1>4. live[c] = {} \/ St[presented[c]] # "live"
    <2>1. \A i \in live[c] : Dead(i) /\ i \in Issued /\ key[i].secret = presented[c]
        BY DecideStep DEF LiveInv
    <2>2. ASSUME NEW i \in live[c]
          PROVE  {j \in Issued : key[j].secret = presented[c] /\ revokedAt[j] = Never /\ ~Dead(j)} = {}
        BY <2>1, Zenon DEF SecretsAreUnique
    <2>3. presented[c] \in Secrets
        OBVIOUS
    <2>4. QED
        BY <2>2, <2>3, LiveRows DEF St
<1>5. FALSE \in {Ch[c].live, St[presented[c]] = "live"}
    <2>1. CASE live[c] = {}
        BY <1>3, <2>1, Zenon
    <2>2. CASE St[presented[c]] # "live"
        BY <2>2, Zenon
    <2>3. QED
        BY <1>4, <2>1, <2>2
<1>6. Registry!Reply(c)
    BY <1>1, <1>2, <1>3, <1>5, ReplyIs, Zenon
<1>7. QED
    BY <1>6 DEF Registry!Next

\* An acceptance tells what was true when the table was read.
LEMMA AcceptanceReplies ==
    ASSUME IInv, TypeOK', NEW c \in Callers, Touch(c), \A q \in Callers \ {c} : Still(q)
    PROVE  Registry!Next
<1> USE DEF IInv, TypeOK
<1>1. St' = St
    BY TableStill DEF Touch
<1>2. Checking(c)' = Registry!NoCheck /\ Answered(c)' = "yes"
    BY DEF Touch, Answer, Checking, Answered, Registry!NoCheck
<1>3. presented[c] \in Ch[c].of /\ Ch[c].live = TRUE
    BY DEF Touch, TouchInv, Ch, Checking
<1>4. TRUE \in {Ch[c].live, St[presented[c]] = "live"}
    BY <1>3, Zenon
<1>5. Registry!Reply(c)
    BY <1>1, <1>2, <1>3, <1>4, ReplyIs, Zenon
<1>6. QED
    BY <1>5 DEF Registry!Next

\* A step that leaves alone what the registry sees of c.
LEMMA Unseen ==
    ASSUME IInv, TypeOK', NEW c \in Callers, \A q \in Callers \ {c} : Still(q),
           Checking(c)' = Checking(c), Answered(c)' = Answered(c),
           clock' = clock, key' = key,
           \A i \in Ids : revokedAt[i] # Never => revokedAt'[i] # Never
    PROVE  Registry!Next
<1>1. Ch' = Ch /\ An' = An
    BY OthersStill DEF Ch, An
<1>2. clock' >= clock
    BY DEF IInv, TypeOK
<1>3. QED
    BY <1>1, <1>2, EndStep

\* Every step is a step of the registry, or nothing to it.
LEMMA RegistryStep ==
    ASSUME IInv, [Next]_vars, TypeOK'
    PROVE  [Registry!Next]_(Registry!vars)
<1> USE DEF IInv, TypeOK
<1>1. CASE Tick
    <2>1. Ch' = Ch /\ An' = An
        BY <1>1 DEF Tick, Ch, An, Checking, Answered, callVars
    <2>2. QED
        BY <1>1, <2>1, EndStep DEF Tick, tableVars
<1>2. ASSUME NEW i \in Ids, NEW t \in Tenants, NEW s \in Secrets, NEW ttl \in TTLs,
             Issue(i, t, s, ttl)
      PROVE  Registry!Next
    BY <1>2, IssueStep
<1>3. CASE UNCHANGED vars
    <2>1. St' = St
        BY <1>3, TableStill DEF vars, tableVars
    <2>2. Ch' = Ch /\ An' = An
        BY <1>3 DEF vars, callVars, Ch, An, Checking, Answered
    <2>3. QED
        BY <2>1, <2>2 DEF Registry!vars, St, Ch, An
<1>4. ASSUME NEW c \in Callers, Verify(c) \/ RevokeStep(c) PROVE Registry!Next
    <2>0. \A q \in Callers \ {c} : Still(q)
        BY <1>4, OnlyOneActs
    <2>1. ASSUME NEW s \in Secrets, Lookup(c, s) PROVE Registry!Next
        BY <2>0, <2>1, LookupAsks
    <2>2. CASE LookupFails(c)
        BY <2>0, <2>2, OtherCallLeaves
    <2>3. CASE Decide(c)
        <3>1. CASE pc'[c] = "verified"
            BY <2>0, <2>3, <3>1, RefusalReplies
        <3>2. CASE pc'[c] = "touch"
            <4>1. Checking(c)' = Checking(c) /\ Answered(c)' = Answered(c)
                BY <2>3, <3>2 DEF Decide, Checking, Answered
            <4>2. QED
                BY <2>0, <2>3, <4>1, Unseen DEF Decide, tableVars
        <3>3. QED
            BY <2>3, <3>1, <3>2, DecideStep
    <2>4. CASE Touch(c)
        BY <2>0, <2>4, AcceptanceReplies
    <2>5. ASSUME NEW t \in Tenants, NEW i \in Ids, Revoke(c, t, i) PROVE Registry!Next
        BY <2>0, <2>5, OtherCallLeaves
    <2>6. CASE RevokeUpdate(c)
        <3>1. Checking(c)' = Checking(c) /\ Answered(c)' = Answered(c)
            BY <2>6 DEF RevokeUpdate, Answer, Checking, Answered
        <3>2. \A i \in Ids : revokedAt[i] # Never => revokedAt'[i] # Never
            BY <2>6 DEF RevokeUpdate
        <3>3. QED
            BY <2>0, <2>6, <3>1, <3>2, Unseen DEF RevokeUpdate
    <2>7. CASE RevokeGet(c)
        <3>1. Checking(c)' = Checking(c) /\ Answered(c)' = Answered(c)
            BY <2>7 DEF RevokeGet, Answer, Checking, Answered
        <3>2. QED
            BY <2>0, <2>7, <3>1, Unseen DEF RevokeGet, tableVars
    <2>8. CASE RevokeUpdateFails(c)
        <3>1. Checking(c)' = Checking(c) /\ Answered(c)' = Answered(c)
            BY <2>8 DEF RevokeUpdateFails, Answer, Checking, Answered
        <3>2. \A i \in Ids : revokedAt[i] # Never => revokedAt'[i] # Never
            BY <2>8 DEF RevokeUpdateFails
        <3>3. QED
            BY <2>0, <2>8, <3>1, <3>2, Unseen DEF RevokeUpdateFails
    <2>9. CASE RevokeGetFails(c)
        <3>1. Checking(c)' = Checking(c) /\ Answered(c)' = Answered(c)
            BY <2>9 DEF RevokeGetFails, Answer, Checking, Answered
        <3>2. QED
            BY <2>0, <2>9, <3>1, Unseen DEF RevokeGetFails, tableVars
    <2>10. QED
        BY <1>4, <2>1, <2>2, <2>3, <2>4, <2>5, <2>6, <2>7, <2>8, <2>9 DEF Verify, RevokeStep
<1>5. QED
    BY <1>1, <1>2, <1>3, <1>4 DEF Next

\* The module is a registry of credentials: a secret is issued once and has one
\* life, and Verify answers what was true when it read the table or is true now.
THEOREM Refinement == Spec => ImplementsCredentials
<1>1. Init => Registry!Init
    <2> SUFFICES ASSUME Init PROVE Registry!Init
        OBVIOUS
    <2>1. Issued = {}
        BY DEF Init, Issued
    <2>2. \A s \in Secrets : Lifetime(s) = "none"
        BY <2>1 DEF Lifetime
    <2>3. \A c \in Callers : Checking(c) = Registry!NoCheck /\ Answered(c) = "none"
        BY DEF Init, Checking, Answered, Registry!NoCheck
    <2>4. QED
        BY <2>2, <2>3 DEF Registry!Init
<1>2. IInv /\ IInv' /\ [Next]_vars => [Registry!Next]_(Registry!vars)
    BY RegistryStep DEF IInv
<1>3. QED
    BY Invariant, <1>1, <1>2, PTL DEF Spec, ImplementsCredentials, Registry!Spec

=============================================================================
