-------------------------- MODULE NotificationProofs --------------------------
(***************************************************************************)
(* Proofs about Notification and the AuditLog it is composed with, for     *)
(* every number of calls, users, channels and readers: the inductive       *)
(* invariant IInv, and what it says of deliveries and of walks through the *)
(* trail. The first section is about pages of any sorted rows.             *)
(***************************************************************************)
EXTENDS Notification, FiniteSetTheorems, TLAPS

-----------------------------------------------------------------------------
(* Pages                                                                    *)

\* The rows of S have the positions pos, which are the first numbers.
Numbered(S, pos) ==
    /\ IsFiniteSet(S)
    /\ pos \in [S -> 0 .. Cardinality(S) - 1]
    /\ \A x, y \in S : x # y => pos[x] # pos[y]

\* The trail's module has names of its own for what it takes from FiniteSets.
LEMMA FiniteSetsOfAudit ==
    \A S : Audit!IsFiniteSet(S) = IsFiniteSet(S) /\ Audit!Cardinality(S) = Cardinality(S)
<1>1. \A S : Audit!IsFiniteSet(S) = IsFiniteSet(S)
    BY DEF Audit!IsFiniteSet, IsFiniteSet
<1>2. \A S : Audit!Cardinality(S) = Cardinality(S)
    BY DEF Audit!Cardinality, Cardinality
<1>3. QED
    BY <1>1, <1>2

LEMMA OrdersNumber ==
    ASSUME NEW S, IsFiniteSet(S), NEW key, NEW pos \in Audit!Orders(S, key)
    PROVE  /\ Numbered(S, pos)
           /\ \A x, y \in S : key[x] < key[y] => pos[x] < pos[y]
BY FiniteSetsOfAudit DEF Audit!Orders, Numbered

LEMMA LimitedType ==
    ASSUME NEW limit \in Nat
    PROVE  Audit!Limited(limit) \in Nat \ {0}
BY ConstantsOK DEF Audit!Limited

\* No position is left out.
LEMMA PositionIsTaken ==
    ASSUME NEW S, NEW pos, Numbered(S, pos), NEW k \in Nat, k < Cardinality(S)
    PROVE  \E x \in S : pos[x] = k
<1> DEFINE n == Cardinality(S)
<1>1. IsFiniteSet(S) /\ n \in Nat
    BY FS_CardinalityType DEF Numbered
<1>2. IsFiniteSet(0 .. n - 1) /\ Cardinality(0 .. n - 1) = n
    <2>1. 0 \in Int /\ n - 1 \in Int /\ ~(0 > n - 1) /\ (n - 1) - 0 + 1 = n
        BY <1>1
    <2>2. QED
        BY <2>1, FS_Interval
<1>3. pos \in Injection(S, 0 .. n - 1)
    BY DEF Numbered, Injection, IsInjective
<1>4. pos \in Surjection(S, 0 .. n - 1)
    BY <1>2, <1>3, FS_Injection
<1>5. k \in 0 .. n - 1
    BY <1>1
<1>6. QED
    BY <1>4, <1>5 DEF Surjection

\* So as many rows stand before a position as it says.
LEMMA RowsBefore ==
    ASSUME NEW S, NEW pos, Numbered(S, pos), NEW k \in Nat, k <= Cardinality(S)
    PROVE  LET q == {x \in S : pos[x] < k}
           IN  IsFiniteSet(q) /\ Cardinality(q) = k
<1> DEFINE q == {x \in S : pos[x] < k}
           f == [x \in q |-> pos[x]]
<1>1. Cardinality(S) \in Nat /\ \A x \in S : pos[x] \in Nat
    BY FS_CardinalityType DEF Numbered
<1>2. IsFiniteSet(0 .. k - 1) /\ Cardinality(0 .. k - 1) = k
    <2>1. 0 \in Int /\ k - 1 \in Int /\ (0 > k - 1 <=> k = 0) /\ (k - 1) - 0 + 1 = k
        OBVIOUS
    <2>2. QED
        BY <2>1, FS_Interval
<1>3. f \in Injection(q, 0 .. k - 1)
    <2>1. f \in [q -> 0 .. k - 1]
        BY <1>1
    <2>2. \A x, y \in q : f[x] = f[y] => x = y
        BY DEF Numbered
    <2>3. QED
        BY <2>1, <2>2 DEF Injection, IsInjective
<1>4. \A j \in 0 .. k - 1 : \E x \in q : f[x] = j
    <2>1. ASSUME NEW j \in 0 .. k - 1 PROVE \E x \in q : f[x] = j
        <3>1. j \in Nat /\ j < k /\ j < Cardinality(S)
            BY <1>1
        <3>2. PICK x \in S : pos[x] = j
            BY <3>1, PositionIsTaken
        <3>3. QED
            BY <3>1, <3>2
    <2>2. QED
        BY <2>1
<1>5. f \in Surjection(q, 0 .. k - 1)
    BY <1>3, <1>4 DEF Injection, Surjection
<1>6. IsFiniteSet(q) /\ Cardinality(q) = Cardinality(0 .. k - 1)
    BY <1>2, <1>3, <1>5, FS_Injection
<1>7. QED
    BY <1>2, <1>6

\* When at least as many rows as the offset have keys below t, and some row has t, then
\* a page on which no row has t is not empty, and is full of rows with keys below t.
LEMMA PageStaysBelow ==
    ASSUME NEW S, IsFiniteSet(S), NEW key, \A x \in S : key[x] \in Nat,
           NEW pos \in Audit!Orders(S, key),
           NEW limit \in Nat, NEW offset \in Nat,
           NEW e \in S,
           offset <= Cardinality({x \in S : key[x] < key[e]}),
           \A x \in Audit!Page(pos, limit, offset) : key[x] # key[e]
    PROVE  LET p == Audit!Page(pos, limit, offset)
           IN  /\ p # {}
               /\ Cardinality({x \in S : key[x] < key[e]}) >= offset + Cardinality(p)
<1> DEFINE p == Audit!Page(pos, limit, offset)
           B == {x \in S : key[x] < key[e]}
           q == {x \in S : pos[x] < offset}
           L == Audit!Limited(limit)
<1>1. Numbered(S, pos) /\ \A x, y \in S : key[x] < key[y] => pos[x] < pos[y]
    BY OrdersNumber
<1>2. Cardinality(S) \in Nat /\ \A x \in S : pos[x] \in Nat
    BY <1>1, FS_CardinalityType DEF Numbered
<1>3. L \in Nat \ {0}
    BY LimitedType
<1>4. p = {x \in S : offset <= pos[x] /\ pos[x] < offset + L}
    <2> HIDE DEF L
    <2>1. DOMAIN pos = S /\ p = {x \in S : pos[x] \in offset .. offset + L - 1}
        BY <1>1 DEF Numbered, Audit!Page, L
    <2>2. QED
        BY <1>2, <1>3, <2>1
<1>5. IsFiniteSet(B) /\ Cardinality(B) \in Nat /\ Cardinality(B) < Cardinality(S)
    <2>1. B \in SUBSET (S \ {e})
        OBVIOUS
    <2>2. IsFiniteSet(S \ {e}) /\ Cardinality(S \ {e}) = Cardinality(S) - 1
        BY FS_RemoveElement
    <2>3. IsFiniteSet(B) /\ Cardinality(B) <= Cardinality(S \ {e})
        BY <2>1, <2>2, FS_Subset
    <2>4. Cardinality(B) \in Nat
        BY <2>3, FS_CardinalityType
    <2> HIDE DEF B
    <2>5. QED
        BY <1>2, <2>2, <2>3, <2>4
<1>6. PICK y \in S : pos[y] = offset
    <2>1. offset < Cardinality(S)
        <3> HIDE DEF B
        <3>1. offset <= Cardinality(B)
            BY DEF B
        <3>2. QED
            BY <1>2, <1>5, <3>1
    <2>2. QED
        BY <1>1, <2>1, PositionIsTaken
<1> HIDE DEF L, p
<1>7. y \in p
    BY <1>3, <1>4, <1>6
<1>8. ASSUME NEW x \in p PROVE x \in B
    <2>1. SUFFICES ASSUME key[x] > key[e] PROVE FALSE
        BY <1>4 DEF p
    <2>2. pos[e] < pos[x]
        BY <1>1, <1>4, <2>1
    <2>3. pos[e] < offset
        <3>1. e \notin p
            BY DEF p
        <3>2. pos[e] < offset + L
            BY <1>2, <1>3, <1>4, <2>2
        <3>3. QED
            BY <1>2, <1>4, <3>1, <3>2
    <2>4. B \in SUBSET {z \in S : pos[z] < pos[e]}
        BY <1>1
    <2>5. IsFiniteSet({z \in S : pos[z] < pos[e]}) /\ Cardinality({z \in S : pos[z] < pos[e]}) = pos[e]
        <3>1. pos[e] \in Nat /\ pos[e] <= Cardinality(S)
            BY <1>1, <1>2 DEF Numbered
        <3>2. QED
            BY <1>1, <3>1, RowsBefore
    <2>6. Cardinality(B) <= pos[e]
        BY <2>4, <2>5, FS_Subset
    <2>7. offset <= Cardinality(B)
        OBVIOUS
    <2> HIDE DEF B
    <2>8. QED
        BY <1>2, <1>5, <2>3, <2>6, <2>7
<1>9. q \subseteq B
    <2>1. ASSUME NEW x \in S, pos[x] < offset PROVE key[x] < key[e]
        <3>1. ~(key[y] < key[x])
            BY <1>1, <1>2, <1>6, <2>1
        <3>2. key[y] < key[e]
            BY <1>7, <1>8
        <3>3. QED
            BY <3>1, <3>2
    <2>2. QED
        BY <2>1
<1>10. IsFiniteSet(q) /\ Cardinality(q) = offset
    <2>1. offset <= Cardinality(S)
        BY <1>1, <1>2, <1>6 DEF Numbered
    <2>2. QED
        BY <1>1, <2>1, RowsBefore
<1>11. q \intersect p = {}
    BY <1>2, <1>4
<1> HIDE DEF B, q
<1>12. IsFiniteSet(p) /\ Cardinality(p) \in Nat
    <2>1. p \in SUBSET B
        BY <1>8
    <2>2. IsFiniteSet(p)
        BY <1>5, <2>1, FS_Subset
    <2>3. QED
        BY <2>2, FS_CardinalityType
<1>13. Cardinality(q \union p) = offset + Cardinality(p)
    <2>1. Cardinality(q \union p) = Cardinality(q) + Cardinality(p) - Cardinality(q \intersect p)
        BY <1>10, <1>12, FS_Union
    <2>2. Cardinality(q \intersect p) = 0
        BY <1>11, FS_EmptySet
    <2>3. QED
        BY <1>10, <1>12, <2>1, <2>2
<1>14. Cardinality(q \union p) <= Cardinality(B)
    <2>1. q \union p \in SUBSET B
        BY <1>8, <1>9
    <2>2. QED
        BY <1>5, <2>1, FS_Subset
<1>15. Cardinality(B) >= offset + Cardinality(p)
    BY <1>5, <1>12, <1>13, <1>14
<1>16. QED
    BY <1>7, <1>15 DEF B, p

-----------------------------------------------------------------------------
(* The trail                                                                *)

\* The type of a walk.
WalkType ==
    [ filter : Audit!Filters, limit : Limits, offset : Nat, done : BOOLEAN,
      due : SUBSET log, seen : SUBSET log ]

TrailInv == Audit!TypeOK /\ Audit!LogInv /\ Audit!WalkInv

\* What WalkInv says of one walk.
MissesNothing(w) ==
    /\ w.due \union w.seen \subseteq Audit!Matching(w.filter)
    /\ \A e \in w.due :
        \/ \E f \in w.seen : f.at = e.at
        \/ /\ ~w.done
           /\ Cardinality(Audit!Below(w.filter, e.at)) >= w.offset

LEMMA ByWalk ==
    Audit!WalkInv <=> \A r \in Readers : walk[r] # NoWalk => MissesNothing(walk[r])
BY Zenon, FiniteSetsOfAudit DEF Audit!WalkInv, MissesNothing

LEMMA ByWalkNext ==
    ASSUME \A r \in Readers : walk'[r] # NoWalk => MissesNothing(walk[r])'
    PROVE  Audit!WalkInv'
BY Zenon, FiniteSetsOfAudit DEF Audit!WalkInv, MissesNothing

LEMMA LogIs == Audit!LogInv <=> IsFiniteSet(log)
BY Zenon, FiniteSetsOfAudit DEF Audit!LogInv

LEMMA LogIsNext == Audit!LogInv' <=> IsFiniteSet(log')
BY Zenon, FiniteSetsOfAudit DEF Audit!LogInv

\* While the trail grows, what stands before an instant gets more.
LEMMA BelowRises ==
    ASSUME IsFiniteSet(log), IsFiniteSet(log'), log \subseteq log', NEW f, NEW t
    PROVE  /\ Audit!Matching(f) \subseteq Audit!Matching(f)'
           /\ Cardinality(Audit!Below(f, t)) \in Nat
           /\ Cardinality(Audit!Below(f, t)') \in Nat
           /\ Cardinality(Audit!Below(f, t)) <= Cardinality(Audit!Below(f, t)')
<1>1. Audit!Matching(f) \subseteq Audit!Matching(f)'
    BY DEF Audit!Matching
<1>2. Audit!Below(f, t) \in SUBSET Audit!Below(f, t)'
    BY <1>1 DEF Audit!Below
<1>3. Audit!Below(f, t) \in SUBSET log /\ Audit!Below(f, t)' \in SUBSET log'
    BY DEF Audit!Below, Audit!Matching
<1>4. IsFiniteSet(Audit!Below(f, t)) /\ IsFiniteSet(Audit!Below(f, t)')
    BY <1>3, FS_Subset
<1>5. QED
    BY <1>1, <1>2, <1>4, FS_Subset, FS_CardinalityType

LEMMA TrailTypes ==
    Audit!TypeOK <=>
        /\ clock \in Nat
        /\ log \subseteq Audit!Events
        /\ draft \in [Dispatches -> [tenant : Tenants, at : Nat] \union {NoDraft}]
        /\ walk \in [Readers -> WalkType \union {NoWalk}]
BY Zenon DEF Audit!TypeOK, WalkType

LEMMA TrailTypesNext ==
    Audit!TypeOK' <=>
        /\ clock' \in Nat
        /\ log' \subseteq Audit!Events
        /\ draft' \in [Dispatches -> [tenant : Tenants, at : Nat] \union {NoDraft}]
        /\ walk' \in [Readers -> WalkType' \union {NoWalk}]
BY Zenon DEF Audit!TypeOK, WalkType

\* Walks stay right while the trail grows.
LEMMA WalksStand ==
    ASSUME TrailInv, log' \subseteq Audit!Events, Audit!LogInv', log \subseteq log'
    PROVE  /\ WalkType \subseteq WalkType'
           /\ \A w \in WalkType : MissesNothing(w) => MissesNothing(w)'
<1>1. WalkType \subseteq WalkType'
    BY DEF WalkType
<1>2. IsFiniteSet(log) /\ IsFiniteSet(log')
    BY LogIs, LogIsNext DEF TrailInv
<1>3. ASSUME NEW w \in WalkType, MissesNothing(w)
      PROVE  MissesNothing(w)'
    <2>1. w.due \union w.seen \subseteq Audit!Matching(w.filter)'
        BY <1>2, <1>3, BelowRises DEF MissesNothing
    <2>2. ASSUME NEW e \in w.due
          PROVE  \/ \E f \in w.seen : f.at = e.at
                 \/ /\ ~w.done
                    /\ Cardinality(Audit!Below(w.filter, e.at)') >= w.offset
        <3>1. \/ \E f \in w.seen : f.at = e.at
              \/ ~w.done /\ Cardinality(Audit!Below(w.filter, e.at)) >= w.offset
            BY <1>3 DEF MissesNothing
        <3>2. w.offset \in Nat
            BY DEF WalkType
        <3>3. QED
            BY <1>2, <3>1, <3>2, BelowRises
    <2>3. QED
        BY Zenon, <2>1, <2>2 DEF MissesNothing
<1>4. QED
    BY <1>1, <1>3

LEMMA WalksStandAll ==
    ASSUME TrailInv, log' \subseteq Audit!Events, Audit!LogInv', log \subseteq log',
           UNCHANGED walk
    PROVE  walk' \in [Readers -> WalkType' \union {NoWalk}] /\ Audit!WalkInv'
<1>1. walk \in [Readers -> WalkType \union {NoWalk}]
    BY TrailTypes DEF TrailInv
<1>2. walk \in [Readers -> WalkType' \union {NoWalk}]
    BY <1>1, WalksStand
<1>3. \A r \in Readers : walk[r] # NoWalk => MissesNothing(walk[r])'
    BY <1>1, WalksStand, ByWalk DEF TrailInv
<1>4. walk' = walk
    OBVIOUS
<1>5. \A r \in Readers : walk'[r] # NoWalk => MissesNothing(walk[r])'
    BY Zenon, <1>3, <1>4
<1>6. QED
    BY <1>2, <1>4, <1>5, ByWalkNext

\* The trail grows by one event.
LEMMA AppendedLog ==
    ASSUME TrailInv, NEW d \in Dispatches, draft[d] # NoDraft, log' = Audit!Appended(d)
    PROVE  log' \subseteq Audit!Events /\ Audit!LogInv' /\ log \subseteq log'
<1> DEFINE n == Cardinality(log) + 1
           e == [n |-> n, tenant |-> draft[d].tenant, at |-> draft[d].at]
<1>1. log' = log \union {e}
    BY Zenon, FiniteSetsOfAudit DEF Audit!Appended
<1>2. IsFiniteSet(log) /\ Cardinality(log) \in Nat
    BY LogIs, FS_CardinalityType DEF TrailInv
<1>3. e \in Audit!Events
    BY <1>2, TrailTypes DEF TrailInv, Audit!Events
<1> HIDE DEF e
<1>4. IsFiniteSet(log')
    BY <1>1, <1>2, FS_AddElement
<1>5. log' \subseteq Audit!Events
    BY <1>1, <1>3, TrailTypes DEF TrailInv
<1>6. QED
    BY <1>1, <1>4, <1>5, LogIsNext

LEMMA TrailInit == Audit!Init => TrailInv
<1> SUFFICES ASSUME Audit!Init PROVE TrailInv
    OBVIOUS
<1> USE DEF Audit!Init
<1>1. Audit!TypeOK
    BY TrailTypes
<1>2. Audit!LogInv
    BY LogIs, FS_EmptySet
<1>3. Audit!WalkInv
    BY DEF Audit!WalkInv
<1>4. QED
    BY <1>1, <1>2, <1>3 DEF TrailInv

LEMMA TrailTicks ==
    ASSUME TrailInv, Audit!Tick
    PROVE  TrailInv'
<1>1. clock' = clock + 1 /\ UNCHANGED <<log, draft, walk>>
    BY DEF Audit!Tick
<1>2. Audit!LogInv'
    BY <1>1, LogIs, LogIsNext DEF TrailInv
<1>3. Audit!TypeOK' /\ Audit!WalkInv'
    BY <1>1, <1>2, WalksStandAll, TrailTypes, TrailTypesNext DEF TrailInv
<1>4. QED
    BY <1>2, <1>3 DEF TrailInv

LEMMA TrailStamps ==
    ASSUME TrailInv, NEW d \in Dispatches, NEW t \in Tenants, Audit!Stamp(d, t)
    PROVE  TrailInv'
<1>1. /\ draft' = [draft EXCEPT ![d] = [tenant |-> t, at |-> clock]]
      /\ UNCHANGED <<clock, log, walk>>
    BY DEF Audit!Stamp
<1>2. Audit!LogInv'
    BY <1>1, LogIs, LogIsNext DEF TrailInv
<1>3. draft' \in [Dispatches -> [tenant : Tenants, at : Nat] \union {NoDraft}]
    BY <1>1, TrailTypes DEF TrailInv
<1>4. Audit!TypeOK' /\ Audit!WalkInv'
    BY <1>1, <1>2, <1>3, WalksStandAll, TrailTypes, TrailTypesNext DEF TrailInv
<1>5. QED
    BY <1>2, <1>4 DEF TrailInv

LEMMA TrailAppends ==
    ASSUME TrailInv, NEW d \in Dispatches, Audit!Append(d) \/ Audit!AppendFails(d)
    PROVE  TrailInv'
<1>1. /\ draft[d] # NoDraft
      /\ draft' = [draft EXCEPT ![d] = NoDraft]
      /\ UNCHANGED <<clock, walk>>
      /\ log' = log \/ log' = Audit!Appended(d)
    BY Zenon DEF Audit!Append, Audit!AppendFails
<1>2. log' \subseteq Audit!Events /\ Audit!LogInv' /\ log \subseteq log'
    <2>1. CASE log' = log
        BY <2>1, LogIs, LogIsNext, TrailTypes DEF TrailInv
    <2>2. CASE log' = Audit!Appended(d)
        BY <1>1, <2>2, AppendedLog
    <2>3. QED
        BY <1>1, <2>1, <2>2
<1>3. draft' \in [Dispatches -> [tenant : Tenants, at : Nat] \union {NoDraft}]
    BY <1>1, TrailTypes DEF TrailInv
<1>4. Audit!TypeOK' /\ Audit!WalkInv'
    BY <1>1, <1>2, <1>3, WalksStandAll, TrailTypes, TrailTypesNext DEF TrailInv
<1>5. QED
    BY <1>2, <1>4 DEF TrailInv

\* One reader moves, to the walk w.
LEMMA OneWalks ==
    ASSUME TrailInv, UNCHANGED <<clock, log, draft>>, NEW r \in Readers, NEW w \in WalkType,
           walk' = [walk EXCEPT ![r] = w], MissesNothing(w)
    PROVE  TrailInv'
<1>1. Audit!LogInv'
    BY LogIs, LogIsNext DEF TrailInv
<1>2. walk \in [Readers -> WalkType \union {NoWalk}]
    BY TrailTypes DEF TrailInv
<1>3. log' \subseteq Audit!Events /\ log \subseteq log'
    BY TrailTypes DEF TrailInv
<1>4. WalkType \subseteq WalkType' /\ \A v \in WalkType : MissesNothing(v) => MissesNothing(v)'
    BY <1>1, <1>3, WalksStand
<1>5. walk' \in [Readers -> WalkType' \union {NoWalk}]
    BY <1>2, <1>4
<1>6. PICK next : next = walk'
    OBVIOUS
<1>7. \A q \in Readers : next[q] # NoWalk => next[q] \in WalkType /\ MissesNothing(next[q])
    BY <1>2, <1>6, ByWalk DEF TrailInv
<1>8. \A q \in Readers : next[q] # NoWalk => MissesNothing(next[q])'
    BY <1>4, <1>7
<1>9. \A q \in Readers : walk'[q] # NoWalk => MissesNothing(walk[q])'
    BY Zenon, <1>6, <1>8
<1>10. Audit!WalkInv' /\ Audit!TypeOK'
    BY <1>3, <1>5, <1>9, ByWalkNext, TrailTypes, TrailTypesNext DEF TrailInv
<1>11. QED
    BY <1>1, <1>10 DEF TrailInv

LEMMA TrailBegins ==
    ASSUME TrailInv, NEW r \in Readers, NEW f \in Audit!Filters, NEW l \in Limits,
           Audit!Begin(r, f, l)
    PROVE  TrailInv'
<1> DEFINE w == [filter |-> f, limit |-> l, offset |-> 0, done |-> FALSE,
                 due |-> Audit!Matching(f), seen |-> {}]
<1>1. walk' = [walk EXCEPT ![r] = w] /\ UNCHANGED <<clock, log, draft>>
    BY DEF Audit!Begin
<1>2. w \in WalkType
    BY DEF WalkType, Audit!Matching
<1>3. MissesNothing(w)
    <2>1. \A e \in Audit!Matching(f) : Cardinality(Audit!Below(f, e.at)) >= 0
        <3>1. ASSUME NEW e \in Audit!Matching(f)
              PROVE  Cardinality(Audit!Below(f, e.at)) \in Nat
            <4>1. Audit!Below(f, e.at) \in SUBSET log
                BY DEF Audit!Below, Audit!Matching
            <4>2. QED
                BY <4>1, FS_Subset, FS_CardinalityType, LogIs DEF TrailInv
        <3>2. QED
            BY <3>1
    <2>2. QED
        BY <2>1 DEF MissesNothing
<1>4. QED
    BY <1>1, <1>2, <1>3, OneWalks

\* A page that shows nothing of an instant which the reader has still to see takes
\* what stands before that instant, and is not empty.
LEMMA TrailTurns ==
    ASSUME TrailInv, NEW r \in Readers, Audit!Turn(r)
    PROVE  TrailInv'
<1> DEFINE v == walk[r]
           M == Audit!Matching(v.filter)
           key == [e \in M |-> e.at]
<1>1. v # NoWalk /\ v \in WalkType /\ ~v.done /\ MissesNothing(v)
    BY ByWalk, TrailTypes DEF TrailInv, Audit!Turn
<1>2. PICK p \in Audit!Query(v.filter, v.limit, v.offset) :
        /\ walk' = [walk EXCEPT ![r] =
                [v EXCEPT !.offset = @ + Cardinality(p), !.seen = @ \union p, !.done = p = {}]]
        /\ UNCHANGED <<clock, log, draft>>
    BY Zenon, FiniteSetsOfAudit DEF Audit!Turn
<1> DEFINE w == [v EXCEPT !.offset = @ + Cardinality(p), !.seen = @ \union p, !.done = p = {}]
<1>3. PICK pos \in Audit!Orders(M, key) : p = Audit!Page(pos, v.limit, v.offset)
    BY <1>2 DEF Audit!Query, Audit!ByTime
<1>4. M \subseteq log /\ IsFiniteSet(M) /\ \A e \in M : e.at \in Nat
    <2>1. M \in SUBSET log /\ log \subseteq Audit!Events /\ IsFiniteSet(log)
        BY TrailTypes, LogIs DEF TrailInv, Audit!Matching
    <2>2. IsFiniteSet(M)
        BY <2>1, FS_Subset
    <2>3. QED
        BY <2>1, <2>2 DEF Audit!Events
<1>5. v.limit \in Nat /\ v.offset \in Nat
    BY <1>1, ConstantsOK DEF WalkType
<1>6. p \subseteq M /\ Cardinality(p) \in Nat
    <2>1. p \in SUBSET M
        <3>1. DOMAIN pos = M
            BY <1>3, <1>4, OrdersNumber DEF Numbered
        <3>2. QED
            BY <1>3, <3>1 DEF Audit!Page
    <2>2. QED
        BY <1>4, <2>1, FS_Subset, FS_CardinalityType
<1>7. ASSUME NEW e \in M, Cardinality(Audit!Below(v.filter, e.at)) >= v.offset,
             \A x \in p : x.at # e.at
      PROVE  p # {} /\ Cardinality(Audit!Below(v.filter, e.at)) >= v.offset + Cardinality(p)
    <2>1. Audit!Below(v.filter, e.at) = {x \in M : key[x] < key[e]}
        BY DEF Audit!Below
    <2>2. \A x \in M : key[x] \in Nat
        BY <1>4
    <2>3. \A x \in p : key[x] # key[e]
        BY <1>6, <1>7
    <2> HIDE DEF key, M, v
    <2>4. v.offset <= Cardinality({x \in M : key[x] < key[e]})
        <3>1. Cardinality(Audit!Below(v.filter, e.at)) \in Nat
            BY <1>4, <2>1, FS_Subset, FS_CardinalityType,
               {x \in M : key[x] < key[e]} \in SUBSET M
        <3>2. QED
            BY <1>5, <1>7, <2>1, <3>1
    <2>5. QED
        BY <1>3, <1>4, <1>5, <2>1, <2>2, <2>3, <2>4, PageStaysBelow
<1>8. w \in WalkType
    <2>1. \A x \in WalkType : \A o \in Nat, q \in SUBSET log, b \in BOOLEAN :
              [x EXCEPT !.offset = o, !.seen = q, !.done = b] \in WalkType
        BY DEF WalkType
    <2>2. v.offset + Cardinality(p) \in Nat
        BY <1>5, <1>6
    <2>3. v.seen \union p \in SUBSET log
        BY <1>1, <1>4, <1>6 DEF WalkType
    <2>4. (p = {}) \in BOOLEAN
        OBVIOUS
    <2> DEFINE o == v.offset + Cardinality(p)
               q == v.seen \union p
               b == (p = {})
    <2>5. w = [v EXCEPT !.offset = o, !.seen = q, !.done = b]
        OBVIOUS
    <2> HIDE DEF o, q, b, v, w
    <2>6. o \in Nat /\ q \in SUBSET log /\ b \in BOOLEAN
        BY <2>2, <2>3, <2>4 DEF o, q, b
    <2>7. QED
        BY <1>1, <2>1, <2>5, <2>6
<1>9. MissesNothing(w)
    <2>1. w.due = v.due /\ w.filter = v.filter /\ w.offset = v.offset + Cardinality(p)
          /\ w.seen = v.seen \union p /\ w.done = (p = {})
        BY <1>1 DEF WalkType
    <2>2. v.due \union v.seen \subseteq M
        BY <1>1 DEF MissesNothing
    <2>3. ASSUME NEW e \in v.due, ~\E f \in v.seen \union p : f.at = e.at
          PROVE  /\ p # {}
                 /\ Cardinality(Audit!Below(v.filter, e.at)) >= v.offset + Cardinality(p)
        <3>1. e \in M /\ Cardinality(Audit!Below(v.filter, e.at)) >= v.offset
            BY <1>1, <2>2, <2>3 DEF MissesNothing
        <3>2. QED
            BY <1>7, <2>3, <3>1
    <2> HIDE DEF v, w
    <2>4. w.due \union w.seen \subseteq Audit!Matching(w.filter)
        BY <1>6, <2>1, <2>2
    <2>5. QED
        BY <2>1, <2>3, <2>4 DEF MissesNothing
<1>10. QED
    BY <1>2, <1>8, <1>9, OneWalks

LEMMA TrailIsRead ==
    ASSUME TrailInv, Audit!Reading
    PROVE  TrailInv'
BY TrailTurns, TrailBegins DEF Audit!Reading

-----------------------------------------------------------------------------
(* Deliveries                                                               *)

\* The type of a call.
CallType ==
    [ pc : Places, user : Users \union {NoUser}, id : Ids \union {NoId},
      next : 0 .. Last, result : {"none", "ok", "error"} ]

Types ==
    /\ clock \in 1 .. MaxTime
    /\ row \in [Ids -> Rows \union {NoRow}]
    /\ reached \in [Channels -> SUBSET Dispatches]
    /\ call \in [Dispatches -> CallType]

\* What CallInv and ChannelInv say of one call.
Follows(d) ==
    /\ At(d, "idle") => \A c \in Channels : d \notin reached[c]
    /\ ~At(d, "idle") => call[d].user \in Users /\ call[d].id \in Ids
    /\ ~At(d, "answered") => call[d].result = "none"
    /\ \A c \in Channels : d \in reached[c] => Stores(d)
    /\ At(d, "deliver") =>
        /\ call[d].next > 0 => Stores(d)
        /\ \A c \in Channels : c < call[d].next => d \in reached[c]
    /\ At(d, "emit") \/ At(d, "append") \/ call[d].result = "ok" =>
        Stores(d) /\ \A c \in Channels : d \in reached[c]

LEMMA ByCall ==
    IInv <=> TrailInv /\ Types /\ \A d \in Dispatches : Follows(d)
<1>1. (\A d \in Dispatches : Follows(d)) <=> CallInv /\ ChannelInv
    BY Zenon DEF Follows, CallInv, ChannelInv
<1>2. QED
    BY Zenon, <1>1 DEF IInv, TypeOK, TrailInv, Types, CallType

LEMMA ByCallNext ==
    IInv' <=> TrailInv' /\ Types' /\ \A d \in Dispatches : Follows(d)'
<1>1. (\A d \in Dispatches : Follows(d)') <=> CallInv' /\ ChannelInv'
    BY Zenon DEF Follows, CallInv, ChannelInv
<1>2. QED
    BY Zenon, <1>1 DEF IInv, TypeOK, TrailInv, Types, CallType

LEMMA ChannelNumbers == Last \in Nat /\ Channels = 1 .. Last
BY ConstantsOK, FS_CardinalityType DEF Last

\* No row is removed or written over.
RowsStay ==
    \A i \in Ids : row[i] # NoRow =>
        row'[i] # NoRow /\ row'[i].by = row[i].by /\ row'[i].user = row[i].user

LEMMA RowsStayWhenInserted ==
    ASSUME Types, NEW d \in Dispatches, call[d].user \in Users, call[d].id \in Ids,
           row[call[d].id] = NoRow, row' = Inserted(d)
    PROVE  RowsStay /\ row' \in [Ids -> Rows \union {NoRow}]
           /\ row'[call[d].id] # NoRow
           /\ row'[call[d].id].by = d /\ row'[call[d].id].user = call[d].user
<1>1. [by |-> d, user |-> call[d].user, read |-> FALSE] \in Rows
    BY DEF Rows
<1>2. QED
    BY <1>1, ConstantsOK DEF Types, RowsStay, Inserted

\* A call that does not move follows on.
LEMMA OthersFollow ==
    ASSUME NEW d \in Dispatches, Follows(d), call'[d] = call[d], RowsStay,
           \A c \in Channels : d \in reached'[c] <=> d \in reached[c]
    PROVE  Follows(d)'
<1>1. Stores(d) => Stores(d)'
    BY DEF Stores, RowsStay
<1>2. QED
    BY <1>1 DEF Follows, At

\* It is enough to look at the call that moves.
LEMMA OneCallMoves ==
    ASSUME IInv, NEW d \in Dispatches, TrailInv', clock' = clock,
           RowsStay, row' \in [Ids -> Rows \union {NoRow}],
           reached' \in [Channels -> SUBSET Dispatches],
           \A e \in Dispatches \ {d} : \A c \in Channels : e \in reached'[c] <=> e \in reached[c],
           call' \in [Dispatches -> CallType],
           \A e \in Dispatches \ {d} : call'[e] = call[e],
           Follows(d)'
    PROVE  IInv'
<1>1. TrailInv /\ Types /\ \A e \in Dispatches : Follows(e)
    BY ByCall
<1>2. Types'
    BY <1>1 DEF Types
<1>3. ASSUME NEW e \in Dispatches
      PROVE  Follows(e)'
    <2>1. CASE e = d
        BY <2>1
    <2>2. CASE e # d
        BY <1>1, <2>2, OthersFollow
    <2>3. QED
        BY <2>1, <2>2
<1>4. QED
    BY <1>2, <1>3, ByCallNext

\* The call after a channel has delivered.
LEMMA DeliveredCall ==
    ASSUME Types, NEW d \in Dispatches, call' = Delivered(d)
    PROVE  /\ call' \in [Dispatches -> CallType]
           /\ \A e \in Dispatches \ {d} : call'[e] = call[e]
           /\ call'[d].user = call[d].user /\ call'[d].id = call[d].id
           /\ call'[d].result = call[d].result
           /\ \/ /\ call[d].next < Last /\ call'[d].pc = call[d].pc
                 /\ call'[d].next = call[d].next + 1
              \/ call[d].next >= Last /\ call'[d].pc = "emit"
<1>1. call \in [Dispatches -> CallType] /\ call[d] \in CallType /\ Last \in Nat
    BY ChannelNumbers DEF Types
<1>2. call[d].next \in 0 .. Last
    BY <1>1 DEF CallType
<1>3. CASE call[d].next < Last
    <2>1. call' = [call EXCEPT ![d].next = @ + 1]
        BY <1>3 DEF Delivered
    <2>2. [call[d] EXCEPT !.next = call[d].next + 1] \in CallType
        BY <1>1, <1>2, <1>3 DEF CallType
    <2>3. call'[d] = [call[d] EXCEPT !.next = call[d].next + 1]
        BY <1>1, <2>1
    <2>4. call' \in [Dispatches -> CallType]
        BY <1>1, <2>1, <2>2
    <2>5. QED
        BY <1>1, <1>3, <2>1, <2>3, <2>4 DEF CallType
<1>4. CASE ~(call[d].next < Last)
    <2>1. call' = [call EXCEPT ![d].pc = "emit"]
        BY <1>4 DEF Delivered
    <2>2. [call[d] EXCEPT !.pc = "emit"] \in CallType
        BY <1>1 DEF CallType, Places
    <2>3. call'[d] = [call[d] EXCEPT !.pc = "emit"]
        BY <1>1, <2>1
    <2>4. call' \in [Dispatches -> CallType]
        BY <1>1, <2>1, <2>2
    <2>5. call[d].next >= Last
        BY <1>1, <1>2, <1>4
    <2>6. QED
        BY <1>1, <2>1, <2>3, <2>4, <2>5 DEF CallType
<1>5. QED
    BY <1>3, <1>4

\* The call after its answer.
LEMMA AnsweredCall ==
    ASSUME Types, NEW d \in Dispatches, NEW what \in {"ok", "error"}, Answer(d, what)
    PROVE  /\ call' \in [Dispatches -> CallType]
           /\ \A e \in Dispatches \ {d} : call'[e] = call[e]
           /\ call'[d].user = call[d].user /\ call'[d].id = call[d].id
           /\ call'[d].pc = "answered" /\ call'[d].result = what
<1>1. call' = [call EXCEPT ![d].pc = "answered", ![d].result = what]
    BY DEF Answer
<1>2. call \in [Dispatches -> CallType] /\ call[d] \in CallType
    BY DEF Types
<1>3. [call[d] EXCEPT !.pc = "answered", !.result = what] \in CallType
    BY <1>2 DEF CallType, Places
<1>4. call'[d] = [call[d] EXCEPT !.pc = "answered", !.result = what]
    BY <1>1, <1>2
<1>5. call' \in [Dispatches -> CallType]
    BY <1>1, <1>2, <1>3, <1>4
<1>6. \A e \in Dispatches \ {d} : call'[e] = call[e]
    BY <1>1, <1>2
<1>7. QED
    BY <1>2, <1>4, <1>5, <1>6 DEF CallType

\* The trail is left alone.
LEMMA TrailStays ==
    ASSUME TrailInv, UNCHANGED <<clock, log, draft, walk>>
    PROVE  TrailInv'
<1>1. Audit!LogInv' /\ log' \subseteq Audit!Events /\ log \subseteq log'
    BY LogIs, LogIsNext, TrailTypes DEF TrailInv
<1>2. Audit!TypeOK' /\ Audit!WalkInv'
    BY <1>1, WalksStandAll, TrailTypes, TrailTypesNext DEF TrailInv
<1>3. QED
    BY <1>1, <1>2 DEF TrailInv

LEMMA IdleType == Idle \in CallType
BY ChannelNumbers, ConstantsOK DEF Idle, CallType, Places

LEMMA InitCorrect == Init => IInv
<1> SUFFICES ASSUME Init PROVE IInv
    OBVIOUS
<1>1. TrailInv
    BY TrailInit DEF Init
<1>2. Idle \in CallType
    BY IdleType
<1>3. clock = 1
    BY DEF Init, Audit!Init
<1>4. Types
    BY <1>2, <1>3, ConstantsOK DEF Types, Init
<1>5. \A d \in Dispatches : call[d] = Idle /\ \A c \in Channels : d \notin reached[c]
    BY DEF Init
<1>6. \A d \in Dispatches : Follows(d)
    BY <1>5 DEF Follows, At, Idle
<1>7. QED
    BY <1>1, <1>4, <1>6, ByCall

LEMMA CreateStep ==
    ASSUME IInv, NEW d \in Dispatches, NEW u \in Users, NEW i \in Ids, Create(d, u, i)
    PROVE  IInv'
<1>1. /\ At(d, "idle")
      /\ call' = [call EXCEPT ![d] = [Idle EXCEPT !.pc = "deliver", !.user = u, !.id = i]]
      /\ UNCHANGED <<clock, log, draft, walk, row, reached>>
    BY DEF Create
<1>2. TrailInv /\ Types /\ Follows(d)
    BY ByCall
<1> DEFINE x == [Idle EXCEPT !.pc = "deliver", !.user = u, !.id = i]
<1>3. x \in CallType
    <2>1. \A y \in CallType :
              [y EXCEPT !.pc = "deliver", !.user = u, !.id = i] \in CallType
        BY DEF CallType, Places
    <2>2. QED
        BY <2>1, IdleType
<1>4. /\ x.pc = "deliver" /\ x.user = u /\ x.id = i
      /\ x.next = 0 /\ x.result = "none"
    <2>1. \A y \in CallType :
              LET z == [y EXCEPT !.pc = "deliver", !.user = u, !.id = i]
              IN  /\ z.pc = "deliver" /\ z.user = u /\ z.id = i
                  /\ z.next = y.next /\ z.result = y.result
        BY DEF CallType
    <2>2. Idle.next = 0 /\ Idle.result = "none"
        BY DEF Idle
    <2>3. QED
        BY <2>1, <2>2, IdleType
<1> HIDE DEF x
<1>5. call' \in [Dispatches -> CallType] /\ call'[d] = x
      /\ \A e \in Dispatches \ {d} : call'[e] = call[e]
    BY <1>1, <1>2, <1>3 DEF Types, x
<1>6. \A c \in Channels : d \notin reached[c]
    BY <1>1, <1>2 DEF Types, Follows
<1>7. Follows(d)'
    <2>1. /\ call'[d].pc = "deliver" /\ call'[d].next = 0 /\ call'[d].result = "none"
          /\ call'[d].user \in Users /\ call'[d].id \in Ids
        BY <1>4, <1>5, <1>6
    <2>2. \A c \in Channels : d \notin reached'[c] /\ ~(c < call'[d].next)
        BY <1>1, <1>6, <2>1, ChannelNumbers
    <2>3. ~(call'[d].next > 0)
        BY <2>1
    <2>4. QED
        BY <2>1, <2>2, <2>3 DEF Follows, At
<1>8. TrailInv'
    BY <1>1, <1>2, TrailStays
<1>9. QED
    BY <1>1, <1>2, <1>5, <1>7, <1>8, OneCallMoves DEF RowsStay, Types

\* A call that fails answers so, whatever it has delivered up to then.
LEMMA FailedStep ==
    ASSUME IInv, NEW d \in Dispatches, At(d, "deliver"), Answer(d, "error"),
           TrailInv', clock' = clock,
           RowsStay, row' \in [Ids -> Rows \union {NoRow}],
           reached' \in [Channels -> SUBSET Dispatches],
           \A e \in Dispatches \ {d} : \A c \in Channels : e \in reached'[c] <=> e \in reached[c],
           reached' = reached \/ Stores(d)
    PROVE  IInv'
<1>1. Types /\ Follows(d)
    BY ByCall
<1>2. /\ call' \in [Dispatches -> CallType]
      /\ \A e \in Dispatches \ {d} : call'[e] = call[e]
      /\ call'[d].user = call[d].user /\ call'[d].id = call[d].id
      /\ call'[d].pc = "answered" /\ call'[d].result = "error"
    BY <1>1, AnsweredCall
<1>3. Stores(d) => Stores(d)'
    BY <1>2 DEF Stores, RowsStay
<1>4. \A c \in Channels : d \in reached'[c] => Stores(d)'
    BY <1>1, <1>3 DEF Follows
<1>5. Follows(d)'
    BY <1>1, <1>2, <1>4 DEF Follows, At
<1>6. QED
    BY <1>2, <1>5, OneCallMoves

LEMMA DeliverInAppStep ==
    ASSUME IInv, NEW d \in Dispatches, DeliverInApp(d)
    PROVE  IInv'
<1>1. At(d, "deliver") /\ call[d].next = 0 /\ UNCHANGED <<clock, log, draft, walk, reached>>
    BY DEF DeliverInApp
<1>2. TrailInv /\ Types /\ Follows(d)
    BY ByCall
<1>3. TrailInv'
    BY <1>1, <1>2, TrailStays
<1>4. call[d].id \in Ids /\ call[d].user \in Users /\ call[d].result = "none"
    BY <1>1, <1>2 DEF Follows, At
<1>5. CASE /\ row[call[d].id] = NoRow
           /\ row' = Inserted(d)
           /\ call' = Delivered(d)
    <2>1. RowsStay /\ row' \in [Ids -> Rows \union {NoRow}]
          /\ row'[call[d].id] # NoRow
          /\ row'[call[d].id].by = d /\ row'[call[d].id].user = call[d].user
        BY <1>2, <1>4, <1>5, RowsStayWhenInserted
    <2>2. /\ call' \in [Dispatches -> CallType]
          /\ \A e \in Dispatches \ {d} : call'[e] = call[e]
          /\ call'[d].user = call[d].user /\ call'[d].id = call[d].id
          /\ call'[d].result = call[d].result
          /\ \/ call'[d].pc = "deliver" /\ call'[d].next = 1
             \/ 0 >= Last /\ call'[d].pc = "emit"
        BY <1>1, <1>2, <1>5, DeliveredCall DEF At
    <2>3. Stores(d)'
        BY <1>4, <2>1, <2>2 DEF Stores
    <2>4. /\ \A c \in Channels : ~(c < 1)
          /\ 0 >= Last => Channels = {}
        BY ChannelNumbers
    <2>5. Follows(d)'
        BY <1>1, <1>2, <2>2, <2>3, <2>4 DEF Follows, At
    <2>6. QED
        BY <1>1, <1>2, <1>3, <2>1, <2>2, <2>5, OneCallMoves DEF Types
<1>6. CASE Answer(d, "error") /\ UNCHANGED row
    BY <1>1, <1>2, <1>3, <1>6, FailedStep DEF RowsStay, Types
<1>7. QED
    BY <1>5, <1>6 DEF DeliverInApp

LEMMA DeliverInAppFailsStep ==
    ASSUME IInv, NEW d \in Dispatches, DeliverInAppFails(d)
    PROVE  IInv'
<1>1. At(d, "deliver") /\ UNCHANGED <<clock, log, draft, walk, reached>> /\ Answer(d, "error")
    BY DEF DeliverInAppFails
<1>2. TrailInv /\ Types /\ Follows(d)
    BY ByCall
<1>3. call[d].user \in Users /\ call[d].id \in Ids
    BY <1>1, <1>2 DEF Follows, At
<1>4. RowsStay /\ row' \in [Ids -> Rows \union {NoRow}]
    <2>1. CASE row' = row
        BY <1>2, <2>1 DEF Types, RowsStay
    <2>2. CASE row[call[d].id] = NoRow /\ row' = Inserted(d)
        BY <1>2, <1>3, <2>2, RowsStayWhenInserted
    <2>3. QED
        BY <2>1, <2>2 DEF DeliverInAppFails
<1>5. QED
    BY <1>1, <1>2, <1>4, FailedStep, TrailStays DEF Types

LEMMA DeliverStep ==
    ASSUME IInv, NEW d \in Dispatches, Deliver(d)
    PROVE  IInv'
<1>1. /\ At(d, "deliver") /\ call[d].next \in Channels
      /\ reached' = [reached EXCEPT ![call[d].next] = @ \union {d}]
      /\ call' = Delivered(d)
      /\ UNCHANGED <<clock, log, draft, walk, row>>
    BY DEF Deliver
<1>2. TrailInv /\ Types /\ Follows(d)
    BY ByCall
<1>3. TrailInv'
    BY <1>1, <1>2, TrailStays
<1>4. PICK n : n = call[d].next
    OBVIOUS
<1>5. n \in Channels /\ Channels = 1 .. Last /\ Last \in Nat
    BY <1>1, <1>4, ChannelNumbers
<1>6. /\ reached' \in [Channels -> SUBSET Dispatches]
      /\ d \in reached'[n] /\ \A c \in Channels \ {n} : reached'[c] = reached[c]
      /\ \A e \in Dispatches \ {d} : \A c \in Channels : e \in reached'[c] <=> e \in reached[c]
    BY <1>1, <1>2, <1>4, <1>5 DEF Types
<1>7. /\ call' \in [Dispatches -> CallType]
      /\ \A e \in Dispatches \ {d} : call'[e] = call[e]
      /\ call'[d].user = call[d].user /\ call'[d].id = call[d].id
      /\ call'[d].result = call[d].result
      /\ \/ n < Last /\ call'[d].pc = "deliver" /\ call'[d].next = n + 1
         \/ n >= Last /\ call'[d].pc = "emit"
    BY <1>1, <1>2, <1>4, DeliveredCall DEF At
<1>8. Stores(d)
    <2>1. n > 0
        BY <1>5
    <2>2. QED
        BY <1>1, <1>2, <1>4, <2>1 DEF Follows
<1>9. Stores(d)'
    BY <1>1, <1>7, <1>8 DEF Stores
<1>10. \A c \in Channels : c < n + 1 => d \in reached'[c]
    <2>1. \A c \in Channels : c < n + 1 => c < n \/ c = n
        BY <1>5
    <2>2. \A c \in Channels : c < n => d \in reached[c]
        BY <1>1, <1>2, <1>4 DEF Follows
    <2>3. QED
        BY <1>6, <2>1, <2>2
<1>11. n >= Last => \A c \in Channels : d \in reached'[c]
    BY <1>5, <1>10
<1>12. /\ call[d].user \in Users /\ call[d].id \in Ids
       /\ call[d].result = "none"
    BY <1>1, <1>2 DEF Follows, At
<1>13. Follows(d)'
    BY <1>7, <1>9, <1>10, <1>11, <1>12 DEF Follows, At
<1>14. QED
    BY <1>1, <1>2, <1>3, <1>6, <1>7, <1>13, OneCallMoves DEF RowsStay, Types

LEMMA DeliverFailsStep ==
    ASSUME IInv, NEW d \in Dispatches, DeliverFails(d)
    PROVE  IInv'
<1>1. /\ At(d, "deliver") /\ call[d].next \in Channels
      /\ Answer(d, "error")
      /\ UNCHANGED <<clock, log, draft, walk, row>>
      /\ \/ reached' = reached
         \/ reached' = [reached EXCEPT ![call[d].next] = @ \union {d}]
    BY DEF DeliverFails
<1>2. TrailInv /\ Types /\ Follows(d)
    BY ByCall
<1>3. /\ reached' \in [Channels -> SUBSET Dispatches]
      /\ \A e \in Dispatches \ {d} : \A c \in Channels : e \in reached'[c] <=> e \in reached[c]
    BY <1>1, <1>2 DEF Types
<1>4. Stores(d)
    BY <1>1, <1>2, ChannelNumbers DEF Follows
<1>5. QED
    BY <1>1, <1>2, <1>3, <1>4, FailedStep, TrailStays DEF RowsStay, Types

LEMMA EmitStep ==
    ASSUME IInv, NEW d \in Dispatches, Emit(d)
    PROVE  IInv'
<1>1. /\ At(d, "emit") /\ \E t \in Tenants : Audit!Stamp(d, t)
      /\ call' = [call EXCEPT ![d].pc = "append"]
      /\ UNCHANGED <<row, reached>>
    BY DEF Emit
<1>2. TrailInv /\ Types /\ Follows(d)
    BY ByCall
<1>4. TrailInv' /\ clock' = clock
    BY <1>1, <1>2, TrailStamps DEF Audit!Stamp
<1>5. /\ call' \in [Dispatches -> CallType]
      /\ \A e \in Dispatches \ {d} : call'[e] = call[e]
      /\ call'[d].pc = "append" /\ call'[d].user = call[d].user
      /\ call'[d].id = call[d].id /\ call'[d].result = call[d].result
    <2>1. \A x \in CallType : [x EXCEPT !.pc = "append"] \in CallType
        BY DEF CallType, Places
    <2>2. call \in [Dispatches -> CallType]
        BY <1>2 DEF Types
    <2>3. QED
        BY <1>1, <2>1, <2>2 DEF CallType
<1>6. Stores(d)'
    BY <1>1, <1>2, <1>5 DEF Follows, Stores
<1>7. Follows(d)'
    BY <1>1, <1>2, <1>5, <1>6 DEF Follows, At
<1>8. QED
    BY <1>1, <1>2, <1>4, <1>5, <1>7, OneCallMoves DEF RowsStay, Types

LEMMA EmitDoneStep ==
    ASSUME IInv, NEW d \in Dispatches, EmitDone(d)
    PROVE  IInv'
<1>1. /\ At(d, "append") /\ Answer(d, "ok") /\ UNCHANGED <<row, reached>>
      /\ Audit!Append(d) \/ Audit!AppendFails(d)
    BY DEF EmitDone
<1>2. TrailInv /\ Types /\ Follows(d)
    BY ByCall
<1>3. TrailInv' /\ clock' = clock
    BY <1>1, <1>2, TrailAppends DEF Audit!Append, Audit!AppendFails
<1>4. /\ call' \in [Dispatches -> CallType]
      /\ \A e \in Dispatches \ {d} : call'[e] = call[e]
      /\ call'[d].user = call[d].user /\ call'[d].id = call[d].id
      /\ call'[d].pc = "answered" /\ call'[d].result = "ok"
    BY <1>1, <1>2, AnsweredCall
<1>5. Stores(d)'
    BY <1>1, <1>2, <1>4 DEF Follows, Stores
<1>6. Follows(d)'
    BY <1>1, <1>2, <1>4, <1>5 DEF Follows, At
<1>7. QED
    BY <1>1, <1>2, <1>3, <1>4, <1>6, OneCallMoves DEF RowsStay, Types

\* A row that its recipient has read is the row it was.
LEMMA MarkReadStep ==
    ASSUME IInv, NEW i \in Ids, MarkRead(i)
    PROVE  IInv'
<1>1. /\ row[i] # NoRow /\ row' = [row EXCEPT ![i].read = TRUE]
      /\ UNCHANGED <<clock, log, draft, walk, reached, call>>
    BY DEF MarkRead
<1>2. TrailInv /\ Types /\ \A d \in Dispatches : Follows(d)
    BY ByCall
<1>3. row \in [Ids -> Rows \union {NoRow}]
    BY <1>2 DEF Types
<1>4. row[i] \in Rows
    BY <1>1, <1>3
<1>5. \A x \in Rows : [x EXCEPT !.read = TRUE] \in Rows /\ [x EXCEPT !.read = TRUE].by = x.by
          /\ [x EXCEPT !.read = TRUE].user = x.user
    BY DEF Rows
<1>6. row' \in [Ids -> Rows \union {NoRow}]
    BY <1>1, <1>3, <1>4, <1>5
<1>7. RowsStay
    BY <1>1, <1>3, <1>4, <1>5, ConstantsOK DEF RowsStay
<1>8. Types'
    BY <1>1, <1>2, <1>6 DEF Types
<1>9. \A d \in Dispatches : Follows(d)'
    BY <1>1, <1>2, <1>7, OthersFollow
<1>10. QED
    BY <1>1, <1>2, <1>8, <1>9, TrailStays, ByCallNext

LEMMA ElsewhereStep ==
    ASSUME IInv, Elsewhere
    PROVE  IInv'
<1>1. UNCHANGED <<row, reached, call>> /\ (Audit!Tick \/ Audit!Reading)
    BY DEF Elsewhere
<1>2. TrailInv /\ Types /\ \A d \in Dispatches : Follows(d)
    BY ByCall
<1>3. TrailInv'
    BY <1>1, <1>2, TrailTicks, TrailIsRead
<1>4. clock' = clock \/ (clock < MaxTime /\ clock' = clock + 1)
    BY <1>1 DEF Audit!Tick, Audit!Reading, Audit!Turn, Audit!Begin
<1>5. Types'
    BY <1>1, <1>2, <1>4, ConstantsOK DEF Types
<1>6. \A d \in Dispatches : Follows(d)'
    BY <1>1, <1>2, OthersFollow DEF RowsStay
<1>7. QED
    BY <1>3, <1>5, <1>6, ByCallNext

LEMMA StepCorrect == IInv /\ [Next]_vars => IInv'
<1> SUFFICES ASSUME IInv, [Next]_vars PROVE IInv'
    OBVIOUS
<1>1. ASSUME NEW d \in Dispatches, Dispatch(d)
      PROVE  IInv'
    BY <1>1, CreateStep, DeliverInAppStep, DeliverInAppFailsStep, DeliverStep,
       DeliverFailsStep, EmitStep, EmitDoneStep DEF Dispatch
<1>2. ASSUME UNCHANGED vars
      PROVE  IInv'
    <2>1. UNCHANGED <<clock, log, draft, walk>> /\ UNCHANGED <<row, reached, call>>
        BY <1>2 DEF vars
    <2>2. TrailInv' /\ Types' /\ \A d \in Dispatches : Follows(d)'
        BY <2>1, ByCall, TrailStays, OthersFollow DEF RowsStay, Types
    <2>3. QED
        BY <2>2, ByCallNext
<1>3. QED
    BY <1>1, <1>2, MarkReadStep, ElsewhereStep DEF Next

-----------------------------------------------------------------------------
(* Theorems                                                                 *)

\* The inductive invariant of the dispatches and of the trail: what each channel has
\* been given at each place of a call, and that the instants of which a walk has seen
\* nothing yet begin on a page still to come, in whatever order equal times stand.
THEOREM Invariant == Spec => []IInv
BY InitCorrect, StepCorrect, PTL DEF Spec

\* Notifications, calls, trail and walks are of their types.
THEOREM TypeCorrect == Spec => []TypeOK
<1>1. IInv => TypeOK
    BY DEF IInv
<1>2. QED
    BY <1>1, Invariant, PTL

\* A reader who walks the trail to its last page has seen every event that was
\* there when the walk began, or another one of the same instant, although the pages
\* are cut and sorted anew at each request and others append meanwhile, events that
\* are stamped earlier included.
THEOREM WalksAreComplete == Spec => []WalkIsComplete
<1>1. TrailInv => WalkIsComplete
    <2> SUFFICES ASSUME TrailInv PROVE WalkIsComplete
        OBVIOUS
    <2>1. \A r \in Readers : walk[r] # NoWalk => MissesNothing(walk[r])
        BY ByWalk DEF TrailInv
    <2>2. QED
        BY <2>1 DEF WalkIsComplete, Audit!WalkIsComplete, MissesNothing
<1>2. QED
    BY <1>1, ByCall, Invariant, PTL

\* A row that is there is on some page of its recipient's list, however it is sorted.
LEMMA StoredWhenThere ==
    ASSUME NEW d \in Dispatches, Stores(d)
    PROVE  Stored(d)
<1> DEFINE i == call[d].id
           S == Inbox(call[d].user)
<1>1. i \in S /\ S \in SUBSET Ids
    BY DEF Stores, Inbox
<1>2. /\ IsFiniteSet(S) /\ Cardinality(S) \in Nat
      /\ Cardinality(Ids) \in Nat /\ Cardinality(S) <= Cardinality(Ids)
    <2>1. IsFiniteSet(Ids)
        BY ConstantsOK
    <2> HIDE DEF S
    <2>2. QED
        BY <1>1, <2>1, FS_Subset, FS_CardinalityType
<1> HIDE DEF i, S
<1>3. ASSUME NEW pos \in Audit!Orders(S, [j \in S |-> 0])
      PROVE  \E offset \in 0 .. Cardinality(Ids) : i \in Audit!Page(pos, 0, offset)
    <2>1. Numbered(S, pos)
        BY <1>2, OrdersNumber
    <2>2. pos[i] \in 0 .. Cardinality(Ids) /\ DOMAIN pos = S
        BY <1>1, <1>2, <2>1 DEF Numbered
    <2>3. pos[i] \in pos[i] .. pos[i] + Audit!Limited(0) - 1
        BY <2>2, LimitedType
    <2>4. i \in Audit!Page(pos, 0, pos[i])
        BY <1>1, <2>2, <2>3 DEF Audit!Page
    <2>5. QED
        BY <2>2, <2>4
<1>4. \A pos \in InboxOrders(call[d].user) : \E offset \in 0 .. Cardinality(Ids) :
          call[d].id \in Audit!Page(pos, 0, offset)
    BY <1>3 DEF InboxOrders, i, S
<1>5. QED
    BY Zenon, <1>4, FiniteSetsOfAudit DEF Stored, Stores

\* Whatever another channel has delivered is stored as a row of its own, which the
\* recipient finds in the list; Create returns nil, and the trail is told, only of
\* what every channel has delivered.
THEOREM DispatchTellsTheTruth == Spec => []DispatchIsTruthful
<1>1. IInv => DispatchIsTruthful
    <2> SUFFICES ASSUME IInv PROVE DispatchIsTruthful
        OBVIOUS
    <2>1. Types /\ \A d \in Dispatches : Follows(d)
        BY ByCall
    <2>2. \A c \in Channels : \A d \in reached[c] : d \in Dispatches
        BY <2>1 DEF Types
    <2>3. \A d \in Dispatches : Stores(d) => Stored(d)
        BY StoredWhenThere
    <2>4. QED
        BY <2>1, <2>2, <2>3 DEF DispatchIsTruthful, Follows
<1>2. QED
    BY <1>1, Invariant, PTL

=============================================================================
