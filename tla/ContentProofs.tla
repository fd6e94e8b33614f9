---------------------------- MODULE ContentProofs ----------------------------
(***************************************************************************)
(* Proofs about Content for every number of tenants, ids and requests and  *)
(* every IdsOf, with and without failing statements: the inductive         *)
(* invariant IInv and what it says of authors, publication and the trail.  *)
(***************************************************************************)
EXTENDS Content, FiniteSetTheorems, TLAPS

\* The type of a request.
ReqType ==
    [ pc : Places, kind : Kinds, tenant : Tenants \union {NoTenant},
      id : Ids \union {NoId}, path : Paths \union {NoPath},
      published : BOOLEAN, author : Subjects \union {NoSubject}, life : Nat ]

\* What PlaceInv and ReadInv say of one request.
ReqInv(c) ==
    /\ At(c, "insert") =>
        /\ req[c].kind = "create" /\ req[c].tenant \in Tenants
        /\ req[c].author \in Subjects /\ req[c].path \in Paths
    /\ req[c].pc \in {"read", "write"} =>
        /\ req[c].kind \in {"update", "delete", "publish", "unpublish"}
        /\ req[c].kind = "update" => req[c].path \in Paths
    /\ req[c].pc \in {"insert", "read", "write", "emit"} => req[c].id \in Ids
    /\ At(c, "write") =>
        /\ req[c].author \in Subjects
        /\ req[c].life <= born[req[c].id]
        /\ \/ req[c].life # born[req[c].id] \/ mixed[req[c].id]
           \/ req[c].author = maker[req[c].id]

LEMMA ByRequest ==
    IInv <=> /\ TypeOK /\ BornInv /\ AuthorIsCreator /\ EventInv
             /\ \A c \in Requests : ReqInv(c)
BY Zenon DEF IInv, ReqInv, PlaceInv, ReadInv

LEMMA IdleType == Idle \in ReqType
BY DEF Idle, ReqType, Places, Kinds

\* The changes that the steps make to a request keep its type.
LEMMA UpdateType ==
    ASSUME NEW x \in ReqType, NEW p \in Places
    PROVE  /\ [x EXCEPT !.pc = p] \in ReqType
           /\ \A n \in Nat, a \in Subjects, b \in BOOLEAN :
                [x EXCEPT !.pc = p, !.life = n, !.author = a, !.published = b] \in ReqType
BY DEF ReqType

\* A request that takes a place is well typed and knows its row's id.
LEMMA Arrival ==
    ASSUME Arrive
    PROVE  \E c \in Requests, r \in ReqType :
            /\ req[c].pc \in {"idle", "answered"} /\ req' = [req EXCEPT ![c] = r]
            /\ r.pc \in {"insert", "read"} /\ r.id \in Ids
            /\ r.pc = "insert" => /\ r.kind = "create" /\ r.tenant \in Tenants
                                  /\ r.author \in Subjects /\ r.path \in Paths
            /\ r.pc = "read" => /\ r.kind \in {"update", "delete", "publish", "unpublish"}
                                /\ r.kind = "update" => r.path \in Paths
<1> USE DEF Places, Kinds, ReqType
<1>1. ASSUME NEW t \in Tenants, NEW a \in Subjects, NEW p \in Paths, NEW b \in BOOLEAN,
             NEW i \in IdsOf[t, p], Create(t, a, p, i, b)
      PROVE  \E c \in Requests, r \in ReqType :
                /\ req[c].pc \in {"idle", "answered"} /\ req' = [req EXCEPT ![c] = r]
                /\ r.pc = "insert" /\ r.id \in Ids /\ r.kind = "create" /\ r.tenant \in Tenants
                /\ r.author \in Subjects /\ r.path \in Paths
    <2> DEFINE r == [Idle EXCEPT !.pc = "insert", !.kind = "create", !.tenant = t,
                                 !.author = a, !.path = p, !.id = i, !.published = b]
    <2>1. i \in Ids
        BY ConstantsOK
    <2>2. /\ r \in ReqType /\ r.pc = "insert" /\ r.id = i /\ r.kind = "create"
          /\ r.tenant = t /\ r.author = a /\ r.path = p
        BY <2>1 DEF Idle
    <2>3. PICK c \in Requests : req[c].pc \in {"idle", "answered"} /\ req' = [req EXCEPT ![c] = r]
        BY <1>1 DEF Create, Start
    <2> HIDE DEF r, ReqType
    <2>4. QED
        BY <2>1, <2>2, <2>3
<1>2. ASSUME NEW t \in Tenants, NEW p \in Paths, NEW i \in Ids, Update(t, i, p)
      PROVE  \E c \in Requests, r \in ReqType :
                /\ req[c].pc \in {"idle", "answered"} /\ req' = [req EXCEPT ![c] = r]
                /\ r.pc = "read" /\ r.id \in Ids /\ r.kind = "update" /\ r.path \in Paths
    <2> DEFINE r == [Idle EXCEPT !.pc = "read", !.kind = "update", !.tenant = t, !.id = i,
                                 !.path = p]
    <2>1. r \in ReqType /\ r.pc = "read" /\ r.id = i /\ r.kind = "update" /\ r.path = p
        BY DEF Idle
    <2>2. PICK c \in Requests : req[c].pc \in {"idle", "answered"} /\ req' = [req EXCEPT ![c] = r]
        BY <1>2 DEF Update, Start
    <2> HIDE DEF r, ReqType
    <2>3. QED
        BY <2>1, <2>2
<1>3. ASSUME NEW t \in Tenants, NEW k \in {"delete", "publish", "unpublish"}, NEW i \in Ids,
             Change(t, i, k)
      PROVE  \E c \in Requests, r \in ReqType :
                /\ req[c].pc \in {"idle", "answered"} /\ req' = [req EXCEPT ![c] = r]
                /\ r.pc = "read" /\ r.id \in Ids /\ r.kind = k
    <2> DEFINE r == [Idle EXCEPT !.pc = "read", !.kind = k, !.tenant = t, !.id = i]
    <2>1. r \in ReqType /\ r.pc = "read" /\ r.id = i /\ r.kind = k
        BY DEF Idle
    <2>2. PICK c \in Requests : req[c].pc \in {"idle", "answered"} /\ req' = [req EXCEPT ![c] = r]
        BY <1>3 DEF Change, Start
    <2> HIDE DEF r, ReqType
    <2>3. QED
        BY <2>1, <2>2
<1> HIDE DEF ReqType
<1>4. QED
    BY <1>1, <1>2, <1>3 DEF Arrive

\* Where a step takes the request whose step it is.
LEMMA Answers ==
    ASSUME TypeOK, NEW c \in Requests, Answer(c)
    PROVE  req' = [req EXCEPT ![c] = req'[c]] /\ req'[c] \in ReqType /\ req'[c].pc = "answered"
<1>1. [Idle EXCEPT !.pc = "answered"] \in ReqType /\ [Idle EXCEPT !.pc = "answered"].pc = "answered"
    BY IdleType, UpdateType DEF Places, Idle
<1>2. QED
    BY <1>1 DEF Answer, TypeOK

LEMMA Proceeds ==
    ASSUME TypeOK, NEW c \in Requests, NEW p \in Places, Proceed(c, p)
    PROVE  /\ req' = [req EXCEPT ![c] = req'[c]] /\ req'[c] \in ReqType /\ req'[c].pc = p
           /\ req'[c].kind = req[c].kind /\ req'[c].id = req[c].id
<1>0. req \in [Requests -> ReqType]
    BY DEF TypeOK, ReqType
<1>1. req' = [req EXCEPT ![c] = [req[c] EXCEPT !.pc = p]]
    BY <1>0 DEF Proceed
<1>2. [req[c] EXCEPT !.pc = p] \in ReqType
    BY <1>0, UpdateType
<1>3. req'[c] = [req[c] EXCEPT !.pc = p]
    BY <1>0, <1>1
<1>4. /\ [req[c] EXCEPT !.pc = p].pc = p /\ [req[c] EXCEPT !.pc = p].kind = req[c].kind
      /\ [req[c] EXCEPT !.pc = p].id = req[c].id
    BY <1>0 DEF ReqType
<1>5. QED
    BY <1>1, <1>2, <1>3, <1>4

LEMMA ReadIs ==
    ASSUME IInv, NEW c \in Requests, Read(c), Mine(c)
    PROVE  /\ req' = [req EXCEPT ![c] = req'[c]] /\ req'[c] \in ReqType /\ req'[c].pc = "write"
           /\ req'[c].kind = req[c].kind /\ req'[c].id = req[c].id /\ req'[c].path = req[c].path
           /\ req'[c].author = row[req[c].id].author /\ req'[c].life = born[req[c].id]
<1>0. req \in [Requests -> ReqType] /\ TypeOK
    BY DEF IInv, TypeOK, ReqType
<1>1. PICK i \in Ids : i = req[c].id
    BY DEF Read, IInv, PlaceInv, At
<1>2. row[i] \in Rows /\ born[i] \in Nat
    BY <1>0, <1>1 DEF Mine, Present, TypeOK
<1>3. PICK n \in Nat, a \in Subjects, b \in BOOLEAN :
        n = born[i] /\ a = row[i].author /\ b = row[i].published
    BY <1>2 DEF Rows
<1> DEFINE r == [req[c] EXCEPT !.pc = "write", !.life = n, !.author = a, !.published = b]
<1>4. req' = [req EXCEPT ![c] = r]
    BY <1>0, <1>1, <1>3 DEF Read
<1>5. r \in ReqType
    BY <1>0, UpdateType DEF Places
<1>6. /\ r.pc = "write" /\ r.kind = req[c].kind /\ r.id = req[c].id /\ r.path = req[c].path
      /\ r.author = a /\ r.life = n
    BY <1>0 DEF ReqType
<1> HIDE DEF r
<1>7. req'[c] = r
    BY <1>0, <1>4
<1>8. QED
    BY <1>1, <1>3, <1>4, <1>5, <1>6, <1>7

-----------------------------------------------------------------------------
(* What the statements do to the table.                                     *)

TableOK ==
    /\ row \in [Ids -> Rows \union {NoRow}]
    /\ born \in [Ids -> Nat]
    /\ maker \in [Ids -> Subjects \union {NoSubject}]
    /\ mixed \in [Ids -> BOOLEAN]
    /\ BornInv /\ AuthorIsCreator

\* Lives are counted up, and nothing of a life is forgotten while it lasts.
LivesGoOn ==
    \A i \in Ids :
        /\ born'[i] >= born[i]
        /\ born'[i] = born[i] => maker'[i] = maker[i] /\ (mixed[i] => mixed'[i])

LEMMA NewRowStep ==
    ASSUME IInv, NEW c \in Requests, At(c, "insert"), ~Refused(c), StoreNew(c)
    PROVE  TableOK' /\ LivesGoOn /\ \A i \in Ids : Ended(i)' = Ended(i)
<1>0. TableOK /\ row \in [Ids -> Rows \union {NoRow}] /\ born \in [Ids -> Nat]
      /\ maker \in [Ids -> Subjects \union {NoSubject}] /\ mixed \in [Ids -> BOOLEAN]
    BY DEF IInv, TypeOK, TableOK
<1>1. PICK n \in Ids : n = req[c].id
    BY DEF IInv, PlaceInv, At
<1>2. n \notin Present
    BY <1>1 DEF Refused
<1>3. NewRow(c) \in Rows /\ NewRow(c).author = req[c].author /\ req[c].author \in Subjects
    BY DEF IInv, TypeOK, PlaceInv, At, NewRow, Rows
<1>4. /\ row' = [row EXCEPT ![n] = NewRow(c)]
      /\ born' = [born EXCEPT ![n] = @ + 1]
      /\ maker' = [maker EXCEPT ![n] = req[c].author]
      /\ mixed' = [mixed EXCEPT ![n] = FALSE]
    BY <1>1 DEF StoreNew
<1>5. Present' = Present \union {n}
    BY <1>0, <1>3, <1>4, ConstantsOK DEF Present
<1> HIDE DEF NewRow, Rows
<1>6. BornInv'
    BY <1>0, <1>4, <1>5 DEF TableOK, BornInv
<1>7. AuthorIsCreator'
    BY <1>0, <1>3, <1>4, <1>5 DEF TableOK, AuthorIsCreator, Present
<1>8. TableOK'
    BY <1>0, <1>3, <1>4, <1>6, <1>7 DEF TableOK
<1>9. LivesGoOn
    BY <1>0, <1>4 DEF LivesGoOn
<1>10. \A i \in Ids : Ended(i)' = Ended(i)
    BY <1>0, <1>2, <1>4, <1>5 DEF Ended
<1>11. QED
    BY <1>8, <1>9, <1>10

\* What the four statements leave of the row.
LEMMA StatementIs ==
    ASSUME IInv, NEW c \in Requests, At(c, "write"), Mine(c)
    PROVE  \/ req[c].kind = "delete" /\ Statement(c) = NoRow
           \/ /\ req[c].kind # "delete" /\ Statement(c) \in Rows
              /\ Statement(c).author = IF req[c].kind = "update" THEN req[c].author
                                       ELSE row[req[c].id].author
              /\ Statement(c).published = IF req[c].kind = "update" THEN row[req[c].id].published
                                          ELSE (req[c].kind = "publish")
<1>1. row[req[c].id] \in Rows
    BY DEF IInv, TypeOK, Mine, Present
<1>2. /\ req[c].kind \in {"update", "delete", "publish", "unpublish"}
      /\ req[c].kind = "update" => req[c].path \in Paths /\ req[c].author \in Subjects
    BY DEF IInv, PlaceInv, ReadInv, At
<1>3. CASE req[c].kind = "update"
    <2>1. Statement(c) = [row[req[c].id] EXCEPT !.path = req[c].path, !.author = req[c].author]
        BY <1>3 DEF Statement, Updated
    <2>2. QED
        BY <1>1, <1>2, <1>3, <2>1 DEF Rows
<1>4. CASE req[c].kind = "publish"
    <2>1. Statement(c) = [row[req[c].id] EXCEPT !.published = TRUE]
        BY <1>4 DEF Statement
    <2>2. QED
        BY <1>1, <1>4, <2>1 DEF Rows
<1>5. CASE req[c].kind = "unpublish"
    <2>1. Statement(c) = [row[req[c].id] EXCEPT !.published = FALSE]
        BY <1>5 DEF Statement
    <2>2. QED
        BY <1>1, <1>5, <2>1 DEF Rows
<1>6. QED
    BY <1>2, <1>3, <1>4, <1>5 DEF Statement

LEMMA StoreStep ==
    ASSUME IInv, NEW c \in Requests, At(c, "write"), Applies(c), Store(c),
           UNCHANGED <<born, maker>>
    PROVE  /\ TableOK' /\ LivesGoOn
           /\ \A i \in Ids : Ended(i)' =
                IF req[c].kind = "delete" /\ req[c].id = i THEN Ended(i) + 1 ELSE Ended(i)
<1>0. TableOK /\ row \in [Ids -> Rows \union {NoRow}] /\ born \in [Ids -> Nat]
      /\ maker \in [Ids -> Subjects \union {NoSubject}] /\ mixed \in [Ids -> BOOLEAN]
    BY DEF IInv, TypeOK, TableOK
<1>1. PICK n \in Present : n = req[c].id
    BY DEF Applies, Mine
<1>2. PICK x : x = Statement(c)
    OBVIOUS
<1>3. PICK k : k = req[c].kind
    OBVIOUS
<1>4. /\ row' = [row EXCEPT ![n] = x] /\ born' = born /\ maker' = maker /\ n \in Ids
      /\ mixed' = [mixed EXCEPT ![n] = @ \/ (k = "update" /\ req[c].life # born[n])]
    BY <1>1, <1>2, <1>3 DEF Store, Present
<1>5. \/ k = "delete" /\ x = NoRow
      \/ /\ k # "delete" /\ x \in Rows
         /\ x.author = IF k = "update" THEN req[c].author ELSE row[n].author
    BY <1>1, <1>2, <1>3, StatementIs DEF Applies
<1>6. Present' = IF k = "delete" THEN Present \ {n} ELSE Present
    BY <1>0, <1>1, <1>4, <1>5, ConstantsOK DEF Present
<1>7. BornInv'
    BY <1>0, <1>4, <1>6 DEF TableOK, BornInv
<1>8. \/ req[c].life # born[n] \/ mixed[n] \/ req[c].author = maker[n]
    BY <1>1 DEF IInv, ReadInv
<1>9. mixed' \in [Ids -> BOOLEAN] /\ \A i \in Ids : mixed[i] => mixed'[i]
    BY <1>0, <1>4
<1>10. AuthorIsCreator'
    <2>1. ASSUME NEW i \in Present', ~mixed'[i], i # n PROVE row'[i].author = maker'[i]
        BY <1>0, <1>4, <1>6, <1>9, <2>1 DEF TableOK, AuthorIsCreator, Present
    <2>2. ASSUME n \in Present', ~mixed'[n] PROVE row'[n].author = maker'[n]
        <3>1. k # "delete" /\ row'[n].author = IF k = "update" THEN req[c].author ELSE row[n].author
            BY <1>0, <1>4, <1>5, <1>6, <2>2
        <3>2. CASE k = "update"
            <4>1. ~mixed[n] /\ req[c].life = born[n]
                BY <1>0, <1>4, <2>2, <3>2
            <4>2. QED
                BY <1>4, <1>8, <3>1, <3>2, <4>1
        <3>3. CASE k # "update"
            BY <1>0, <1>1, <1>4, <1>9, <2>2, <3>1, <3>3 DEF TableOK, AuthorIsCreator
        <3>4. QED
            BY <3>2, <3>3
    <2>3. QED
        BY <2>1, <2>2 DEF AuthorIsCreator
<1>11. TableOK'
    BY <1>0, <1>4, <1>5, <1>7, <1>9, <1>10 DEF TableOK
<1>12. LivesGoOn
    BY <1>0, <1>4, <1>9 DEF LivesGoOn
<1>13. \A i \in Ids : Ended(i)' = IF k = "delete" /\ n = i THEN Ended(i) + 1 ELSE Ended(i)
    BY <1>0, <1>1, <1>4, <1>6 DEF Ended
<1>14. QED
    BY <1>1, <1>3, <1>11, <1>12, <1>13

LEMMA TableStill ==
    ASSUME IInv, UNCHANGED <<row, history>>
    PROVE  TableOK' /\ LivesGoOn /\ \A i \in Ids : Ended(i)' = Ended(i)
<1>1. UNCHANGED <<row, born, maker, mixed>>
    BY DEF history
<1>2. TableOK'
    BY <1>1 DEF IInv, TypeOK, TableOK, BornInv, AuthorIsCreator, Present
<1>3. QED
    BY <1>1, <1>2 DEF IInv, TypeOK, LivesGoOn, Ended, Present

-----------------------------------------------------------------------------
(* What a step leaves of the requests and of the events.                    *)

\* A request that stays as it is knows what it knew.
LEMMA OthersKnow ==
    ASSUME IInv, LivesGoOn, TableOK', NEW q \in Requests, req'[q] = req[q]
    PROVE  ReqInv(q)'
<1>0. ReqInv(q) /\ TypeOK
    BY Zenon, ByRequest
<1>1. ASSUME At(q, "write")
      PROVE  /\ req[q].life <= born'[req[q].id]
             /\ \/ req[q].life # born'[req[q].id] \/ mixed'[req[q].id]
                \/ req[q].author = maker'[req[q].id]
    <2>1. PICK i \in Ids : i = req[q].id
        BY <1>0, <1>1 DEF ReqInv, At
    <2>2. /\ req[q].life \in Nat /\ born[i] \in Nat /\ born'[i] \in Nat /\ born'[i] >= born[i]
          /\ req[q].life <= born[i]
          /\ \/ req[q].life # born[i] \/ mixed[i] \/ req[q].author = maker[i]
        BY <1>0, <1>1, <2>1 DEF ReqInv, TypeOK, TableOK, LivesGoOn
    <2>3. QED
        BY <2>1, <2>2 DEF LivesGoOn
<1>2. QED
    BY <1>0, <1>1 DEF ReqInv, At

\* The events that are told and still to be told never outnumber the rows that have
\* gone: when no request begins or ends to tell, ...
LEMMA EventsStill ==
    ASSUME IInv, NEW c \in Requests, req' = [req EXCEPT ![c] = req'[c]], UNCHANGED trail,
           TableOK', \A i \in Ids : Ended(i)' >= Ended(i),
           ~(At(c, "emit") /\ req[c].kind = "delete"),
           ~(req'[c].pc = "emit" /\ req'[c].kind = "delete")
    PROVE  EventInv'
<1>1. \A d \in Requests : d # c => req'[d] = req[d]
    BY DEF IInv, TypeOK
<1>2. \A i : Telling(i)' = Telling(i)
    BY <1>1 DEF Telling, At
<1>3. \A i \in Ids : Cardinality(Telling(i)) \in Nat
    <2>1. \A i \in Ids : Telling(i) \subseteq Requests
        BY DEF Telling
    <2>2. QED
        BY <2>1, FS_Subset, FS_CardinalityType, ConstantsOK
<1>4. \A i \in Ids : Ended(i) \in Int /\ Ended(i)' \in Int /\ trail[i] \in Nat
    BY DEF IInv, TypeOK, TableOK, Ended
<1>5. \A i \in Ids : trail[i] + Cardinality(Telling(i)) <= Ended(i)
    BY DEF IInv, EventInv
<1>6. ASSUME NEW i \in Ids PROVE trail'[i] + Cardinality(Telling(i)') <= Ended(i)'
    <2>1. Cardinality(Telling(i)') = Cardinality(Telling(i)) /\ Ended(i)' >= Ended(i)
        BY <1>2
    <2>2. QED
        BY <1>3, <1>4, <1>5, <2>1
<1>7. QED
    BY <1>6 DEF EventInv

\* ... when one has deleted a row, ...
LEMMA EventsJoin ==
    ASSUME IInv, NEW c \in Requests, req' = [req EXCEPT ![c] = req'[c]], UNCHANGED trail,
           TableOK', NEW n \in Ids,
           \A i \in Ids : Ended(i)' = IF i = n THEN Ended(i) + 1 ELSE Ended(i),
           ~At(c, "emit"),
           req'[c].pc = "emit", req'[c].kind = "delete", req'[c].id = n
    PROVE  EventInv'
<1>1. \A d \in Requests : d # c => req'[d] = req[d]
    BY DEF IInv, TypeOK
<1>2. /\ \A i \in Ids : i # n => Telling(i)' = Telling(i)
      /\ Telling(n)' = Telling(n) \union {c} /\ c \notin Telling(n)
    BY <1>1 DEF Telling, At
<1>3. \A i \in Ids : IsFiniteSet(Telling(i)) /\ Cardinality(Telling(i)) \in Nat
    <2>1. \A i \in Ids : Telling(i) \subseteq Requests
        BY DEF Telling
    <2>2. QED
        BY <2>1, FS_Subset, FS_CardinalityType, ConstantsOK
<1>4. Cardinality(Telling(n)') = Cardinality(Telling(n)) + 1
    BY <1>2, <1>3, FS_AddElement
<1>5. \A i \in Ids : Ended(i) \in Int /\ trail[i] \in Nat
    BY DEF IInv, TypeOK, Ended
<1>6. \A i \in Ids : trail[i] + Cardinality(Telling(i)) <= Ended(i)
    BY DEF IInv, EventInv
<1>7. ASSUME NEW i \in Ids PROVE trail'[i] + Cardinality(Telling(i)') <= Ended(i)'
    <2>1. CASE i = n
        <3>1. Ended(i)' = Ended(i) + 1
            BY <2>1
        <3>2. QED
            BY <1>3, <1>4, <1>5, <1>6, <2>1, <3>1
    <2>2. CASE i # n
        <3>1. Ended(i)' = Ended(i) /\ Cardinality(Telling(i)') = Cardinality(Telling(i))
            BY <1>2, <2>2
        <3>2. QED
            BY <1>6, <3>1
    <2>3. QED
        BY <2>1, <2>2
<1>8. QED
    BY <1>7 DEF EventInv

\* ... and when one has told, or lost, its event.
LEMMA EventsLeave ==
    ASSUME IInv, NEW c \in Requests, Emit(c), req[c].kind = "delete",
           req' = [req EXCEPT ![c] = req'[c]], req'[c].pc = "answered"
    PROVE  EventInv'
<1>0. At(c, "emit") /\ UNCHANGED <<row, born>>
    BY DEF Emit, history
<1>1. \A d \in Requests : d # c => req'[d] = req[d]
    BY DEF IInv, TypeOK
<1>2. PICK n \in Ids : n = req[c].id
    BY <1>0 DEF IInv, PlaceInv, At
<1>3. /\ \A i \in Ids : i # n => Telling(i)' = Telling(i)
      /\ Telling(n)' = Telling(n) \ {c} /\ c \in Telling(n)
    BY <1>0, <1>1, <1>2 DEF Telling, At
<1>4. \A i \in Ids : IsFiniteSet(Telling(i)) /\ Cardinality(Telling(i)) \in Nat
    <2>1. \A i \in Ids : Telling(i) \subseteq Requests
        BY DEF Telling
    <2>2. QED
        BY <2>1, FS_Subset, FS_CardinalityType, ConstantsOK
<1>5. Cardinality(Telling(n)') = Cardinality(Telling(n)) - 1
    BY <1>3, <1>4, FS_RemoveElement
<1>6. trail \in [Ids -> Nat] /\ \A i \in Ids : Ended(i) \in Int /\ Ended(i)' = Ended(i)
    BY <1>0 DEF IInv, TypeOK, Ended, Present
<1>7. trail' = trail \/ trail' = [trail EXCEPT ![n] = @ + 1]
    BY <1>2 DEF Emit
<1>8. \A i \in Ids : trail[i] + Cardinality(Telling(i)) <= Ended(i)
    BY DEF IInv, EventInv
<1>9. ASSUME NEW i \in Ids PROVE trail'[i] + Cardinality(Telling(i)') <= Ended(i)'
    <2>1. CASE i = n
        <3>1. trail'[n] \in {trail[n], trail[n] + 1}
            BY <1>6, <1>7
        <3>2. QED
            BY <1>4, <1>5, <1>6, <1>8, <2>1, <3>1
    <2>2. CASE i # n
        <3>1. trail'[i] = trail[i] /\ Cardinality(Telling(i)') = Cardinality(Telling(i))
            BY <1>3, <1>6, <1>7, <2>2
        <3>2. QED
            BY <1>6, <1>8, <3>1
    <2>3. QED
        BY <2>1, <2>2
<1>10. QED
    BY <1>9 DEF EventInv

\* What each step has to leave.
Leaves(c) ==
    /\ req' = [req EXCEPT ![c] = req'[c]] /\ req'[c] \in ReqType /\ ReqInv(c)'
    /\ TableOK' /\ LivesGoOn
    /\ trail' \in [Ids -> Nat] /\ EventInv'

LEMMA ArriveStep ==
    ASSUME IInv, Arrive
    PROVE  \E c \in Requests : Leaves(c)
<1>0. TypeOK /\ trail \in [Ids -> Nat]
    BY DEF IInv, TypeOK
<1>1. UNCHANGED <<row, history, trail>>
    BY DEF Arrive, Create, Update, Change, Start
<1>2. PICK c \in Requests, r \in ReqType :
            /\ req[c].pc \in {"idle", "answered"} /\ req' = [req EXCEPT ![c] = r]
            /\ r.pc \in {"insert", "read"} /\ r.id \in Ids
            /\ r.pc = "insert" => /\ r.kind = "create" /\ r.tenant \in Tenants
                                  /\ r.author \in Subjects /\ r.path \in Paths
            /\ r.pc = "read" => /\ r.kind \in {"update", "delete", "publish", "unpublish"}
                                /\ r.kind = "update" => r.path \in Paths
    BY Arrival
<1>3. req'[c] = r /\ req' = [req EXCEPT ![c] = req'[c]]
    BY <1>0, <1>2 DEF TypeOK
<1>4. ReqInv(c)'
    BY <1>2, <1>3 DEF ReqInv, At
<1>5. TableOK' /\ LivesGoOn /\ \A i \in Ids : Ended(i)' = Ended(i)
    BY <1>1, TableStill
<1>6. \A i \in Ids : Ended(i) \in Int
    BY <1>0 DEF TypeOK, Ended
<1>7. EventInv'
    <2>1. ~At(c, "emit") /\ req'[c].pc # "emit" /\ \A i \in Ids : Ended(i)' >= Ended(i)
        BY <1>2, <1>3, <1>5, <1>6 DEF At
    <2>2. QED
        BY <1>1, <1>3, <1>5, <2>1, EventsStill
<1>8. QED
    BY <1>0, <1>1, <1>3, <1>4, <1>5, <1>7 DEF Leaves

LEMMA AnswerStep ==
    ASSUME IInv, NEW c \in Requests, Answer(c), UNCHANGED trail, ~At(c, "emit"),
           TableOK', LivesGoOn, \A i \in Ids : Ended(i)' >= Ended(i)
    PROVE  Leaves(c)
<1>1. /\ req' = [req EXCEPT ![c] = req'[c]] /\ req'[c] \in ReqType /\ req'[c].pc = "answered"
      /\ trail' \in [Ids -> Nat]
    BY Answers DEF IInv, TypeOK
<1>2. ReqInv(c)'
    BY <1>1 DEF ReqInv, At
<1>3. EventInv'
    BY <1>1, EventsStill
<1>4. QED
    BY <1>1, <1>2, <1>3 DEF Leaves

LEMMA InsertStep ==
    ASSUME IInv, NEW c \in Requests, Insert(c) \/ InsertFails(c)
    PROVE  Leaves(c)
<1>0. TypeOK /\ At(c, "insert") /\ UNCHANGED trail
    BY DEF IInv, Insert, InsertFails
<1>1. \A i \in Ids : Ended(i) \in Int
    BY <1>0 DEF TypeOK, Ended
<1>2. /\ UNCHANGED <<row, history>> \/ (~Refused(c) /\ StoreNew(c))
      /\ Answer(c) \/ Proceed(c, "emit")
    BY DEF Insert, InsertFails
<1>3. TableOK' /\ LivesGoOn /\ \A i \in Ids : Ended(i)' = Ended(i)
    BY <1>0, <1>2, TableStill, NewRowStep
<1>4. CASE Answer(c)
    BY <1>0, <1>1, <1>3, <1>4, AnswerStep DEF At
<1>5. CASE Proceed(c, "emit")
    <2>1. /\ req' = [req EXCEPT ![c] = req'[c]] /\ req'[c] \in ReqType /\ req'[c].pc = "emit"
          /\ req'[c].kind = req[c].kind /\ req'[c].id = req[c].id
        BY <1>0, <1>5, Proceeds DEF Places
    <2>2. req[c].kind = "create" /\ req[c].id \in Ids
        BY <1>0 DEF IInv, PlaceInv, At
    <2>3. ReqInv(c)'
        BY <2>1, <2>2 DEF ReqInv, At
    <2>4. EventInv'
        BY <1>0, <1>1, <1>3, <2>1, <2>2, EventsStill
    <2>5. QED
        BY <1>0, <1>3, <2>1, <2>3, <2>4 DEF Leaves, TypeOK
<1>6. QED
    BY <1>2, <1>4, <1>5

LEMMA ReadStep ==
    ASSUME IInv, NEW c \in Requests, Read(c) \/ ReadFails(c)
    PROVE  Leaves(c)
<1>0. TypeOK /\ At(c, "read") /\ UNCHANGED <<row, history, trail>>
    BY DEF IInv, Read, ReadFails
<1>1. TableOK' /\ LivesGoOn /\ \A i \in Ids : Ended(i)' = Ended(i) /\ Ended(i) \in Int
    BY <1>0, TableStill DEF TypeOK, Ended
<1>2. CASE Answer(c)
    BY <1>0, <1>1, <1>2, AnswerStep DEF At
<1>3. CASE Read(c) /\ Mine(c)
    <2>1. /\ req' = [req EXCEPT ![c] = req'[c]] /\ req'[c] \in ReqType /\ req'[c].pc = "write"
          /\ req'[c].kind = req[c].kind /\ req'[c].id = req[c].id /\ req'[c].path = req[c].path
          /\ req'[c].author = row[req[c].id].author /\ req'[c].life = born[req[c].id]
        BY <1>3, ReadIs
    <2>2. PICK i \in Present : i = req[c].id
        BY <1>3 DEF Mine
    <2>3. /\ row[i].author \in Subjects /\ born[i] \in Nat
          /\ mixed[i] \/ row[i].author = maker[i]
        BY <1>0, <2>2 DEF IInv, TypeOK, Present, Rows, AuthorIsCreator
    <2>4. UNCHANGED <<born, maker, mixed>>
        BY <1>0 DEF history
    <2>5. /\ req[c].kind \in {"update", "delete", "publish", "unpublish"}
          /\ req[c].kind = "update" => req[c].path \in Paths
        BY <1>0 DEF IInv, PlaceInv, At
    <2>6. ReqInv(c)'
        BY <2>1, <2>2, <2>3, <2>4, <2>5 DEF ReqInv, At, Present
    <2>7. EventInv'
        BY <1>0, <1>1, <2>1, EventsStill DEF At
    <2>8. QED
        BY <1>0, <1>1, <2>1, <2>6, <2>7 DEF Leaves, TypeOK
<1>4. QED
    BY <1>2, <1>3 DEF Read, ReadFails

LEMMA WriteStep ==
    ASSUME IInv, NEW c \in Requests, Write(c) \/ WriteFails(c)
    PROVE  Leaves(c)
<1>0. TypeOK /\ At(c, "write") /\ UNCHANGED <<born, maker, trail>>
    BY DEF IInv, Write, WriteFails
<1>1. \A i \in Ids : Ended(i) \in Int
    BY <1>0 DEF TypeOK, Ended
<1>2. CASE UNCHANGED <<row, mixed>> /\ Answer(c)
    <2>1. TableOK' /\ LivesGoOn /\ \A i \in Ids : Ended(i)' = Ended(i)
        BY <1>0, <1>2, TableStill DEF history
    <2>2. QED
        BY <1>0, <1>1, <1>2, <2>1, AnswerStep DEF At
<1>3. CASE Applies(c) /\ Store(c)
    <2>1. /\ TableOK' /\ LivesGoOn
          /\ \A i \in Ids : Ended(i)' =
                IF req[c].kind = "delete" /\ req[c].id = i THEN Ended(i) + 1 ELSE Ended(i)
        BY <1>0, <1>3, StoreStep
    <2>2. CASE Answer(c)
        <3>1. \A i \in Ids : Ended(i)' >= Ended(i)
            BY <1>1, <2>1
        <3>2. QED
            BY <1>0, <2>1, <2>2, <3>1, AnswerStep DEF At
    <2>3. CASE Proceed(c, "emit")
        <3>1. /\ req' = [req EXCEPT ![c] = req'[c]] /\ req'[c] \in ReqType /\ req'[c].pc = "emit"
              /\ req'[c].kind = req[c].kind /\ req'[c].id = req[c].id
            BY <1>0, <2>3, Proceeds DEF Places
        <3>2. PICK n \in Ids : n = req[c].id
            BY <1>0 DEF IInv, PlaceInv, At
        <3>3. ReqInv(c)'
            BY <3>1, <3>2 DEF ReqInv, At
        <3>4. EventInv'
            <4>1. CASE req[c].kind = "delete"
                <5>1. \A i \in Ids : Ended(i)' = IF i = n THEN Ended(i) + 1 ELSE Ended(i)
                    BY <2>1, <3>2, <4>1
                <5>2. ~At(c, "emit")
                    BY <1>0 DEF At
                <5>3. QED
                    BY <1>0, <2>1, <3>1, <3>2, <4>1, <5>1, <5>2, EventsJoin
            <4>2. CASE req[c].kind # "delete"
                <5>1. \A i \in Ids : Ended(i)' >= Ended(i)
                    BY <1>1, <2>1, <4>2
                <5>2. QED
                    BY <1>0, <2>1, <3>1, <4>2, <5>1, EventsStill
            <4>3. QED
                BY <4>1, <4>2
        <3>5. QED
            BY <1>0, <2>1, <3>1, <3>3, <3>4 DEF Leaves, TypeOK
    <2>4. QED
        BY <2>2, <2>3 DEF Write, WriteFails
<1>4. QED
    BY <1>2, <1>3 DEF Write, WriteFails

LEMMA EmitStep ==
    ASSUME IInv, NEW c \in Requests, Emit(c)
    PROVE  Leaves(c)
<1>0. TypeOK /\ At(c, "emit") /\ UNCHANGED <<row, history>> /\ req[c].id \in Ids
    BY DEF IInv, Emit, PlaceInv, At
<1>1. /\ req' = [req EXCEPT ![c] = req'[c]] /\ req'[c] \in ReqType /\ req'[c].pc = "answered"
    BY <1>0, Answers DEF Emit
<1>2. ReqInv(c)'
    BY <1>1 DEF ReqInv, At
<1>3. TableOK' /\ LivesGoOn /\ \A i \in Ids : Ended(i)' = Ended(i) /\ Ended(i) \in Int
    BY <1>0, TableStill DEF TypeOK, Ended
<1>4. trail' \in [Ids -> Nat]
    BY <1>0 DEF Emit, TypeOK
<1>5. EventInv'
    <2>1. CASE req[c].kind = "delete"
        BY <1>1, <2>1, EventsLeave
    <2>2. CASE req[c].kind # "delete"
        <3>1. UNCHANGED trail
            BY <1>0, <2>2 DEF Emit, TypeOK
        <3>2. QED
            BY <1>1, <1>3, <2>2, <3>1, EventsStill
    <2>3. QED
        BY <2>1, <2>2
<1>6. QED
    BY <1>1, <1>2, <1>3, <1>4, <1>5 DEF Leaves

\* Every step keeps the inductive invariant.
LEMMA Consecution ==
    ASSUME IInv, [Next]_vars
    PROVE  IInv'
<1>0. TypeOK
    BY DEF IInv
<1>1. CASE UNCHANGED vars
    BY <1>1 DEF vars, history, IInv, TypeOK, PlaceInv, ReadInv, BornInv, AuthorIsCreator,
        EventInv, Telling, Ended, Present, At
<1>2. CASE Next
    <2>1. PICK c \in Requests : Leaves(c)
        BY <1>2, ArriveStep, InsertStep, ReadStep, WriteStep, EmitStep DEF Next
    <2>2. \A q \in Requests : ReqInv(q)'
        <3>1. ASSUME NEW q \in Requests, q # c PROVE ReqInv(q)'
            <4>1. req'[q] = req[q]
                BY <1>0, <2>1, <3>1 DEF Leaves, TypeOK
            <4>2. QED
                BY <2>1, <4>1, OthersKnow DEF Leaves
        <3>2. QED
            BY <2>1, <3>1 DEF Leaves
    <2>3. req' \in [Requests -> ReqType]
        BY <1>0, <2>1 DEF Leaves, TypeOK, ReqType
    <2>4. calls' \in Nat
        <3>1. Arrive => calls' = calls + 1
            BY DEF Arrive, Create, Update, Change, Start
        <3>2. ~Arrive => calls' = calls
            BY <1>2 DEF Next, Insert, InsertFails, Read, ReadFails, Write, WriteFails, Emit
        <3>3. QED
            BY <1>0, <3>1, <3>2 DEF TypeOK
    <2>5. (TypeOK /\ BornInv /\ AuthorIsCreator /\ EventInv)'
        BY <2>1, <2>3, <2>4 DEF Leaves, TableOK, TypeOK, ReqType
    <2>6. QED
        BY Zenon, <2>2, <2>5 DEF IInv, ReqInv, PlaceInv, ReadInv
<1>3. QED
    BY <1>1, <1>2

LEMMA Initially ==
    ASSUME Init
    PROVE  IInv
<1>1. \A c \in Requests : req[c].pc = "idle" /\ req[c] = Idle
    BY DEF Init, Idle
<1>2. PICK r \in Rows \union {NoRow}, i \in Ids :
        /\ row = [j \in Ids |-> IF j = i THEN r ELSE NoRow]
        /\ born = [j \in Ids |-> IF j = i /\ r # NoRow THEN 1 ELSE 0]
        /\ maker = [j \in Ids |-> IF j = i /\ r # NoRow THEN r.author ELSE NoSubject]
        /\ mixed = [j \in Ids |-> FALSE]
    BY DEF Init
<1>3. r # NoRow => r.author \in Subjects
    BY DEF Rows
<1>4. TypeOK
    <2>1. req \in [Requests -> ReqType]
        BY IdleType DEF Init
    <2>2. /\ row \in [Ids -> Rows \union {NoRow}] /\ born \in [Ids -> Nat]
          /\ maker \in [Ids -> Subjects \union {NoSubject}] /\ mixed \in [Ids -> BOOLEAN]
        BY <1>2, <1>3
    <2>3. trail \in [Ids -> Nat] /\ calls \in Nat
        BY DEF Init
    <2>4. QED
        BY <2>1, <2>2, <2>3 DEF TypeOK, ReqType
<1>5. BornInv /\ AuthorIsCreator
    BY <1>2 DEF BornInv, AuthorIsCreator, Present
<1>6. EventInv
    <2>1. \A j \in Ids : Telling(j) = {} /\ trail[j] = 0
        BY <1>1 DEF Telling, At, Init
    <2>2. \A j \in Ids : Ended(j) = 0
        BY <1>2 DEF Ended, Present
    <2>3. QED
        BY <2>1, <2>2, FS_EmptySet DEF EventInv
<1>7. \A c \in Requests : ReqInv(c)
    BY <1>1 DEF ReqInv, At
<1>8. QED
    BY Zenon, <1>4, <1>5, <1>6, <1>7, ByRequest

THEOREM Invariant == Spec => []IInv
<1>1. Init => IInv
    BY Initially
<1>2. IInv /\ [Next]_vars => IInv'
    BY Consecution
<1>3. QED
    BY <1>1, <1>2, PTL DEF Spec

\* Rows, requests and histories have their types.
THEOREM TypeCorrect == Spec => []TypeOK
<1>1. IInv => TypeOK
    BY DEF IInv
<1>2. QED
    BY <1>1, Invariant, PTL

\* A row keeps the author who created it, whatever updates have read and when, unless
\* one of them had read a former row of the same id.
THEOREM AuthorsAreCreators == Spec => []AuthorIsCreator
<1>1. IInv => AuthorIsCreator
    BY DEF IInv
<1>2. QED
    BY <1>1, Invariant, PTL

\* No more deletions are told than rows have gone.
THEOREM DeletionsAreToldOnce == Spec => []DeletedOnce
<1>1. IInv => DeletedOnce
    <2> SUFFICES ASSUME IInv, NEW i \in Ids PROVE trail[i] <= Ended(i)
        BY DEF DeletedOnce
    <2>1. Telling(i) \subseteq Requests
        BY DEF Telling
    <2>2. Cardinality(Telling(i)) \in Nat
        BY <2>1, FS_Subset, FS_CardinalityType, ConstantsOK
    <2>3. trail[i] + Cardinality(Telling(i)) <= Ended(i) /\ trail[i] \in Nat /\ Ended(i) \in Int
        BY DEF IInv, EventInv, TypeOK, Ended
    <2>4. QED
        BY <2>2, <2>3
<1>2. QED
    BY <1>1, Invariant, PTL

\* While a row is there, only a publish request of its tenant publishes it and only an
\* unpublish request takes it back.
THEOREM PublicationStays == Spec => PublicationIsKept
<1>1. ASSUME IInv, [Next]_vars
      PROVE  [\A i \in Ids : SameLife(i) /\ row'[i].published # row[i].published =>
                \E c \in Requests :
                    /\ Stepping(c) /\ req[c].id = i /\ req[c].tenant = row[i].tenant
                    /\ req[c].kind = IF row'[i].published THEN "publish" ELSE "unpublish"]_vars
    <2> SUFFICES ASSUME NEW i \in Ids, SameLife(i), row'[i].published # row[i].published
                 PROVE  \E c \in Requests :
                    /\ Stepping(c) /\ req[c].id = i /\ req[c].tenant = row[i].tenant
                    /\ req[c].kind = IF row'[i].published THEN "publish" ELSE "unpublish"
        OBVIOUS
    <2>0. TypeOK /\ row \in [Ids -> Rows \union {NoRow}] /\ born \in [Ids -> Nat]
        BY <1>1 DEF IInv, TypeOK
    <2>1. row' # row
        OBVIOUS
    <2>2. PICK c \in Requests :
            \/ At(c, "insert") /\ ~Refused(c) /\ StoreNew(c)
            \/ At(c, "write") /\ Applies(c) /\ Store(c) /\ (Write(c) \/ WriteFails(c))
        BY <1>1, <2>1 DEF Next, vars, history, Arrive, Create, Update, Change, Start, Insert,
            InsertFails, Read, ReadFails, Write, WriteFails, Emit
    <2>3. ~(At(c, "insert") /\ ~Refused(c) /\ StoreNew(c))
        BY <1>1, <2>0 DEF StoreNew, SameLife, Refused, IInv, PlaceInv, At
    <2>4. At(c, "write") /\ Mine(c) /\ row' = [row EXCEPT ![req[c].id] = Statement(c)]
        BY <2>2, <2>3 DEF Applies, Store
    <2>5. req[c].id = i /\ row'[i] = Statement(c) /\ req[c].tenant = row[i].tenant
        BY <2>0, <2>4 DEF Mine, Present
    <2>6. /\ req[c].kind # "delete"
          /\ row'[i].published = IF req[c].kind = "update" THEN row[i].published
                                 ELSE (req[c].kind = "publish")
        BY <1>1, <2>4, <2>5, StatementIs DEF SameLife
    <2>7. req[c].kind = IF row'[i].published THEN "publish" ELSE "unpublish"
        BY <1>1, <2>4, <2>6 DEF IInv, PlaceInv, At
    <2>8. Stepping(c)
        <3>1. Answer(c) \/ Proceed(c, "emit")
            BY <2>2, <2>3 DEF Write, WriteFails
        <3>2. req'[c].pc # "write"
            BY <2>0, <3>1, Answers, Proceeds DEF Places
        <3>3. QED
            BY <2>4, <3>2 DEF Stepping, At
    <2>9. QED
        BY <2>5, <2>7, <2>8
<1>2. QED
    BY <1>1, Invariant, PTL DEF Spec, PublicationIsKept

=============================================================================
