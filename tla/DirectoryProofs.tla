--------------------------- MODULE DirectoryProofs ---------------------------
(***************************************************************************)
(* Proofs about Directory for every number of tenants, users and requests, *)
(* every IdOf and every choice of Env: the inductive invariant IInv, and   *)
(* what it says of tenants, of the owners of credentials and of what       *)
(* failed creations leave behind.                                          *)
(***************************************************************************)
EXTENDS Directory, TLAPS

\* The type of a request.
ReqType ==
    [ pc : Places, kind : Kinds, tenant : Tenants \union {NoTenant},
      subject : Ids \union {NoId}, admin : BOOLEAN, id : Ids \union {NoId},
      name : Names \union {NoName}, active : BOOLEAN \union {Keep},
      pass : Passwords \union {NoPass},
      known : BOOLEAN, stray : BOOLEAN, result : Results ]

\* What PlaceInv, PermissionInv and KnownInv say of one request.
Busy(r) == r.pc \notin {"idle", "answered"}

Sound(r) ==
    /\ Busy(r) => r.tenant \in Tenants /\ r.id \in Ids
    /\ r.pc \in {"read", "write"} => r.kind = "update"
    /\ r.pc \in {"tenant", "password"} => r.kind \in {"create", "update"}
    /\ r.pc \in {"insert", "compensate"} => r.kind = "create"
    /\ r.pc = "delete" => r.kind = "delete"
    /\ r.pc \in {"read", "tenant", "insert", "write"} => r.name \in Names
    /\ r.pc \in {"tenant", "insert", "write"} => r.active \in BOOLEAN
    /\ Busy(r) /\ r.kind # "create" => MayMutate(r)
    /\ Busy(r) => MaySetPassword(r)
    /\ r.pc \in {"password", "compensate"} => r.admin
    /\ r.pc = "tenant" /\ r.kind = "create" /\ r.tenant \in Existing => r.known
    /\ r.pc = "insert" => r.known

LEMMA ByRequest ==
    IInv <=> TypeOK /\ MakerInv /\ \A c \in Requests : Sound(req[c])
<1>1. \A c \in Requests : Free(c) <=> ~Busy(req[c])
    BY DEF Free, Busy
<1>2. QED
    BY Zenon, <1>1 DEF IInv, Sound, PlaceInv, PermissionInv, KnownInv, At

LEMMA ByRequestNext ==
    ASSUME TypeOK', MakerInv', \A c \in Requests : Sound(req[c])'
    PROVE  IInv'
<1>1. \A c \in Requests : (Free(c) <=> ~Busy(req[c]))'
    BY DEF Free, Busy
<1>2. QED
    BY Zenon, <1>1 DEF IInv, Sound, PlaceInv, PermissionInv, KnownInv, At

LEMMA IdleType == Idle \in ReqType
BY DEF Idle, ReqType, Places, Kinds, Results

\* The changes that the steps make to a request keep its type.
LEMMA UpdateType ==
    ASSUME NEW x \in ReqType
    PROVE  /\ \A p \in Places : [x EXCEPT !.pc = p] \in ReqType
           /\ \A p \in Places, b \in BOOLEAN : [x EXCEPT !.pc = p, !.active = b] \in ReqType
           /\ \A p \in Places, w \in Results : [x EXCEPT !.pc = p, !.result = w] \in ReqType
           /\ \A b \in BOOLEAN : [x EXCEPT !.known = b] \in ReqType
           /\ [x EXCEPT !.stray = TRUE] \in ReqType
BY DEF ReqType

LEMMA FinishedType ==
    ASSUME TypeOK, NEW c \in Requests, NEW w \in Results
    PROVE  /\ Finished(c, w) \in ReqType
           /\ Finished(c, w).pc = "answered" /\ Finished(c, w).result = w
           /\ Finished(c, w).stray = req[c].stray
           /\ [Finished(c, w) EXCEPT !.stray = TRUE] \in ReqType
           /\ [Finished(c, w) EXCEPT !.stray = TRUE].pc = "answered"
           /\ [Finished(c, w) EXCEPT !.stray = TRUE].stray
<1>1. req[c].stray \in BOOLEAN /\ "answered" \in Places
    BY DEF TypeOK, Places
<1>2. Finished(c, w) \in ReqType
    BY <1>1, IdleType DEF Finished, ReqType
<1>3. /\ Finished(c, w).pc = "answered" /\ Finished(c, w).result = w
      /\ Finished(c, w).stray = req[c].stray
    BY DEF Finished, Idle
<1> HIDE DEF Finished
<1>4. [Finished(c, w) EXCEPT !.stray = TRUE] \in ReqType
    BY <1>2, UpdateType
<1>5. /\ [Finished(c, w) EXCEPT !.stray = TRUE].pc = "answered"
      /\ [Finished(c, w) EXCEPT !.stray = TRUE].stray
    BY <1>2, <1>3 DEF ReqType
<1>6. QED
    BY <1>2, <1>3, <1>4, <1>5

-----------------------------------------------------------------------------
(* Where a step takes the request whose step it is.                         *)

\* The step changes c alone, to a well-typed request.
Moves(c) == req' = [req EXCEPT ![c] = req'[c]] /\ req'[c] \in ReqType

LEMMA MovesTo ==
    ASSUME TypeOK, NEW c \in Requests, NEW r \in ReqType, req' = [req EXCEPT ![c] = r]
    PROVE  Moves(c) /\ req'[c] = r
BY DEF TypeOK, Moves

LEMMA Answers ==
    ASSUME TypeOK, NEW c \in Requests, NEW w \in Results, Answer(c, w)
    PROVE  /\ Moves(c) /\ req'[c].pc = "answered" /\ req'[c].result = w
           /\ req'[c].stray = req[c].stray
<1>1. Finished(c, w) \in ReqType /\ req' = [req EXCEPT ![c] = Finished(c, w)]
    BY FinishedType DEF Answer
<1>2. PICK f : f = Finished(c, w)
    OBVIOUS
<1>3. f \in ReqType /\ f.pc = "answered" /\ f.result = w /\ f.stray = req[c].stray
    BY Zenon, <1>2, FinishedType
<1>4. Moves(c) /\ req'[c] = f
    BY <1>1, <1>2, <1>3, MovesTo
<1>5. QED
    BY <1>3, <1>4

LEMMA AnswersStray ==
    ASSUME TypeOK, NEW c \in Requests, NEW w \in Results, AnswerStray(c, w)
    PROVE  Moves(c) /\ req'[c].pc = "answered" /\ req'[c].stray
<1> DEFINE f == [Finished(c, w) EXCEPT !.stray = TRUE]
<1>1. f \in ReqType /\ f.pc = "answered" /\ f.stray
    BY FinishedType
<1>2. req' = [req EXCEPT ![c] = f]
    BY DEF AnswerStray
<1> HIDE DEF f
<1>3. QED
    BY <1>1, <1>2, MovesTo

\* A request that goes on is the same but for its place and what it was told.
Same(r, x) ==
    /\ r.kind = x.kind /\ r.tenant = x.tenant /\ r.subject = x.subject /\ r.admin = x.admin
    /\ r.id = x.id /\ r.name = x.name /\ r.pass = x.pass /\ r.known = x.known

LEMMA Proceeds ==
    ASSUME TypeOK, NEW c \in Requests, NEW p \in Places, Proceed(c, p)
    PROVE  /\ Moves(c) /\ req'[c].pc = p /\ Same(req'[c], req[c])
           /\ req'[c].active = req[c].active
<1>1. req \in [Requests -> ReqType]
    BY DEF TypeOK, ReqType
<1>2. req' = [req EXCEPT ![c] = [req[c] EXCEPT !.pc = p]]
    BY <1>1 DEF Proceed
<1>3. [req[c] EXCEPT !.pc = p] \in ReqType
    BY <1>1, UpdateType
<1>4. Moves(c) /\ req'[c] = [req[c] EXCEPT !.pc = p]
    BY <1>2, <1>3, MovesTo
<1>5. /\ [req[c] EXCEPT !.pc = p].pc = p /\ Same([req[c] EXCEPT !.pc = p], req[c])
      /\ [req[c] EXCEPT !.pc = p].active = req[c].active
    BY <1>1 DEF ReqType, Same
<1>6. QED
    BY <1>4, <1>5

LEMMA PasswordOrDoneIs ==
    ASSUME TypeOK, NEW c \in Requests, PasswordOrDone(c)
    PROVE  /\ Moves(c)
           /\ \/ req'[c].pc = "answered" /\ req'[c].result = "ok"
              \/ /\ req'[c].pc = "password" /\ Same(req'[c], req[c]) /\ req[c].pass # NoPass
<1>1. CASE req[c].pass = NoPass
    BY <1>1, Answers DEF PasswordOrDone, Answer, Results
<1>2. CASE req[c].pass # NoPass
    BY <1>2, Proceeds DEF PasswordOrDone, Proceed, Places
<1>3. QED
    BY <1>1, <1>2

\* The update handler's read of the row gives the request its active flag.
LEMMA ReadIs ==
    ASSUME TypeOK, NEW c \in Requests, ReadExisting(c), Mine(c)
    PROVE  /\ Moves(c) /\ req'[c].pc = "tenant" /\ Same(req'[c], req[c])
           /\ req'[c].active \in BOOLEAN
<1>1. req \in [Requests -> ReqType] /\ req[c].active \in BOOLEAN \union {Keep}
    BY DEF TypeOK, ReqType
<1>2. row[req[c].id].active \in BOOLEAN
    BY DEF TypeOK, Mine, Users, Rows
<1>3. PICK b \in BOOLEAN : req' = [req EXCEPT ![c] = [req[c] EXCEPT !.pc = "tenant", !.active = b]]
    <2>1. req' = [req EXCEPT ![c] = [req[c] EXCEPT !.pc = "tenant",
                        !.active = IF req[c].active = Keep THEN row[req[c].id].active ELSE req[c].active]]
        BY <1>1 DEF ReadExisting
    <2>2. (IF req[c].active = Keep THEN row[req[c].id].active ELSE req[c].active) \in BOOLEAN
        BY <1>1, <1>2
    <2>3. QED
        BY <2>1, <2>2, Zenon
<1>4. [req[c] EXCEPT !.pc = "tenant", !.active = b] \in ReqType
    BY <1>1, UpdateType DEF Places
<1>5. Moves(c) /\ req'[c] = [req[c] EXCEPT !.pc = "tenant", !.active = b]
    BY <1>3, <1>4, MovesTo
<1>6. /\ [req[c] EXCEPT !.pc = "tenant", !.active = b].pc = "tenant"
      /\ Same([req[c] EXCEPT !.pc = "tenant", !.active = b], req[c])
      /\ [req[c] EXCEPT !.pc = "tenant", !.active = b].active = b
    BY <1>1 DEF ReqType, Same
<1>7. QED
    BY <1>5, <1>6

\* A request that takes a place is about a tenant and a user, and is allowed.
LEMMA Starts ==
    ASSUME TypeOK, NEW c \in Requests, NEW r \in ReqType, NEW b \in BOOLEAN,
           NEW p \in {"tenant", "read", "delete"}, Start(c, r, b, p),
           b => Sound([r EXCEPT !.pc = p])
    PROVE  /\ Moves(c) /\ Free(c) /\ maker' = Forget(c) /\ UNCHANGED <<slug, row>>
           /\ Sound(req[c])'
<1>1. /\ Free(c) /\ maker' = Forget(c) /\ UNCHANGED <<slug, row>>
      /\ req' = [req EXCEPT ![c] = [r EXCEPT !.pc = IF b THEN p ELSE "answered",
                                            !.result = IF b THEN "none" ELSE "refused"]]
    BY DEF Start
<1>2. CASE b
    <2>1. req' = [req EXCEPT ![c] = [r EXCEPT !.pc = p, !.result = "none"]]
        BY <1>1, <1>2
    <2>2. [r EXCEPT !.pc = p, !.result = "none"] \in ReqType
        BY UpdateType DEF Places, Results
    <2>3. Moves(c) /\ req'[c] = [r EXCEPT !.pc = p, !.result = "none"]
        BY <2>1, <2>2, MovesTo
    <2>4. Sound([r EXCEPT !.pc = p, !.result = "none"])
        BY <1>2 DEF Sound, Busy, MayMutate, MaySetPassword, ReqType
    <2>5. Sound(req[c])'
        BY <1>1, <2>3, <2>4 DEF Sound, Existing
    <2>6. QED
        BY <1>1, <2>3, <2>5
<1>3. CASE ~b
    <2>1. req' = [req EXCEPT ![c] = [r EXCEPT !.pc = "answered", !.result = "refused"]]
        BY <1>1, <1>3
    <2>2. [r EXCEPT !.pc = "answered", !.result = "refused"] \in ReqType
        BY UpdateType DEF Places, Results
    <2>3. Moves(c) /\ req'[c] = [r EXCEPT !.pc = "answered", !.result = "refused"]
        BY <2>1, <2>2, MovesTo
    <2>4. req'[c].pc = "answered"
        BY <2>3 DEF ReqType
    <2>5. Sound(req[c])'
        BY <2>4 DEF Sound, Busy
    <2>6. QED
        BY <1>1, <2>3, <2>5
<1>4. QED
    BY <1>2, <1>3

LEMMA CreateStarts ==
    ASSUME TypeOK, NEW c \in Requests, NEW adm \in BOOLEAN, NEW b \in Bodies, Create(c, adm, b)
    PROVE  /\ Moves(c) /\ Free(c) /\ maker' = Forget(c) /\ UNCHANGED <<slug, row>>
           /\ Sound(req[c])'
<1> DEFINE x == b.active # FALSE
           y == b.tenant \in Existing
           r == [Idle EXCEPT !.kind = "create", !.tenant = b.tenant, !.admin = adm,
                    !.id = IdOf[b.tenant, b.name], !.name = b.name, !.active = x,
                    !.pass = b.pass, !.known = y]
<1>1. /\ b.tenant \in Tenants /\ b.name \in Names /\ b.pass \in Passwords \union {NoPass}
      /\ IdOf[b.tenant, b.name] \in Ids
    BY ConstantsOK DEF Body
<1>2. x \in BOOLEAN /\ y \in BOOLEAN /\ (b.tenant \in Existing => y)
    OBVIOUS
<1>3. Start(c, r, MaySetPassword(r), "tenant")
    BY DEF Create
<1> HIDE DEF x, y
<1>4. r \in ReqType /\ (MaySetPassword(r) => Sound([r EXCEPT !.pc = "tenant"]))
    <2>1. r \in ReqType
        BY <1>1, <1>2 DEF ReqType, Idle, Places, Kinds, Results
    <2>2. MaySetPassword(r) => Sound([r EXCEPT !.pc = "tenant"])
        BY <1>1, <1>2 DEF Sound, Busy, Idle, MaySetPassword
    <2>3. QED
        BY <2>1, <2>2
<1>5. MaySetPassword(r) \in BOOLEAN
    BY DEF MaySetPassword
<1> HIDE DEF r
<1>6. QED
    BY <1>3, <1>4, <1>5, Starts

LEMMA UpdateStarts ==
    ASSUME TypeOK, NEW c \in Requests, NEW who \in Ids \union {NoId}, NEW adm \in BOOLEAN,
           NEW i \in Ids, NEW b \in Bodies, Update(c, who, adm, i, b)
    PROVE  /\ Moves(c) /\ Free(c) /\ maker' = Forget(c) /\ UNCHANGED <<slug, row>>
           /\ Sound(req[c])'
<1> DEFINE r == [Idle EXCEPT !.kind = "update", !.tenant = b.tenant, !.subject = who,
                    !.admin = adm, !.id = i, !.name = b.name, !.active = b.active,
                    !.pass = b.pass]
<1>1. /\ b.tenant \in Tenants /\ b.name \in Names /\ b.pass \in Passwords \union {NoPass}
      /\ b.active \in BOOLEAN \union {Keep}
    BY ConstantsOK DEF Body
<1>2. r \in ReqType
    BY <1>1 DEF ReqType, Idle, Places, Kinds, Results
<1>3. MayMutate(r) /\ MaySetPassword(r) => Sound([r EXCEPT !.pc = "read"])
    BY <1>1 DEF Sound, Busy, Idle, MayMutate, MaySetPassword
<1>4. Start(c, r, MayMutate(r) /\ MaySetPassword(r), "read")
    BY DEF Update
<1>5. (MayMutate(r) /\ MaySetPassword(r)) \in BOOLEAN
    OBVIOUS
<1> HIDE DEF r
<1>6. QED
    BY <1>2, <1>3, <1>4, <1>5, Starts

LEMMA DeleteStarts ==
    ASSUME TypeOK, NEW c \in Requests, NEW t \in Tenants, NEW who \in Ids \union {NoId},
           NEW adm \in BOOLEAN, NEW i \in Ids, Delete(c, t, who, adm, i)
    PROVE  /\ Moves(c) /\ Free(c) /\ maker' = Forget(c) /\ UNCHANGED <<slug, row>>
           /\ Sound(req[c])'
<1> DEFINE r == [Idle EXCEPT !.kind = "delete", !.tenant = t, !.subject = who,
                    !.admin = adm, !.id = i]
<1>1. r \in ReqType
    BY DEF ReqType, Idle, Places, Kinds, Results
<1>2. MayMutate(r) => Sound([r EXCEPT !.pc = "delete"])
    BY DEF Sound, Busy, Idle, MayMutate, MaySetPassword
<1>3. Start(c, r, MayMutate(r) /\ who # i, "delete")
    BY DEF Delete
<1>4. (MayMutate(r) /\ who # i) \in BOOLEAN
    OBVIOUS
<1> HIDE DEF r
<1>5. QED
    BY <1>1, <1>2, <1>3, <1>4, Starts

LEMMA Arrives ==
    ASSUME TypeOK, NEW c \in Requests, Arrive(c)
    PROVE  /\ Moves(c) /\ Free(c) /\ maker' = Forget(c) /\ UNCHANGED <<slug, row>>
           /\ Sound(req[c])'
BY CreateStarts, UpdateStarts, DeleteStarts DEF Arrive

-----------------------------------------------------------------------------
(* What a step leaves behind.                                               *)

\* What MakerInv says of a request and its row.
Holds(i, r) ==
    \/ /\ r.pc \in {"password", "compensate"}
       /\ r.kind = "create" /\ r.id = i /\ r.tenant = row[i].tenant
    \/ r.pc = "answered" /\ (r.result = "ok" \/ r.stray)

LEMMA MakerStep ==
    ASSUME IInv, NEW c \in Requests, Moves(c),
           \A i \in Ids, q \in Requests : q # c /\ maker'[i] = q =>
                /\ maker[i] = q
                /\ i \in Users => row'[i] # NoUser /\ row'[i].tenant = row[i].tenant,
           \A i \in Ids : maker'[i] = c => row'[i] # NoUser /\ Holds(i, req[c])'
    PROVE  MakerInv'
<1>1. \A q \in Requests : q # c => req'[q] = req[q]
    BY DEF IInv, TypeOK, Moves
<1>2. ASSUME NEW i \in Ids, NEW q \in Requests, maker'[i] = q
      PROVE  row'[i] # NoUser /\ Holds(i, req[q])'
    <2>1. CASE q = c
        BY <1>2, <2>1
    <2>2. CASE q # c
        <3>1. maker[i] = q /\ i \in Users /\ Holds(i, req[q])
            BY <1>2, <2>2 DEF IInv, MakerInv, Holds, At
        <3>2. QED
            BY <1>1, <1>2, <2>2, <3>1 DEF Holds
    <2>3. QED
        BY <2>1, <2>2
<1>3. QED
    BY <1>2 DEF MakerInv, Holds, Users, At

\* What each step of a request has to leave.
Leaves(c) ==
    /\ Moves(c) /\ Sound(req[c])' /\ MakerInv' /\ slug' = slug
    /\ row' \in [Ids -> Rows \union {NoUser}]
    /\ maker' \in [Ids -> Requests \union {NoRequest}]

\* A step that writes no row, to a place where a creation keeps its row.
LEMMA QuietStep ==
    ASSUME IInv, NEW c \in Requests, Moves(c), UNCHANGED <<slug, row, maker>>,
           Sound(req[c])',
           \A i \in Ids : maker[i] = c => Holds(i, req[c])'
    PROVE  Leaves(c)
<1>1. MakerInv'
    BY MakerStep DEF IInv, MakerInv, Users
<1>2. QED
    BY <1>1 DEF Leaves, IInv, TypeOK

\* No row is its maker's while the maker is elsewhere.
LEMMA NotMaker ==
    ASSUME IInv, NEW c \in Requests,
           req[c].pc \notin {"password", "compensate", "answered"} \/ req[c].kind \in {"update", "delete"},
           req[c].pc # "answered"
    PROVE  \A i \in Ids : maker[i] # c
BY DEF IInv, MakerInv, At

LEMMA ArriveStep ==
    ASSUME IInv, NEW c \in Requests, Arrive(c)
    PROVE  Leaves(c)
<1>1. Moves(c) /\ maker' = Forget(c) /\ UNCHANGED <<slug, row>> /\ Sound(req[c])'
    BY Arrives DEF IInv
<1>2. /\ maker' \in [Ids -> Requests \union {NoRequest}]
      /\ \A i \in Ids : maker'[i] # c /\ \A q \in Requests : maker'[i] = q => maker[i] = q
    BY <1>1, ConstantsOK DEF IInv, TypeOK, Forget
<1>3. MakerInv'
    BY <1>1, <1>2, MakerStep DEF Users
<1>4. QED
    BY <1>1, <1>2, <1>3 DEF Leaves, IInv, TypeOK

\* An answered request has nothing to do any more; it leaves no row behind, or its own.
LEMMA AnsweredStep ==
    ASSUME IInv, NEW c \in Requests, Moves(c), req'[c].pc = "answered", slug' = slug,
           row' \in [Ids -> Rows \union {NoUser}],
           maker' \in [Ids -> Requests \union {NoRequest}],
           \A i \in Ids, q \in Requests : q # c /\ maker'[i] = q =>
                /\ maker[i] = q
                /\ i \in Users => row'[i] # NoUser /\ row'[i].tenant = row[i].tenant,
           \A i \in Ids : maker'[i] = c =>
                row'[i] # NoUser /\ (req'[c].result = "ok" \/ req'[c].stray)
    PROVE  Leaves(c)
<1>1. Sound(req[c])'
    BY DEF Sound, Busy
<1>2. \A i \in Ids : maker'[i] = c => row'[i] # NoUser /\ Holds(i, req[c])'
    BY DEF Holds
<1>3. MakerInv'
    BY <1>2, MakerStep
<1>4. QED
    BY <1>1, <1>3 DEF Leaves

LEMMA RefusedStep ==
    ASSUME IInv, NEW c \in Requests, Answer(c, "refused"), UNCHANGED <<slug, row, maker>>,
           \A i \in Ids : maker[i] # c
    PROVE  Leaves(c)
<1>1. Moves(c) /\ req'[c].pc = "answered"
    BY Answers DEF IInv, Results
<1>2. QED
    BY <1>1, AnsweredStep DEF IInv, TypeOK, Users

LEMMA ReadStep ==
    ASSUME IInv, NEW c \in Requests, ReadExisting(c) \/ ReadFails(c)
    PROVE  Leaves(c)
<1>0. At(c, "read") /\ UNCHANGED <<slug, row, maker>> /\ TypeOK /\ Sound(req[c])
    <2>1. Sound(req[c])
        BY Zenon, ByRequest
    <2>2. QED
        BY <2>1 DEF ReadExisting, ReadFails, IInv
<1>1. \A i \in Ids : maker[i] # c
    BY <1>0, NotMaker DEF At
<1>2. CASE Answer(c, "refused")
    BY <1>0, <1>1, <1>2, RefusedStep
<1>3. CASE ReadExisting(c) /\ Mine(c)
    <2>1. /\ Moves(c) /\ req'[c].pc = "tenant" /\ Same(req'[c], req[c])
          /\ req'[c].active \in BOOLEAN
        BY <1>0, <1>3, ReadIs
    <2>2. Sound(req[c])'
        BY <1>0, <2>1 DEF Sound, Busy, Same, MayMutate, MaySetPassword, At
    <2>3. QED
        BY <1>0, <1>1, <2>1, <2>2, QuietStep
<1>4. QED
    BY <1>2, <1>3 DEF ReadExisting, ReadFails

LEMMA TenantCheckStep ==
    ASSUME IInv, NEW c \in Requests, CheckTenant(c) \/ CheckTenantFails(c)
    PROVE  Leaves(c)
<1>0. At(c, "tenant") /\ UNCHANGED <<slug, row, maker>> /\ TypeOK /\ Sound(req[c])
    <2>1. Sound(req[c])
        BY Zenon, ByRequest
    <2>2. QED
        BY <2>1 DEF CheckTenant, CheckTenantFails, IInv
<1>1. \A i \in Ids : maker[i] # c
    BY <1>0, NotMaker DEF At
<1>2. CASE Answer(c, "refused")
    BY <1>0, <1>1, <1>2, RefusedStep
<1>3. CASE /\ req[c].tenant \in Existing
           /\ Proceed(c, IF req[c].kind = "create" THEN "insert" ELSE "write")
    <2>1. PICK p \in {"insert", "write"} :
            Proceed(c, p) /\ p = IF req[c].kind = "create" THEN "insert" ELSE "write"
        BY <1>3
    <2>2. /\ Moves(c) /\ req'[c].pc = p /\ Same(req'[c], req[c])
          /\ req'[c].active = req[c].active
        BY <1>0, <2>1, Proceeds DEF Places
    <2>3. Sound(req[c])'
        BY <1>0, <1>3, <2>1, <2>2 DEF Sound, Busy, Same, MayMutate, MaySetPassword, At
    <2>4. QED
        BY <1>0, <1>1, <2>2, <2>3, QuietStep
<1>4. QED
    BY <1>2, <1>3 DEF CheckTenant, CheckTenantFails

LEMMA InsertStep ==
    ASSUME IInv, NEW c \in Requests, Insert(c) \/ InsertFails(c)
    PROVE  Leaves(c)
<1>0. At(c, "insert") /\ slug' = slug /\ TypeOK /\ Sound(req[c])
    <2>1. Sound(req[c])
        BY Zenon, ByRequest
    <2>2. QED
        BY <2>1 DEF Insert, InsertFails, IInv
<1>1. \A i \in Ids : maker[i] # c
    BY <1>0, NotMaker DEF At
<1>2. CASE Answer(c, "refused") /\ UNCHANGED <<row, maker>>
    BY <1>0, <1>1, <1>2, RefusedStep
<1>3. CASE ~Conflict(c) /\ StoreNew(c) /\ (PasswordOrDone(c) \/ AnswerStray(c, "refused"))
    <2>1. PICK n \in Ids : n = req[c].id /\ n \notin Users /\ maker[n] \notin Requests
        BY <1>0, <1>3 DEF Sound, Busy, At, Conflict, IInv, MakerInv
    <2>2. NewRow(c) \in Rows /\ NewRow(c).tenant = req[c].tenant
        BY <1>0 DEF Sound, Busy, At, NewRow, Rows
    <2> HIDE DEF NewRow
    <2>3. row' = [row EXCEPT ![n] = NewRow(c)] /\ maker' = [maker EXCEPT ![n] = c]
        BY <1>3, <2>1 DEF StoreNew
    <2>4. /\ row' \in [Ids -> Rows \union {NoUser}]
          /\ maker' \in [Ids -> Requests \union {NoRequest}]
        BY <1>0, <2>2, <2>3 DEF TypeOK
    <2>5. row'[n] # NoUser /\ row'[n].tenant = req[c].tenant
        BY <1>0, <2>2, <2>3, ConstantsOK DEF TypeOK
    <2>6. \A i \in Ids, q \in Requests : q # c /\ maker'[i] = q =>
                /\ maker[i] = q
                /\ i \in Users => row'[i] # NoUser /\ row'[i].tenant = row[i].tenant
        BY <1>0, <2>1, <2>3 DEF TypeOK, Users
    <2>7. \A i \in Ids : maker'[i] = c => i = n
        BY <1>0, <1>1, <2>3 DEF TypeOK
    <2>8. \/ Moves(c) /\ req'[c].pc = "answered" /\ (req'[c].result = "ok" \/ req'[c].stray)
          \/ Moves(c) /\ req'[c].pc = "password" /\ Same(req'[c], req[c]) /\ req[c].pass # NoPass
        BY <1>0, <1>3, PasswordOrDoneIs, AnswersStray DEF Results
    <2>9. CASE Moves(c) /\ req'[c].pc = "answered" /\ (req'[c].result = "ok" \/ req'[c].stray)
        BY <1>0, <2>4, <2>5, <2>6, <2>7, <2>9, AnsweredStep
    <2>10. CASE /\ Moves(c) /\ req'[c].pc = "password" /\ Same(req'[c], req[c])
                /\ req[c].pass # NoPass
        <3>1. Sound(req[c])'
            BY <1>0, <2>10 DEF Sound, Busy, Same, MayMutate, MaySetPassword, At
        <3>2. Holds(n, req[c])'
            BY <1>0, <2>1, <2>5, <2>10 DEF Holds, Same, Sound, At
        <3>3. MakerInv'
            BY <2>5, <2>6, <2>7, <2>10, <3>2, MakerStep
        <3>4. QED
            BY <1>0, <2>4, <2>10, <3>1, <3>3 DEF Leaves
    <2>11. QED
        BY <2>8, <2>9, <2>10
<1>4. QED
    BY <1>2, <1>3 DEF Insert, InsertFails

\* A statement that changes a row of the request's own tenant changes neither tenant
\* nor maker.
Rewrites(c) ==
    /\ Mine(c) /\ maker' = maker /\ slug' = slug
    /\ \E x \in Rows :
        row' = [row EXCEPT ![req[c].id] = x] /\ x.tenant = row[req[c].id].tenant

LEMMA RewriteStep ==
    ASSUME IInv, NEW c \in Requests, Rewrites(c) \/ UNCHANGED <<slug, row, maker>>
    PROVE  /\ row' \in [Ids -> Rows \union {NoUser}]
           /\ maker' \in [Ids -> Requests \union {NoRequest}] /\ maker' = maker /\ slug' = slug
           /\ \A i \in Users : row'[i] # NoUser /\ row'[i].tenant = row[i].tenant
<1>0. /\ row \in [Ids -> Rows \union {NoUser}] /\ maker \in [Ids -> Requests \union {NoRequest}]
    BY DEF IInv, TypeOK
<1>1. CASE UNCHANGED <<slug, row, maker>>
    BY <1>0, <1>1 DEF Users
<1>2. CASE Rewrites(c)
    <2>1. PICK x \in Rows :
            row' = [row EXCEPT ![req[c].id] = x] /\ x.tenant = row[req[c].id].tenant
        BY <1>2 DEF Rewrites
    <2>2. req[c].id \in Ids /\ x # NoUser /\ maker' = maker /\ slug' = slug
        BY <1>2, ConstantsOK DEF Rewrites, Mine, Users
    <2>3. row' \in [Ids -> Rows \union {NoUser}]
        BY <1>0, <2>1
    <2>4. \A i \in Users : row'[i] # NoUser /\ row'[i].tenant = row[i].tenant
        BY <1>0, <2>1, <2>2 DEF Users
    <2>5. QED
        BY <1>0, <2>2, <2>3, <2>4
<1>3. QED
    BY <1>1, <1>2

LEMMA ProfileRewrites ==
    ASSUME IInv, NEW c \in Requests, At(c, "write"), Mine(c), UNCHANGED <<slug, maker>>,
           row' = [row EXCEPT ![req[c].id] = Profile(c)]
    PROVE  Rewrites(c)
<1>1. row[req[c].id] \in Rows
    BY DEF IInv, TypeOK, Mine, Users
<1>2. req[c].name \in Names /\ req[c].active \in BOOLEAN
    BY DEF IInv, PlaceInv, At
<1>3. Profile(c) \in Rows /\ Profile(c).tenant = row[req[c].id].tenant
    BY <1>1, <1>2 DEF Profile, Rows
<1>4. QED
    BY <1>3 DEF Rewrites

LEMMA PasswordRewrites ==
    ASSUME IInv, NEW c \in Requests, Mine(c), UNCHANGED <<slug, maker>>,
           row' = [row EXCEPT ![req[c].id].pass = req[c].pass]
    PROVE  Rewrites(c)
<1>1. row[req[c].id] \in Rows /\ req[c].pass \in Passwords \union {NoPass}
    BY DEF IInv, TypeOK, Mine, Users
<1> DEFINE x == [row[req[c].id] EXCEPT !.pass = req[c].pass]
<1>2. x \in Rows /\ x.tenant = row[req[c].id].tenant
    BY <1>1 DEF Rows
<1>3. row' = [row EXCEPT ![req[c].id] = x]
    OBVIOUS
<1> HIDE DEF x
<1>4. QED
    BY <1>2, <1>3 DEF Rewrites

LEMMA WriteStep ==
    ASSUME IInv, NEW c \in Requests, WriteProfile(c) \/ WriteProfileFails(c)
    PROVE  Leaves(c)
<1>0. At(c, "write") /\ UNCHANGED <<slug, maker>> /\ TypeOK /\ Sound(req[c])
    <2>1. Sound(req[c])
        BY Zenon, ByRequest
    <2>2. QED
        BY <2>1 DEF WriteProfile, WriteProfileFails, IInv
<1>1. \A i \in Ids : maker[i] # c
    BY <1>0, NotMaker DEF At
<1>2. Rewrites(c) \/ UNCHANGED <<slug, row, maker>>
    BY <1>0, ProfileRewrites DEF WriteProfile, WriteProfileFails
<1>3. /\ row' \in [Ids -> Rows \union {NoUser}]
      /\ maker' \in [Ids -> Requests \union {NoRequest}] /\ maker' = maker /\ slug' = slug
      /\ \A i \in Users : row'[i] # NoUser /\ row'[i].tenant = row[i].tenant
    BY <1>2, RewriteStep
<1>4. \/ Moves(c) /\ req'[c].pc = "answered"
      \/ Moves(c) /\ req'[c].pc = "password" /\ Same(req'[c], req[c]) /\ req[c].pass # NoPass
    BY <1>0, Answers, PasswordOrDoneIs DEF WriteProfile, WriteProfileFails, Results
<1>5. CASE Moves(c) /\ req'[c].pc = "answered"
    BY <1>0, <1>1, <1>3, <1>5, AnsweredStep
<1>6. CASE Moves(c) /\ req'[c].pc = "password" /\ Same(req'[c], req[c]) /\ req[c].pass # NoPass
    <2>1. Sound(req[c])'
        BY <1>0, <1>6 DEF Sound, Busy, Same, MayMutate, MaySetPassword, At
    <2>2. MakerInv'
        BY <1>1, <1>3, <1>6, MakerStep
    <2>3. QED
        BY <1>3, <1>6, <2>1, <2>2 DEF Leaves
<1>7. QED
    BY <1>4, <1>5, <1>6

LEMMA PasswordStep ==
    ASSUME IInv, NEW c \in Requests, SetPassword(c) \/ SetPasswordFails(c)
    PROVE  Leaves(c)
<1>0. At(c, "password") /\ UNCHANGED <<slug, maker>> /\ TypeOK /\ Sound(req[c]) /\ MakerInv
    <2>1. Sound(req[c])
        BY Zenon, ByRequest
    <2>2. QED
        BY <2>1 DEF SetPassword, SetPasswordFails, IInv
<1>1. Rewrites(c) \/ UNCHANGED <<slug, row, maker>>
    BY <1>0, PasswordRewrites DEF SetPassword, SetPasswordFails
<1>2. /\ row' \in [Ids -> Rows \union {NoUser}]
      /\ maker' \in [Ids -> Requests \union {NoRequest}] /\ maker' = maker /\ slug' = slug
      /\ \A i \in Users : row'[i] # NoUser /\ row'[i].tenant = row[i].tenant
    BY <1>1, RewriteStep
<1>3. \A i \in Ids : maker[i] = c =>
        i \in Users /\ req[c].kind = "create" /\ req[c].id = i /\ req[c].tenant = row[i].tenant
    BY <1>0 DEF MakerInv, At
<1>4. CASE Answer(c, "ok")
    <2>1. Moves(c) /\ req'[c].pc = "answered" /\ req'[c].result = "ok"
        BY <1>0, <1>4, Answers DEF Results
    <2>2. QED
        BY <1>0, <1>2, <1>3, <2>1, AnsweredStep
<1>5. CASE req[c].kind # "create" /\ Answer(c, "refused")
    <2>1. Moves(c) /\ req'[c].pc = "answered"
        BY <1>0, <1>5, Answers DEF Results
    <2>2. QED
        BY <1>0, <1>2, <1>3, <1>5, <2>1, AnsweredStep
<1>6. CASE req[c].kind = "create" /\ Proceed(c, "compensate")
    <2>1. Moves(c) /\ req'[c].pc = "compensate" /\ Same(req'[c], req[c])
        BY <1>0, <1>6, Proceeds DEF Places
    <2>2. Sound(req[c])'
        BY <1>0, <1>6, <2>1 DEF Sound, Busy, Same, MayMutate, MaySetPassword, At
    <2>3. \A i \in Ids : maker'[i] = c => row'[i] # NoUser /\ Holds(i, req[c])'
        BY <1>2, <1>3, <2>1 DEF Holds, Same
    <2>4. MakerInv'
        BY <1>2, <2>1, <2>3, MakerStep
    <2>5. QED
        BY <1>2, <2>1, <2>2, <2>4 DEF Leaves
<1>7. QED
    BY <1>4, <1>5, <1>6 DEF SetPassword, SetPasswordFails, Undo

LEMMA RemoveStep ==
    ASSUME IInv, NEW c \in Requests,
           Compensate(c) \/ CompensateFails(c) \/ DeleteRow(c) \/ DeleteRowFails(c)
    PROVE  Leaves(c)
<1>0. /\ req[c].pc \in {"compensate", "delete"} /\ slug' = slug /\ TypeOK /\ MakerInv
      /\ row \in [Ids -> Rows \union {NoUser}] /\ maker \in [Ids -> Requests \union {NoRequest}]
    BY DEF Compensate, CompensateFails, DeleteRow, DeleteRowFails, IInv, TypeOK, At
<1>1. \A i \in Ids : maker[i] = c =>
        i \in Users /\ req[c].id = i /\ req[c].tenant = row[i].tenant /\ At(c, "compensate")
    BY <1>0 DEF MakerInv, At
<1>2. \/ Moves(c) /\ req'[c].pc = "answered" /\ ~CompensateFails(c)
      \/ Moves(c) /\ req'[c].pc = "answered" /\ req'[c].stray /\ CompensateFails(c)
    BY <1>0, Answers, AnswersStray
    DEF Compensate, CompensateFails, DeleteRow, DeleteRowFails, Results
<1>3. CASE Mine(c) /\ RemoveRow(c)
    <2>1. PICK n \in Users : n = req[c].id /\ n \in Ids
        BY <1>3 DEF Mine, Users
    <2>2. row' = [row EXCEPT ![n] = NoUser] /\ maker' = [maker EXCEPT ![n] = NoRequest]
        BY <1>3, <2>1 DEF RemoveRow
    <2>3. /\ \A i \in Ids : maker'[i] # c
          /\ \A i \in Ids, q \in Requests : maker'[i] = q => maker[i] = q /\ row'[i] = row[i]
        BY <1>0, <1>1, <2>1, <2>2, ConstantsOK
    <2>4. /\ row' \in [Ids -> Rows \union {NoUser}]
          /\ maker' \in [Ids -> Requests \union {NoRequest}]
        BY <1>0, <2>2
    <2>5. QED
        BY <1>0, <1>2, <2>3, <2>4, AnsweredStep DEF Users
<1>4. CASE CompensateFails(c) /\ UNCHANGED <<row, maker>>
    <2>1. Moves(c) /\ req'[c].pc = "answered" /\ req'[c].stray
        BY <1>2, <1>4
    <2>2. \A i \in Ids : maker[i] = c => row[i] # NoUser
        BY <1>1 DEF Users
    <2>3. QED
        BY <1>0, <1>4, <2>1, <2>2, AnsweredStep DEF Users
<1>5. CASE (~Mine(c) \/ ~At(c, "compensate")) /\ UNCHANGED <<row, maker>>
    <2>1. \A i \in Ids : maker[i] # c
        BY <1>1, <1>5 DEF Mine
    <2>2. QED
        BY <1>0, <1>2, <1>5, <2>1, AnsweredStep DEF Users
<1>6. QED
    BY <1>3, <1>4, <1>5 DEF Compensate, CompensateFails, DeleteRow, DeleteRowFails, At

LEMMA ProceedingStep ==
    ASSUME IInv, NEW c \in Requests, Proceeding(c)
    PROVE  Leaves(c)
BY ReadStep, TenantCheckStep, InsertStep, WriteStep, PasswordStep, RemoveStep DEF Proceeding

\* Tenants that come and go leave users and requests alone, but that the creations
\* under way for a new one may know of it.
LEMMA TenantsComeAndGo ==
    ASSUME IInv, TenantStep
    PROVE  /\ slug' \in [Tenants -> Tenants \union {NoTenant}] /\ UNCHANGED <<row, maker>>
           /\ \/ req' = req /\ Existing' \subseteq Existing
              \/ \E t \in Tenants :
                    /\ Existing' \subseteq Existing \union {t}
                    /\ req' = [c \in Requests |-> [req[c] EXCEPT
                            !.known = @ \/ (req[c].kind = "create" /\ req[c].tenant = t)]]
<1>0. slug \in [Tenants -> Tenants \union {NoTenant}]
    BY DEF IInv, TypeOK
<1>1. ASSUME NEW t \in Tenants, NEW s \in Tenants, CreateTenant(t, s)
      PROVE  /\ slug' \in [Tenants -> Tenants \union {NoTenant}] /\ UNCHANGED <<row, maker>>
             /\ Existing' \subseteq Existing \union {t}
             /\ req' = [c \in Requests |-> [req[c] EXCEPT
                            !.known = @ \/ (req[c].kind = "create" /\ req[c].tenant = t)]]
    BY <1>0, <1>1 DEF CreateTenant, SetSlug, Existing
<1>2. ASSUME NEW t \in Tenants, DeleteTenant(t)
      PROVE  /\ slug' \in [Tenants -> Tenants \union {NoTenant}] /\ UNCHANGED <<row, maker, req>>
             /\ Existing' \subseteq Existing
    BY <1>0, <1>2 DEF DeleteTenant, SetSlug, Existing
<1>3. ASSUME NEW t \in Tenants, NEW s \in Tenants, UpdateTenant(t, s)
      PROVE  /\ slug' \in [Tenants -> Tenants \union {NoTenant}] /\ UNCHANGED <<row, maker, req>>
             /\ Existing' \subseteq Existing
    BY <1>0, <1>3 DEF UpdateTenant, SetSlug, Existing
<1>4. QED
    BY <1>1, <1>2, <1>3 DEF TenantStep

LEMMA TenantStepKeeps ==
    ASSUME IInv, TenantStep
    PROVE  /\ req' \in [Requests -> ReqType] /\ MakerInv'
           /\ \A c \in Requests : Sound(req[c])'
<1>0. TypeOK /\ MakerInv /\ \A c \in Requests : Sound(req[c])
    BY Zenon, ByRequest
<1>1. req \in [Requests -> ReqType]
    BY <1>0 DEF TypeOK, ReqType
<1>2. UNCHANGED <<row, maker>>
    BY TenantsComeAndGo
<1>3. CASE req' = req /\ Existing' \subseteq Existing
    <2>1. \A c \in Requests : Sound(req[c])'
        BY <1>0, <1>3 DEF Sound
    <2>2. MakerInv'
        BY <1>0, <1>2, <1>3 DEF MakerInv, Users, At
    <2>3. QED
        BY <1>1, <1>3, <2>1, <2>2
<1>4. CASE \E t \in Tenants :
            /\ Existing' \subseteq Existing \union {t}
            /\ req' = [c \in Requests |-> [req[c] EXCEPT
                    !.known = @ \/ (req[c].kind = "create" /\ req[c].tenant = t)]]
    <2>1. PICK t \in Tenants :
            /\ Existing' \subseteq Existing \union {t}
            /\ req' = [c \in Requests |-> [req[c] EXCEPT
                    !.known = @ \/ (req[c].kind = "create" /\ req[c].tenant = t)]]
        BY <1>4
    <2>2. ASSUME NEW c \in Requests
          PROVE  /\ req'[c] \in ReqType /\ req'[c].pc = req[c].pc /\ req'[c].kind = req[c].kind
                 /\ req'[c].tenant = req[c].tenant /\ req'[c].subject = req[c].subject
                 /\ req'[c].admin = req[c].admin /\ req'[c].id = req[c].id
                 /\ req'[c].name = req[c].name /\ req'[c].active = req[c].active
                 /\ req'[c].pass = req[c].pass /\ req'[c].stray = req[c].stray
                 /\ req'[c].result = req[c].result
                 /\ req[c].known \/ (req[c].kind = "create" /\ req[c].tenant = t) => req'[c].known
        <3> DEFINE b == req[c].known \/ (req[c].kind = "create" /\ req[c].tenant = t)
        <3>1. req'[c] = [req[c] EXCEPT !.known = b] /\ b \in BOOLEAN
            BY <2>1
        <3> HIDE DEF b
        <3>2. [req[c] EXCEPT !.known = b] \in ReqType
            BY <1>1, <3>1, UpdateType
        <3>3. b => req'[c].known
            BY <1>1, <3>1 DEF ReqType
        <3>4. /\ req'[c] \in ReqType /\ req'[c].pc = req[c].pc /\ req'[c].kind = req[c].kind
              /\ req'[c].tenant = req[c].tenant /\ req'[c].subject = req[c].subject
              /\ req'[c].admin = req[c].admin /\ req'[c].id = req[c].id
              /\ req'[c].name = req[c].name /\ req'[c].active = req[c].active
              /\ req'[c].pass = req[c].pass /\ req'[c].stray = req[c].stray
              /\ req'[c].result = req[c].result
            BY <1>1, <3>1, <3>2 DEF ReqType
        <3>5. QED
            BY <3>3, <3>4 DEF b
    <2>3. \A c \in Requests : Sound(req[c])'
        BY <1>0, <2>1, <2>2 DEF Sound, Busy, MayMutate, MaySetPassword
    <2>4. MakerInv'
        BY <1>0, <1>2, <2>2 DEF MakerInv, Users, At
    <2>5. req' \in [Requests -> ReqType]
        BY <2>1, <2>2
    <2>6. QED
        BY <2>3, <2>4, <2>5
<1>5. QED
    BY <1>3, <1>4, TenantsComeAndGo

\* Every step keeps the inductive invariant.
LEMMA Consecution ==
    ASSUME IInv, [Next]_vars
    PROVE  IInv'
<1>0. TypeOK /\ MakerInv /\ \A c \in Requests : Sound(req[c])
    BY Zenon, ByRequest
<1>1. CASE UNCHANGED vars
    BY <1>1 DEF vars, IInv, TypeOK, PlaceInv, PermissionInv, KnownInv, MakerInv,
        Free, At, Existing, Users, MayMutate, MaySetPassword
<1>2. CASE Next
    <2>1. calls' \in Nat
        <3>1. TenantStep => calls' = calls + 1
            BY DEF TenantStep, CreateTenant, UpdateTenant, DeleteTenant, Counted
        <3>2. ASSUME NEW c \in Requests, Arrive(c) PROVE calls' = calls + 1
            BY <3>2 DEF Arrive, Create, Update, Delete, Start, Counted
        <3>3. ASSUME NEW c \in Requests, Proceeding(c) PROVE calls' = calls
            BY <3>3 DEF Proceeding, ReadExisting, ReadFails, CheckTenant, CheckTenantFails,
                Insert, InsertFails, WriteProfile, WriteProfileFails, SetPassword,
                SetPasswordFails, Compensate, CompensateFails, DeleteRow, DeleteRowFails
        <3>4. QED
            BY <1>0, <1>2, <3>1, <3>2, <3>3 DEF Next, TypeOK
    <2>2. CASE TenantStep
        <3>1. TypeOK'
            BY <1>0, <2>1, <2>2, TenantsComeAndGo, TenantStepKeeps DEF TypeOK, ReqType
        <3>2. QED
            BY <2>2, <3>1, TenantStepKeeps, ByRequestNext
    <2>3. ASSUME NEW d \in Requests, Leaves(d) PROVE IInv'
        <3>1. \A q \in Requests : q # d => req'[q] = req[q]
            BY <1>0, <2>3 DEF Leaves, Moves, TypeOK
        <3>2. \A q \in Requests : q # d => Sound(req[q])'
            BY <1>0, <2>3, <3>1 DEF Leaves, Sound, Existing
        <3>3. req' \in [Requests -> ReqType]
            BY <1>0, <2>3 DEF Leaves, Moves, TypeOK, ReqType
        <3>4. TypeOK'
            BY <1>0, <2>1, <2>3, <3>3 DEF Leaves, TypeOK, ReqType
        <3>5. MakerInv' /\ \A q \in Requests : Sound(req[q])'
            BY <2>3, <3>2 DEF Leaves
        <3>6. QED
            BY <3>4, <3>5, ByRequestNext
    <2>4. QED
        BY <1>2, <2>2, <2>3, ArriveStep, ProceedingStep DEF Next
<1>3. QED
    BY <1>1, <1>2

LEMMA Initially ==
    ASSUME Init
    PROVE  IInv
<1>1. \A c \in Requests : req[c] = Idle /\ req[c].pc = "idle"
    BY DEF Init, Idle
<1>2. row \in [Ids -> Rows \union {NoUser}]
    <2>1. PICK one \in SUBSET Bodies : row = [i \in Ids |->
            IF \E b \in one : IdOf[b.tenant, b.name] = i
            THEN LET b == CHOOSE b \in one : TRUE
                 IN  [tenant |-> b.tenant, name |-> b.name, active |-> TRUE, pass |-> b.pass]
            ELSE NoUser]
        BY DEF Init
    <2>2. ASSUME NEW b \in one
          PROVE  [tenant |-> b.tenant, name |-> b.name, active |-> TRUE, pass |-> b.pass] \in Rows
        BY ConstantsOK DEF Body, Rows
    <2>3. (\E b \in one : TRUE) => (CHOOSE b \in one : TRUE) \in one
        BY Zenon
    <2>4. QED
        BY <2>1, <2>2, <2>3
<1>3. TypeOK
    <2>1. req \in [Requests -> ReqType]
        BY IdleType DEF Init
    <2>2. QED
        BY <1>2, <2>1 DEF Init, TypeOK, ReqType
<1>4. MakerInv
    BY ConstantsOK DEF Init, MakerInv
<1>5. \A c \in Requests : Sound(req[c])
    BY <1>1 DEF Sound, Busy
<1>6. QED
    BY Zenon, <1>3, <1>4, <1>5, ByRequest

THEOREM Invariant == Spec => []IInv
<1>1. Init => IInv
    BY Initially
<1>2. IInv /\ [Next]_vars => IInv'
    BY Consecution
<1>3. QED
    BY <1>1, <1>2, PTL DEF Spec

\* Rows, tenants and requests have their types.
THEOREM TypeCorrect == Spec => []TypeOK
<1>1. IInv => TypeOK
    BY DEF IInv
<1>2. QED
    BY <1>1, Invariant, PTL

\* A refused creation leaves a row behind only when its insert went unanswered or its
\* clean-up failed.
THEOREM RefusalsCleanUp == Spec => []RefusedLeavesNothing
<1>1. IInv => RefusedLeavesNothing
    BY DEF IInv, MakerInv, RefusedLeavesNothing, At
<1>2. QED
    BY <1>1, Invariant, PTL

-----------------------------------------------------------------------------
(* The action properties: who changes a row, and what of it.                *)

\* The five ways in which a request changes rows, each in a place of its own.
RowChange(c) ==
    \/ At(c, "insert") /\ ~Conflict(c) /\ StoreNew(c)
    \/ At(c, "write") /\ Mine(c) /\ row' = [row EXCEPT ![req[c].id] = Profile(c)]
    \/ At(c, "password") /\ Mine(c) /\ row' = [row EXCEPT ![req[c].id].pass = req[c].pass]
    \/ req[c].pc \in {"compensate", "delete"} /\ Mine(c) /\ RemoveRow(c)

LEMMA WhoWrites ==
    ASSUME IInv, [Next]_vars, row' # row
    PROVE  \E c \in Requests : RowChange(c) /\ Stepping(c)
<1>0. TypeOK
    BY DEF IInv
<1>1. PICK c \in Requests : Proceeding(c)
    <2>1. ~TenantStep /\ ~UNCHANGED vars
        BY TenantsComeAndGo DEF vars
    <2>2. \A c \in Requests : ~Arrive(c)
        BY <1>0, Arrives
    <2>3. QED
        BY <2>1, <2>2 DEF Next
<1>2. RowChange(c)
    <2>1. ~(ReadExisting(c) \/ ReadFails(c) \/ CheckTenant(c) \/ CheckTenantFails(c)
            \/ CompensateFails(c))
        BY DEF ReadExisting, ReadFails, CheckTenant, CheckTenantFails, CompensateFails
    <2>2. CASE Insert(c) \/ InsertFails(c)
        BY <2>2 DEF Insert, InsertFails, RowChange
    <2>3. CASE WriteProfile(c) \/ WriteProfileFails(c)
        BY <2>3 DEF WriteProfile, WriteProfileFails, RowChange
    <2>4. CASE SetPassword(c) \/ SetPasswordFails(c)
        BY <2>4 DEF SetPassword, SetPasswordFails, RowChange
    <2>5. CASE Compensate(c) \/ DeleteRow(c) \/ DeleteRowFails(c)
        BY <2>5 DEF Compensate, DeleteRow, DeleteRowFails, RowChange, At
    <2>6. QED
        BY <1>1, <2>1, <2>2, <2>3, <2>4, <2>5 DEF Proceeding
<1>2a. At(c, "insert") \/ At(c, "write") => ~At(c, "password")
    BY DEF At
<1>3. \/ Answer(c, "ok") \/ Answer(c, "refused") \/ AnswerStray(c, "refused")
      \/ (PasswordOrDone(c) /\ ~At(c, "password"))
      \/ (Proceed(c, "compensate") /\ At(c, "password"))
    <2>1. ~(ReadExisting(c) \/ ReadFails(c) \/ CheckTenant(c) \/ CheckTenantFails(c)
            \/ CompensateFails(c))
        BY DEF ReadExisting, ReadFails, CheckTenant, CheckTenantFails, CompensateFails
    <2>2. CASE Insert(c) \/ WriteProfile(c)
        <3>1. At(c, "insert") \/ At(c, "write")
            BY <2>2 DEF Insert, WriteProfile
        <3>2. PasswordOrDone(c) \/ Answer(c, "refused")
            BY <2>2 DEF Insert, WriteProfile
        <3>3. QED
            BY Zenon, <3>1, <3>2, <1>2a
    <2>3. CASE InsertFails(c) \/ WriteProfileFails(c)
        BY <2>3 DEF InsertFails, WriteProfileFails
    <2>4. CASE SetPassword(c) \/ SetPasswordFails(c)
        BY Zenon, <2>4 DEF SetPassword, SetPasswordFails, Undo
    <2>5. CASE Compensate(c) \/ DeleteRow(c) \/ DeleteRowFails(c)
        BY Zenon, <2>5 DEF Compensate, DeleteRow, DeleteRowFails
    <2>6. QED
        BY <1>1, <2>1, <2>2, <2>3, <2>4, <2>5 DEF Proceeding
<1>4. req[c].pc \in {"insert", "write", "password", "compensate", "delete"}
    BY <1>2 DEF RowChange, At
<1>5. req'[c].pc # req[c].pc
    <2>1. CASE Answer(c, "ok") \/ Answer(c, "refused") \/ AnswerStray(c, "refused")
        BY <1>0, <1>4, <2>1, Answers, AnswersStray DEF Results
    <2>2. CASE PasswordOrDone(c) /\ ~At(c, "password")
        BY <1>0, <1>4, <2>2, PasswordOrDoneIs DEF At
    <2>3. CASE Proceed(c, "compensate") /\ At(c, "password")
        BY <1>0, <2>3, Proceeds DEF At, Places
    <2>4. QED
        BY <1>3, <2>1, <2>2, <2>3
<1>6. QED
    BY <1>2, <1>4, <1>5 DEF Stepping

\* What each way does to a row that it changes.
LEMMA RowChangeIs ==
    ASSUME IInv, NEW c \in Requests, RowChange(c), NEW i \in Ids, row'[i] # row[i]
    PROVE  /\ row[i] # NoUser => row[i].tenant = req[c].tenant /\ req[c].id = i
           /\ row'[i] # NoUser => row'[i].tenant = req[c].tenant
           /\ row[i] = NoUser => At(c, "insert")
           /\ row[i] # NoUser =>
                \/ At(c, "write") /\ row'[i].pass = row[i].pass
                \/ req[c].pc \in {"password", "compensate"}
                \/ At(c, "delete") /\ row'[i] = NoUser
<1>0. row \in [Ids -> Rows \union {NoUser}] /\ Sound(req[c])
    <2>1. Sound(req[c]) /\ TypeOK
        BY Zenon, ByRequest
    <2>2. QED
        BY <2>1 DEF TypeOK
<1>1. CASE At(c, "insert") /\ ~Conflict(c) /\ StoreNew(c)
    BY <1>0, <1>1 DEF Conflict, StoreNew, NewRow, Users
<1>2. CASE At(c, "write") /\ Mine(c) /\ row' = [row EXCEPT ![req[c].id] = Profile(c)]
    <2>1. i = req[c].id /\ row[i] \in Rows /\ row'[i] = Profile(c) /\ row[i].tenant = req[c].tenant
        BY <1>0, <1>2 DEF Mine, Users
    <2>2. Profile(c).tenant = row[i].tenant /\ Profile(c).pass = row[i].pass
        BY <2>1 DEF Profile, Rows
    <2>3. QED
        BY <1>2, <2>1, <2>2, ConstantsOK
<1>3. CASE At(c, "password") /\ Mine(c) /\ row' = [row EXCEPT ![req[c].id].pass = req[c].pass]
    <2>1. i = req[c].id /\ row[i] \in Rows /\ row[i].tenant = req[c].tenant
        BY <1>0, <1>3 DEF Mine, Users
    <2>2. row'[i] = [row[i] EXCEPT !.pass = req[c].pass]
        BY <1>0, <1>3, <2>1
    <2>3. row'[i].tenant = row[i].tenant
        BY <2>1, <2>2 DEF Rows
    <2>4. QED
        BY <1>3, <2>1, <2>3, ConstantsOK DEF At
<1>4. CASE req[c].pc \in {"compensate", "delete"} /\ Mine(c) /\ RemoveRow(c)
    BY <1>0, <1>4, ConstantsOK DEF Mine, Users, RemoveRow, At
<1>5. QED
    BY <1>1, <1>2, <1>3, <1>4 DEF RowChange

\* Every row is inserted, changed or removed by a request of its own tenant.
THEOREM TenantsStayApart == Spec => TenantsAreApart
<1>1. ASSUME IInv, [Next]_vars
      PROVE  [\A i \in Ids : row'[i] # row[i] =>
                \E c \in Requests :
                    /\ Stepping(c)
                    /\ row[i] # NoUser => row[i].tenant = req[c].tenant
                    /\ row'[i] # NoUser => row'[i].tenant = req[c].tenant]_vars
    <2> SUFFICES ASSUME NEW i \in Ids, row'[i] # row[i]
                 PROVE  \E c \in Requests :
                    /\ Stepping(c)
                    /\ row[i] # NoUser => row[i].tenant = req[c].tenant
                    /\ row'[i] # NoUser => row'[i].tenant = req[c].tenant
        OBVIOUS
    <2>1. PICK c \in Requests : RowChange(c) /\ Stepping(c)
        BY <1>1, WhoWrites
    <2>2. QED
        BY <1>1, <2>1, RowChangeIs
<1>2. QED
    BY <1>1, Invariant, PTL DEF Spec, TenantsAreApart

\* Without the admin scope no request changes a password, nor the account of its own
\* credential.
THEOREM OwnersAreSafe == Spec => CredentialOwnersAreSafe
<1>1. ASSUME IInv, [Next]_vars
      PROVE  [\A i \in Users : row'[i] # row[i] =>
                \E c \in Requests :
                    /\ Stepping(c)
                    /\ \/ req[c].admin
                       \/ /\ req[c].subject # i
                          /\ row'[i] # NoUser => row'[i].pass = row[i].pass]_vars
    <2> SUFFICES ASSUME NEW i \in Users, row'[i] # row[i]
                 PROVE  \E c \in Requests :
                    /\ Stepping(c)
                    /\ \/ req[c].admin
                       \/ /\ req[c].subject # i
                          /\ row'[i] # NoUser => row'[i].pass = row[i].pass
        OBVIOUS
    <2>1. PICK c \in Requests : RowChange(c) /\ Stepping(c)
        BY <1>1, WhoWrites
    <2>2. /\ req[c].id = i
          /\ \/ At(c, "write") /\ row'[i].pass = row[i].pass
             \/ req[c].pc \in {"password", "compensate"}
             \/ At(c, "delete") /\ row'[i] = NoUser
        BY <1>1, <2>1, RowChangeIs DEF Users
    <2>3. Sound(req[c])
        BY <1>1, Zenon, ByRequest
    <2>4. req[c].admin \/ (req[c].subject # i /\ ~req[c].pc \in {"password", "compensate"})
        BY <2>2, <2>3 DEF Sound, Busy, MayMutate, At
    <2>5. QED
        BY <2>1, <2>2, <2>4
<1>2. QED
    BY <1>1, Invariant, PTL DEF Spec, CredentialOwnersAreSafe

\* A user is inserted only for a tenant that has been seen to exist.
THEOREM TenantsAreKnown == Spec => UsersOfKnownTenants
<1>1. ASSUME IInv, [Next]_vars
      PROVE  [\A i \in Ids : row[i] = NoUser /\ row'[i] # NoUser =>
                \E c \in Requests : Stepping(c) /\ req[c].known]_vars
    <2> SUFFICES ASSUME NEW i \in Ids, row[i] = NoUser, row'[i] # NoUser
                 PROVE  \E c \in Requests : Stepping(c) /\ req[c].known
        OBVIOUS
    <2>1. PICK c \in Requests : RowChange(c) /\ Stepping(c)
        BY <1>1, WhoWrites
    <2>2. At(c, "insert")
        BY <1>1, <2>1, RowChangeIs
    <2>3. QED
        BY <1>1, <2>1, <2>2 DEF IInv, KnownInv
<1>2. QED
    BY <1>1, Invariant, PTL DEF Spec, UsersOfKnownTenants

=============================================================================
