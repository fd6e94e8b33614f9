----------------------------- MODULE AuthProofs -----------------------------
(***************************************************************************)
(* Proofs about Auth for every number of users, requests and slots and     *)
(* every choice of Env: the inductive invariant IInv, what it says of      *)
(* slots, logins and logouts, and that sessions are a registry of          *)
(* Credentials.                                                            *)
(***************************************************************************)
EXTENDS Auth, FiniteSetTheorems, TLAPS

\* The type of a request.
ReqType ==
    [ pc : Places, kind : Kinds, user : Users \union {NoUser},
      pass : Passwords \union {NoPass}, sid : Ids \union {NoId},
      read : {"none", "missing", "revoked", "row"}, expires : Nat,
      verdict : Verdicts, result : Results, lived : BOOLEAN,
      entitled : BOOLEAN, calls : Nat ]

LEMMA IdleType == Idle \in ReqType
BY DEF Idle, ReqType, Places, Kinds, Verdicts, Results

\* The changes that the steps make to a request keep its type.
LEMMA UpdateType ==
    ASSUME NEW x \in ReqType, NEW p \in Places
    PROVE  /\ [x EXCEPT !.pc = p] \in ReqType
           /\ \A r \in Results : [x EXCEPT !.pc = p, !.result = r] \in ReqType
           /\ \A w \in Passwords : [x EXCEPT !.pc = p, !.pass = w] \in ReqType
           /\ \A v \in Verdicts : [x EXCEPT !.pc = p, !.verdict = v] \in ReqType
           /\ \A v \in Verdicts, b \in BOOLEAN :
                [x EXCEPT !.pc = p, !.verdict = v, !.entitled = b] \in ReqType
           /\ \A i \in Ids \union {NoId} : [x EXCEPT !.pc = p, !.sid = i] \in ReqType
           /\ \A i \in Ids, n \in Nat :
                [x EXCEPT !.pc = p, !.sid = i, !.expires = n] \in ReqType
           /\ \A r \in {"missing", "revoked", "row"}, b \in BOOLEAN :
                [x EXCEPT !.pc = p, !.read = r, !.lived = b] \in ReqType
BY DEF ReqType

\* What takes a place and what is left behind in it are well typed.
LEMMA RequestType ==
    ASSUME TypeOK, NEW c \in Requests, NEW k \in Kinds, NEW u \in Users
    PROVE  Request(c, k, u) \in ReqType
<1>1. req[c].calls + 1 \in Nat
    BY DEF TypeOK
<1>2. QED
    BY <1>1, IdleType DEF Request, ReqType

LEMMA FinishedType ==
    ASSUME TypeOK, NEW c \in Requests, NEW v \in Verdicts, NEW what \in Results
    PROVE  Finished(c, v, what) \in ReqType
<1>1. req[c] \in ReqType /\ "answered" \in Places
    BY DEF TypeOK, ReqType, Places
<1>2. QED
    BY <1>1, IdleType DEF Finished, ReqType

\* What a check says of a row that was read.
LEMMA VerdictType ==
    ASSUME NEW c \in Requests, req[c].read \in {"missing", "revoked", "row"}
    PROVE  SessionVerdict(c) \in {"ok", "notfound", "revoked", "expired"}
BY DEF SessionVerdict

LEMMA FinishedFields ==
    ASSUME NEW c \in Requests, NEW v, NEW what
    PROVE  /\ Finished(c, v, what).pc = "answered"
           /\ Finished(c, v, what).kind = req[c].kind
           /\ Finished(c, v, what).user = req[c].user
           /\ Finished(c, v, what).sid = req[c].sid
           /\ Finished(c, v, what).verdict = v
           /\ Finished(c, v, what).result = what
BY DEF Finished, Idle

\* A step changes one request at most, and keeps it in its type.
Fits(c) == req' = [req EXCEPT ![c] = req'[c]] /\ req'[c] \in ReqType

LEMMA FitsWith ==
    ASSUME TypeOK, NEW c \in Requests, NEW x \in ReqType, req' = [req EXCEPT ![c] = x]
    PROVE  Fits(c)
BY DEF TypeOK, Fits

\* What the read of an account leaves in the request.
Lookup(c, v) ==
    [req[c] EXCEPT !.pc = "record", !.verdict = v,
                   !.entitled = account[req[c].user] = [active |-> TRUE, pass |-> req[c].pass]]

LEMMA LookupIs ==
    ASSUME NEW c \in Requests, LookupUser(c)
    PROVE  \E v \in {Admission(account[req[c].user], req[c].pass), "invalid"} :
                req' = [req EXCEPT ![c] = Lookup(c, v)]
BY DEF LookupUser, Lookup

LEMMA LoginFits ==
    ASSUME IInv, NEW c \in Requests, Login(c)
    PROVE  Fits(c)
<1>0. TypeOK /\ req[c] \in ReqType /\ req[c].verdict \in Verdicts
    BY DEF IInv, TypeOK, ReqType
<1> USE DEF Places, Kinds, Verdicts, Results
<1>1. ASSUME NEW u \in Users, DenyLogin(c, u) PROVE Fits(c)
    BY <1>0, <1>1, RequestType, UpdateType, FitsWith DEF DenyLogin
<1>2. ASSUME NEW u \in Users, NEW p \in Passwords, AllowLogin(c, u, p) PROVE Fits(c)
    BY <1>0, <1>2, RequestType, UpdateType, FitsWith DEF AllowLogin
<1>3. CASE LookupUser(c)
    <2>1. PICK v \in {Admission(account[req[c].user], req[c].pass), "invalid"} :
            req' = [req EXCEPT ![c] = Lookup(c, v)]
        BY <1>3, LookupIs
    <2>2. v \in Verdicts
        BY DEF Admission
    <2> DEFINE b == account[req[c].user] = [active |-> TRUE, pass |-> req[c].pass]
    <2>3. Lookup(c, v) = [req[c] EXCEPT !.pc = "record", !.verdict = v, !.entitled = b]
        BY DEF Lookup
    <2>4. b \in BOOLEAN
        OBVIOUS
    <2> HIDE DEF b
    <2>5. \A x \in Verdicts, y \in BOOLEAN :
            [req[c] EXCEPT !.pc = "record", !.verdict = x, !.entitled = y] \in ReqType
        BY <1>0, UpdateType
    <2>6. Lookup(c, v) \in ReqType
        BY Zenon, <2>2, <2>3, <2>4, <2>5
    <2>7. QED
        BY <1>0, <2>1, <2>6, FitsWith
<1>4. CASE RecordFailure(c)
    BY <1>0, <1>4, FinishedType, FitsWith DEF RecordFailure, Answer
<1>5. CASE RecordSuccess(c)
    <2>1. clock + TTL \in Nat
        BY <1>0, ConstantsOK DEF TypeOK
    <2>2. PICK i \in Ids : req' = [req EXCEPT ![c] =
                [@ EXCEPT !.pc = "persist", !.sid = i, !.expires = clock + TTL]]
        BY <1>5 DEF RecordSuccess
    <2>3. [req[c] EXCEPT !.pc = "persist", !.sid = i, !.expires = clock + TTL] \in ReqType
        BY <1>0, <2>1, UpdateType
    <2>4. QED
        BY <1>0, <2>2, <2>3, FitsWith
<1>6. CASE Persist(c) \/ PersistFails(c)
    BY <1>0, <1>6, FinishedType, FitsWith DEF Persist, PersistFails, Answer
<1>7. QED
    BY <1>1, <1>2, <1>3, <1>4, <1>5, <1>6 DEF Login

LEMMA ValidateFits ==
    ASSUME IInv, NEW c \in Requests, Validate(c)
    PROVE  Fits(c)
<1>0. TypeOK /\ req[c] \in ReqType /\ req[c].verdict \in Verdicts
    BY DEF IInv, TypeOK, ReqType
<1> USE DEF Places, Kinds, Verdicts, Results
<1>1. ASSUME NEW k \in {"validate", "logout"}, NEW u \in Users, NEW i \in Ids \union {NoId},
             Present(c, k, u, i)
      PROVE  Fits(c)
    BY <1>0, <1>1, RequestType, UpdateType, FitsWith DEF Present
<1>2. CASE Get(c)
    <2> DEFINE r == IF req[c].sid \notin Issued THEN "missing"
                    ELSE IF req[c].sid \in revoked THEN "revoked" ELSE "row"
               b == /\ req[c].sid \in Issued \ revoked
                    /\ clock <= session[req[c].sid].expires
    <2>1. req' = [req EXCEPT ![c] = [@ EXCEPT !.pc = "decide", !.read = r, !.lived = b]]
        BY <1>2 DEF Get
    <2>2. r \in {"missing", "revoked", "row"} /\ b \in BOOLEAN
        OBVIOUS
    <2> HIDE DEF r, b
    <2>3. [req[c] EXCEPT !.pc = "decide", !.read = r, !.lived = b] \in ReqType
        BY <1>0, <2>2, UpdateType
    <2>4. QED
        BY <1>0, <2>1, <2>3, FitsWith
<1>3. CASE GetFails(c)
    BY <1>0, <1>3, FinishedType, UpdateType, FitsWith DEF GetFails
<1>4. CASE Decide(c)
    <2>1. SessionVerdict(c) \in Verdicts
        BY <1>4, VerdictType DEF Decide, IInv, ReadInv
    <2>2. QED
        BY <1>0, <1>4, <2>1, FinishedType, UpdateType, FitsWith DEF Decide
<1>5. QED
    BY <1>1, <1>2, <1>3, <1>4 DEF Validate

LEMMA RevokeFits ==
    ASSUME IInv, NEW c \in Requests, Revoke(c)
    PROVE  Fits(c)
<1>0. TypeOK /\ req[c] \in ReqType /\ req[c].verdict \in Verdicts
    BY DEF IInv, TypeOK, ReqType
<1> USE DEF Places, Kinds, Verdicts, Results
<1>1. CASE RevokeUpdate(c) \/ RevokeGet(c)
    <2>1. CASE Proceed(c, "again")
        <3>1. req' = [req EXCEPT ![c] = [@ EXCEPT !.pc = "again"]]
            BY <2>1 DEF Proceed
        <3>2. QED
            BY <1>0, <3>1, UpdateType, FitsWith
    <2>2. CASE Answer(c, "ok") \/ Answer(c, "notfound")
        BY <1>0, <2>2, FinishedType, FitsWith DEF Answer
    <2>3. QED
        BY <1>1, <2>1, <2>2 DEF RevokeUpdate, RevokeGet
<1>2. CASE RevokeUpdateFails(c) \/ RevokeGetFails(c)
    BY <1>0, <1>2, FinishedType, FitsWith DEF RevokeUpdateFails, RevokeGetFails, Answer
<1>3. ASSUME NEW u \in Users, InvalidateAll(c, u) PROVE Fits(c)
    BY <1>0, <1>3, RequestType, UpdateType, FitsWith DEF InvalidateAll
<1>4. CASE RevokeByUser(c) \/ RevokeByUserFails(c)
    BY <1>0, <1>4, FinishedType, FitsWith DEF RevokeByUser, RevokeByUserFails, Answer
<1>5. QED
    BY <1>1, <1>2, <1>3, <1>4 DEF Revoke

-----------------------------------------------------------------------------

\* What IInv says of one request, and of the ids of two logins.
ReqInv(c) ==
    /\ req[c].pc \in {"lookup", "record", "persist"} =>
            req[c].kind = "login" /\ req[c].user \in Users
    /\ At(c, "record") /\ req[c].verdict = "ok" => req[c].entitled
    /\ At(c, "persist") => req[c].entitled /\ req[c].sid \in Ids \ Issued
    /\ req[c].pc \in {"get", "decide", "update", "again"} =>
            /\ req[c].sid \in Issued \union {NoId}
            /\ req[c].kind \in {"validate", "logout"}
    /\ req[c].pc \in {"get", "decide"} => req[c].verdict = "none"
    /\ req[c].pc \in {"update", "again"} => req[c].kind = "logout"
    /\ At(c, "invalidate") => req[c].kind = "invalidate" /\ req[c].user \in Users
    /\ At(c, "decide") =>
        \/ req[c].read = "missing" /\ req[c].sid = NoId /\ ~req[c].lived
        \/ req[c].read = "revoked" /\ req[c].sid \in revoked /\ ~req[c].lived
        \/ /\ req[c].read = "row" /\ req[c].sid \in Issued
           /\ req[c].lived \/ Expired(req[c].sid, clock)
    /\ At(c, "update") =>
        \/ req[c].verdict = "error" \/ req[c].sid \in {NoId} \union revoked
        \/ Expired(req[c].sid, clock) \/ session[req[c].sid].user = req[c].user
    /\ At(c, "again") => req[c].sid \in {NoId} \union revoked
    /\ /\ At(c, "answered") /\ req[c].kind = "logout" /\ req[c].result = "ok"
       /\ req[c].sid # NoId
       => req[c].sid \in revoked

IdsAreDistinct ==
    \A c, d \in Requests :
        c # d /\ At(c, "persist") /\ At(d, "persist") => req[c].sid # req[d].sid

LEMMA ByRequest ==
    IInv <=> /\ TypeOK /\ ReservationsAreInFlight /\ IdsAreDistinct
             /\ \A c \in Requests : ReqInv(c)
BY Zenon DEF IInv, ReqInv, IdsAreDistinct, LoginInv, PresentedInv, ReadInv, OwnerInv,
    AgainInv, LogoutEndsTheSession

\* A row that a login is about to persist is well typed, and there is none yet.
LEMMA PersistFacts ==
    ASSUME IInv, NEW c \in Requests, At(c, "persist")
    PROVE  /\ req[c].sid \in Ids /\ session[req[c].sid] = NoRow
           /\ Row(c) \in Rows /\ Row(c) # NoRow
           /\ req[c].kind = "login" /\ req[c].entitled
<1>1. req[c].sid \in Ids \ Issued /\ req[c].user \in Users /\ req[c].kind = "login"
      /\ req[c].entitled
    BY DEF IInv, LoginInv, At
<1>2. req[c].expires \in Nat
    BY DEF IInv, TypeOK
<1>3. QED
    BY <1>1, <1>2, ConstantsOK DEF Row, Rows, Issued

\* Time passes, rows stay as they are, revoked ones revoked, and new rows are those
\* of logins that persist.
LEMMA WorldStep ==
    ASSUME IInv, [Next]_vars
    PROVE  /\ clock' \in Nat /\ clock' >= clock
           /\ session' \in [Ids -> Rows \union {NoRow}]
           /\ \A i \in Issued : i \in Issued' /\ session'[i] = session[i]
           /\ revoked \subseteq revoked' /\ revoked' \subseteq Issued'
           /\ \A i \in Issued' \ Issued : \E c \in Requests :
                At(c, "persist") /\ req[c].sid = i /\ req'[c].pc = "answered"
<1>0. TypeOK
    BY DEF IInv
<1>1. CASE Tick
    BY <1>0, <1>1 DEF Tick, TypeOK, Issued
<1>2. ASSUME NEW c \in Requests, Persist(c) \/ PersistFails(c)
      PROVE  /\ clock' = clock /\ revoked' = revoked
             /\ session' \in [Ids -> Rows \union {NoRow}]
             /\ \A i \in Issued : i \in Issued' /\ session'[i] = session[i]
             /\ \A i \in Issued' \ Issued :
                    At(c, "persist") /\ req[c].sid = i /\ req'[c].pc = "answered"
    <2>1. At(c, "persist") /\ UNCHANGED <<clock, revoked>>
        BY <1>2 DEF Persist, PersistFails
    <2>2. session' = session \/ session' = [session EXCEPT ![req[c].sid] = Row(c)]
        BY <1>2 DEF Persist, PersistFails
    <2>3. session \in [Ids -> Rows \union {NoRow}]
        BY <1>0 DEF TypeOK
    <2>4. req'[c].pc = "answered"
        BY <1>0, <1>2, FinishedFields DEF Persist, PersistFails, Answer, TypeOK
    <2>5. QED
        BY <2>1, <2>2, <2>3, <2>4, PersistFacts DEF Issued
<1>3. ASSUME UNCHANGED <<clock, session>>, revoked \subseteq revoked',
             revoked' \subseteq Issued
      PROVE  /\ clock' \in Nat /\ clock' >= clock
             /\ session' \in [Ids -> Rows \union {NoRow}]
             /\ Issued' = Issued
    BY <1>0, <1>3 DEF TypeOK, Issued
<1>4. ASSUME NEW c \in Requests, Revoke(c)
      PROVE  UNCHANGED <<clock, session>> /\ revoked \subseteq revoked' /\ revoked' \subseteq Issued
    BY <1>0, <1>4 DEF Revoke, RevokeUpdate, RevokeUpdateFails, RevokeGet, RevokeGetFails,
        InvalidateAll, RevokeByUser, RevokeByUserFails, TypeOK
<1>5. ASSUME NEW c \in Requests, Login(c) \/ Validate(c), ~Persist(c), ~PersistFails(c)
      PROVE  UNCHANGED <<clock, session, revoked>>
    BY <1>5 DEF Login, DenyLogin, AllowLogin, LookupUser, RecordFailure, RecordSuccess,
        Validate, Present, Get, GetFails, Decide
<1>6. CASE UNCHANGED vars \/ \E u \in Users : ChangeAccount(u)
    BY <1>0, <1>3, <1>6 DEF vars, ChangeAccount, TypeOK
<1>7. revoked \subseteq Issued
    BY <1>0 DEF TypeOK
<1>8. CASE \E c \in Requests : Login(c) \/ Validate(c) \/ Revoke(c)
    <2>1. PICK c \in Requests : Login(c) \/ Validate(c) \/ Revoke(c)
        BY <1>8
    <2>2. CASE Persist(c) \/ PersistFails(c)
        BY <1>0, <1>2, <1>7, <2>2 DEF TypeOK
    <2>3. CASE ~(Persist(c) \/ PersistFails(c))
        <3>1. UNCHANGED <<clock, session>> /\ revoked \subseteq revoked' /\ revoked' \subseteq Issued
            BY <1>4, <1>5, <1>7, <2>1, <2>3
        <3>2. QED
            BY <1>3, <3>1
    <2>4. QED
        BY <2>2, <2>3
<1>9. QED
    BY <1>1, <1>6, <1>8 DEF Next

\* A request takes a step of its own, or stays as it is.
LEMMA WhoActs ==
    ASSUME IInv, [Next]_vars
    PROVE  \/ req' = req
           \/ \E c \in Requests :
                /\ Login(c) \/ Validate(c) \/ Revoke(c)
                /\ req'[c] \in ReqType /\ req' = [req EXCEPT ![c] = req'[c]]
<1>1. ASSUME NEW c \in Requests, Login(c) \/ Validate(c) \/ Revoke(c)
      PROVE  req'[c] \in ReqType /\ req' = [req EXCEPT ![c] = req'[c]]
    BY <1>1, LoginFits, ValidateFits, RevokeFits DEF Fits
<1>2. CASE Tick \/ UNCHANGED vars \/ \E u \in Users : ChangeAccount(u)
    BY <1>2 DEF Tick, ChangeAccount, vars
<1>3. QED
    BY <1>1, <1>2 DEF Next

\* A request that stays as it is keeps its invariant.
LEMMA ReqFrame ==
    ASSUME IInv, [Next]_vars, NEW q \in Requests, req'[q] = req[q]
    PROVE  ReqInv(q)'
<1>0. ReqInv(q) /\ IdsAreDistinct /\ TypeOK
    BY Zenon, ByRequest
<1>1. /\ \A i \in Issued : i \in Issued' /\ session'[i] = session[i]
      /\ revoked \subseteq revoked'
    BY WorldStep
<1>2. ASSUME NEW i \in Issued, Expired(i, clock) PROVE Expired(i, clock)'
    <2>1. session[i].expires \in Nat /\ clock \in Nat
        BY <1>0 DEF TypeOK, Issued, Rows
    <2>2. QED
        BY <1>2, <2>1, WorldStep DEF Expired
<1>3. ASSUME At(q, "persist") PROVE req[q].sid \notin Issued'
    <2>1. req[q].sid \notin Issued
        BY <1>0, <1>3 DEF ReqInv
    <2>2. ASSUME NEW c \in Requests, At(c, "persist"), req[c].sid = req[q].sid,
                 req'[c].pc = "answered"
          PROVE  FALSE
        BY <1>0, <1>3, <2>2 DEF IdsAreDistinct, At
    <2>3. QED
        BY <2>1, <2>2, WorldStep
<1>4. ASSUME req[q].pc \in {"get", "decide", "update", "again"}
      PROVE  req[q].sid \in Issued \union {NoId}
    BY <1>0, <1>4 DEF ReqInv
<1>5. QED
    BY <1>0, <1>1, <1>2, <1>3, <1>4 DEF ReqInv, At

-----------------------------------------------------------------------------

\* What the steps of a login leave of it.
LEMMA LoginStep ==
    ASSUME IInv, [Next]_vars, NEW c \in Requests, Login(c)
    PROVE  ReqInv(c)'
<1>0. ReqInv(c) /\ TypeOK /\ req[c] \in ReqType
    BY Zenon, ByRequest DEF TypeOK, ReqType
<1> USE DEF At, ReqInv
<1>1. ASSUME NEW u \in Users, DenyLogin(c, u) PROVE ReqInv(c)'
    <2>1. req'[c].pc = "answered" /\ req'[c].kind = "login"
        BY <1>0, <1>1 DEF DenyLogin, Request, Idle, TypeOK
    <2>2. QED
        BY <2>1
<1>2. ASSUME NEW u \in Users, NEW p \in Passwords, AllowLogin(c, u, p) PROVE ReqInv(c)'
    <2>1. req'[c].pc = "lookup" /\ req'[c].kind = "login" /\ req'[c].user = u
        BY <1>0, <1>2 DEF AllowLogin, Request, Idle, TypeOK
    <2>2. QED
        BY <2>1
<1>3. CASE LookupUser(c)
    <2>1. PICK v \in {Admission(account[req[c].user], req[c].pass), "invalid"} :
            req' = [req EXCEPT ![c] = Lookup(c, v)]
        BY <1>3, LookupIs
    <2>2. req[c].kind = "login" /\ req[c].user \in Users
        BY <1>0, <1>3 DEF LookupUser
    <2>3. ASSUME v = "ok"
          PROVE  account[req[c].user] = [active |-> TRUE, pass |-> req[c].pass]
        <3>1. account[req[c].user] \in Accounts
              /\ account[req[c].user].active /\ account[req[c].user].pass = req[c].pass
            BY <1>0, <2>2, <2>3 DEF Admission, TypeOK
        <3>2. QED
            BY <3>1 DEF Accounts
    <2>4. /\ req'[c].pc = "record" /\ req'[c].kind = req[c].kind
          /\ req'[c].user = req[c].user /\ req'[c].verdict = v
          /\ v = "ok" => req'[c].entitled
        BY <1>0, <2>1, <2>3 DEF Lookup, TypeOK
    <2>5. QED
        BY <2>2, <2>4
<1>4. CASE RecordFailure(c)
    <2>1. req'[c].pc = "answered" /\ req'[c].kind = "login"
        BY <1>0, <1>4, FinishedFields DEF RecordFailure, Answer, TypeOK
    <2>2. QED
        BY <2>1
<1>5. CASE RecordSuccess(c)
    <2>1. PICK i \in Ids \ Issued : req' = [req EXCEPT ![c] =
                [@ EXCEPT !.pc = "persist", !.sid = i, !.expires = clock + TTL]]
        BY <1>5 DEF RecordSuccess
    <2>2. /\ req'[c].pc = "persist" /\ req'[c].kind = req[c].kind
          /\ req'[c].user = req[c].user /\ req'[c].sid = i
          /\ req'[c].entitled = req[c].entitled
        BY <1>0, <2>1 DEF TypeOK
    <2>3. Issued' = Issued
        BY <1>5 DEF RecordSuccess, Issued
    <2>4. QED
        BY <1>0, <1>5, <2>2, <2>3 DEF RecordSuccess
<1>6. CASE Persist(c) \/ PersistFails(c)
    <2>1. req'[c].pc = "answered" /\ req'[c].kind = "login"
        BY <1>0, <1>6, FinishedFields DEF Persist, PersistFails, Answer, TypeOK
    <2>2. QED
        BY <2>1
<1>7. QED
    BY <1>1, <1>2, <1>3, <1>4, <1>5, <1>6 DEF Login

\* What the steps of a validation, and of the first half of a logout, leave of it.
LEMMA ValidateStep ==
    ASSUME IInv, [Next]_vars, NEW c \in Requests, Validate(c)
    PROVE  ReqInv(c)'
<1>0. ReqInv(c) /\ TypeOK /\ req[c] \in ReqType
    BY Zenon, ByRequest DEF TypeOK, ReqType
<1> USE DEF At, ReqInv
<1>1. UNCHANGED <<clock, session, revoked>> /\ Issued' = Issued
    BY DEF Validate, Present, Get, GetFails, Decide, Issued
<1>2. ASSUME NEW k \in {"validate", "logout"}, NEW u \in Users, NEW i \in Ids \union {NoId},
             Present(c, k, u, i)
      PROVE  ReqInv(c)'
    <2>1. /\ req'[c].pc = "get" /\ req'[c].kind = k /\ req'[c].sid = i
          /\ req'[c].verdict = "none"
        BY <1>0, <1>2 DEF Present, Request, Idle, TypeOK
    <2>2. QED
        BY <1>1, <1>2, <2>1 DEF Present
<1>3. CASE Get(c)
    <2> DEFINE s == req[c].sid
               r == IF s \notin Issued THEN "missing"
                    ELSE IF s \in revoked THEN "revoked" ELSE "row"
               b == s \in Issued \ revoked /\ clock <= session[s].expires
    <2>1. req' = [req EXCEPT ![c] = [@ EXCEPT !.pc = "decide", !.read = r, !.lived = b]]
        BY <1>3 DEF Get
    <2>2. s \in Issued => session[s].expires \in Nat /\ clock \in Nat
        BY <1>0 DEF TypeOK, Issued, Rows
    <2>3. \/ r = "missing" /\ s \notin Issued /\ ~b
          \/ r = "revoked" /\ s \in revoked /\ ~b
          \/ r = "row" /\ s \in Issued /\ (b \/ clock > session[s].expires)
        BY <2>2
    <2>4. /\ s \in Issued \union {NoId} /\ req[c].kind \in {"validate", "logout"}
          /\ req[c].verdict = "none"
        BY <1>0, <1>3 DEF Get
    <2> HIDE DEF r, b, s
    <2>5. /\ req'[c].pc = "decide" /\ req'[c].kind = req[c].kind /\ req'[c].sid = s
          /\ req'[c].verdict = req[c].verdict /\ req'[c].read = r /\ req'[c].lived = b
        BY <1>0, <2>1 DEF TypeOK, s
    <2>6. QED
        BY <1>1, <2>3, <2>4, <2>5 DEF Expired
<1>4. CASE GetFails(c)
    <2>1. CASE req[c].kind = "logout"
        <3>1. /\ req'[c].pc = "update" /\ req'[c].kind = "logout"
              /\ req'[c].sid = req[c].sid /\ req'[c].verdict = "error"
            BY <1>0, <1>4, <2>1 DEF GetFails, TypeOK
        <3>2. QED
            BY <1>0, <1>1, <1>4, <3>1 DEF GetFails
    <2>2. CASE req[c].kind # "logout"
        <3>1. req'[c].pc = "answered" /\ req'[c].kind = req[c].kind
            BY <1>0, <1>4, <2>2, FinishedFields DEF GetFails, TypeOK
        <3>2. QED
            BY <2>2, <3>1
    <2>3. QED
        BY <2>1, <2>2
<1>5. CASE Decide(c)
    <2> DEFINE v == SessionVerdict(c)
               foreign == v = "ok" /\ session[req[c].sid].user # req[c].user
    <2>1. \/ v = "notfound" /\ req[c].sid = NoId
          \/ v = "revoked" /\ req[c].sid \in revoked
          \/ v = "expired" /\ Expired(req[c].sid, clock)
          \/ v = "ok"
        BY <1>0, <1>5 DEF Decide, SessionVerdict
    <2>2. CASE foreign \/ req[c].kind = "validate"
        <3>1. req' = [req EXCEPT ![c] = Finished(c, v, IF foreign THEN "foreign" ELSE v)]
            BY <1>5, <2>2 DEF Decide
        <3>2. /\ req'[c].pc = "answered" /\ req'[c].kind = req[c].kind
              /\ req'[c].result = IF foreign THEN "foreign" ELSE v
            BY <1>0, <3>1, FinishedFields DEF TypeOK
        <3>3. QED
            BY <2>2, <3>2
    <2>3. CASE ~foreign /\ req[c].kind # "validate"
        <3>1. req' = [req EXCEPT ![c] = [@ EXCEPT !.pc = "update", !.verdict = v]]
            BY <1>5, <2>3 DEF Decide
        <3> HIDE DEF v
        <3>2. /\ req'[c].pc = "update" /\ req'[c].kind = req[c].kind
              /\ req'[c].sid = req[c].sid /\ req'[c].user = req[c].user
              /\ req'[c].verdict = v
            BY <1>0, <3>1 DEF TypeOK
        <3>3. QED
            BY <1>0, <1>1, <1>5, <2>1, <2>3, <3>2 DEF Decide, Expired
    <2>4. QED
        BY <2>2, <2>3
<1>6. QED
    BY <1>2, <1>3, <1>4, <1>5 DEF Validate

\* What the steps of a logout, and of a sign-out of all sessions, leave of it.
LEMMA RevokeStep ==
    ASSUME IInv, [Next]_vars, NEW c \in Requests, Revoke(c)
    PROVE  ReqInv(c)'
<1>0. ReqInv(c) /\ TypeOK /\ req[c] \in ReqType
    BY Zenon, ByRequest DEF TypeOK, ReqType
<1> USE DEF At, ReqInv
<1>1. UNCHANGED session /\ Issued' = Issued
    BY DEF Revoke, RevokeUpdate, RevokeUpdateFails, RevokeGet, RevokeGetFails,
        InvalidateAll, RevokeByUser, RevokeByUserFails, Issued
<1>2. ASSUME NEW w \in {"ok", "notfound", "error"}, Answer(c, w)
      PROVE  /\ req'[c].pc = "answered" /\ req'[c].kind = req[c].kind
             /\ req'[c].sid = req[c].sid /\ req'[c].result = w
    BY <1>0, <1>2, FinishedFields DEF Answer, TypeOK
<1>3. CASE RevokeUpdate(c)
    <2>1. CASE req[c].sid \in Issued \ revoked
        BY <1>2, <1>3, <2>1 DEF RevokeUpdate
    <2>2. CASE req[c].sid \notin Issued \ revoked
        <3>1. /\ req'[c].pc = "again" /\ req'[c].kind = req[c].kind
              /\ req'[c].sid = req[c].sid
            BY <1>0, <1>3, <2>2 DEF RevokeUpdate, Proceed, TypeOK
        <3>2. QED
            BY <1>0, <1>1, <1>3, <2>2, <3>1 DEF RevokeUpdate
    <2>3. QED
        BY <2>1, <2>2
<1>4. CASE RevokeUpdateFails(c)
    BY <1>2, <1>4 DEF RevokeUpdateFails
<1>5. CASE RevokeGet(c)
    BY <1>0, <1>2, <1>5 DEF RevokeGet
<1>6. CASE RevokeGetFails(c)
    BY <1>0, <1>2, <1>6 DEF RevokeGetFails
<1>7. ASSUME NEW u \in Users, InvalidateAll(c, u) PROVE ReqInv(c)'
    <2>1. req'[c].pc = "invalidate" /\ req'[c].kind = "invalidate" /\ req'[c].user = u
        BY <1>0, <1>7 DEF InvalidateAll, Request, Idle, TypeOK
    <2>2. QED
        BY <2>1
<1>8. CASE RevokeByUser(c) \/ RevokeByUserFails(c)
    BY <1>0, <1>2, <1>8 DEF RevokeByUser, RevokeByUserFails
<1>9. QED
    BY <1>3, <1>4, <1>5, <1>6, <1>7, <1>8 DEF Revoke

\* Where a step takes a request: into a login's places, or not near them.
LEMMA PlaceStep ==
    ASSUME TypeOK, NEW c \in Requests, Login(c) \/ Validate(c) \/ Revoke(c),
           req' = [req EXCEPT ![c] = req'[c]]
    PROVE  \/ /\ req'[c].pc = "lookup"
              /\ \E u \in Users, p \in Passwords : AllowLogin(c, u, p)
           \/ LookupUser(c) /\ req'[c].pc = "record"
           \/ RecordFailure(c) /\ req'[c].pc = "answered"
           \/ RecordSuccess(c) /\ req'[c].pc = "persist"
           \/ /\ req[c].pc \notin {"lookup", "record"} /\ UNCHANGED reserved
              /\ req'[c].pc \notin {"lookup", "record", "persist"}
<1>1. ASSUME NEW v, NEW w, req' = [req EXCEPT ![c] = Finished(c, v, w)]
      PROVE  req'[c].pc = "answered"
    BY <1>1, FinishedFields DEF TypeOK
<1>2. ASSUME NEW u \in Users, DenyLogin(c, u)
      PROVE  /\ req[c].pc \notin {"lookup", "record"} /\ UNCHANGED reserved
             /\ req'[c].pc = "answered"
    BY <1>2 DEF DenyLogin, Free, Request, Idle, TypeOK
<1>3. ASSUME NEW u \in Users, NEW p \in Passwords, AllowLogin(c, u, p)
      PROVE  req'[c].pc = "lookup"
    BY <1>3 DEF AllowLogin, Request, Idle, TypeOK
<1>4. CASE LookupUser(c)
    <2>1. \E v : req' = [req EXCEPT ![c] = Lookup(c, v)]
        BY <1>4, LookupIs
    <2>2. req'[c].pc = "record"
        BY <2>1 DEF Lookup, TypeOK
    <2>3. QED
        BY <1>4, <2>2
<1>5. CASE RecordFailure(c)
    BY <1>1, <1>5 DEF RecordFailure, Answer
<1>6. CASE RecordSuccess(c)
    <2>1. PICK i \in Ids : req' = [req EXCEPT ![c] =
                [@ EXCEPT !.pc = "persist", !.sid = i, !.expires = clock + TTL]]
        BY <1>6 DEF RecordSuccess
    <2>2. req'[c].pc = "persist"
        BY <2>1 DEF TypeOK
    <2>3. QED
        BY <1>6, <2>2
<1>7. CASE Persist(c) \/ PersistFails(c)
    BY <1>1, <1>7 DEF Persist, PersistFails, Answer, At
<1>8. ASSUME NEW k \in {"validate", "logout"}, NEW u \in Users,
             NEW i \in Ids \union {NoId}, Present(c, k, u, i)
      PROVE  /\ req[c].pc \notin {"lookup", "record"} /\ UNCHANGED reserved
             /\ req'[c].pc = "get"
    BY <1>8 DEF Present, Free, Request, Idle, TypeOK
<1>9. CASE Get(c)
    BY <1>9 DEF Get, At, TypeOK
<1>10. CASE GetFails(c) \/ Decide(c)
    <2>1. req[c].pc \in {"get", "decide"} /\ UNCHANGED reserved
        BY <1>10 DEF GetFails, Decide, At
    <2>2. CASE \E v, w : req' = [req EXCEPT ![c] = Finished(c, v, w)]
        BY <1>1, <2>1, <2>2
    <2>3. CASE \E v : req' = [req EXCEPT ![c] = [@ EXCEPT !.pc = "update", !.verdict = v]]
        BY <2>1, <2>3 DEF TypeOK
    <2>4. QED
        BY <1>10, <2>2, <2>3 DEF GetFails, Decide
<1>11. CASE RevokeUpdate(c) \/ RevokeUpdateFails(c) \/ RevokeGet(c)
            \/ RevokeGetFails(c) \/ RevokeByUser(c) \/ RevokeByUserFails(c)
    <2>1. req[c].pc \in {"update", "again", "invalidate"} /\ UNCHANGED reserved
        BY <1>11 DEF RevokeUpdate, RevokeUpdateFails, RevokeGet, RevokeGetFails,
            RevokeByUser, RevokeByUserFails, At
    <2>2. CASE Proceed(c, "again")
        BY <2>1, <2>2 DEF Proceed, TypeOK
    <2>3. CASE \E w : Answer(c, w)
        BY <1>1, <2>1, <2>3 DEF Answer
    <2>4. QED
        BY <1>11, <2>2, <2>3 DEF RevokeUpdate, RevokeUpdateFails, RevokeGet,
            RevokeGetFails, RevokeByUser, RevokeByUserFails
<1>12. ASSUME NEW u \in Users, InvalidateAll(c, u)
       PROVE  /\ req[c].pc \notin {"lookup", "record"} /\ UNCHANGED reserved
              /\ req'[c].pc = "invalidate"
    BY <1>12 DEF InvalidateAll, Free, Request, Idle, TypeOK
<1>13. QED
    BY <1>2, <1>3, <1>4, <1>5, <1>6, <1>7, <1>8, <1>9, <1>10, <1>11, <1>12
    DEF Login, Validate, Revoke

\* An id is drawn that no other login has drawn.
LEMMA DistinctStep ==
    ASSUME IInv, [Next]_vars
    PROVE  IdsAreDistinct'
<1>0. IdsAreDistinct /\ TypeOK
    BY Zenon, ByRequest
<1>1. ASSUME NEW c \in Requests, Login(c) \/ Validate(c) \/ Revoke(c),
             req' = [req EXCEPT ![c] = req'[c]], req'[c].pc = "persist"
      PROVE  \A d \in Requests : At(d, "persist") => req[d].sid # req'[c].sid
    <2>1. RecordSuccess(c)
        BY <1>0, <1>1, PlaceStep
    <2>2. QED
        BY <1>0, <2>1 DEF RecordSuccess, TypeOK
<1>2. QED
    BY <1>0, <1>1, WhoActs DEF IdsAreDistinct, At, TypeOK

\* The attempts on u that hold a slot.
InFlight(u) ==
    {c \in Requests : /\ req[c].kind = "login" /\ req[c].user = u
                      /\ req[c].pc \in {"lookup", "record"}}

\* A slot is taken by the step that starts an attempt, and given back by the one that
\* judges it.
LEMMA SlotStep ==
    ASSUME IInv, [Next]_vars
    PROVE  /\ reserved' \in [Users -> Nat]
           /\ ReservationsAreInFlight'
<1>0. /\ TypeOK /\ \A c \in Requests : ReqInv(c)
      /\ reserved \in [Users -> Nat] /\ \A u \in Users : reserved[u] = Cardinality(InFlight(u))
    <2>1. TypeOK /\ ReservationsAreInFlight /\ \A c \in Requests : ReqInv(c)
        BY Zenon, ByRequest
    <2>2. QED
        BY Zenon, <2>1 DEF TypeOK, ReservationsAreInFlight, InFlight
<1>1. \A u : IsFiniteSet(InFlight(u)) /\ IsFiniteSet(InFlight(u)')
    <2>1. \A u : InFlight(u) \subseteq Requests /\ InFlight(u)' \subseteq Requests
        BY DEF InFlight
    <2>2. QED
        BY <2>1, ConstantsOK, FS_Subset
<1>2. SUFFICES /\ DOMAIN reserved' = Users /\ reserved' = [u \in Users |-> reserved'[u]]
               /\ \A u \in Users : reserved'[u] = Cardinality(InFlight(u)')
    <2>1. \A u : Cardinality(InFlight(u)') \in Nat
        BY <1>1, FS_CardinalityType
    <2>2. (\A u \in Users : reserved'[u] = Cardinality(InFlight(u)'))
            => ReservationsAreInFlight'
        BY Zenon DEF ReservationsAreInFlight, InFlight
    <2>3. QED
        BY <2>1, <2>2
<1>3. CASE UNCHANGED <<reserved, req>>
    BY <1>0, <1>3 DEF InFlight
<1>4. ASSUME NEW c \in Requests, Login(c) \/ Validate(c) \/ Revoke(c),
             req'[c] \in ReqType, req' = [req EXCEPT ![c] = req'[c]]
      PROVE  /\ DOMAIN reserved' = Users /\ reserved' = [u \in Users |-> reserved'[u]]
             /\ \A u \in Users : reserved'[u] = Cardinality(InFlight(u)')
    <2>1. \A u : \A d \in Requests : d # c => (d \in InFlight(u)' <=> d \in InFlight(u))
        BY <1>0, <1>4 DEF InFlight, TypeOK
    <2>2. \A u : c \in InFlight(u) <=>
            /\ req[c].kind = "login" /\ req[c].user = u /\ req[c].pc \in {"lookup", "record"}
        BY DEF InFlight
    <2>3. \A u : c \in InFlight(u)' <=>
            /\ req'[c].kind = "login" /\ req'[c].user = u /\ req'[c].pc \in {"lookup", "record"}
        BY DEF InFlight
    <2>4. \A u : InFlight(u) \subseteq Requests /\ InFlight(u)' \subseteq Requests
        BY DEF InFlight
    <2>5. ASSUME NEW u \in Users, c \in InFlight(u)' <=> c \in InFlight(u)
          PROVE  InFlight(u)' = InFlight(u)
        BY <2>1, <2>4, <2>5
    <2>6. ASSUME NEW u \in Users, NEW p \in Passwords, AllowLogin(c, u, p), req'[c].pc = "lookup"
          PROVE  /\ DOMAIN reserved' = Users /\ reserved' = [v \in Users |-> reserved'[v]]
                 /\ \A v \in Users : reserved'[v] = Cardinality(InFlight(v)')
        <3>1. /\ reserved' = [reserved EXCEPT ![u] = @ + 1]
              /\ req[c].pc \notin {"lookup", "record"}
              /\ req'[c].kind = "login" /\ req'[c].user = u
            BY <1>0, <2>6 DEF AllowLogin, Free, Request, Idle, TypeOK
        <3>2. InFlight(u)' = InFlight(u) \union {c} /\ c \notin InFlight(u)
            BY <2>1, <2>2, <2>3, <2>4, <2>6, <3>1
        <3>3. Cardinality(InFlight(u)') = Cardinality(InFlight(u)) + 1
            BY <1>1, <3>2, FS_AddElement
        <3>4. \A v \in Users : v # u => InFlight(v)' = InFlight(v)
            BY <2>2, <2>3, <2>5, <3>1
        <3>5. QED
            BY <1>0, <3>1, <3>3, <3>4
    <2>7. CASE LookupUser(c) /\ req'[c].pc = "record"
        <3>1. /\ reserved' = reserved /\ req[c].pc = "lookup"
              /\ req'[c].kind = req[c].kind /\ req'[c].user = req[c].user
            BY <1>0, <2>7 DEF LookupUser, At, TypeOK
        <3>2. QED
            BY <1>0, <2>2, <2>3, <2>5, <2>7, <3>1
    <2>8. CASE \/ RecordFailure(c) /\ req'[c].pc = "answered"
               \/ RecordSuccess(c) /\ req'[c].pc = "persist"
        <3>1. req[c].pc = "record" /\ req'[c].pc \in {"answered", "persist"}
            BY <2>8 DEF RecordFailure, RecordSuccess, At
        <3>2. PICK u \in Users : u = req[c].user /\ req[c].kind = "login"
            BY <1>0, <3>1 DEF ReqInv
        <3>3. reserved' = [reserved EXCEPT ![u] = @ - 1]
            BY <2>8, <3>2 DEF RecordFailure, RecordSuccess, Release
        <3>4. InFlight(u)' = InFlight(u) \ {c} /\ c \in InFlight(u)
            BY <2>1, <2>2, <2>3, <2>4, <3>1, <3>2
        <3>5. Cardinality(InFlight(u)') = Cardinality(InFlight(u)) - 1
            BY <1>1, <3>4, FS_RemoveElement
        <3>6. \A v \in Users : v # u => InFlight(v)' = InFlight(v)
            BY <2>2, <2>3, <2>5, <3>1, <3>2
        <3>7. QED
            BY <1>0, <3>2, <3>3, <3>5, <3>6
    <2>9. CASE /\ req[c].pc \notin {"lookup", "record"} /\ UNCHANGED reserved
               /\ req'[c].pc \notin {"lookup", "record", "persist"}
        BY <1>0, <2>2, <2>3, <2>5, <2>9
    <2>10. QED
        BY <1>0, <1>4, <2>6, <2>7, <2>8, <2>9, PlaceStep
<1>5. CASE Tick \/ UNCHANGED vars \/ \E u \in Users : ChangeAccount(u)
    BY <1>3, <1>5 DEF Tick, ChangeAccount, vars
<1>6. QED
    <2>1. ASSUME NEW c \in Requests, Login(c) \/ Validate(c) \/ Revoke(c)
          PROVE  req'[c] \in ReqType /\ req' = [req EXCEPT ![c] = req'[c]]
        BY <2>1, LoginFits, ValidateFits, RevokeFits DEF Fits
    <2>2. QED
        BY <1>4, <1>5, <2>1 DEF Next

\* The user module changes rows to rows.
LEMMA AccountStep ==
    ASSUME TypeOK, [Next]_vars
    PROVE  account' \in [Users -> Accounts \union {NoAccount}]
<1>1. account \in [Users -> Accounts \union {NoAccount}]
    BY DEF TypeOK
<1>2. ASSUME NEW u \in Users, ChangeAccount(u)
      PROVE  account' \in [Users -> Accounts \union {NoAccount}]
    <2>1. account[u] \in Accounts
        BY <1>1, <1>2 DEF ChangeAccount
    <2>2. /\ \A p \in Passwords : [account[u] EXCEPT !.pass = p] \in Accounts
          /\ \A b \in BOOLEAN : [account[u] EXCEPT !.active = b] \in Accounts
        BY <2>1 DEF Accounts
    <2>3. \E a \in Accounts \union {NoAccount} : account' = [account EXCEPT ![u] = a]
        BY <1>2, <2>2 DEF ChangeAccount
    <2>4. QED
        BY <1>1, <2>3
<1>3. CASE UNCHANGED account
    BY <1>1, <1>3
<1>4. QED
    BY <1>2, <1>3 DEF Next, vars, Tick, Login, DenyLogin, AllowLogin, LookupUser,
        RecordFailure, RecordSuccess, Persist, PersistFails, Validate, Present, Get,
        GetFails, Decide, Revoke, RevokeUpdate, RevokeUpdateFails, RevokeGet,
        RevokeGetFails, InvalidateAll, RevokeByUser, RevokeByUserFails

LEMMA TypeStep ==
    ASSUME IInv, [Next]_vars
    PROVE  TypeOK'
<1>1. TypeOK
    BY DEF IInv
<1>2. req' \in [Requests -> ReqType]
    BY <1>1, WhoActs DEF TypeOK, ReqType
<1>3. QED
    BY <1>1, <1>2, WorldStep, SlotStep, AccountStep DEF TypeOK, ReqType

LEMMA Initially ==
    ASSUME Init
    PROVE  IInv
<1>1. TypeOK
    <2>1. req \in [Requests -> ReqType]
        BY IdleType DEF Init
    <2>2. QED
        BY <2>1 DEF Init, TypeOK, ReqType, Accounts, Issued
<1>2. \A c \in Requests : req[c].pc = "idle"
    BY DEF Init, Idle
<1>3. ReservationsAreInFlight
    <2>1. \A u : InFlight(u) = {}
        BY <1>2 DEF InFlight
    <2>2. QED
        BY <2>1, FS_EmptySet DEF Init, ReservationsAreInFlight, InFlight
<1>4. IdsAreDistinct /\ \A c \in Requests : ReqInv(c)
    BY <1>2 DEF IdsAreDistinct, ReqInv, At
<1>5. QED
    BY Zenon, <1>1, <1>3, <1>4, ByRequest

\* Every step keeps the inductive invariant.
LEMMA Consecution ==
    ASSUME IInv, [Next]_vars
    PROVE  IInv'
<1>1. \A c \in Requests : ReqInv(c)'
    <2>1. ASSUME NEW q \in Requests PROVE ReqInv(q)'
        <3>1. CASE req'[q] = req[q]
            BY <3>1, ReqFrame
        <3>2. CASE req'[q] # req[q]
            <4>1. Login(q) \/ Validate(q) \/ Revoke(q)
                BY <3>2, WhoActs DEF IInv, TypeOK
            <4>2. QED
                BY <4>1, LoginStep, ValidateStep, RevokeStep
        <3>3. QED
            BY <3>1, <3>2
    <2>2. QED
        BY <2>1
<1>2. (TypeOK /\ ReservationsAreInFlight /\ IdsAreDistinct
       /\ \A c \in Requests : ReqInv(c))'
    BY <1>1, TypeStep, SlotStep, DistinctStep
<1>3. QED
    BY Zenon, <1>2 DEF IInv, ReqInv, IdsAreDistinct, LoginInv, PresentedInv, ReadInv, OwnerInv,
        AgainInv, LogoutEndsTheSession

THEOREM Invariant == Spec => []IInv
<1>1. Init => IInv
    BY Initially
<1>2. IInv /\ [Next]_vars => IInv'
    BY Consecution
<1>3. QED
    BY <1>1, <1>2, PTL DEF Spec

\* Every field of every request and row has its type.
THEOREM TypeCorrect == Spec => []TypeOK
<1>1. IInv => TypeOK
    BY DEF IInv
<1>2. QED
    BY <1>1, Invariant, PTL

\* The slots that are taken are those of attempts that are not judged yet.
THEOREM SlotsAreReleased == Spec => []ReservationsAreInFlight
<1>1. IInv => ReservationsAreInFlight
    BY DEF IInv
<1>2. QED
    BY <1>1, Invariant, PTL

\* A logout that returned without error leaves its session revoked.
THEOREM LogoutEnds == Spec => []LogoutEndsTheSession
<1>1. IInv => LogoutEndsTheSession
    BY DEF IInv
<1>2. QED
    BY <1>1, Invariant, PTL

-----------------------------------------------------------------------------

\* Who writes to the sessions: the insert of a login, the updates of a logout.
LEMMA WhoWrites ==
    ASSUME [Next]_vars
    PROVE  /\ session' # session => \E c \in Requests : Persist(c) \/ PersistFails(c)
           /\ revoked' # revoked => \E c \in Requests :
                RevokeUpdate(c) \/ RevokeUpdateFails(c) \/ RevokeByUser(c)
BY DEF Next, vars, Tick, ChangeAccount, Login, DenyLogin, AllowLogin, LookupUser,
    RecordFailure, RecordSuccess, Persist, PersistFails, Validate, Present, Get,
    GetFails, Decide, Revoke, RevokeUpdate, RevokeUpdateFails, RevokeGet,
    RevokeGetFails, InvalidateAll, RevokeByUser, RevokeByUserFails

\* A session comes into being by an admitted login of its own user.
THEOREM LoginsMakeSessions == Spec => SessionsComeFromLogins
<1>1. ASSUME IInv, [Next]_vars
      PROVE  [\A i \in Ids : session[i] # session'[i] =>
                \E c \in Requests :
                    /\ At(c, "persist") /\ req[c].sid = i /\ session[i] = NoRow
                    /\ req[c].entitled /\ session'[i].user = req[c].user]_session
    <2> SUFFICES ASSUME session' # session, NEW i \in Ids, session[i] # session'[i]
                 PROVE  \E c \in Requests :
                            /\ At(c, "persist") /\ req[c].sid = i /\ session[i] = NoRow
                            /\ req[c].entitled /\ session'[i].user = req[c].user
        OBVIOUS
    <2>1. PICK c \in Requests : Persist(c) \/ PersistFails(c)
        BY <1>1, WhoWrites
    <2>2. At(c, "persist") /\ session' = [session EXCEPT ![req[c].sid] = Row(c)]
        BY <1>1, <2>1 DEF Persist, PersistFails
    <2>3. session \in [Ids -> Rows \union {NoRow}]
        BY <1>1 DEF IInv, TypeOK
    <2>4. /\ req[c].sid = i /\ session[i] = NoRow /\ session'[i] = Row(c)
          /\ req[c].entitled
        BY <1>1, <2>2, <2>3, PersistFacts
    <2>5. QED
        BY <2>2, <2>4 DEF Row
<1>2. QED
    BY <1>1, Invariant, PTL DEF Spec, SessionsComeFromLogins

\* A live session is revoked in its user's name, or by a logout that could not read it.
THEOREM OwnersLogOut == Spec => OnlyTheOwnerLogsOutWhenRead
<1>1. ASSUME IInv, [Next]_vars
      PROVE  [\A i \in revoked' \ revoked : clock <= session[i].expires =>
                \/ \E c \in RevokedBy(i) : req'[c].pc = "answered"
                \/ \E c \in Requests :
                    At(c, "update") /\ req[c].verdict = "error" /\ req'[c].pc = "answered"]_revoked
    <2> SUFFICES ASSUME revoked' # revoked, NEW i \in revoked' \ revoked,
                        clock <= session[i].expires
                 PROVE  \/ \E c \in RevokedBy(i) : req'[c].pc = "answered"
                        \/ \E c \in Requests :
                            At(c, "update") /\ req[c].verdict = "error" /\ req'[c].pc = "answered"
        OBVIOUS
    <2>0. TypeOK /\ i \in Ids
        BY <1>1, Consecution DEF IInv, TypeOK, Issued
    <2>1. PICK c \in Requests : RevokeUpdate(c) \/ RevokeUpdateFails(c) \/ RevokeByUser(c)
        BY <1>1, WhoWrites
    <2>2. ASSUME NEW w, Answer(c, w) PROVE req'[c].pc = "answered"
        BY <2>0, <2>2, FinishedFields DEF Answer, TypeOK
    <2>3. CASE RevokeByUser(c)
        BY <2>2, <2>3 DEF RevokeByUser, RevokedBy
    <2>4. CASE RevokeUpdate(c) \/ RevokeUpdateFails(c)
        <3>1. At(c, "update") /\ i = req[c].sid /\ i \in Issued /\ req'[c].pc = "answered"
            BY <2>2, <2>4 DEF RevokeUpdate, RevokeUpdateFails
        <3>2. i # NoId /\ ~Expired(i, clock)
            <4>1. session[i].expires \in Nat /\ clock \in Nat
                BY <2>0, <3>1 DEF TypeOK, Issued, Rows
            <4>2. QED
                BY <2>0, <4>1, ConstantsOK DEF Expired
        <3>3. req[c].verdict = "error" \/ session[i].user = req[c].user
            BY <1>1, <3>1, <3>2 DEF IInv, OwnerInv
        <3>4. QED
            BY <3>1, <3>3 DEF RevokedBy
    <2>5. QED
        BY <2>1, <2>3, <2>4
<1>2. QED
    BY <1>1, Invariant, PTL DEF Spec, OnlyTheOwnerLogsOutWhenRead

-----------------------------------------------------------------------------
(* Sessions are a registry of Credentials: INSTANCE's view of the state, as *)
(* three functions.                                                         *)

St == [i \in Ids \union {NoId} |-> Lifetime(i)]
Ch == [c \in Requests |-> Checking(c)]
An == [c \in Requests |-> Answered(c)]

\* The registry sees no difference in the requests that stay as they are.
LEMMA OthersStill ==
    ASSUME TypeOK, NEW c \in Requests, req' = [req EXCEPT ![c] = req'[c]]
    PROVE  /\ Ch' = [Ch EXCEPT ![c] = Checking(c)']
           /\ An' = [An EXCEPT ![c] = Answered(c)']
<1>1. \A q \in Requests : q # c => req'[q] = req[q]
    BY DEF TypeOK
<1>2. \A q \in Requests : q # c => Checking(q)' = Checking(q) /\ Answered(q)' = Answered(q)
    BY <1>1 DEF Checking, Answered, At
<1>3. QED
    BY <1>2 DEF Ch, An

\* Lifetimes depend on the clock and the table only.
LEMMA TableStill ==
    ASSUME UNCHANGED <<clock, session, revoked>>
    PROVE  St' = St
BY DEF St, Lifetime, Issued

\* The life of a session that was issued goes on or ends.
LEMMA LifeStep ==
    ASSUME IInv, [Next]_vars, NEW i \in Ids \union {NoId}, i \in Issued' => i \in Issued
    PROVE  Lifetime(i)' = Lifetime(i) \/ (Lifetime(i) = "live" /\ Lifetime(i)' = "ended")
<1>1. /\ clock \in Nat /\ clock' \in Nat /\ clock' >= clock /\ revoked \subseteq revoked'
      /\ \A j \in Issued : j \in Issued' /\ session'[j] = session[j]
    BY WorldStep DEF IInv, TypeOK
<1>2. CASE i \notin Issued
    BY <1>2 DEF Lifetime
<1>3. CASE i \in Issued
    <2>1. session'[i] = session[i] /\ session[i].expires \in Nat /\ i \in Issued'
        BY <1>1, <1>3 DEF IInv, TypeOK, Issued, Rows
    <2>2. QED
        BY <1>1, <1>3, <2>1 DEF Lifetime
<1>4. QED
    BY <1>2, <1>3

\* A step that no request and no new session is seen to take ends some sessions.
LEMMA EndStep ==
    ASSUME IInv, [Next]_vars, Issued' \subseteq Issued, Ch' = Ch, An' = An
    PROVE  Registry!Next
<1> DEFINE ks == {i \in Ids \union {NoId} : Lifetime(i) = "live" /\ Lifetime(i)' = "ended"}
<1>1. ks \in SUBSET {k \in Ids \union {NoId} : St[k] = "live"}
    BY DEF St
<1>2. \A i \in Ids \union {NoId} : Lifetime(i)' = IF i \in ks THEN "ended" ELSE St[i]
    BY LifeStep DEF St
<1>3. St' = [k \in Ids \union {NoId} |-> IF k \in ks THEN "ended" ELSE St[k]]
    BY <1>2 DEF St
<1>4. Registry!End
    BY <1>1, <1>3 DEF Registry!End, St, Ch, An
<1>5. QED
    BY <1>4 DEF Registry!Next

\* A login that persists gives its session a life.
LEMMA PersistIssues ==
    ASSUME IInv, [Next]_vars, NEW c \in Requests, Persist(c) \/ PersistFails(c)
    PROVE  [Registry!Next]_(Registry!vars)
<1> DEFINE s == req[c].sid
<1>0. TypeOK /\ At(c, "persist") /\ UNCHANGED <<clock, revoked>>
    BY DEF IInv, Persist, PersistFails
<1>1. s \in Ids \ Issued /\ req[c].kind = "login" /\ Row(c) # NoRow
    BY <1>0, PersistFacts DEF Issued
<1>2. \E v, w : req' = [req EXCEPT ![c] = Finished(c, v, w)]
    BY DEF Persist, PersistFails, Answer
<1>3. req' = [req EXCEPT ![c] = req'[c]] /\ req'[c].pc = "answered" /\ req'[c].kind = "login"
    BY <1>0, <1>1, <1>2, FinishedFields DEF TypeOK
<1>4. /\ Checking(c) = Registry!NoCheck /\ Checking(c)' = Registry!NoCheck
      /\ Answered(c) = "none" /\ Answered(c)' = "none"
    BY <1>0, <1>1, <1>3 DEF Checking, Answered, Registry!NoCheck, At
<1>5. Ch' = Ch /\ An' = An
    BY <1>0, <1>3, <1>4, OthersStill DEF Ch, An
<1>6. CASE session' = session
    BY <1>0, <1>5, <1>6, TableStill DEF Registry!vars, St, Ch, An
<1>7. CASE session' = [session EXCEPT ![s] = Row(c)]
    <2> HIDE DEF s
    <2>1. PICK i \in Ids : i = s
        BY <1>1
    <2>2. Issued' = Issued \union {i} /\ i \notin Issued
        BY <1>0, <1>1, <1>7, <2>1 DEF TypeOK, Issued
    <2>3. St[i] = "none" /\ St'[i] \in {"live", "ended"}
        BY <2>2 DEF St, Lifetime
    <2>4. \A j \in Ids \union {NoId} : j # i => St'[j] = St[j]
        BY <1>0, <1>7, <2>1, <2>2 DEF St, Lifetime, TypeOK, Issued
    <2>5. \E life \in {"live", "ended"} : St' = [St EXCEPT ![i] = life]
        BY <2>3, <2>4 DEF St
    <2>6. Registry!Issue(i)
        BY <1>5, <2>3, <2>5 DEF Registry!Issue, St, Ch, An
    <2>7. QED
        BY <2>6 DEF Registry!Next
<1>8. QED
    BY <1>6, <1>7 DEF Persist, PersistFails

\* A request that is not checking anything turns to something else.
LEMMA Leaves ==
    ASSUME TypeOK, NEW c \in Requests, req' = [req EXCEPT ![c] = req'[c]],
           UNCHANGED <<clock, session, revoked>>,
           req[c].pc # "decide", req'[c].pc # "decide",
           req'[c].kind \notin {"validate", "logout"} \/ req'[c].verdict \in {"none", "error"}
    PROVE  Registry!Next
<1>1. St' = St
    BY TableStill
<1>2. Ch[c] = Registry!NoCheck /\ Checking(c)' = Registry!NoCheck /\ Answered(c)' = "none"
    BY DEF Ch, Checking, Answered, Registry!NoCheck, At
<1>3. Ch' = Ch /\ An' = [An EXCEPT ![c] = "none"]
    BY <1>2, OthersStill DEF Ch
<1>4. Registry!Leave(c)
    BY <1>1, <1>2, <1>3 DEF Registry!Leave, St, Ch, An
<1>5. QED
    BY <1>4 DEF Registry!Next

\* The read of a row asks, and notes whether the session lives.
LEMMA GetAsks ==
    ASSUME IInv, NEW c \in Requests, Get(c), req' = [req EXCEPT ![c] = req'[c]]
    PROVE  Registry!Next
<1>0. TypeOK /\ At(c, "get") /\ UNCHANGED <<clock, session, revoked>>
    BY DEF IInv, Get
<1>1. PICK s \in Ids \union {NoId} : s = req[c].sid
    BY <1>0 DEF TypeOK
<1>2. req[c].verdict = "none" /\ s \in Issued \union {NoId}
    BY <1>0, <1>1 DEF IInv, PresentedInv, At
<1>3. St' = St
    BY <1>0, TableStill
<1> DEFINE r == IF s \notin Issued THEN "missing"
                ELSE IF s \in revoked THEN "revoked" ELSE "row"
           b == s \in Issued \ revoked /\ clock <= session[s].expires
<1>4. b = (St[s] = "live")
    BY <1>1 DEF St, Lifetime
<1>5. req' = [req EXCEPT ![c] = [@ EXCEPT !.pc = "decide", !.read = r, !.lived = b]]
    BY <1>1 DEF Get
<1> HIDE DEF r, b
<1>6. /\ req'[c].pc = "decide" /\ req'[c].sid = s /\ req'[c].verdict = "none"
      /\ req'[c].lived = b
    BY <1>0, <1>1, <1>2, <1>5 DEF TypeOK
<1>7. Ch[c] = Registry!NoCheck
    BY <1>0 DEF Ch, Checking, Registry!NoCheck, At
<1>8. Checking(c)' = [of |-> {s}, live |-> St[s] = "live"] /\ Answered(c)' = "none"
    BY <1>4, <1>6 DEF Checking, Answered, At
<1>9. Registry!Ask(c, s)
    BY <1>0, <1>3, <1>7, <1>8, OthersStill DEF Registry!Ask, St, Ch, An
<1>10. QED
    BY <1>9 DEF Registry!Next

\* The verdict tells what was true when the row was read, or is true now.
LEMMA DecideReplies ==
    ASSUME IInv, NEW c \in Requests, Decide(c), req' = [req EXCEPT ![c] = req'[c]]
    PROVE  Registry!Next
<1>0. TypeOK /\ At(c, "decide") /\ UNCHANGED <<clock, session, revoked>>
    BY DEF IInv, Decide
<1>1. PICK s \in Ids \union {NoId} : s = req[c].sid
    BY <1>0 DEF TypeOK
<1>2. PICK v : v = SessionVerdict(c)
    OBVIOUS
<1>3. req[c].kind \in {"validate", "logout"}
    BY <1>0 DEF IInv, PresentedInv, At
<1>4. /\ req'[c].pc # "decide" /\ req'[c].kind = req[c].kind /\ req'[c].verdict = v
    <2>1. CASE \E w : req' = [req EXCEPT ![c] = Finished(c, v, w)]
        BY <1>0, <2>1, FinishedFields DEF TypeOK
    <2>2. CASE req' = [req EXCEPT ![c] = [@ EXCEPT !.pc = "update", !.verdict = v]]
        BY <1>0, <2>2 DEF TypeOK
    <2>3. QED
        BY <1>2, <2>1, <2>2 DEF Decide
<1>5. \/ v = "ok" /\ req[c].lived = TRUE
      \/ v \in {"notfound", "revoked"} /\ req[c].lived = FALSE
      \/ v = "expired" /\ St[s] # "live"
    <2>1. s \in Issued => session[s].expires \in Nat /\ clock \in Nat
        BY <1>0 DEF TypeOK, Issued, Rows
    <2>2. req[c].lived \in BOOLEAN
        BY <1>0 DEF TypeOK
    <2>3. \/ req[c].read = "missing" /\ v = "notfound" /\ ~req[c].lived
          \/ req[c].read = "revoked" /\ v = "revoked" /\ ~req[c].lived
          \/ /\ req[c].read = "row" /\ s \in Issued /\ v = IF Expired(s, clock) THEN "expired" ELSE "ok"
             /\ req[c].lived \/ Expired(s, clock)
        BY <1>0, <1>1, <1>2 DEF IInv, ReadInv, SessionVerdict
    <2>4. s \in Issued /\ Expired(s, clock) => St[s] # "live"
        BY <1>1, <2>1 DEF Expired, St, Lifetime
    <2>5. QED
        BY <2>2, <2>3, <2>4
<1>6. St' = St
    BY <1>0, TableStill
<1>7. /\ s \in Ch[c].of /\ Ch[c].live = req[c].lived
      /\ Checking(c)' = Registry!NoCheck
      /\ Answered(c)' = IF v = "ok" THEN "yes" ELSE "no"
    <2>1. req[c].lived \in BOOLEAN
        BY <1>0 DEF TypeOK
    <2>2. v \in {"ok", "notfound", "revoked", "expired"}
        BY <1>5
    <2>3. QED
        BY <1>0, <1>1, <1>3, <1>4, <2>1, <2>2 DEF Ch, Checking, Answered, Registry!NoCheck, At
<1>8. \E y \in {Ch[c].live, St[s] = "live"} : Answered(c)' = IF y THEN "yes" ELSE "no"
    <2>1. CASE v = "ok" /\ req[c].lived = TRUE
        BY <1>7, <2>1, Zenon
    <2>2. CASE v \in {"notfound", "revoked"} /\ req[c].lived = FALSE
        <3>1. Answered(c)' = "no" /\ Ch[c].live = FALSE
            BY <1>7, <2>2
        <3>2. QED
            BY <3>1, Zenon
    <2>3. CASE v = "expired" /\ St[s] # "live"
        <3>1. Answered(c)' = "no"
            BY <1>7, <2>3
        <3>2. QED
            BY <2>3, <3>1, Zenon
    <2>4. QED
        BY <1>5, <2>1, <2>2, <2>3
<1>9. \E k \in Ch[c].of : \E y \in {Ch[c].live, St[k] = "live"} :
        An' = [An EXCEPT ![c] = IF y THEN "yes" ELSE "no"]
    <2>1. An' = [An EXCEPT ![c] = Answered(c)']
        BY <1>0, OthersStill
    <2>2. QED
        BY Zenon, <1>7, <1>8, <2>1
<1>10. Ch' = [Ch EXCEPT ![c] = Registry!NoCheck]
    BY <1>0, <1>7, OthersStill
<1>11. Registry!Reply(c)
    BY <1>6, <1>9, <1>10, Zenon DEF Registry!Reply, St, Ch, An
<1>12. QED
    BY <1>11 DEF Registry!Next

\* What each step of a request is to the registry.
LEMMA LoginLeaves ==
    ASSUME IInv, [Next]_vars, NEW c \in Requests, Login(c), ~Persist(c), ~PersistFails(c),
           req' = [req EXCEPT ![c] = req'[c]]
    PROVE  Registry!Next
<1>0. TypeOK /\ UNCHANGED <<clock, session, revoked>>
    BY DEF IInv, Login, DenyLogin, AllowLogin, LookupUser, RecordFailure, RecordSuccess
<1>1. ASSUME NEW u \in Users, DenyLogin(c, u) PROVE Registry!Next
    <2>1. req[c].pc # "decide" /\ req'[c].pc # "decide" /\ req'[c].kind = "login"
        BY <1>0, <1>1 DEF DenyLogin, Free, Request, Idle, TypeOK
    <2>2. QED
        BY <1>0, <2>1, Leaves
<1>2. ASSUME NEW u \in Users, NEW p \in Passwords, AllowLogin(c, u, p) PROVE Registry!Next
    <2>1. req[c].pc # "decide" /\ req'[c].pc # "decide" /\ req'[c].kind = "login"
        BY <1>0, <1>2 DEF AllowLogin, Free, Request, Idle, TypeOK
    <2>2. QED
        BY <1>0, <2>1, Leaves
<1>3. CASE LookupUser(c) \/ RecordFailure(c) \/ RecordSuccess(c)
    <2>1. req[c].pc \in {"lookup", "record"} /\ req[c].kind = "login"
        BY <1>3 DEF LookupUser, RecordFailure, RecordSuccess, At, IInv, LoginInv
    <2>2. req'[c].kind = req[c].kind
        <3>1. CASE LookupUser(c)
            <4>1. \E v : req' = [req EXCEPT ![c] = Lookup(c, v)]
                BY <3>1, LookupIs
            <4>2. QED
                BY <1>0, <4>1 DEF Lookup, TypeOK
        <3>2. CASE RecordFailure(c)
            BY <1>0, <3>2, FinishedFields DEF RecordFailure, Answer, TypeOK
        <3>3. CASE RecordSuccess(c)
            BY <1>0, <3>3 DEF RecordSuccess, TypeOK
        <3>4. QED
            BY <1>3, <3>1, <3>2, <3>3
    <2>3. req'[c].pc # "decide"
        BY <1>0, <1>3, PlaceStep DEF LookupUser, RecordFailure, RecordSuccess, At, Login
    <2>4. QED
        BY <1>0, <2>1, <2>2, <2>3, Leaves
<1>4. QED
    BY <1>1, <1>2, <1>3 DEF Login

LEMMA ValidateSeen ==
    ASSUME IInv, [Next]_vars, NEW c \in Requests, Validate(c),
           req' = [req EXCEPT ![c] = req'[c]]
    PROVE  Registry!Next
<1>0. TypeOK
    BY DEF IInv
<1>1. ASSUME NEW k \in {"validate", "logout"}, NEW u \in Users, NEW i \in Ids \union {NoId},
             Present(c, k, u, i)
      PROVE  Registry!Next
    <2>1. /\ req[c].pc # "decide" /\ req'[c].pc = "get" /\ req'[c].verdict = "none"
          /\ UNCHANGED <<clock, session, revoked>>
        BY <1>0, <1>1 DEF Present, Free, Request, Idle, TypeOK
    <2>2. QED
        BY <1>0, <2>1, Leaves
<1>2. CASE Get(c)
    BY <1>2, GetAsks
<1>3. CASE GetFails(c)
    <2>1. At(c, "get") /\ UNCHANGED <<clock, session, revoked>>
        BY <1>3 DEF GetFails
    <2>2. req'[c].pc # "decide" /\ req'[c].verdict = "error"
        <3>1. CASE req' = [req EXCEPT ![c] = Finished(c, "error", "error")]
            BY <1>0, <3>1, FinishedFields DEF TypeOK
        <3>2. CASE req' = [req EXCEPT ![c] = [@ EXCEPT !.pc = "update", !.verdict = "error"]]
            BY <1>0, <3>2 DEF TypeOK
        <3>3. QED
            BY <1>3, <3>1, <3>2 DEF GetFails
    <2>3. QED
        BY <1>0, <2>1, <2>2, Leaves DEF At
<1>4. CASE Decide(c)
    BY <1>4, DecideReplies
<1>5. QED
    BY <1>1, <1>2, <1>3, <1>4 DEF Validate

LEMMA RevokeEnds ==
    ASSUME IInv, [Next]_vars, NEW c \in Requests, Revoke(c),
           req' = [req EXCEPT ![c] = req'[c]]
    PROVE  Registry!Next
<1>0. TypeOK /\ UNCHANGED <<clock, session>>
    BY DEF IInv, Revoke, RevokeUpdate, RevokeUpdateFails, RevokeGet, RevokeGetFails,
        InvalidateAll, RevokeByUser, RevokeByUserFails
<1>1. ASSUME NEW u \in Users, InvalidateAll(c, u) PROVE Registry!Next
    <2>1. /\ req[c].pc # "decide" /\ req'[c].pc # "decide" /\ req'[c].kind = "invalidate"
          /\ UNCHANGED revoked
        BY <1>0, <1>1 DEF InvalidateAll, Free, Request, Idle, TypeOK
    <2>2. QED
        BY <1>0, <2>1, Leaves
<1>2. ASSUME ~\E u \in Users : InvalidateAll(c, u) PROVE Registry!Next
    <2>1. /\ req[c].pc \in {"update", "again", "invalidate"}
          /\ Proceed(c, "again") \/ \E w : Answer(c, w)
        BY <1>2 DEF Revoke, RevokeUpdate, RevokeUpdateFails, RevokeGet, RevokeGetFails,
            RevokeByUser, RevokeByUserFails, At
    <2>2. /\ req'[c].pc # "decide" /\ req'[c].kind = req[c].kind
          /\ req'[c].verdict = req[c].verdict
        <3>1. CASE Proceed(c, "again")
            BY <1>0, <3>1 DEF Proceed, TypeOK
        <3>2. CASE \E w : Answer(c, w)
            BY <1>0, <3>2, FinishedFields DEF Answer, TypeOK
        <3>3. QED
            BY <2>1, <3>1, <3>2
    <2>3. Checking(c)' = Checking(c) /\ Answered(c)' = Answered(c)
        BY <2>1, <2>2 DEF Checking, Answered, At
    <2>4. Ch' = Ch /\ An' = An
        BY <1>0, <2>3, OthersStill DEF Ch, An
    <2>5. QED
        BY <1>0, <2>4, EndStep DEF Issued
<1>3. QED
    BY <1>1, <1>2

\* Every step is a step of the registry, or nothing to it.
LEMMA RegistryStep ==
    ASSUME IInv, [Next]_vars
    PROVE  [Registry!Next]_(Registry!vars)
<1>1. ASSUME NEW c \in Requests, Login(c) \/ Validate(c) \/ Revoke(c)
      PROVE  [Registry!Next]_(Registry!vars)
    <2>1. req' = [req EXCEPT ![c] = req'[c]]
        BY <1>1, LoginFits, ValidateFits, RevokeFits DEF Fits
    <2>2. QED
        BY <1>1, <2>1, PersistIssues, LoginLeaves, ValidateSeen, RevokeEnds
<1>2. CASE Tick
    BY <1>2, EndStep DEF Tick, Ch, An, Checking, Answered, At, Issued
<1>3. CASE UNCHANGED vars \/ \E u \in Users : ChangeAccount(u)
    <2>1. UNCHANGED <<clock, session, revoked, req>>
        BY <1>3 DEF vars, ChangeAccount
    <2>2. St' = St /\ Ch' = Ch /\ An' = An
        BY <2>1, TableStill DEF Ch, An, Checking, Answered, At
    <2>3. QED
        BY <2>2 DEF Registry!vars, St, Ch, An
<1>4. QED
    BY <1>1, <1>2, <1>3 DEF Next

\* Sessions are a registry of credentials: one is issued once and has one life, and
\* ValidateSession says what was true when it read the row or is true now.
THEOREM Refinement == Spec => ImplementsCredentials
<1>1. Init => Registry!Init
    <2> SUFFICES ASSUME Init PROVE Registry!Init
        OBVIOUS
    <2>1. Issued = {}
        BY DEF Init, Issued
    <2>2. \A i \in Ids \union {NoId} : Lifetime(i) = "none"
        BY <2>1 DEF Lifetime
    <2>3. \A c \in Requests : Checking(c) = Registry!NoCheck /\ Answered(c) = "none"
        BY DEF Init, Idle, Checking, Answered, Registry!NoCheck, At
    <2>4. QED
        BY <2>2, <2>3 DEF Registry!Init
<1>2. IInv /\ [Next]_vars => [Registry!Next]_(Registry!vars)
    BY RegistryStep
<1>3. QED
    BY Invariant, <1>1, <1>2, PTL DEF Spec, ImplementsCredentials, Registry!Spec

=============================================================================
