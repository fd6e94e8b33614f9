-------------------------------- MODULE Auth --------------------------------
(***************************************************************************)
(* Login sessions, src/pkg/auth: Login, ValidateSession, Logout and        *)
(* InvalidateAllSessions of service.go, the ownership check of handler.go, *)
(* over the auth_sessions table. A login reserves a slot of the host's     *)
(* login policy, reads the account, gives the slot back and then persists  *)
(* a session; a logout validates, updates and, when nothing was updated,   *)
(* looks again. Accounts change and other requests run in between.         *)
(***************************************************************************)
EXTENDS Naturals, FiniteSets

CONSTANTS
    Users, Passwords,
    Ids,        \* session ids that generateSessionID may draw
    Requests,   \* places for requests in flight
    TTL,        \* session lifetime, the module's option
    Slots,      \* attempts on one identifier the login policy lets run at once
    Env,        \* what may happen around a request, a subset of EnvEvents
    MaxTime,    \* bound on the clock
    MaxCalls,   \* bound: requests that take each place
    NoAccount, NoPass, NoRow, NoId, NoUser

EnvEvents ==
    { "failure",    \* a statement fails, or its answer is lost
      "account" }   \* the user module changes accounts

Accounts == [active : BOOLEAN, pass : Passwords \union {NoPass}]
Rows == [user : Users, expires : Nat]

ASSUME ConstantsOK ==
    /\ IsFiniteSet(Requests)
    /\ TTL \in Nat \ {0}
    /\ Slots \in Nat \ {0}
    /\ Env \subseteq EnvEvents
    /\ MaxTime \in Nat /\ MaxCalls \in Nat
    /\ NoPass \notin Passwords
    /\ NoId \notin Ids
    /\ NoUser \notin Users
    /\ NoAccount \notin Accounts
    /\ NoRow \notin Rows

VARIABLES
    clock,
    account,    \* the row of each user in the user module's table
    reserved,   \* login policy: slots taken by AllowLogin and not recorded yet
    session,    \* the columns of auth_sessions that Create writes
    revoked,    \* the rows whose revoked_at is set
    req         \* the request in each place, see Idle

vars == <<clock, account, reserved, session, revoked, req>>

-----------------------------------------------------------------------------

Places == {"idle", "lookup", "record", "persist", "get", "decide", "update",
           "again", "invalidate", "answered"}
Kinds == {"none", "login", "validate", "logout", "invalidate"}
Verdicts == {"none", "ok", "invalid", "inactive", "notfound", "revoked",
             "expired", "error"}
Results == Verdicts \union {"denied", "foreign"}

Idle ==
    [ pc |-> "idle",
      kind |-> "none",      \* the operation requested
      user |-> NoUser,      \* who logs in, or the principal of the request
      pass |-> NoPass,      \* the password of a login
      sid |-> NoId,         \* the session of the request; of a login, the new one
      read |-> "none",      \* what ValidateSession has read
      expires |-> 0,        \* of a login: when the new session expires
      verdict |-> "none",   \* what the first half of the request has found out
      result |-> "none",    \* what the caller gets
      lived |-> FALSE,      \* history: the session was live when its row was read
      entitled |-> FALSE,   \* history: the account admitted the login when read
      calls |-> 0 ]

At(c, place) == req[c].pc = place

Issued == {i \in Ids : session[i] # NoRow}
Row(c) == [user |-> req[c].user, expires |-> req[c].expires]

\* A fault, see below: a session that is dead at the instant it expires.
ExpiredAtLimit(i, t) == t >= session[i].expires

\* now.After(sess.ExpiresAt)
Expired(i, t) == t > session[i].expires

Proceed(c, place) == req' = [req EXCEPT ![c].pc = place]

\* What is left of a request when its handler has returned: the locals are gone.
Finished(c, v, what) ==
    [Idle EXCEPT !.pc = "answered", !.kind = req[c].kind, !.user = req[c].user,
                 !.sid = req[c].sid, !.verdict = v, !.result = what,
                 !.calls = req[c].calls]

Answer(c, what) == req' = [req EXCEPT ![c] = Finished(c, req[c].verdict, what)]

\* A request takes a free place.
Free(c) == req[c].pc \in {"idle", "answered"} /\ req[c].calls < MaxCalls
Request(c, k, u) == [Idle EXCEPT !.kind = k, !.user = u, !.calls = req[c].calls + 1]

\* The row as it was read, and the clock as it is now.
SessionVerdict(c) ==
    CASE req[c].read = "missing" -> "notfound"
      [] req[c].read = "revoked" -> "revoked"
      [] req[c].read = "row" -> IF Expired(req[c].sid, clock) THEN "expired" ELSE "ok"

-----------------------------------------------------------------------------
(* Faults: what single steps would be with a plausible bug in the code.     *)
(* Nothing below uses them.                                                 *)

\* A slot given back twice by a failed attempt; one kept by a success.
RecordFailureTwice(c) ==
    /\ At(c, "record") /\ req[c].verdict # "ok"
    /\ reserved' = [reserved EXCEPT ![req[c].user] = @ - 2]
    /\ Answer(c, req[c].verdict)
    /\ UNCHANGED <<clock, account, session, revoked>>

SuccessNotRecorded(c) ==
    /\ At(c, "record") /\ req[c].verdict = "ok"
    /\ \E i \in Ids \ Issued :
        /\ \A d \in Requests : At(d, "persist") => req[d].sid # i
        /\ req' = [req EXCEPT ![c].pc = "persist", ![c].sid = i,
                              ![c].expires = clock + TTL]
    /\ UNCHANGED <<clock, account, reserved, session, revoked>>

\* A login that does not look at the active flag.
AdmissionInactive(a, p) == IF a # NoAccount /\ a.pass = p THEN "ok" ELSE "invalid"

\* A logout handler without its ownership check.
DecideAnyOwner(c) ==
    LET v == SessionVerdict(c)
    IN  /\ At(c, "decide")
        /\ req' = [req EXCEPT ![c] =
                IF req[c].kind = "validate" THEN Finished(c, v, v)
                ELSE [@ EXCEPT !.pc = "update", !.verdict = v]]
        /\ UNCHANGED <<clock, account, reserved, session, revoked>>

\* A failed update taken for success.
UpdateErrorDropped(c) ==
    /\ "failure" \in Env /\ At(c, "update")
    /\ revoked' \in {revoked, revoked \union ({req[c].sid} \intersect Issued)}
    /\ Answer(c, "ok")
    /\ UNCHANGED <<clock, account, reserved, session>>

-----------------------------------------------------------------------------
(* Login *)

\* The policy's AllowLogin takes a slot of the identifier or denies.
AllowLogin(c, u, p) ==
    /\ Free(c)
    /\ reserved[u] < Slots
    /\ reserved' = [reserved EXCEPT ![u] = @ + 1]
    /\ req' = [req EXCEPT ![c] =
            [Request(c, "login", u) EXCEPT !.pc = "lookup", !.pass = p]]
    /\ UNCHANGED <<clock, account, session, revoked>>

DenyLogin(c, u) ==
    /\ Free(c)
    /\ reserved[u] >= Slots
    /\ req' = [req EXCEPT ![c] =
            [Request(c, "login", u) EXCEPT !.pc = "answered", !.result = "denied"]]
    /\ UNCHANGED <<clock, account, reserved, session, revoked>>

\* What the account row, if there is one, says of the password.
Admission(a, p) ==
    IF a = NoAccount THEN "invalid"
    ELSE IF ~a.active THEN "inactive"
    ELSE IF a.pass # p THEN "invalid" ELSE "ok"

\* One read of the account decides; every error of it counts as a missing user.
LookupUser(c) ==
    LET a == account[req[c].user]
        p == req[c].pass
    IN  /\ At(c, "lookup")
        /\ \E v \in {Admission(a, p)} \union (IF "failure" \in Env THEN {"invalid"} ELSE {}) :
            req' = [req EXCEPT ![c].pc = "record", ![c].verdict = v,
                               ![c].entitled = a = [active |-> TRUE, pass |-> p]]
        /\ UNCHANGED <<clock, account, reserved, session, revoked>>

Release(u) == reserved' = [reserved EXCEPT ![u] = @ - 1]

\* RecordFailure, and the answer.
RecordFailure(c) ==
    /\ At(c, "record") /\ req[c].verdict # "ok"
    /\ Release(req[c].user)
    /\ Answer(c, req[c].verdict)
    /\ UNCHANGED <<clock, account, session, revoked>>

\* RecordSuccess, before the session is made: 256 random bits for its id, the
\* clock for its lifetime.
RecordSuccess(c) ==
    /\ At(c, "record") /\ req[c].verdict = "ok"
    /\ Release(req[c].user)
    /\ \E i \in Ids \ Issued :
        /\ \A d \in Requests : At(d, "persist") => req[d].sid # i
        /\ req' = [req EXCEPT ![c].pc = "persist", ![c].sid = i,
                              ![c].expires = clock + TTL]
    /\ UNCHANGED <<clock, account, session, revoked>>

\* sessions.Create, and the event.
Persist(c) ==
    /\ At(c, "persist")
    /\ session' = [session EXCEPT ![req[c].sid] = Row(c)]
    /\ Answer(c, "ok")
    /\ UNCHANGED <<clock, account, reserved, revoked>>

\* The insert fails, or its answer is lost and the row stays: no event.
PersistFails(c) ==
    /\ "failure" \in Env /\ At(c, "persist")
    /\ session' \in {session, [session EXCEPT ![req[c].sid] = Row(c)]}
    /\ Answer(c, "error")
    /\ UNCHANGED <<clock, account, reserved, revoked>>

-----------------------------------------------------------------------------
(* ValidateSession, on its own and as the first half of the logout handler *)

\* A request names an id that some login returned, or one that never was.
Present(c, k, u, i) ==
    /\ Free(c)
    /\ i \in Issued \union {NoId}
    /\ req' = [req EXCEPT ![c] = [Request(c, k, u) EXCEPT !.pc = "get", !.sid = i]]
    /\ UNCHANGED <<clock, account, reserved, session, revoked>>

\* sessions.Get
Get(c) ==
    LET i == req[c].sid
    IN  /\ At(c, "get")
        /\ req' = [req EXCEPT ![c].pc = "decide",
                    ![c].read = IF i \notin Issued THEN "missing"
                                ELSE IF i \in revoked THEN "revoked" ELSE "row",
                    ![c].lived = /\ i \in Issued \ revoked
                                 /\ clock <= session[i].expires]
        /\ UNCHANGED <<clock, account, reserved, session, revoked>>

\* The error of a failed read answers a validation. The logout handler enforces
\* ownership only after a validation without error, and goes on.
GetFails(c) ==
    /\ "failure" \in Env /\ At(c, "get")
    /\ req' = [req EXCEPT ![c] =
            IF req[c].kind = "logout"
            THEN [@ EXCEPT !.pc = "update", !.verdict = "error"]
            ELSE Finished(c, "error", "error")]
    /\ UNCHANGED <<clock, account, reserved, session, revoked>>

\* A live session of somebody else reads as "not found" in either handler; a
\* logout goes on with a session that is its own or dead.
Decide(c) ==
    LET v == SessionVerdict(c)
        foreign == v = "ok" /\ session[req[c].sid].user # req[c].user
    IN  /\ At(c, "decide")
        /\ req' = [req EXCEPT ![c] =
                IF foreign \/ req[c].kind = "validate"
                THEN Finished(c, v, IF foreign THEN "foreign" ELSE v)
                ELSE [@ EXCEPT !.pc = "update", !.verdict = v]]
        /\ UNCHANGED <<clock, account, reserved, session, revoked>>

-----------------------------------------------------------------------------
(* Logout and InvalidateAllSessions *)

\* UPDATE ... WHERE id = ? AND revoked_at IS NULL
RevokeUpdate(c) ==
    LET i == req[c].sid
    IN  /\ At(c, "update")
        /\ IF i \in Issued \ revoked
           THEN /\ revoked' = revoked \union {i}
                /\ Answer(c, "ok")
           ELSE Proceed(c, "again") /\ UNCHANGED <<revoked>>
        /\ UNCHANGED <<clock, account, reserved, session>>

\* The update fails: an error, and the row is as it was or, if only the answer
\* was lost, revoked.
RevokeUpdateFails(c) ==
    /\ "failure" \in Env /\ At(c, "update")
    /\ revoked' \in {revoked, revoked \union ({req[c].sid} \intersect Issued)}
    /\ Answer(c, "error")
    /\ UNCHANGED <<clock, account, reserved, session>>

\* No row was updated: a session that is revoked already, or none.
RevokeGet(c) ==
    LET i == req[c].sid
    IN  /\ At(c, "again")
        /\ IF i \in Issued
           THEN Answer(c, "ok")
           ELSE Answer(c, "notfound")
        /\ UNCHANGED <<clock, account, reserved, session, revoked>>

\* The second look fails with anything but ErrNotFound: nil all the same.
RevokeGetFails(c) ==
    /\ "failure" \in Env /\ At(c, "again")
    /\ Answer(c, "ok")
    /\ UNCHANGED <<clock, account, reserved, session, revoked>>

InvalidateAll(c, u) ==
    /\ Free(c)
    /\ req' = [req EXCEPT ![c] = [Request(c, "invalidate", u) EXCEPT !.pc = "invalidate"]]
    /\ UNCHANGED <<clock, account, reserved, session, revoked>>

\* One update of every live row of the user.
RevokeByUser(c) ==
    /\ At(c, "invalidate")
    /\ revoked' = revoked \union {i \in Issued : session[i].user = req[c].user}
    /\ Answer(c, "ok")
    /\ UNCHANGED <<clock, account, reserved, session>>

RevokeByUserFails(c) ==
    /\ "failure" \in Env /\ At(c, "invalidate")
    /\ Answer(c, "error")
    /\ UNCHANGED <<clock, account, reserved, session, revoked>>

-----------------------------------------------------------------------------
(* The world around *)

Tick ==
    /\ clock < MaxTime
    /\ clock' = clock + 1
    /\ UNCHANGED <<account, reserved, session, revoked, req>>

\* The user module: SetPassword, Update of the active flag, Delete.
ChangeAccount(u) ==
    /\ "account" \in Env
    /\ account[u] # NoAccount
    /\ \/ \E p \in Passwords : account' = [account EXCEPT ![u].pass = p]
       \/ \E b \in BOOLEAN : account' = [account EXCEPT ![u].active = b]
       \/ account' = [account EXCEPT ![u] = NoAccount]
    /\ UNCHANGED <<clock, reserved, session, revoked, req>>

\* Users exist and have a password, or none yet.
Init ==
    /\ clock = 0
    /\ account \in [Users -> [active : {TRUE}, pass : Passwords \union {NoPass}]]
    /\ reserved = [u \in Users |-> 0]
    /\ session = [i \in Ids |-> NoRow]
    /\ revoked = {}
    /\ req = [c \in Requests |-> Idle]

Login(c) ==
    \/ \E u \in Users : DenyLogin(c, u) \/ \E p \in Passwords : AllowLogin(c, u, p)
    \/ LookupUser(c)
    \/ RecordFailure(c) \/ RecordSuccess(c)
    \/ Persist(c) \/ PersistFails(c)

Validate(c) ==
    \/ \E k \in {"validate", "logout"}, u \in Users, i \in Ids \union {NoId} :
        Present(c, k, u, i)
    \/ Get(c) \/ GetFails(c) \/ Decide(c)

Revoke(c) ==
    \/ RevokeUpdate(c) \/ RevokeUpdateFails(c)
    \/ RevokeGet(c) \/ RevokeGetFails(c)
    \/ \E u \in Users : InvalidateAll(c, u)
    \/ RevokeByUser(c) \/ RevokeByUserFails(c)

Next ==
    \/ Tick
    \/ \E u \in Users : ChangeAccount(u)
    \/ \E c \in Requests : Login(c) \/ Validate(c) \/ Revoke(c)

Spec == Init /\ [][Next]_vars

-----------------------------------------------------------------------------
(* Properties *)

TypeOK ==
    /\ clock \in Nat
    /\ account \in [Users -> Accounts \union {NoAccount}]
    /\ reserved \in [Users -> Nat]
    /\ session \in [Ids -> Rows \union {NoRow}]
    /\ revoked \subseteq Issued
    /\ req \in [Requests ->
        [ pc : Places, kind : Kinds, user : Users \union {NoUser},
          pass : Passwords \union {NoPass}, sid : Ids \union {NoId},
          read : {"none", "missing", "revoked", "row"}, expires : Nat,
          verdict : Verdicts, result : Results, lived : BOOLEAN,
          entitled : BOOLEAN, calls : Nat ]]

\* "The throttle reservation taken by AllowLogin is always released even if a
\* later internal step fails" (service.go:143): a slot that is taken belongs to
\* an attempt that has not been judged yet, whatever fails after.
ReservationsAreInFlight ==
    \A u \in Users : reserved[u] =
        Cardinality({c \in Requests : /\ req[c].kind = "login" /\ req[c].user = u
                                      /\ req[c].pc \in {"lookup", "record"}})

\* A session comes into being only by a login of its own user, at a moment of
\* which the account existed, was active and had the password that was given.
SessionsComeFromLogins ==
    [][\A i \in Ids : session[i] # session'[i] =>
        \E c \in Requests :
            /\ At(c, "persist") /\ req[c].sid = i /\ session[i] = NoRow
            /\ req[c].entitled /\ session'[i].user = req[c].user]_session

\* A caller whose logout returned without error holds a session that no check
\* accepts any more, also when statements fail and several callers log out.
LogoutEndsTheSession ==
    \A c \in Requests :
        /\ At(c, "answered") /\ req[c].kind = "logout" /\ req[c].result = "ok"
        /\ req[c].sid # NoId
        => req[c].sid \in revoked

\* "Only the session's owner may revoke it" (handler.go:145): a live session is
\* revoked by a request in its user's name, or of all of that user's sessions.
RevokedBy(i) ==
    {c \in Requests : /\ At(c, "invalidate") \/ (At(c, "update") /\ req[c].sid = i)
                      /\ req[c].user = session[i].user}

OnlyTheOwnerLogsOut ==
    [][\A i \in revoked' \ revoked : clock <= session[i].expires =>
        \E c \in RevokedBy(i) : req'[c].pc = "answered"]_revoked

\* The same of every request but a logout whose first read of the row has failed:
\* whatever happens to the session between that read and the update.
OnlyTheOwnerLogsOutWhenRead ==
    [][\A i \in revoked' \ revoked : clock <= session[i].expires =>
        \/ \E c \in RevokedBy(i) : req'[c].pc = "answered"
        \/ \E c \in Requests :
            At(c, "update") /\ req[c].verdict = "error" /\ req'[c].pc = "answered"]_revoked

\* To whoever checks them, sessions are a registry of credentials: none comes
\* back after it was revoked or has expired, and ValidateSession says of one what
\* was true when it read the row or is true when it answers.
Lifetime(i) ==
    IF i \notin Issued THEN "none"
    ELSE IF i \notin revoked /\ clock <= session[i].expires THEN "live" ELSE "ended"

Checking(c) ==
    [of |-> IF At(c, "decide") THEN {req[c].sid} ELSE {},
     live |-> At(c, "decide") /\ req[c].lived]

Answered(c) ==
    IF req[c].kind \notin {"validate", "logout"} THEN "none"
    ELSE IF req[c].verdict = "ok" THEN "yes"
    ELSE IF req[c].verdict \in {"notfound", "revoked", "expired"} THEN "no" ELSE "none"

Registry == INSTANCE Credentials WITH
    Creds <- Ids \union {NoId},
    Checkers <- Requests,
    state <- [i \in Ids \union {NoId} |-> Lifetime(i)],
    check <- [c \in Requests |-> Checking(c)],
    answer <- [c \in Requests |-> Answered(c)]

ImplementsCredentials == Registry!Spec

-----------------------------------------------------------------------------
(* The inductive invariant behind the properties: what each request knows   *)
(* of accounts and sessions at each place.                                  *)

\* A login that is about to persist was admitted, and its id is its own.
LoginInv ==
    /\ \A c \in Requests :
        /\ req[c].pc \in {"lookup", "record", "persist"} =>
                req[c].kind = "login" /\ req[c].user \in Users
        /\ At(c, "record") /\ req[c].verdict = "ok" => req[c].entitled
        /\ At(c, "persist") => req[c].entitled /\ req[c].sid \in Ids \ Issued
    /\ \A c, d \in Requests :
        c # d /\ At(c, "persist") /\ At(d, "persist") => req[c].sid # req[d].sid

\* A request about a session names one that exists, or none.
PresentedInv ==
    \A c \in Requests :
        /\ req[c].pc \in {"get", "decide", "update", "again"} =>
                /\ req[c].sid \in Issued \union {NoId}
                /\ req[c].kind \in {"validate", "logout"}
        /\ req[c].pc \in {"get", "decide"} => req[c].verdict = "none"
        /\ req[c].pc \in {"update", "again"} => req[c].kind = "logout"
        /\ At(c, "invalidate") => req[c].kind = "invalidate" /\ req[c].user \in Users

\* What was read of the session is true of it still, but that it was not revoked.
ReadInv ==
    \A c \in Requests : At(c, "decide") =>
        \/ req[c].read = "missing" /\ req[c].sid = NoId /\ ~req[c].lived
        \/ req[c].read = "revoked" /\ req[c].sid \in revoked /\ ~req[c].lived
        \/ /\ req[c].read = "row" /\ req[c].sid \in Issued
           /\ req[c].lived \/ Expired(req[c].sid, clock)

\* A logout goes on with a session that is its user's, or dead, or was not read.
OwnerInv ==
    \A c \in Requests : At(c, "update") =>
        \/ req[c].verdict = "error" \/ req[c].sid \in {NoId} \union revoked
        \/ Expired(req[c].sid, clock) \/ session[req[c].sid].user = req[c].user

\* When nothing was updated, nothing was left to revoke.
AgainInv == \A c \in Requests : At(c, "again") => req[c].sid \in {NoId} \union revoked

IInv ==
    /\ TypeOK /\ ReservationsAreInFlight
    /\ LoginInv /\ PresentedInv /\ ReadInv /\ OwnerInv /\ AgainInv
    /\ LogoutEndsTheSession

=============================================================================
