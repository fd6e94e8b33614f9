------------------------------ MODULE Directory ------------------------------
(***************************************************************************)
(* The user directory and its tenants, src/pkg/user and src/pkg/tenant.    *)
(* The users handler creates (look up the tenant, insert, set the          *)
(* password, delete again when that fails), updates (read, look up the     *)
(* tenant, write the profile, set the password) and deletes; each step is  *)
(* a statement of its own and no transaction holds them together. Tenants  *)
(* change meanwhile, by their own handler or by the operator.              *)
(***************************************************************************)
EXTENDS Naturals

CONSTANTS
    Tenants,    \* ids of tenants, and slugs, which are ids where none is given
    Names,      \* usernames; emails have an index of their own that works alike
    Passwords,
    Ids,        \* primary keys of the users table, for all tenants
    IdOf,       \* of <<tenant, username>>: the two with a colon between. Not
                \* one-to-one, for both may hold colons
    Requests,   \* places for requests in flight
    Env,        \* what may happen around a request, a subset of EnvEvents
    MaxCalls,   \* bound: requests in all, those to tenants among them
    NoUser, NoTenant, NoPass, NoId, NoName, NoRequest,
    Bodies,     \* what a tenant's requests to create or update may ask for, see Body
    Keep        \* the active flag of a body that has none

EnvEvents ==
    { "failure",    \* a statement fails, or its answer is lost
      "tenants" }   \* tenants are created, renamed and deleted

Rows == [ tenant : Tenants, name : Names, active : BOOLEAN,
          pass : Passwords \union {NoPass} ]

Body == [ tenant : Tenants, name : Names, active : BOOLEAN \union {Keep},
          pass : Passwords \union {NoPass} ]

ASSUME ConstantsOK ==
    /\ Bodies \subseteq Body
    /\ \A b \in Bodies : IdOf[b.tenant, b.name] \in Ids
    /\ Env \subseteq EnvEvents
    /\ MaxCalls \in Nat
    /\ NoUser \notin Rows
    /\ NoTenant \notin Tenants
    /\ NoPass \notin Passwords
    /\ NoId \notin Ids /\ NoName \notin Names
    /\ NoRequest \notin Requests
    /\ Keep \notin BOOLEAN

VARIABLES
    slug,   \* the tenants table: the slug of each tenant there is
    row,    \* the users table
    maker,  \* history: the request that has inserted the row, see Insert
    req,    \* the request in each place, see Idle
    calls   \* the requests so far

vars == <<slug, row, maker, req, calls>>

-----------------------------------------------------------------------------

Places == {"idle", "read", "tenant", "insert", "write", "password", "compensate",
           "delete", "answered"}
Kinds == {"none", "create", "update", "delete"}
Results == {"none", "ok", "refused"}

Idle ==
    [ pc |-> "idle",
      kind |-> "none",
      tenant |-> NoTenant,  \* of the principal; no request names another one
      subject |-> NoId,     \* the account the principal's credential belongs to
      admin |-> FALSE,      \* the principal has the admin scope
      id |-> NoId,          \* the user
      name |-> NoName, active |-> Keep, pass |-> NoPass,
      known |-> FALSE,      \* history: the tenant has existed since the start
      stray |-> FALSE,      \* history: an insert is unanswered or a clean-up failed
      result |-> "none" ]   \* "refused" is any status from 400 on

At(c, place) == req[c].pc = place
Free(c) == req[c].pc \in {"idle", "answered"}
Counted == calls < MaxCalls /\ calls' = calls + 1
Existing == {t \in Tenants : slug[t] # NoTenant}
Users == {i \in Ids : row[i] # NoUser}

\* A fault, see below: statements that name the user by its id alone.
MineById(c) == req[c].id \in Users

\* Every statement that names a user says WHERE id = ? AND tenant_id = ?
Mine(c) == req[c].id \in Users /\ row[req[c].id].tenant = req[c].tenant

\* The unique index on (tenant, username).
Taken(c) ==
    \E i \in Users \ {req[c].id} :
        row[i].tenant = req[c].tenant /\ row[i].name = req[c].name

NewRow(c) ==
    [ tenant |-> req[c].tenant, name |-> req[c].name, active |-> req[c].active,
      pass |-> NoPass ]

\* Email, username, display name and active flag; never the hash or the tenant.
Profile(c) ==
    [row[req[c].id] EXCEPT !.name = req[c].name, !.active = req[c].active]

Proceed(c, place) == req' = [req EXCEPT ![c].pc = place]

\* The answer. Locals are gone; rows of a request that went well are like any.
Finished(c, what) ==
    [Idle EXCEPT !.pc = "answered", !.result = what, !.stray = req[c].stray]

Answer(c, what) == req' = [req EXCEPT ![c] = Finished(c, what)]
AnswerStray(c, what) ==
    req' = [req EXCEPT ![c] = [Finished(c, what) EXCEPT !.stray = TRUE]]

Forget(c) == [i \in Ids |-> IF maker[i] = c THEN NoRequest ELSE maker[i]]

\* canMutateUser and canSetPassword of the handler, and a fault, see below: an
\* update that asks for the admin scope only to change its own account.
MayMutate(r) == r.admin \/ r.subject # r.id
MaySetAnyPassword(r) == MayMutate(r)
MaySetPassword(r) == r.pass = NoPass \/ r.admin

\* After the row is written: the password, if the request has one.
PasswordOrDone(c) ==
    req' = [req EXCEPT ![c] =
        IF req[c].pass = NoPass THEN Finished(c, "ok") ELSE [@ EXCEPT !.pc = "password"]]

-----------------------------------------------------------------------------
(* Faults: what single steps would be with a plausible bug in the code.     *)
(* Nothing below uses them.                                                 *)

\* Only ErrNotFound stops a creation: any other error of the tenant service is
\* taken for a tenant.
CheckTenantErrorDropped(c) ==
    /\ "failure" \in Env /\ At(c, "tenant")
    /\ Proceed(c, IF req[c].kind = "create" THEN "insert" ELSE "write")
    /\ UNCHANGED <<slug, row, maker, calls>>

\* A creation that does not clean up behind a failed password.
SetPasswordFailsForGood(c) ==
    /\ "failure" \in Env /\ At(c, "password")
    /\ Answer(c, "refused")
    /\ UNCHANGED <<slug, row, maker, calls>>

\* An update that omits the active flag and gets no default for it.
ReadWithoutDefault(c) ==
    /\ At(c, "read")
    /\ IF Mine(c) THEN Proceed(c, "tenant") ELSE Answer(c, "refused")
    /\ UNCHANGED <<slug, row, maker, calls>>

-----------------------------------------------------------------------------
(* Requests arrive *)

\* A handler refuses what the principal may not ask for before it reads anything.
Start(c, r, allowed, place) ==
    /\ Free(c) /\ Counted
    /\ req' = [req EXCEPT ![c] =
            [r EXCEPT !.pc = IF allowed THEN place ELSE "answered",
                      !.result = IF allowed THEN "none" ELSE "refused"]]
    /\ maker' = Forget(c)
    /\ UNCHANGED <<slug, row>>

\* POST: active unless the body says otherwise; the id is computed.
Create(c, adm, b) ==
    LET r == [Idle EXCEPT !.kind = "create", !.tenant = b.tenant, !.admin = adm,
                !.id = IdOf[b.tenant, b.name], !.name = b.name, !.active = b.active # FALSE,
                !.pass = b.pass,
                !.known = b.tenant \in Existing]
    IN  Start(c, r, MaySetPassword(r), "tenant")

\* PUT
Update(c, who, adm, i, b) ==
    LET r == [Idle EXCEPT !.kind = "update", !.tenant = b.tenant, !.subject = who,
                !.admin = adm, !.id = i, !.name = b.name, !.active = b.active,
                !.pass = b.pass]
    IN  Start(c, r, MayMutate(r) /\ MaySetPassword(r), "read")

\* DELETE; not even an administrator deletes the account it is signed in with.
Delete(c, t, who, adm, i) ==
    LET r == [Idle EXCEPT !.kind = "delete", !.tenant = t, !.subject = who,
                !.admin = adm, !.id = i]
    IN  Start(c, r, MayMutate(r) /\ who # i, "delete")

-----------------------------------------------------------------------------
(* The steps of a request *)

\* The update handler reads the row for the active flag it was not given.
ReadExisting(c) ==
    /\ At(c, "read")
    /\ IF Mine(c)
       THEN req' = [req EXCEPT ![c].pc = "tenant",
                        ![c].active = IF @ = Keep THEN row[req[c].id].active ELSE @]
       ELSE Answer(c, "refused")
    /\ UNCHANGED <<slug, row, maker, calls>>

\* validateTenant
CheckTenant(c) ==
    /\ At(c, "tenant")
    /\ IF req[c].tenant \in Existing
       THEN Proceed(c, IF req[c].kind = "create" THEN "insert" ELSE "write")
       ELSE Answer(c, "refused")
    /\ UNCHANGED <<slug, row, maker, calls>>

\* Either read fails.
ReadFails(c) ==
    /\ "failure" \in Env /\ At(c, "read")
    /\ Answer(c, "refused")
    /\ UNCHANGED <<slug, row, maker, calls>>

CheckTenantFails(c) ==
    /\ "failure" \in Env /\ At(c, "tenant")
    /\ Answer(c, "refused")
    /\ UNCHANGED <<slug, row, maker, calls>>

Conflict(c) == req[c].id \in Users \/ Taken(c)

StoreNew(c) ==
    /\ row' = [row EXCEPT ![req[c].id] = NewRow(c)]
    /\ maker' = [maker EXCEPT ![req[c].id] = c]

\* INSERT INTO users; the primary key may collide too, with a row of another
\* tenant or of a user who has been renamed.
Insert(c) ==
    /\ At(c, "insert")
    /\ IF Conflict(c)
       THEN Answer(c, "refused") /\ UNCHANGED <<row, maker>>
       ELSE StoreNew(c) /\ PasswordOrDone(c)
    /\ UNCHANGED <<slug, calls>>

InsertFails(c) ==
    /\ "failure" \in Env /\ At(c, "insert")
    /\ \/ UNCHANGED <<row, maker>> /\ Answer(c, "refused")
       \/ ~Conflict(c) /\ StoreNew(c) /\ AnswerStray(c, "refused")
    /\ UNCHANGED <<slug, calls>>

\* UPDATE users; no row matches, or an index refuses.
WriteProfile(c) ==
    /\ At(c, "write")
    /\ IF Mine(c) /\ ~Taken(c)
       THEN /\ row' = [row EXCEPT ![req[c].id] = Profile(c)]
            /\ PasswordOrDone(c)
       ELSE Answer(c, "refused") /\ UNCHANGED row
    /\ UNCHANGED <<slug, maker, calls>>

WriteProfileFails(c) ==
    /\ "failure" \in Env /\ At(c, "write")
    /\ \/ UNCHANGED row
       \/ Mine(c) /\ ~Taken(c) /\ row' = [row EXCEPT ![req[c].id] = Profile(c)]
    /\ Answer(c, "refused")
    /\ UNCHANGED <<slug, maker, calls>>

\* Whether it was the hash, the statement or its answer that failed, a creation
\* deletes what it has inserted; an update has written the profile already.
Undo(c) ==
    IF req[c].kind = "create" THEN Proceed(c, "compensate") ELSE Answer(c, "refused")

\* UPDATE users SET pass_hash: of the row that has the id now.
SetPassword(c) ==
    /\ At(c, "password")
    /\ IF Mine(c)
       THEN row' = [row EXCEPT ![req[c].id].pass = req[c].pass] /\ Answer(c, "ok")
       ELSE UNCHANGED row /\ Undo(c)
    /\ UNCHANGED <<slug, maker, calls>>

SetPasswordFails(c) ==
    /\ "failure" \in Env /\ At(c, "password")
    /\ \/ UNCHANGED row
       \/ Mine(c) /\ row' = [row EXCEPT ![req[c].id].pass = req[c].pass]
    /\ Undo(c)
    /\ UNCHANGED <<slug, maker, calls>>

RemoveRow(c) ==
    /\ row' = [row EXCEPT ![req[c].id] = NoUser]
    /\ maker' = [maker EXCEPT ![req[c].id] = NoRequest]

\* The best-effort delete; the request has failed either way.
Compensate(c) ==
    /\ At(c, "compensate")
    /\ IF Mine(c) THEN RemoveRow(c) ELSE UNCHANGED <<row, maker>>
    /\ Answer(c, "refused")
    /\ UNCHANGED <<slug, calls>>

CompensateFails(c) ==
    /\ "failure" \in Env /\ At(c, "compensate")
    /\ AnswerStray(c, "refused")
    /\ UNCHANGED <<slug, row, maker, calls>>

\* DELETE FROM users
DeleteRow(c) ==
    /\ At(c, "delete")
    /\ IF Mine(c)
       THEN RemoveRow(c) /\ Answer(c, "ok")
       ELSE Answer(c, "refused") /\ UNCHANGED <<row, maker>>
    /\ UNCHANGED <<slug, calls>>

DeleteRowFails(c) ==
    /\ "failure" \in Env /\ At(c, "delete")
    /\ UNCHANGED <<row, maker>> \/ (Mine(c) /\ RemoveRow(c))
    /\ Answer(c, "refused")
    /\ UNCHANGED <<slug, calls>>

-----------------------------------------------------------------------------
(* Tenants: one statement each, so no place is needed. A refused or failed  *)
(* statement changes nothing.                                               *)

SlugFree(s) == \A t \in Tenants : slug[t] # s

\* The statement; NoTenant for a row that goes.
SetSlug(t, s) == slug' = [slug EXCEPT ![t] = s]

\* By the operator, in process: over HTTP creation is forbidden. The id is given or
\* is the slug.
CreateTenant(t, s) ==
    /\ "tenants" \in Env /\ Counted
    /\ t \notin Existing /\ SlugFree(s)
    /\ SetSlug(t, s)
    /\ req' = [c \in Requests |->
            [req[c] EXCEPT !.known = @ \/ (req[c].kind = "create" /\ req[c].tenant = t)]]
    /\ UNCHANGED <<row, maker>>

\* By a principal of the tenant itself.
UpdateTenant(t, s) ==
    /\ "tenants" \in Env /\ Counted
    /\ t \in Existing /\ SlugFree(s)
    /\ SetSlug(t, s)
    /\ UNCHANGED <<row, maker, req>>

\* Its users stay where they are.
DeleteTenant(t) ==
    /\ "tenants" \in Env /\ Counted
    /\ t \in Existing
    /\ SetSlug(t, NoTenant)
    /\ UNCHANGED <<row, maker, req>>

-----------------------------------------------------------------------------

\* Tenants that the operator has set up, and at most one user.
Init ==
    /\ slug = [t \in Tenants |-> t]
    /\ \E one \in SUBSET Bodies :
        /\ \A b, d \in one : b = d
        /\ row = [i \in Ids |->
            IF \E b \in one : IdOf[b.tenant, b.name] = i
            THEN LET b == CHOOSE b \in one : TRUE
                 IN  [tenant |-> b.tenant, name |-> b.name, active |-> TRUE, pass |-> b.pass]
            ELSE NoUser]
    /\ maker = [i \in Ids |-> NoRequest]
    /\ req = [c \in Requests |-> Idle]
    /\ calls = 0

\* Of the account of the credential only matters whether it is the target, and
\* to an administrator only when that is to be deleted.
Arrive(c) ==
    \/ \E adm \in BOOLEAN, b \in Bodies : Create(c, adm, b)
    \/ \E i \in Ids, b \in Bodies :
        Update(c, NoId, TRUE, i, b) \/ \E who \in {i, NoId} : Update(c, who, FALSE, i, b)
    \/ \E t \in Tenants, adm \in BOOLEAN, i \in Ids : \E who \in {i, NoId} :
        Delete(c, t, who, adm, i)

Proceeding(c) ==
    \/ ReadExisting(c) \/ ReadFails(c)
    \/ CheckTenant(c) \/ CheckTenantFails(c)
    \/ Insert(c) \/ InsertFails(c)
    \/ WriteProfile(c) \/ WriteProfileFails(c)
    \/ SetPassword(c) \/ SetPasswordFails(c)
    \/ Compensate(c) \/ CompensateFails(c)
    \/ DeleteRow(c) \/ DeleteRowFails(c)

TenantStep ==
    \E t \in Tenants :
        \/ DeleteTenant(t)
        \/ \E s \in Tenants : CreateTenant(t, s) \/ UpdateTenant(t, s)

Next == TenantStep \/ \E c \in Requests : Arrive(c) \/ Proceeding(c)

Spec == Init /\ [][Next]_vars

-----------------------------------------------------------------------------
(* Properties *)

TypeOK ==
    /\ slug \in [Tenants -> Tenants \union {NoTenant}]
    /\ row \in [Ids -> Rows \union {NoUser}]
    /\ maker \in [Ids -> Requests \union {NoRequest}]
    /\ req \in [Requests ->
        [ pc : Places, kind : Kinds, tenant : Tenants \union {NoTenant},
          subject : Ids \union {NoId}, admin : BOOLEAN, id : Ids \union {NoId},
          name : Names \union {NoName}, active : BOOLEAN \union {Keep},
          pass : Passwords \union {NoPass},
          known : BOOLEAN, stray : BOOLEAN, result : Results ]]
    /\ calls \in Nat

\* The request that makes the step, if one does.
Stepping(c) == req'[c] # req[c] /\ req[c].pc # "answered"

\* "This choke point keeps by-ID user operations (including password resets) from
\* crossing the tenant boundary" (user/handler.go:27): a row is inserted, changed
\* or removed by a request of its own tenant, although ids are shared by all.
TenantsAreApart ==
    [][\A i \in Ids : row'[i] # row[i] =>
        \E c \in Requests :
            /\ Stepping(c)
            /\ row[i] # NoUser => row[i].tenant = req[c].tenant
            /\ row'[i] # NoUser => row'[i].tenant = req[c].tenant]_vars

\* "So a users:write automation key cannot turn itself into an interactive
\* administrator by replacing a login password" (user/handler.go:68): without the
\* admin scope a request changes no password, of whomever, and neither changes
\* nor removes the account its own credential belongs to.
CredentialOwnersAreSafe ==
    [][\A i \in Users : row'[i] # row[i] =>
        \E c \in Requests :
            /\ Stepping(c)
            /\ \/ req[c].admin
               \/ /\ req[c].subject # i
                  /\ row'[i] # NoUser => row'[i].pass = row[i].pass]_vars

\* A creation that was answered with an error leaves nothing behind, whatever other
\* requests and tenants did meanwhile, unless its insert went unanswered or the
\* delete that cleans up has failed.
RefusedLeavesNothing ==
    \A i \in Ids, c \in Requests :
        maker[i] = c /\ At(c, "answered") /\ req[c].result # "ok" => req[c].stray

\* "A leftover passwordless user cannot authenticate" (user/handler.go:207): what a
\* failed creation leaves behind has no password. It does not hold when the answer of
\* the hash's update is lost and the clean-up fails; no run checks it.
LeftoverCannotAuthenticate ==
    \A i \in Users, c \in Requests :
        maker[i] = c /\ At(c, "answered") /\ req[c].result # "ok" => row[i].pass = NoPass

\* A user is inserted only for a tenant that has existed at some time since the
\* request began: the look-up and the insert are two statements, so the tenant may
\* be gone again, but a tenant that never was there gets no user.
UsersOfKnownTenants ==
    [][\A i \in Ids : row[i] = NoUser /\ row'[i] # NoUser =>
        \E c \in Requests : Stepping(c) /\ req[c].known]_vars

-----------------------------------------------------------------------------
(* The inductive invariant behind the properties: what each request is      *)
(* about at each place, and may do, and what it has left in the table.      *)

PlaceInv ==
    \A c \in Requests :
        /\ ~Free(c) => req[c].tenant \in Tenants /\ req[c].id \in Ids
        /\ req[c].pc \in {"read", "write"} => req[c].kind = "update"
        /\ req[c].pc \in {"tenant", "password"} => req[c].kind \in {"create", "update"}
        /\ req[c].pc \in {"insert", "compensate"} => req[c].kind = "create"
        /\ At(c, "delete") => req[c].kind = "delete"
        /\ req[c].pc \in {"read", "tenant", "insert", "write"} => req[c].name \in Names
        /\ req[c].pc \in {"tenant", "insert", "write"} => req[c].active \in BOOLEAN

\* What was allowed at the start is what is done.
PermissionInv ==
    \A c \in Requests :
        /\ ~Free(c) /\ req[c].kind # "create" => MayMutate(req[c])
        /\ ~Free(c) => MaySetPassword(req[c])
        /\ req[c].pc \in {"password", "compensate"} => req[c].admin

KnownInv ==
    \A c \in Requests :
        /\ At(c, "tenant") /\ req[c].kind = "create" /\ req[c].tenant \in Existing =>
            req[c].known
        /\ At(c, "insert") => req[c].known

\* A row is its maker's until that has succeeded, has removed it or could not.
MakerInv ==
    \A i \in Ids, c \in Requests : maker[i] = c =>
        /\ i \in Users
        /\ \/ /\ req[c].pc \in {"password", "compensate"}
              /\ req[c].kind = "create" /\ req[c].id = i /\ req[c].tenant = row[i].tenant
           \/ At(c, "answered") /\ (req[c].result = "ok" \/ req[c].stray)

IInv == TypeOK /\ PlaceInv /\ PermissionInv /\ KnownInv /\ MakerInv

=============================================================================
