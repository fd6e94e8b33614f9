------------------------------- MODULE Content -------------------------------
(***************************************************************************)
(* Content, src/pkg/content: create, update, delete, publish and unpublish *)
(* of handler.go and service.go over the content table. All but create     *)
(* read the row, then write with a statement of its own, and at last tell  *)
(* the audit trail, which may lose the event. The id of a row is made of   *)
(* its creation time, which the body may give, and of the first letters of *)
(* tenant and slug, so the same id may come again.                         *)
(***************************************************************************)
EXTENDS Naturals, FiniteSets

CONSTANTS
    Tenants, Subjects,
    Paths,      \* kind and slug of a row
    Ids,        \* primary keys, for all tenants
    IdsOf,      \* of <<tenant, path>>: what generateID makes of it, at any time
    Requests,   \* places for requests in flight
    Faulty,     \* whether statements may fail or their answers be lost
    MaxCalls,   \* bound: requests in all
    NoRow, NoTenant, NoSubject, NoPath, NoId

Rows == [tenant : Tenants, path : Paths, author : Subjects, published : BOOLEAN]

ASSUME ConstantsOK ==
    /\ IsFiniteSet(Requests)
    /\ IdsOf \in [Tenants \X Paths -> SUBSET Ids]
    /\ Faulty \in BOOLEAN
    /\ MaxCalls \in Nat
    /\ NoRow \notin Rows
    /\ NoTenant \notin Tenants /\ NoSubject \notin Subjects
    /\ NoPath \notin Paths /\ NoId \notin Ids

VARIABLES
    row,    \* the content table
    born,   \* history: how many rows have had each id,
    maker,  \* who created the last of them,
    mixed,  \* and whether an update that had read an earlier one has written it
    trail,  \* the content.deleted events of each id
    req,    \* the request in each place, see Idle
    calls   \* the requests so far

history == <<born, maker, mixed>>
vars == <<row, history, trail, req, calls>>

-----------------------------------------------------------------------------

Places == {"idle", "insert", "read", "write", "emit", "answered"}
Kinds == {"none", "create", "update", "delete", "publish", "unpublish"}

Idle ==
    [ pc |-> "idle",
      kind |-> "none",
      tenant |-> NoTenant,      \* of the principal; the body's is overwritten
      id |-> NoId,
      path |-> NoPath,          \* of the body
      published |-> FALSE,      \* of a creation the body's; else as read
      author |-> NoSubject,     \* of a creation the principal; else as read
      life |-> 0 ]              \* history: which of the rows with the id was read

At(c, place) == req[c].pc = place
Present == {i \in Ids : row[i] # NoRow}
Ended(i) == IF i \in Present THEN born[i] - 1 ELSE born[i]

\* WHERE id = ? AND tenant_id = ?
Mine(c) == req[c].id \in Present /\ row[req[c].id].tenant = req[c].tenant

\* UNIQUE (tenant_id, kind, slug)
Taken(c) ==
    \E i \in Present \ {req[c].id} :
        row[i].tenant = req[c].tenant /\ row[i].path = req[c].path

Proceed(c, place) == req' = [req EXCEPT ![c].pc = place]
Answer(c) == req' = [req EXCEPT ![c] = [Idle EXCEPT !.pc = "answered"]]

NewRow(c) ==
    [ tenant |-> req[c].tenant, path |-> req[c].path, author |-> req[c].author,
      published |-> req[c].published ]

\* A fault, see below: one UPDATE of all columns of the row the service hands over.
UpdatedWhole(c) ==
    [row[req[c].id] EXCEPT !.path = req[c].path, !.author = req[c].author,
                           !.published = req[c].published]

\* UPDATE content SET kind, slug, title, body, body_format, author_id, updated_at
Updated(c) ==
    [row[req[c].id] EXCEPT !.path = req[c].path, !.author = req[c].author]

\* The statement of each kind of request. An update does not write published_at,
\* although it is in the row that the store is given.
Statement(c) ==
    CASE req[c].kind = "update" -> Updated(c)
      [] req[c].kind = "delete" -> NoRow
      [] req[c].kind = "publish" -> [row[req[c].id] EXCEPT !.published = TRUE]
      [] req[c].kind = "unpublish" -> [row[req[c].id] EXCEPT !.published = FALSE]

Store(c) ==
    /\ row' = [row EXCEPT ![req[c].id] = Statement(c)]
    /\ mixed' = [mixed EXCEPT ![req[c].id] =
            @ \/ (req[c].kind = "update" /\ req[c].life # born[req[c].id])]

Applies(c) == Mine(c) /\ (req[c].kind = "update" => ~Taken(c))

-----------------------------------------------------------------------------
(* Faults: what single steps would be with a plausible bug in the code.     *)
(* Nothing below uses them.                                                 *)

\* An update that does not take over the author it has read.
ReadWithoutAuthor(c) ==
    /\ At(c, "read")
    /\ IF Mine(c)
       THEN req' = [req EXCEPT ![c].pc = "write", ![c].life = born[req[c].id]]
       ELSE Answer(c)
    /\ UNCHANGED <<row, history, trail, calls>>

\* A statement whose RowsAffected nobody looks at.
WriteUnchecked(c) ==
    /\ At(c, "write")
    /\ IF Applies(c) THEN Store(c) ELSE UNCHANGED <<row, mixed>>
    /\ Proceed(c, "emit")
    /\ UNCHANGED <<born, maker, trail, calls>>

-----------------------------------------------------------------------------
(* Requests *)

Start(r) ==
    /\ calls < MaxCalls /\ calls' = calls + 1
    /\ \E c \in Requests :
        /\ req[c].pc \in {"idle", "answered"}
        /\ req' = [req EXCEPT ![c] = r]
    /\ UNCHANGED <<row, history, trail>>

\* POST: tenant and author are the principal's and the id is generated, but from a
\* creation time the body may give; the body may also give a publication time.
Create(t, a, p, i, pub) ==
    Start([Idle EXCEPT !.pc = "insert", !.kind = "create", !.tenant = t, !.author = a,
                       !.path = p, !.id = i, !.published = pub])

Update(t, i, p) ==
    Start([Idle EXCEPT !.pc = "read", !.kind = "update", !.tenant = t, !.id = i,
                       !.path = p])

Change(t, i, k) ==
    Start([Idle EXCEPT !.pc = "read", !.kind = k, !.tenant = t, !.id = i])

StoreNew(c) ==
    /\ row' = [row EXCEPT ![req[c].id] = NewRow(c)]
    /\ born' = [born EXCEPT ![req[c].id] = @ + 1]
    /\ maker' = [maker EXCEPT ![req[c].id] = req[c].author]
    /\ mixed' = [mixed EXCEPT ![req[c].id] = FALSE]

Refused(c) == req[c].id \in Present \/ Taken(c)

Insert(c) ==
    /\ At(c, "insert")
    /\ IF Refused(c)
       THEN Answer(c) /\ UNCHANGED <<row, history>>
       ELSE StoreNew(c) /\ Proceed(c, "emit")
    /\ UNCHANGED <<trail, calls>>

InsertFails(c) ==
    /\ Faulty /\ At(c, "insert")
    /\ UNCHANGED <<row, history>> \/ (~Refused(c) /\ StoreNew(c))
    /\ Answer(c)
    /\ UNCHANGED <<trail, calls>>

\* store.Get. The service takes author, publication and creation time from here.
Read(c) ==
    /\ At(c, "read")
    /\ IF Mine(c)
       THEN req' = [req EXCEPT ![c].pc = "write", ![c].life = born[req[c].id],
                        ![c].author = row[req[c].id].author,
                        ![c].published = row[req[c].id].published]
       ELSE Answer(c)
    /\ UNCHANGED <<row, history, trail, calls>>

ReadFails(c) ==
    /\ Faulty /\ At(c, "read")
    /\ Answer(c)
    /\ UNCHANGED <<row, history, trail, calls>>

\* The statement changes a row, or it matches none or breaks the unique index.
Write(c) ==
    /\ At(c, "write")
    /\ IF Applies(c)
       THEN Store(c) /\ Proceed(c, "emit")
       ELSE Answer(c) /\ UNCHANGED <<row, mixed>>
    /\ UNCHANGED <<born, maker, trail, calls>>

WriteFails(c) ==
    /\ Faulty /\ At(c, "write")
    /\ UNCHANGED <<row, mixed>> \/ (Applies(c) /\ Store(c))
    /\ Answer(c)
    /\ UNCHANGED <<born, maker, trail, calls>>

\* The event, of which a failure is ignored. Only deletions are told apart.
Emit(c) ==
    /\ At(c, "emit")
    /\ \/ trail' = [trail EXCEPT ![req[c].id] =
                        IF req[c].kind = "delete" THEN @ + 1 ELSE @]
       \/ Faulty /\ req[c].kind = "delete" /\ UNCHANGED trail
    /\ Answer(c)
    /\ UNCHANGED <<row, history, calls>>

-----------------------------------------------------------------------------

\* One row from earlier, or none.
Init ==
    /\ \E r \in Rows \union {NoRow} :
       \E i \in Ids :
        /\ r # NoRow => i \in IdsOf[r.tenant, r.path]
        /\ row = [j \in Ids |-> IF j = i THEN r ELSE NoRow]
        /\ born = [j \in Ids |-> IF j = i /\ r # NoRow THEN 1 ELSE 0]
        /\ maker = [j \in Ids |-> IF j = i /\ r # NoRow THEN r.author ELSE NoSubject]
        /\ mixed = [j \in Ids |-> FALSE]
    /\ trail = [i \in Ids |-> 0]
    /\ req = [c \in Requests |-> Idle]
    /\ calls = 0

Arrive ==
    \E t \in Tenants :
        \/ \E a \in Subjects, p \in Paths, pub \in BOOLEAN : \E i \in IdsOf[t, p] :
            Create(t, a, p, i, pub)
        \/ \E i \in Ids : \/ \E p \in Paths : Update(t, i, p)
                         \/ \E k \in {"delete", "publish", "unpublish"} : Change(t, i, k)

Next ==
    \/ Arrive
    \/ \E c \in Requests :
        \/ Insert(c) \/ InsertFails(c) \/ Read(c) \/ ReadFails(c)
        \/ Write(c) \/ WriteFails(c) \/ Emit(c)

Spec == Init /\ [][Next]_vars

-----------------------------------------------------------------------------
(* Properties *)

TypeOK ==
    /\ row \in [Ids -> Rows \union {NoRow}]
    /\ born \in [Ids -> Nat]
    /\ maker \in [Ids -> Subjects \union {NoSubject}]
    /\ mixed \in [Ids -> BOOLEAN]
    /\ trail \in [Ids -> Nat]
    /\ req \in [Requests ->
        [ pc : Places, kind : Kinds, tenant : Tenants \union {NoTenant},
          id : Ids \union {NoId}, path : Paths \union {NoPath},
          published : BOOLEAN, author : Subjects \union {NoSubject}, life : Nat ]]
    /\ calls \in Nat

Stepping(c) == req'[c] # req[c] /\ req[c].pc # "answered"
SameLife(i) == i \in Present /\ row'[i] # NoRow /\ born'[i] = born[i]

\* "Server-owned authorship ... [is] preserved" (service.go:88): a row keeps the
\* author who created it, although every update writes the author it has read some
\* time before. Only an update that has read the row of a former life, deleted and
\* created again under the same id since, may bring the former author back.
AuthorIsCreator ==
    \A i \in Present : ~mixed[i] => row[i].author = maker[i]

\* "Server-owned ... publication state [is] preserved" (service.go:88): once a row
\* is there, only a publish request publishes it and only an unpublish takes it back,
\* whatever an update that runs meanwhile has read.
PublicationIsKept ==
    [][\A i \in Ids : SameLife(i) /\ row'[i].published # row[i].published =>
        \E c \in Requests :
            /\ Stepping(c) /\ req[c].id = i /\ req[c].tenant = row[i].tenant
            /\ req[c].kind = IF row'[i].published THEN "publish" ELSE "unpublish"]_vars

\* Of all the requests that delete a row at once, also after they have all read it,
\* one tells the audit trail: no id has more content.deleted events than rows that
\* have gone.
DeletedOnce ==
    \A i \in Ids : trail[i] <= Ended(i)

-----------------------------------------------------------------------------
(* The inductive invariant behind the properties: what each request knows   *)
(* of its row at each place, and the events that are still to be told.      *)

PlaceInv ==
    \A c \in Requests :
        /\ At(c, "insert") =>
            /\ req[c].kind = "create" /\ req[c].tenant \in Tenants
            /\ req[c].author \in Subjects /\ req[c].path \in Paths
        /\ req[c].pc \in {"read", "write"} =>
            /\ req[c].kind \in {"update", "delete", "publish", "unpublish"}
            /\ req[c].kind = "update" => req[c].path \in Paths
        /\ req[c].pc \in {"insert", "read", "write", "emit"} => req[c].id \in Ids

\* An author that was read is the creator's, unless the row it was read from has
\* gone or holds a former author.
ReadInv ==
    \A c \in Requests : At(c, "write") =>
        /\ req[c].author \in Subjects
        /\ req[c].life <= born[req[c].id]
        /\ \/ req[c].life # born[req[c].id] \/ mixed[req[c].id]
           \/ req[c].author = maker[req[c].id]

BornInv == \A i \in Present : born[i] > 0

\* The requests that have deleted a row of i and are about to tell.
Telling(i) ==
    {c \in Requests : At(c, "emit") /\ req[c].kind = "delete" /\ req[c].id = i}

EventInv == \A i \in Ids : trail[i] + Cardinality(Telling(i)) <= Ended(i)

IInv ==
    /\ TypeOK /\ PlaceInv /\ ReadInv /\ BornInv
    /\ AuthorIsCreator /\ EventInv

=============================================================================
