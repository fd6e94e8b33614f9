---------------------------- MODULE Notification ----------------------------
(***************************************************************************)
(* Notifications, src/pkg/notification, composed with the audit trail.     *)
(* Create of service.go gives the notification an id if it has none, hands *)
(* it to the channels one after the other, the in-app channel, which       *)
(* inserts the row, first of all, stops at the first error and otherwise   *)
(* emits notification.dispatched. Recipients mark their rows read.         *)
(***************************************************************************)
EXTENDS Naturals, FiniteSets

CONSTANTS
    Tenants,
    Users,          \* recipients, each of some tenant
    Ids,            \* ids of notifications
    Channels,       \* the caller's channels, after the in-app channel 0: 1 .. n
    Dispatches,     \* calls of Create
    Readers, Limits, Sinces, Untils, DefaultLimit, MaxLimit,
    Faulty,         \* whether statements and channels may fail or not be heard of
    MaxTime, MaxEvents,
    NoDraft, NoWalk, NoRow, NoUser, NoId

VARIABLES
    clock, log, draft, walk,    \* of the audit trail
    row,        \* the notifications table
    reached,    \* the caller's channels: what each has delivered
    call        \* each call of Create, see Idle

Audit == INSTANCE AuditLog WITH Writers <- Dispatches

vars == <<clock, log, draft, walk, row, reached, call>>

Rows == [by : Dispatches, user : Users, read : BOOLEAN]

ASSUME ConstantsOK ==
    /\ IsFiniteSet(Ids)
    /\ IsFiniteSet(Channels) /\ Channels = 1 .. Cardinality(Channels)
    /\ {DefaultLimit, MaxLimit} \subseteq Nat \ {0}
    /\ Limits \union Sinces \union Untils \subseteq Nat
    /\ Faulty \in BOOLEAN
    /\ MaxTime \in Nat \ {0}
    /\ NoRow \notin Rows /\ NoUser \notin Users /\ NoId \notin Ids

Places == {"idle", "deliver", "emit", "append", "answered"}

Idle == [pc |-> "idle", user |-> NoUser, id |-> NoId, next |-> 0, result |-> "none"]

At(d, place) == call[d].pc = place
Last == Cardinality(Channels)

\* After a channel the next one, and after the last the event.
Delivered(d) ==
    IF call[d].next < Last
    THEN [call EXCEPT ![d].next = @ + 1]
    ELSE [call EXCEPT ![d].pc = "emit"]

\* The table with the row of a call.
Inserted(d) ==
    [row EXCEPT ![call[d].id] = [by |-> d, user |-> call[d].user, read |-> FALSE]]

Answer(d, what) == call' = [call EXCEPT ![d].pc = "answered", ![d].result = what]

-----------------------------------------------------------------------------
(* Faults: what single steps would be with a plausible bug in the code.     *)
(* Nothing below uses them.                                                 *)

\* A duplicate that counts as delivered.
DeliverInAppOnce(d) ==
    /\ At(d, "deliver") /\ call[d].next = 0
    /\ row' = IF row[call[d].id] = NoRow THEN Inserted(d) ELSE row
    /\ call' = Delivered(d)
    /\ UNCHANGED <<clock, log, draft, walk, reached>>

\* The fan-out counts on past the last channel.
DeliverPastTheLast(d) ==
    /\ At(d, "deliver") /\ call[d].next \in Channels
    /\ reached' = [reached EXCEPT ![call[d].next] = @ \union {d}]
    /\ call' = [call EXCEPT ![d].next = @ + 1]
    /\ UNCHANGED <<clock, log, draft, walk, row>>

\* A channel whose error is logged and forgotten.
DeliverFailsOn(d) ==
    /\ Faulty /\ At(d, "deliver") /\ call[d].next \in Channels
    /\ call' = Delivered(d)
    /\ UNCHANGED <<clock, log, draft, walk, row, reached>>

-----------------------------------------------------------------------------

\* In process for any user, over HTTP for oneself. The caller may give the id; one that
\* is made of the time and the first letters of tenant and user may not be new either.
Create(d, u, i) ==
    /\ At(d, "idle")
    /\ call' = [call EXCEPT ![d] = [Idle EXCEPT !.pc = "deliver", !.user = u, !.id = i]]
    /\ UNCHANGED <<clock, log, draft, walk, row, reached>>

\* The in-app channel: INSERT INTO notifications. Of two notifications with one id
\* the second is an error.
DeliverInApp(d) ==
    /\ At(d, "deliver") /\ call[d].next = 0
    /\ IF row[call[d].id] = NoRow
       THEN row' = Inserted(d) /\ call' = Delivered(d)
       ELSE Answer(d, "error") /\ UNCHANGED row
    /\ UNCHANGED <<clock, log, draft, walk, reached>>

DeliverInAppFails(d) ==
    /\ Faulty /\ At(d, "deliver") /\ call[d].next = 0
    /\ row' = row \/ (row[call[d].id] = NoRow /\ row' = Inserted(d))
    /\ Answer(d, "error")
    /\ UNCHANGED <<clock, log, draft, walk, reached>>

\* A channel of the caller, say mail.
Deliver(d) ==
    /\ At(d, "deliver") /\ call[d].next \in Channels
    /\ reached' = [reached EXCEPT ![call[d].next] = @ \union {d}]
    /\ call' = Delivered(d)
    /\ UNCHANGED <<clock, log, draft, walk, row>>

\* First error wins: nothing more is delivered and no event is emitted.
DeliverFails(d) ==
    /\ Faulty /\ At(d, "deliver") /\ call[d].next \in Channels
    /\ reached' \in {reached, [reached EXCEPT ![call[d].next] = @ \union {d}]}
    /\ Answer(d, "error")
    /\ UNCHANGED <<clock, log, draft, walk, row>>

\* The event carries the tenant that the emitter of the service is bound to, whoever
\* the recipient is.
Emit(d) ==
    /\ At(d, "emit")
    /\ \E t \in Tenants : Audit!Stamp(d, t)
    /\ call' = [call EXCEPT ![d].pc = "append"]
    /\ UNCHANGED <<row, reached>>

\* Whatever becomes of the event, the call has succeeded.
EmitDone(d) ==
    /\ At(d, "append")
    /\ Audit!Append(d) \/ Audit!AppendFails(d)
    /\ Answer(d, "ok")
    /\ UNCHANGED <<row, reached>>

\* GetByUser: the rows of the recipient, by emitted_at, a page at a time. The caller of
\* Create may give that time too, so the rows may stand in any order.
Inbox(u) == {i \in Ids : row[i] # NoRow /\ row[i].user = u}
InboxOrders(u) == Audit!Orders(Inbox(u), [i \in Inbox(u) |-> 0])

\* UPDATE ... WHERE id = ? AND tenant_id = ? AND user_id = ?, which fails or not
MarkRead(i) ==
    /\ row[i] # NoRow
    /\ row' = [row EXCEPT ![i].read = TRUE]
    /\ UNCHANGED <<clock, log, draft, walk, reached, call>>

\* Readers walk the trail; time goes by.
Elsewhere ==
    /\ Audit!Tick \/ Audit!Reading
    /\ UNCHANGED <<row, reached, call>>

Init ==
    /\ Audit!Init
    /\ row = [i \in Ids |-> NoRow]
    /\ reached = [c \in Channels |-> {}]
    /\ call = [d \in Dispatches |-> Idle]

Dispatch(d) ==
    \/ \E u \in Users, i \in Ids : Create(d, u, i)
    \/ DeliverInApp(d) \/ DeliverInAppFails(d)
    \/ Deliver(d) \/ DeliverFails(d)
    \/ Emit(d) \/ EmitDone(d)

Next ==
    \/ \E d \in Dispatches : Dispatch(d)
    \/ \E i \in Ids : MarkRead(i)
    \/ Elsewhere

Spec == Init /\ [][Next]_vars

-----------------------------------------------------------------------------
(* Properties *)

TypeOK ==
    /\ Audit!TypeOK
    /\ row \in [Ids -> Rows \union {NoRow}]
    /\ reached \in [Channels -> SUBSET Dispatches]
    /\ call \in [Dispatches ->
        [ pc : Places, user : Users \union {NoUser}, id : Ids \union {NoId},
          next : 0 .. Last, result : {"none", "ok", "error"} ]]

\* "The in-app channel always runs first" (module.go:75): whatever another channel
\* has delivered is stored as a row of its own, so the recipient finds in the list
\* all that came by mail, also when ids collide and channels fail. And Create returns
\* nil, and the trail is told, only of what every channel has delivered.
Stored(d) ==
    /\ \A pos \in InboxOrders(call[d].user) : \E offset \in 0 .. Cardinality(Ids) :
           call[d].id \in Audit!Page(pos, 0, offset)
    /\ row[call[d].id].by = d

DispatchIsTruthful ==
    /\ \A c \in Channels : \A d \in reached[c] : Stored(d)
    /\ \A d \in Dispatches :
           At(d, "emit") \/ At(d, "append") \/ call[d].result = "ok" =>
               Stored(d) /\ \A c \in Channels : d \in reached[c]

\* See AuditLog: a reader who walks the trail misses no event, but of several that
\* share an instant.
WalkIsComplete == Audit!WalkIsComplete

-----------------------------------------------------------------------------
(* The inductive invariant behind them, with that of the trail.             *)

CallInv ==
    \A d \in Dispatches :
        /\ At(d, "idle") => \A c \in Channels : d \notin reached[c]
        /\ ~At(d, "idle") => call[d].user \in Users /\ call[d].id \in Ids
        /\ ~At(d, "answered") => call[d].result = "none"

\* The row of a call, which nobody else writes over and nothing removes.
Stores(d) ==
    /\ call[d].id \in Ids /\ row[call[d].id] # NoRow
    /\ row[call[d].id].by = d /\ row[call[d].id].user = call[d].user

ChannelInv ==
    \A d \in Dispatches :
        /\ \A c \in Channels : d \in reached[c] => Stores(d)
        /\ At(d, "deliver") =>
            /\ call[d].next > 0 => Stores(d)
            /\ \A c \in Channels : c < call[d].next => d \in reached[c]
        /\ At(d, "emit") \/ At(d, "append") \/ call[d].result = "ok" =>
            Stores(d) /\ \A c \in Channels : d \in reached[c]

IInv ==
    /\ TypeOK /\ clock \in 1 .. MaxTime
    /\ Audit!LogInv /\ Audit!WalkInv
    /\ CallInv /\ ChannelInv

=============================================================================
