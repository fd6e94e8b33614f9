------------------------------ MODULE AuditLog ------------------------------
(***************************************************************************)
(* The audit trail, src/pkg/audit: Record of service.go stamps an event    *)
(* with the time and appends it, two steps, so that events may arrive in   *)
(* another order than their times; the list handler reads the trail in the *)
(* order of the times. A reader who wants all of it walks from page to     *)
(* page while others record.                                               *)
(***************************************************************************)
EXTENDS Naturals, FiniteSets

CONSTANTS
    Tenants,
    Writers,        \* emitters: each records one event at a time
    Readers,
    Limits,         \* what a reader may give as the limit; 0 is nothing
    Sinces, Untils, \* bounds on the times a reader may ask for; 0 is none
    DefaultLimit, MaxLimit,
    Faulty,         \* whether appending may fail or its answer be lost
    MaxTime,        \* bound on the clock
    MaxEvents,      \* bound on the events of the trail
    NoDraft, NoWalk

INSTANCE Paging

VARIABLES
    clock,
    log,    \* the events, numbered as they came
    draft,  \* of each emitter the event it has stamped and not yet appended
    walk    \* where each reader is, see Begin

vars == <<clock, log, draft, walk>>

Events == [n : Nat, tenant : Tenants, at : Nat]

Filters == [tenant : Tenants, since : Sinces, until : Untils]

\* The WHERE clause: from since on, and before until.
Matching(f) ==
    {e \in log : /\ e.tenant = f.tenant
                 /\ f.since <= e.at
                 /\ f.until = 0 \/ e.at < f.until}

\* ORDER BY emitted_at ASC, and nothing to tell events of one time apart.
ByTime(rows) == Orders(rows, [e \in rows |-> e.at])

-----------------------------------------------------------------------------
(* Faults: what the definition that follows would be with a plausible bug.  *)

\* The page is cut out of the whole trail and filtered then.
QueryThenFilter(f, limit, offset) ==
    {Page(pos, limit, offset) \intersect Matching(f) : pos \in ByTime(log)}

-----------------------------------------------------------------------------

\* The pages the query may return.
Query(f, limit, offset) == {Page(pos, limit, offset) : pos \in ByTime(Matching(f))}

Stamp(w, t) ==
    /\ draft[w] = NoDraft
    /\ draft' = [draft EXCEPT ![w] = [tenant |-> t, at |-> clock]]
    /\ UNCHANGED <<clock, log, walk>>

Appended(w) ==
    log \union {[n |-> Cardinality(log) + 1, tenant |-> draft[w].tenant, at |-> draft[w].at]}

Append(w) ==
    /\ draft[w] # NoDraft /\ Cardinality(log) < MaxEvents
    /\ log' = Appended(w)
    /\ draft' = [draft EXCEPT ![w] = NoDraft]
    /\ UNCHANGED <<clock, walk>>

\* The event is lost, or it is there and its emitter does not know.
AppendFails(w) ==
    /\ Faulty
    /\ draft[w] # NoDraft
    /\ log' = log \/ (Cardinality(log) < MaxEvents /\ log' = Appended(w))
    /\ draft' = [draft EXCEPT ![w] = NoDraft]
    /\ UNCHANGED <<clock, walk>>

\* A reader sets out; what it has to find is what is there now.
Begin(r, f, limit) ==
    /\ walk[r] = NoWalk
    /\ walk' = [walk EXCEPT ![r] =
            [filter |-> f, limit |-> limit, offset |-> 0, done |-> FALSE,
             due |-> Matching(f), seen |-> {}]]
    /\ UNCHANGED <<clock, log, draft>>

\* One request for a page; the next offset is the number of rows so far, and the
\* reader is through when a page is empty.
Turn(r) ==
    /\ walk[r] # NoWalk
    /\ ~walk[r].done
    /\ \E p \in Query(walk[r].filter, walk[r].limit, walk[r].offset) :
        walk' = [walk EXCEPT ![r].offset = @ + Cardinality(p),
                             ![r].seen = @ \union p,
                             ![r].done = p = {}]
    /\ UNCHANGED <<clock, log, draft>>

Tick ==
    /\ clock < MaxTime
    /\ clock' = clock + 1
    /\ UNCHANGED <<log, draft, walk>>

Init ==
    /\ clock = 1
    /\ log = {}
    /\ draft = [w \in Writers |-> NoDraft]
    /\ walk = [r \in Readers |-> NoWalk]

Reading ==
    \E r \in Readers :
        \/ Turn(r)
        \/ \E f \in Filters, l \in Limits : Begin(r, f, l)

TypeOK ==
    /\ clock \in Nat
    /\ log \subseteq Events
    /\ draft \in [Writers -> [tenant : Tenants, at : Nat] \union {NoDraft}]
    /\ walk \in [Readers ->
        [ filter : Filters, limit : Limits, offset : Nat, done : BOOLEAN,
          due : SUBSET log, seen : SUBSET log ] \union {NoWalk}]

\* A reader who walks to the end has seen every event that was there when it set
\* out, although events are recorded meanwhile and some of them, stamped earlier
\* than they are appended, move those that were there to later pages. Only where
\* several events share an instant, so that a page may end among them and the next
\* request sort them otherwise, may it miss one, and then it has seen another.
WalkIsComplete ==
    \A r \in Readers : walk[r] # NoWalk => (walk[r].done =>
        \A e \in walk[r].due \ walk[r].seen :
            \E f \in Matching(walk[r].filter) \intersect walk[r].seen : f.at = e.at)

-----------------------------------------------------------------------------
(* The inductive invariant behind it.                                       *)

LogInv == IsFiniteSet(log)

\* The matching events before an instant: they stand before all of that instant.
Below(f, t) == {e \in Matching(f) : e.at < t}

\* An instant of which the reader has to find something, and has seen nothing yet,
\* begins on a page still to come.
WalkInv ==
    \A r \in Readers : walk[r] # NoWalk =>
        /\ walk[r].due \union walk[r].seen \subseteq Matching(walk[r].filter)
        /\ \A e \in walk[r].due :
            \/ \E f \in walk[r].seen : f.at = e.at
            \/ /\ ~walk[r].done
               /\ Cardinality(Below(walk[r].filter, e.at)) >= walk[r].offset

=============================================================================
