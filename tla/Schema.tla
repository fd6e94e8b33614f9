------------------------------- MODULE Schema -------------------------------
(***************************************************************************)
(* What the migration runner promises about the schema, whoever else runs  *)
(* migrations, fails or dies at the same time: each call applies what its  *)
(* build ships one by one and in order, each in one step with its record,  *)
(* nothing is applied twice or taken back, and a call that succeeds leaves *)
(* all of it behind. While calls exclude each other, that goes for the     *)
(* texts of migrations too, and no build changes a schema that it does not *)
(* ship; otherwise for their names only.                                   *)
(***************************************************************************)
EXTENDS Naturals

CONSTANTS
    Callers,
    ModuleOf,   \* the module whose schema each caller migrates
    Row,        \* migrations by module, name and text
    Releases,   \* the sequences of migrations that a build may ship,
    Accepted,   \* and those of them that Run accepts
    Exclusive   \* whether calls exclude each other

VARIABLES
    times,      \* how many times each migration has been applied
    ships,      \* what the build of each caller ships
    state       \* the progress of each call

vars == <<times, ships, state>>

Applied == {x \in Row : times[x] > 0}

Of(c, m) == [module |-> ModuleOf[c], name |-> m.name, sum |-> m.sum]
Build(c) == {Of(c, ships[c][i]) : i \in DOMAIN ships[c]}

\* The schema of a caller's module, and the names of migrations that have made it.
Made(c) == {x \in Applied : x.module = ModuleOf[c]}
Has(c, name) == \E x \in Made(c) : x.name = name

Init ==
    /\ times = [x \in Row |-> 0]
    /\ ships = [c \in Callers |-> <<>>]
    /\ state = [c \in Callers |-> "out"]

Begin(c) ==
    /\ state[c] # "running"
    /\ \E ms \in Releases :
        /\ ships' = [ships EXCEPT ![c] = ms]
        /\ state' = [state EXCEPT ![c] = IF ms \in Accepted THEN "running" ELSE "failed"]
    /\ UNCHANGED times

\* The next migration of a call, which nobody has applied under any text.
Apply(c) ==
    /\ state[c] = "running"
    /\ \E i \in DOMAIN ships[c] :
        /\ ~Has(c, ships[c][i].name)
        /\ \A j \in DOMAIN ships[c] : j < i => Has(c, ships[c][j].name)
        /\ times' = [times EXCEPT ![Of(c, ships[c][i])] = 1]
    /\ Exclusive => Made(c) \subseteq Build(c)
    /\ UNCHANGED <<ships, state>>

Succeed(c) ==
    /\ state[c] = "running"
    /\ \A i \in DOMAIN ships[c] : Has(c, ships[c][i].name)
    /\ Exclusive => Build(c) \subseteq Applied
    /\ state' = [state EXCEPT ![c] = "ok"]
    /\ UNCHANGED <<times, ships>>

Fail(c) ==
    /\ state[c] = "running"
    /\ state' = [state EXCEPT ![c] = "failed"]
    /\ UNCHANGED <<times, ships>>

\* Some callers are gone, with whatever they were at.
Leave ==
    /\ \E cs \in SUBSET Callers :
        state' = [c \in Callers |-> IF c \in cs THEN "out" ELSE state[c]]
    /\ UNCHANGED <<times, ships>>

Next ==
    \/ \E c \in Callers : Begin(c) \/ Apply(c) \/ Succeed(c) \/ Fail(c)
    \/ Leave

Spec == Init /\ [][Next]_vars

=============================================================================
