---------------------------- MODULE Credentials ----------------------------
(***************************************************************************)
(* What a registry of bearer credentials promises to those who check one,  *)
(* whoever else issues, revokes or checks credentials at the same time:    *)
(* a credential is issued once and, when it has ended, never lives again;  *)
(* and a check that is answered says what was true when it began or what   *)
(* is true when it is answered. API keys and sessions both implement it.   *)
(***************************************************************************)

CONSTANTS
    Creds,      \* the secrets that callers present
    Checkers    \* those who check them

VARIABLES
    state,      \* the life of each credential
    check,      \* the check in progress: of what, if any, and whether that was live
    answer      \* the last answer each checker got

vars == <<state, check, answer>>

NoCheck == [of |-> {}, live |-> FALSE]

Init ==
    /\ state = [k \in Creds |-> "none"]
    /\ check = [c \in Checkers |-> NoCheck]
    /\ answer = [c \in Checkers |-> "none"]

\* A new credential; its lifetime may be over before the registry has it.
Issue(k) ==
    /\ state[k] = "none"
    /\ \E life \in {"live", "ended"} : state' = [state EXCEPT ![k] = life]
    /\ UNCHANGED <<check, answer>>

\* Some credentials are revoked or expire.
End ==
    /\ \E ks \in SUBSET {k \in Creds : state[k] = "live"} :
        state' = [k \in Creds |-> IF k \in ks THEN "ended" ELSE state[k]]
    /\ UNCHANGED <<check, answer>>

Ask(c, k) ==
    /\ check[c] = NoCheck
    /\ check' = [check EXCEPT ![c] = [of |-> {k}, live |-> state[k] = "live"]]
    /\ answer' = [answer EXCEPT ![c] = "none"]
    /\ UNCHANGED state

Reply(c) ==
    /\ \E k \in check[c].of : \E live \in {check[c].live, state[k] = "live"} :
        answer' = [answer EXCEPT ![c] = IF live THEN "yes" ELSE "no"]
    /\ check' = [check EXCEPT ![c] = NoCheck]
    /\ UNCHANGED state

\* A checker turns to something else.
Leave(c) ==
    /\ check[c] = NoCheck
    /\ answer' = [answer EXCEPT ![c] = "none"]
    /\ UNCHANGED <<state, check>>

Next ==
    \/ \E k \in Creds : Issue(k)
    \/ End
    \/ \E c \in Checkers : (\E k \in Creds : Ask(c, k)) \/ Reply(c) \/ Leave(c)

Spec == Init /\ [][Next]_vars

=============================================================================
