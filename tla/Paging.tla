------------------------------- MODULE Paging -------------------------------
(***************************************************************************)
(* The pages of the list endpoints: LIMIT and OFFSET over ORDER BY, with   *)
(* the default and the cap that every store applies to the limit.          *)
(***************************************************************************)
EXTENDS Naturals, FiniteSets

CONSTANTS
    DefaultLimit,   \* of a request that gives none, at least 1
    MaxLimit        \* to which a larger one is cut without a word

\* Zero stands for a limit that is missing; the handlers refuse "0".
Limited(limit) ==
    IF limit = 0 THEN DefaultLimit ELSE IF limit > MaxLimit THEN MaxLimit ELSE limit

\* ORDER BY a key: positions from 0 on that rise with it. Rows with one key may stand
\* either way, and the other way in the next query.
Orders(rows, key) ==
    {pos \in [rows -> 0 .. Cardinality(rows) - 1] :
        \A x, y \in rows : /\ x # y => pos[x] # pos[y]
                           /\ key[x] < key[y] => pos[x] < pos[y]}

Page(pos, limit, offset) ==
    {x \in DOMAIN pos : pos[x] \in offset .. offset + Limited(limit) - 1}

=============================================================================
