----------------------------- MODULE MCMigrate -----------------------------
(***************************************************************************)
(* Small instances of Migrate: a caller in each of two processes, or two   *)
(* and one, two sessions per process, and the releases each run is about.  *)
(***************************************************************************)
EXTENDS Migrate, TLC

CONSTANTS p1, p2, r1, r2, r3, s1, s2, t1, t2

AcrossProcs == r1 :> p1 @@ r2 :> p2
TwoInOneProc == r1 :> p1 @@ r2 :> p1 @@ r3 :> p2

TwoPools == s1 :> p1 @@ s2 :> p1 @@ t1 :> p2 @@ t2 :> p2

SameModule == r1 :> "user" @@ r2 :> "user"
OneModule == SameModule @@ r3 :> "user"
OtherModule == r1 :> "user" @@ r2 :> "tenant"

M(n, s) == [name |-> n, sum |-> s]

\* Releases that append, the last of them malformed.
Appending == { <<M(1, 1)>>, <<M(1, 1), M(2, 2)>>, <<M(2, 2), M(1, 1)>> }

\* One build, to see who comes back and with how much of it.
Single == { <<M(1, 1), M(2, 2)>> }

\* Builds that disagree: the second drops a migration and edits another.
Diverging == { <<M(1, 1), M(2, 2)>>, <<M(2, 3)>> }

\* The same, and a build from before the first migration was released: that one is
\* late, its name sorts before one that is applied.
Overtaken == Diverging \union { <<M(2, 2)>> }

=============================================================================
