--------------------------- MODULE MCSessionPool ---------------------------
(***************************************************************************)
(* Small instances of SessionPool for TLC.                                 *)
(***************************************************************************)
EXTENDS SessionPool, TLC

CONSTANTS t1, t2, t3, s1, s2, s3, e1, e2

\* Threads and sessions are interchangeable.
Symmetric == Permutations(User) \cup Permutations(Sess)
=============================================================================
