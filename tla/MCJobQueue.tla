----------------------------- MODULE MCJobQueue -----------------------------
(* Small instances of JobQueue for TLC.                                    *)
EXTENDS JobQueue, TLC

CONSTANTS p1, p2, w1, w2, t1, j1, j2

\* A worker in each of two processes, an inline thread in the first.
HostTwo == (w1 :> p1) @@ (w2 :> p2) @@ (t1 :> p1)
=============================================================================
