---------------------------- MODULE MCKeywordRun ----------------------------
(* Small instances of KeywordRun for TLC. *)
EXTENDS KeywordRun, TLC

CONSTANTS w1, w2, p1, p2, k1

\* Where a worker dies without leaving a charge half recorded.
CallsAndSteps == {"start", "enter", "pick", "charge", "call", "record"}
Anywhere == PCs \ {"idle", "dead"}
=============================================================================
