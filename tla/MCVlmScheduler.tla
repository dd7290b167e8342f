-------------------------- MODULE MCVlmScheduler --------------------------
(***************************************************************************)
(* Model-checking instances of VlmScheduler.                               *)
(***************************************************************************)
EXTENDS VlmScheduler, TLC

CONSTANTS r1, r2, r3, w1, w2

TwoRequests   == {r1, r2}
ThreeRequests == {r1, r2, r3}
OneWorker     == {w1}
TwoWorkers    == {w1, w2}
=============================================================================
