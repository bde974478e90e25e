------------------------------ MODULE MCShmtx ------------------------------
(* Shmtx for TLC: the workers are model values.                             *)
EXTENDS Shmtx

CONSTANTS w1, w2, w3

ThreeWorkers == {w1, w2, w3}
=============================================================================
