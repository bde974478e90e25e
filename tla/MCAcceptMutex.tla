--------------------------- MODULE MCAcceptMutex ---------------------------
(* AcceptMutex for TLC: the workers and the sockets are model values.       *)
EXTENDS AcceptMutex

CONSTANTS w1, w2, s1, s2

TwoWorkers == {w1, w2}
TwoSockets == {s1, s2}
=============================================================================
