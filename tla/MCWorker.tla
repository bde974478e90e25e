------------------------------ MODULE MCWorker ------------------------------
(***************************************************************************)
(* For TLC: the thread pool of a worker and three components of its event   *)
(* loop that have no step in common, side by side.  A behaviour is one of   *)
(* the component named by part, the others stay in their initial states.    *)
(***************************************************************************)
EXTENDS ThreadPool, Timers, EventLoop, Limits

VARIABLE part      \* the component that moves

every == <<part, vars, tmVars, elVars, limVars>>

WorkerInit ==
  /\ part \in {"pool", "timers", "events", "limits"}
  /\ Init /\ TmInit /\ ElInit /\ LimInit

(* Component x takes a step of its own; the others do not.                  *)
Only(x) ==
  /\ part = x
  /\ UNCHANGED part
  /\ IF x = "pool" THEN TRUE ELSE UNCHANGED vars
  /\ IF x = "timers" THEN TRUE ELSE UNCHANGED tmVars
  /\ IF x = "events" THEN TRUE ELSE UNCHANGED elVars
  /\ IF x = "limits" THEN TRUE ELSE UNCHANGED limVars

(* Only the thread pool is to be looked at for a deadlock: the others stop  *)
(* where their bounds end.                                                  *)
AtRest == part # "pool" /\ UNCHANGED every

WorkerNext ==
  \/ Only("pool") /\ Next
  \/ Only("timers") /\ TmNext
  \/ Only("events") /\ ElNext
  \/ Only("limits") /\ LimNext
  \/ AtRest

(* The fairness of the thread pool; the other three need none.              *)
WorkerSpec ==
  /\ WorkerInit /\ [][WorkerNext]_every
  /\ \A t \in Threads : WF_every(Only("pool") /\ Thread(t))
  /\ WF_every(Only("pool") /\ Handler) /\ WF_every(Only("pool") /\ Destroy)

----------------------------------------------------------------------------
(* The instances: three tasks and two threads.                              *)
CONSTANTS k1, k2, k3, t1, t2

ThreeTasks == {k1, k2, k3}
TwoThreads == {t1, t2}

(* Requests with two rate limits, with the first of them only and two       *)
(* number limits, and with the second rate limit only.                      *)
CONSTANTS ka, kb

Ask(x, y, u, v) == [req |-> <<x, y>>, conn |-> <<u, v>>]
ThreeAsks ==
  {Ask(ka, ka, NoKey, NoKey), Ask(kb, NoKey, ka, ka), Ask(NoKey, ka, NoKey, NoKey)}
OneOverAndNone == <<2, 1>>
TwoRates == <<2, 1>>
OneAndTwo == <<1, 2>>
=============================================================================
