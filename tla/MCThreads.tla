----------------------------- MODULE MCThreads ------------------------------
(* The two pools of threads that take work from a deque, each with its     *)
(* fairness: the jobs pool and the light web server.  A behaviour is one   *)
(* of the pool chosen in its first state, the other stays in its own.      *)
EXTENDS JobsPool, LightWeb

VARIABLE pool

AllCalls == {"start", "stop", "cleanup", "wait"}
-----------------------------------------------------------------------------
ThreadsInit == pool \in {"jobs", "web"} /\ Init /\ WebInit

ThreadsNext ==
  \/ pool = "jobs" /\ Next /\ UNCHANGED <<pool, webVars>>
  \/ pool = "web" /\ WebNext /\ UNCHANGED <<pool, vars>>

ThreadsSpec == ThreadsInit /\ [][ThreadsNext]_<<pool, vars, webVars>>

(* The jobs pool has nothing to do in its first state; the workers of the  *)
(* web server have, so their fairness is that of the behaviours where they *)
(* run.                                                                    *)
ThreadsFair ==
  /\ ThreadsSpec /\ Fairness
  /\ WF_webVars(pool = "web" /\ AcceptStep)
  /\ \A w \in WebWorkers : WF_webVars(pool = "web" /\ WorkerStep(w))
=============================================================================
