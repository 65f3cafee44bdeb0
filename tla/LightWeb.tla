------------------------------ MODULE LightWeb ------------------------------
(* WsjcppLightWebServer: one thread accepts connections and pushes them on *)
(* a deque, workers take them from it, read the request and answer.        *)
(*                                                                         *)
(* m_mtxDequeRequests makes a push and a pop one step.  The size is also   *)
(* read without it, and m_mtxWaiterRequests is used as a signal: a worker  *)
(* that saw no request locks it and never unlocks it, the accepting thread *)
(* unlocks it after a push that left one request.  It need not be locked   *)
(* then, nor be locked by that thread; glibc's mutex just becomes free.    *)
(* The server never calls stop.                                            *)
EXTENDS Naturals, Sequences, FiniteSets, SequencesExt

CONSTANTS
  WebWorkers,        \* m_vWorkers
  MaxConnections     \* bound: connections ever accepted

ASSUME WebAssumption == MaxConnections \in Nat

VARIABLES
  accepted,          \* connections are numbered as they are accepted
  accept_pc,         \* startSync: "accept", "pushed", "wake"
  requests,          \* m_dequeRequests, from its back to its front
  waiter_locked,     \* m_mtxWaiterRequests
  worker_pc,         \* run and popRequest: "ask", "wait", "pop", "serve"
  serving,           \* pInfo of each worker, 0: nullptr
  answered

acceptVars == <<accepted, accept_pc>>
workerVars == <<worker_pc, serving, answered>>
webVars == <<acceptVars, requests, waiter_locked, workerVars>>

Connections == 1..MaxConnections

WebInit ==
  /\ accepted = 0 /\ accept_pc = "accept" /\ requests = <<>> /\ waiter_locked = FALSE
  /\ worker_pc = [w \in WebWorkers |-> "ask"] /\ serving = [w \in WebWorkers |-> 0] /\ answered = {}
-----------------------------------------------------------------------------
(* startSync and pushRequest.                                              *)
PushRequest ==
  /\ accept_pc = "accept" /\ accepted < MaxConnections
  /\ accepted' = accepted + 1 /\ requests' = Append(requests, accepted + 1) /\ accept_pc' = "pushed"
  /\ UNCHANGED <<waiter_locked, workerVars>>

WakesAtTwo(size) == size = 2

Wakes(size) == size = 1

AfterPush ==
  /\ accept_pc = "pushed"
  /\ accept_pc' = IF Wakes(Len(requests)) THEN "wake" ELSE "accept"
  /\ UNCHANGED <<accepted, requests, waiter_locked, workerVars>>

UnlockWaiter ==
  /\ accept_pc = "wake" /\ accept_pc' = "accept" /\ waiter_locked' = FALSE
  /\ UNCHANGED <<accepted, requests, workerVars>>
-----------------------------------------------------------------------------
(* popRequest and the rest of the worker's loop.                           *)
WorkerGoes(w, from, to) == worker_pc[w] = from /\ worker_pc' = [worker_pc EXCEPT ![w] = to]

AskSize(w) ==
  /\ WorkerGoes(w, "ask", IF requests = <<>> THEN "wait" ELSE "pop")
  /\ UNCHANGED <<acceptVars, requests, waiter_locked, serving, answered>>

LockWaiter(w) ==
  /\ ~waiter_locked /\ waiter_locked' = TRUE /\ WorkerGoes(w, "wait", "pop")
  /\ UNCHANGED <<acceptVars, requests, serving, answered>>

PopRequest(w) ==
  /\ requests # <<>> /\ WorkerGoes(w, "pop", "serve")
  /\ serving' = [serving EXCEPT ![w] = Head(requests)] /\ requests' = Tail(requests)
  /\ UNCHANGED <<acceptVars, waiter_locked, answered>>

AfterNullEnds == "end"

AfterNull == "ask"

PopNothing(w) ==
  /\ requests = <<>> /\ WorkerGoes(w, "pop", AfterNull)
  /\ UNCHANGED <<acceptVars, requests, waiter_locked, serving, answered>>

Serve(w) ==
  /\ WorkerGoes(w, "serve", "ask")
  /\ answered' = answered \cup {serving[w]} /\ serving' = [serving EXCEPT ![w] = 0]
  /\ UNCHANGED <<acceptVars, requests, waiter_locked>>
-----------------------------------------------------------------------------
AcceptStep == AfterPush \/ UnlockWaiter
WorkerStep(w) == AskSize(w) \/ LockWaiter(w) \/ PopRequest(w) \/ PopNothing(w) \/ Serve(w)

WebNext == PushRequest \/ AcceptStep \/ \E w \in WebWorkers : WorkerStep(w)

WebSpec == WebInit /\ [][WebNext]_webVars

(* The threads run, and a client sends all of its request or nothing for a *)
(* second, when recv gives up.  No connection need come.                   *)
WebFairness == WF_webVars(AcceptStep) /\ \A w \in WebWorkers : WF_webVars(WorkerStep(w))
-----------------------------------------------------------------------------
WebTypeOK ==
  /\ accepted \in 0..MaxConnections /\ accept_pc \in {"accept", "pushed", "wake"}
  /\ requests \in Seq(Connections) /\ waiter_locked \in BOOLEAN
  /\ worker_pc \in [WebWorkers -> {"ask", "wait", "pop", "serve"}]
  /\ serving \in [WebWorkers -> Connections \cup {0}] /\ answered \subseteq Connections

Serving == {serving[w] : w \in WebWorkers} \ {0}

(* Connections are taken in the order they came, each is in one place, and *)
(* none is answered twice.                                                 *)
WebInOrder == \A k \in 1..Len(requests) : requests[k] = accepted - Len(requests) + k
WebOnePlace ==
  /\ 1..(accepted - Len(requests)) = Serving \cup answered /\ Serving \cap answered = {}
  /\ \A v, w \in WebWorkers : serving[v] = serving[w] /\ serving[v] # 0 => v = w

(* With requests in the deque and the accepting thread back at accept, not *)
(* every worker waits for a signal that is not to come.                    *)
WebNotStuck ==
  accept_pc = "accept" /\ requests # <<>> => ~waiter_locked \/ \E w \in WebWorkers : worker_pc[w] # "wait"

(* The deque and its signal lose no connection (pushRequest, popRequest).  *)
WebKept == WebInOrder /\ WebOnePlace /\ WebNotStuck

(* Every connection that is accepted is answered, whatever the order in    *)
(* which size, mutex and deque are looked at.                              *)
WebAnswered == \A c \in Connections : c <= accepted ~> c \in answered

(* In the words of JobQueue: what waits is in the deque, what is begun is  *)
(* with a worker, and nothing is lost.                                     *)
WebQueue == INSTANCE JobQueue WITH
  Jobs <- Connections, waiting <- requests, running <- Serving, finished <- answered, lost <- {}

(* The server is a queue that begins connections in the order they came,   *)
(* each once, and abandons none.                                           *)
WebRefines == WebQueue!JobSpec
=============================================================================
