------------------------------ MODULE JobsPool ------------------------------
(* core/jobs_pool: a deque under a mutex, worker threads that poll it, and *)
(* one thread that adds jobs, waits for them, stops the pool and may start *)
(* it again.  A worker's two flags are plain fields that its thread and    *)
(* the caller share; each read and write of one is a step of its own.      *)
(*                                                                         *)
(* Jobs are numbered in the order they are added; 0 is the null pointer.   *)
(* A job does not add jobs.                                                *)
EXTENDS Integers, Sequences, SequencesExt

CONSTANTS
  NWorkers,   \* g_nMaxJobFastWorker
  MaxJobs,    \* bound: jobs added
  MaxStarts,  \* bound: calls of JobsPool::start
  Calls       \* which of start, stop, cleanup, waitForDone the caller uses

ASSUME PoolAssumption ==
  /\ NWorkers \in Nat \ {0} /\ MaxJobs \in Nat /\ MaxStarts \in Nat
  /\ Calls \subseteq {"start", "stop", "cleanup", "wait"}

VARIABLES
  deque,      \* its back first: push_front appends, pop takes the head
  added,      \* how many jobs were ever added
  done, gone, \* jobs that ran; jobs deleted or dropped without running
  m_bStop, m_bBuzy,  \* the two fields of each JobsThreadWorker
  thread,     \* where each thread is in JobsThreadWorker::run
  hand,       \* the job each thread holds
  starts,     \* calls of start so far
  op, i, bBuzy  \* the caller: its call, its loop index, its local

caller == <<op, i, bBuzy>>
threads == <<thread, hand>>
flags == <<m_bStop, m_bBuzy>>
jobs == <<deque, added, done, gone>>
vars == <<jobs, flags, threads, starts, caller>>

Workers == 1..NWorkers
(* start() makes one thread for each worker, and may be called again while *)
(* the thread of the last call still runs: both then share the flags.      *)
Threads == Workers \X (1..MaxStarts)
Job == 1..MaxJobs

Where == {"none", "loop", "pop", "busy", "run", "again", "check", "sleep", "wake", "end"}

Init ==
  /\ deque = <<>> /\ added = 0 /\ done = {} /\ gone = {}
  /\ m_bStop = [w \in Workers |-> FALSE] /\ m_bBuzy = [w \in Workers |-> FALSE]
  /\ thread = [t \in Threads |-> "none"] /\ hand = [t \in Threads |-> 0]
  /\ starts = 0 /\ op = "free" /\ i = 0 /\ bBuzy = FALSE
-----------------------------------------------------------------------------
(* The caller.                                                             *)

PushNext(j) == <<j>> \o deque

Push(j) == Append(deque, j)

addJobFast ==
  /\ op = "free" /\ added < MaxJobs
  /\ added' = added + 1 /\ deque' = Push(added')
  /\ UNCHANGED <<done, gone, flags, threads, starts, caller>>

cleanup ==
  /\ op = "free" /\ "cleanup" \in Calls
  /\ gone' = gone \cup ToSet(deque) /\ deque' = <<>>
  /\ UNCHANGED <<added, done, flags, threads, starts, caller>>

(* The next worker of a loop, 0 when it has been through all.              *)
NextWorker == IF i < NWorkers THEN i + 1 ELSE 0

Call(c, from) ==
  /\ op = "free" /\ c \in Calls
  /\ op' = c /\ i' = from /\ bBuzy' = FALSE

(* The loop over the workers: step i of it, then the next or the return.   *)
Advance(c) ==
  /\ op = c /\ i \in Workers
  /\ i' = NextWorker /\ op' = IF i' = 0 THEN "free" ELSE c
  /\ UNCHANGED bBuzy

CallStart ==
  /\ starts < MaxStarts /\ Call("start", 1) /\ starts' = starts + 1
  /\ UNCHANGED <<jobs, flags, threads>>

StartWorker ==
  /\ Advance("start")
  /\ m_bStop' = [m_bStop EXCEPT ![i] = FALSE]
  /\ thread' = [thread EXCEPT ![<<i, starts>>] = "loop"]
  /\ UNCHANGED <<jobs, m_bBuzy, hand, starts>>

CallStop == Call("stop", 1) /\ UNCHANGED <<jobs, flags, threads, starts>>

StopWorker ==
  /\ Advance("stop")
  /\ m_bStop' = [m_bStop EXCEPT ![i] = TRUE]
  /\ UNCHANGED <<jobs, m_bBuzy, threads, starts>>

(* waitForDone: the deque, then each worker's flag, over and over until a  *)
(* round finds the one empty and the others false.                         *)
CallWait == Call("wait", 0) /\ UNCHANGED <<jobs, flags, threads, starts>>

WaitEmpty ==
  /\ op = "wait" /\ i = 0
  /\ bBuzy' = (deque # <<>>) /\ i' = 1
  /\ UNCHANGED <<jobs, flags, threads, starts, op>>

FoundLast == m_bBuzy[i]

Found == bBuzy \/ m_bBuzy[i]

WaitBuzy ==
  /\ op = "wait" /\ i \in Workers
  /\ bBuzy' = Found /\ i' = NextWorker
  /\ op' = IF i' = 0 /\ ~bBuzy' THEN "free" ELSE "wait"
  /\ UNCHANGED <<jobs, flags, threads, starts>>
-----------------------------------------------------------------------------
(* JobsThreadWorker::run on thread t of worker t[1].                       *)

Go(t, here, there) == thread[t] = here /\ thread' = [thread EXCEPT ![t] = there]

ClearBuzy(t) == m_bBuzy' = [m_bBuzy EXCEPT ![t[1]] = FALSE]

HaltedIfLatest(t) == m_bStop[t[1]] /\ t[2] = starts

Halted(t) == m_bStop[t[1]]

Loop(t) ==
  /\ ~Halted(t) /\ Go(t, "loop", "pop")
  /\ UNCHANGED <<jobs, flags, hand, starts, caller>>

(* A stop seen here or after the sleep leaves empty-handed; one seen after *)
(* the second pop drops the job that pop returned.                         *)
Stop(t) ==
  /\ Halted(t) /\ ClearBuzy(t)
  /\ \E l \in {"loop", "wake", "check"} : Go(t, l, "end")
  /\ hand' = [hand EXCEPT ![t] = 0]
  /\ gone' = gone \cup ({hand[t]} \ {0})
  /\ UNCHANGED <<deque, added, done, m_bStop, starts, caller>>

TakeNewest(t) ==
  IF deque = <<>> THEN hand' = [hand EXCEPT ![t] = 0] /\ UNCHANGED deque
  ELSE hand' = [hand EXCEPT ![t] = Last(deque)] /\ deque' = Front(deque)
Take(t) ==
  IF deque = <<>> THEN hand' = [hand EXCEPT ![t] = 0] /\ UNCHANGED deque
  ELSE hand' = [hand EXCEPT ![t] = Head(deque)] /\ deque' = Tail(deque)

Pop(t) ==
  /\ Go(t, "pop", IF deque = <<>> THEN "sleep" ELSE "busy") /\ Take(t)
  /\ UNCHANGED <<added, done, gone, flags, starts, caller>>

SetBuzy(t) ==
  /\ Go(t, "busy", "run") /\ m_bBuzy' = [m_bBuzy EXCEPT ![t[1]] = TRUE]
  /\ UNCHANGED <<jobs, m_bStop, hand, starts, caller>>

Run(t) ==
  /\ Go(t, "run", "again")
  /\ done' = done \cup {hand[t]} /\ hand' = [hand EXCEPT ![t] = 0]
  /\ UNCHANGED <<deque, added, gone, flags, starts, caller>>

Again(t) ==
  /\ Go(t, "again", "check") /\ Take(t)
  /\ UNCHANGED <<added, done, gone, flags, starts, caller>>

AfterPopOrEnd(t) == IF hand[t] = 0 THEN "end" ELSE "busy"

AfterPop(t) == IF hand[t] = 0 THEN "sleep" ELSE "busy"

Check(t) ==
  /\ ~Halted(t) /\ Go(t, "check", AfterPop(t))
  /\ UNCHANGED <<jobs, flags, hand, starts, caller>>

Sleep(t) ==
  /\ Go(t, "sleep", "wake") /\ UNCHANGED <<jobs, flags, hand, starts, caller>>

Wake(t) ==
  /\ ~Halted(t) /\ Go(t, "wake", "loop") /\ ClearBuzy(t)
  /\ UNCHANGED <<jobs, m_bStop, hand, starts, caller>>
-----------------------------------------------------------------------------
Caller == addJobFast \/ cleanup \/ CallStart \/ CallStop \/ CallWait

Proceed == StartWorker \/ StopWorker \/ WaitEmpty \/ WaitBuzy

Step(t) == \/ Loop(t) \/ Stop(t) \/ Pop(t) \/ SetBuzy(t) \/ Run(t) \/ Again(t)
           \/ Check(t) \/ Sleep(t) \/ Wake(t)

Next == Caller \/ Proceed \/ \E t \in Threads : Step(t)

Spec == Init /\ [][Next]_vars

(* The threads and a call under way are scheduled; no call need be made.   *)
Fairness == WF_vars(Proceed) /\ \A t \in Threads : WF_vars(Step(t))
-----------------------------------------------------------------------------
(* The types; a worker's index is in the loop's range while a call runs.   *)
TypeOK ==
  /\ deque \in Seq(Job) /\ added \in 0..MaxJobs
  /\ done \subseteq Job /\ gone \subseteq Job
  /\ m_bStop \in [Workers -> BOOLEAN] /\ m_bBuzy \in [Workers -> BOOLEAN]
  /\ thread \in [Threads -> Where] /\ hand \in [Threads -> Job \cup {0}]
  /\ starts \in 0..MaxStarts
  /\ op \in {"free", "start", "stop", "wait"} /\ i \in 0..NWorkers /\ bBuzy \in BOOLEAN
  /\ op = "start" => i \in Workers /\ starts > 0

Held == {hand[t] : t \in Threads} \ {0}

(* Jobs leave the deque in the order they were added, at whichever thread: *)
(* what waits is always the last jobs added, oldest first.                 *)
FifoOrder == \A k \in 1..Len(deque) : deque[k] = added - Len(deque) + k

(* Every job added is in one place: waiting, in one thread's hands, run,   *)
(* or gone; none is run twice, none is run and also deleted.               *)
OnePlace ==
  /\ 1..added = ToSet(deque) \cup Held \cup done \cup gone
  /\ ToSet(deque) \cap (Held \cup done \cup gone) = {}
  /\ Held \cap (done \cup gone) = {} /\ done \cap gone = {}
  /\ \A s, t \in Threads : hand[s] = hand[t] /\ hand[s] # 0 => s = t

(* No job is forgotten, run twice or overtaken (JobAsyncDeque, run).       *)
JobsKept == FifoOrder /\ OnePlace

WaitReturns == op = "wait" /\ op' = "free"

(* waitForDone returns with nothing left in the deque; what is unfinished  *)
(* then is in the hands of a thread.                                       *)
WaitDrains == [][WaitReturns => 1..added = Held \cup done \cup gone]_vars

(* "Check waitForDone...": all jobs have finished when waitForDone returns.*)
WaitMeansDone == [][WaitReturns => 1..added = done]_vars

(* Only a stop drops a job that a thread has taken.                        *)
DropsOnlyOnStop ==
  [][\A t \in Threads : hand[t] \in gone' \ gone => m_bStop[t[1]]]_vars

(* A job added to a pool that runs and is not stopped is run.              *)
AddedIsRun ==
  \A j \in Job :
    (j \in ToSet(deque) /\ op = "free" /\ starts > 0 /\ \A w \in Workers : ~m_bStop[w])
      ~> (j \in done \cup gone \/ \E w \in Workers : m_bStop[w])

(* A pool that stays stopped loses all its threads, those of an earlier    *)
(* start that missed an earlier stop included.                             *)
StopEnds ==
  (\A w \in Workers : m_bStop[w])
    ~> \/ \A t \in Threads : thread[t] \in {"none", "end"}
       \/ \E w \in Workers : ~m_bStop[w]

Queue == INSTANCE JobQueue WITH
  Jobs <- Job, waiting <- deque, running <- Held, finished <- done, lost <- gone

(* The pool keeps the promise of JobQueue.                                 *)
Refines == Queue!JobSpec
=============================================================================
