---------------------------- MODULE ThreadProofs ----------------------------
(* What the queues that threads serve keep true: JobsPool for any number   *)
(* of workers, jobs and starts, LightWeb for any number of workers and     *)
(* connections.                                                            *)
EXTENDS JobsPool, LightWeb, TLAPS

(* A thread has a job in its hands between a pop that found one and the    *)
(* end of that job, or of itself, and never when it is about to pop.       *)
HandOK ==
  \A t \in Threads :
    /\ thread[t] \in {"busy", "run"} => hand[t] # 0
    /\ thread[t] \notin {"busy", "run", "check"} => hand[t] = 0

(* A thread not yet started, that of a call of start under way included.   *)
Unstarted(t) == t[2] > starts \/ (op = "start" /\ t[2] = starts /\ t[1] >= i)

StartOK == \A t \in Threads : Unstarted(t) => thread[t] = "none"

(* Nothing is added while the one caller waits, so what a round of         *)
(* waitForDone found empty stays empty.                                    *)
WaitOK == op = "wait" /\ i # 0 /\ ~bBuzy => deque = <<>>

Inv == TypeOK /\ HandOK /\ StartOK /\ FifoOrder /\ OnePlace /\ WaitOK
-----------------------------------------------------------------------------
(* Sequences and what threads hold.                                        *)

LEMMA ToSetAppend ==
  ASSUME NEW T, NEW s \in Seq(T), NEW e \in T
  PROVE  ToSet(Append(s, e)) = ToSet(s) \cup {e}
<1>1. ToSet(Append(s, e)) \subseteq ToSet(s) \cup {e}
  BY DEF ToSet
<1>2. ToSet(s) \subseteq ToSet(Append(s, e))
  BY DEF ToSet
<1>3. Append(s, e)[Len(s) + 1] = e /\ Len(s) + 1 \in DOMAIN Append(s, e)
  OBVIOUS
<1>4. e \in ToSet(Append(s, e))
  BY <1>3 DEF ToSet
<1> QED BY <1>1, <1>2, <1>4

LEMMA ToSetTail ==
  ASSUME NEW T, NEW s \in Seq(T), s # <<>>
  PROVE  ToSet(s) = {Head(s)} \cup ToSet(Tail(s))
<1>1. ASSUME NEW e \in ToSet(s) PROVE e = Head(s) \/ e \in ToSet(Tail(s))
  <2>1. PICK k \in 1..Len(s) : e = s[k]
    BY <1>1 DEF ToSet
  <2>2. CASE k = 1
    BY <2>1, <2>2
  <2>3. CASE k # 1
    <3>1. k - 1 \in DOMAIN Tail(s) /\ Tail(s)[k - 1] = e
      BY <2>1, <2>3
    <3> QED BY <3>1 DEF ToSet
  <2> QED BY <2>2, <2>3
<1>2. Head(s) \in ToSet(s)
  BY DEF ToSet
<1>3. ASSUME NEW e \in ToSet(Tail(s)) PROVE e \in ToSet(s)
  <2>1. PICK k \in 1..Len(Tail(s)) : e = Tail(s)[k]
    BY <1>3 DEF ToSet
  <2>2. k + 1 \in 1..Len(s) /\ s[k + 1] = e
    BY <2>1
  <2> QED BY <2>2 DEF ToSet
<1> QED BY <1>1, <1>2, <1>3

LEMMA TakenIsHeld ==
  ASSUME NEW f \in [Threads -> Nat], NEW t \in Threads, NEW v \in Nat, f[t] = 0,
         NEW g, g = [f EXCEPT ![t] = v]
  PROVE  {g[s] : s \in Threads} \ {0} = ({f[s] : s \in Threads} \ {0}) \cup ({v} \ {0})
<1>1. g[t] = v /\ \A s \in Threads : s # t => g[s] = f[s]
  OBVIOUS
<1> QED BY <1>1

LEMMA DroppedIsNotHeld ==
  ASSUME NEW f \in [Threads -> Nat], NEW t \in Threads,
         \A s \in Threads : f[s] = f[t] /\ f[s] # 0 => s = t,
         NEW g, g = [f EXCEPT ![t] = 0]
  PROVE  {g[s] : s \in Threads} \ {0} = ({f[s] : s \in Threads} \ {0}) \ {f[t]}
<1>1. g[t] = 0 /\ \A s \in Threads : s # t => g[s] = f[s]
  OBVIOUS
<1> QED BY <1>1

LEMMA ThreadWorker == \A t \in Threads : t[1] \in Workers /\ t[2] \in 1..MaxStarts /\ t = <<t[1], t[2]>>
BY DEF Threads
-----------------------------------------------------------------------------
(* Types.                                                                  *)

LEMMA NextWorkerType ==
  ASSUME i \in Workers PROVE NextWorker \in 0..NWorkers
BY PoolAssumption DEF NextWorker, Workers

LEMMA CallType ==
  ASSUME NEW c \in {"start", "stop", "wait"}, NEW from \in 0..NWorkers, Call(c, from)
  PROVE  op' = c /\ i' = from /\ bBuzy' \in BOOLEAN
<1>1. bBuzy' = FALSE
  BY DEF Call
<1>2. bBuzy' \in BOOLEAN
  BY <1>1, Zenon
<1> QED BY <1>2 DEF Call

LEMMA TakeType ==
  ASSUME TypeOK, NEW t \in Threads, Take(t)
  PROVE  /\ deque' \in Seq(Job) /\ hand' \in [Threads -> Job \cup {0}]
         /\ hand'[t] = IF deque = <<>> THEN 0 ELSE Head(deque)
         /\ \A s \in Threads : s # t => hand'[s] = hand[s]
<1>1. deque \in Seq(Job) /\ hand \in [Threads -> Job \cup {0}]
  BY DEF TypeOK
<1>2. CASE deque = <<>>
  BY <1>1, <1>2 DEF Take
<1>3. CASE deque # <<>>
  <2>1. Head(deque) \in Job /\ Tail(deque) \in Seq(Job)
    BY <1>1, <1>3
  <2> QED BY <1>1, <1>3, <2>1 DEF Take
<1> QED BY <1>2, <1>3

LEMMA TypeStep == TypeOK /\ HandOK /\ [Next]_vars => TypeOK'
<1> SUFFICES ASSUME TypeOK, HandOK, [Next]_vars PROVE TypeOK'
  OBVIOUS
<1> USE PoolAssumption DEF TypeOK
<1>1. CASE addJobFast
  BY <1>1 DEF addJobFast, Push, Job, flags, threads, caller
<1>2. CASE cleanup
  <2>1. ToSet(deque) \subseteq Job
    BY DEF ToSet
  <2> QED BY <1>2, <2>1 DEF cleanup, flags, threads, caller
<1>3. CASE CallStart
  BY <1>3, CallType DEF CallStart, jobs, flags, threads, Workers
<1>4. CASE CallStop
  BY <1>4, CallType DEF CallStop, jobs, flags, threads, Workers
<1>5. CASE CallWait
  BY <1>5, CallType DEF CallWait, jobs, flags, threads, Workers
<1>6. CASE StartWorker
  <2>1. <<i, starts>> \in Threads
    BY <1>6 DEF StartWorker, Advance, Threads
  <2>2. thread' \in [Threads -> Where]
    BY <1>6, <2>1 DEF StartWorker, Where
  <2> QED BY <1>6, <2>2 DEF StartWorker, Advance, NextWorker, jobs, Workers
<1>7. CASE StopWorker
  BY <1>7 DEF StopWorker, Advance, NextWorker, jobs, threads, Workers
<1>8. CASE WaitEmpty
  BY <1>8 DEF WaitEmpty, jobs, flags, threads, Workers
<1>9. CASE WaitBuzy
  <2>1. bBuzy' \in BOOLEAN
    BY <1>9 DEF WaitBuzy, Found
  <2> QED BY <1>9, <2>1 DEF WaitBuzy, NextWorker, jobs, flags, threads, Workers
<1>10. ASSUME NEW t \in Threads, Step(t) PROVE TypeOK'
  <2>w. t[1] \in Workers
    BY ThreadWorker
  <2>1. CASE Loop(t)
    BY <2>1 DEF Loop, Go, Where, jobs, flags, caller
  <2>2. CASE Stop(t)
    <3>1. gone' \subseteq Job /\ hand' \in [Threads -> Job \cup {0}] /\ m_bBuzy' \in [Workers -> BOOLEAN]
      BY <2>2, <2>w DEF Stop, ClearBuzy
    <3>2. thread' \in [Threads -> Where]
      BY <2>2 DEF Stop, Go, Where
    <3> QED BY <2>2, <3>1, <3>2 DEF Stop, caller
  <2>3. CASE Pop(t)
    <3>1. thread' \in [Threads -> Where]
      BY <2>3 DEF Pop, Go, Where
    <3> QED BY <2>3, <3>1, TakeType DEF Pop, flags, caller
  <2>4. CASE SetBuzy(t)
    BY <2>4, <2>w DEF SetBuzy, Go, Where, jobs, caller
  <2>5. CASE Run(t)
    <3>1. hand[t] \in Job
      BY <2>5 DEF Run, Go, HandOK
    <3> QED BY <2>5, <3>1 DEF Run, Go, Where, flags, caller
  <2>6. CASE Again(t)
    <3>1. thread' \in [Threads -> Where]
      BY <2>6 DEF Again, Go, Where
    <3> QED BY <2>6, <3>1, TakeType DEF Again, flags, caller
  <2>7. CASE Check(t)
    BY <2>7 DEF Check, AfterPop, Go, Where, jobs, flags, caller
  <2>8. CASE Sleep(t)
    BY <2>8 DEF Sleep, Go, Where, jobs, flags, caller
  <2>9. CASE Wake(t)
    BY <2>9, <2>w DEF Wake, ClearBuzy, Go, Where, jobs, caller
  <2> QED BY <1>10, <2>1, <2>2, <2>3, <2>4, <2>5, <2>6, <2>7, <2>8, <2>9 DEF Step
<1>11. CASE UNCHANGED vars
  BY <1>11 DEF vars, jobs, flags, threads, caller
<1> QED BY <1>1, <1>2, <1>3, <1>4, <1>5, <1>6, <1>7, <1>8, <1>9, <1>10, <1>11
  DEF Next, Caller, Proceed
-----------------------------------------------------------------------------
(* The threads.                                                            *)

LEMMA InitInv == Init => Inv
<1> SUFFICES ASSUME Init PROVE Inv
  OBVIOUS
<1> USE PoolAssumption DEF Init
<1>1. TypeOK
  <2>1. m_bStop \in [Workers -> BOOLEAN] /\ m_bBuzy \in [Workers -> BOOLEAN] /\ bBuzy \in BOOLEAN
    BY Zenon
  <2>2. thread \in [Threads -> Where] /\ hand \in [Threads -> Job \cup {0}]
    BY DEF Where
  <2> QED BY <2>1, <2>2 DEF TypeOK
<1>2. HandOK /\ StartOK /\ WaitOK
  BY DEF HandOK, StartOK, WaitOK
<1>3. Held = {} /\ ToSet(deque) = {}
  BY DEF Held, ToSet
<1>4. FifoOrder /\ OnePlace
  BY <1>3 DEF FifoOrder, OnePlace
<1> QED BY <1>1, <1>2, <1>4 DEF Inv

(* What a step of thread t leaves alone: the caller and the other threads. *)
LEMMA StepIsLocal ==
  ASSUME TypeOK, NEW t \in Threads, Step(t)
  PROVE  /\ UNCHANGED <<added, starts, caller, m_bStop>>
         /\ \A s \in Threads : s # t => thread'[s] = thread[s] /\ hand'[s] = hand[s]
         /\ thread[t] # "none"
<1> USE DEF TypeOK
<1>1. CASE Loop(t)
  BY <1>1 DEF Loop, Go, jobs, flags
<1>2. CASE Stop(t)
  BY <1>2 DEF Stop, Go
<1>3. CASE Pop(t)
  BY <1>3, TakeType DEF Pop, Go, flags
<1>4. CASE SetBuzy(t)
  BY <1>4 DEF SetBuzy, Go, jobs
<1>5. CASE Run(t)
  BY <1>5 DEF Run, Go, flags
<1>6. CASE Again(t)
  BY <1>6, TakeType DEF Again, Go, flags
<1>7. CASE Check(t)
  BY <1>7 DEF Check, Go, jobs, flags
<1>8. CASE Sleep(t)
  BY <1>8 DEF Sleep, Go, jobs, flags
<1>9. CASE Wake(t)
  BY <1>9 DEF Wake, Go, jobs
<1> QED BY <1>1, <1>2, <1>3, <1>4, <1>5, <1>6, <1>7, <1>8, <1>9 DEF Step

(* Only Take, Run and Stop change what a thread holds.                     *)
LEMMA HandOfStep ==
  ASSUME TypeOK, HandOK, NEW t \in Threads, Step(t)
  PROVE  /\ thread'[t] \in {"busy", "run"} => hand'[t] # 0
         /\ thread'[t] \notin {"busy", "run", "check"} => hand'[t] = 0
<1> USE DEF TypeOK, HandOK
<1>1. CASE Loop(t)
  BY <1>1 DEF Loop, Go
<1>2. CASE Stop(t)
  BY <1>2 DEF Stop, Go
<1>3. CASE Pop(t)
  <2>1. deque # <<>> => Head(deque) # 0
    <3>1. deque # <<>> => Head(deque) \in Job
      OBVIOUS
    <3> QED BY <3>1 DEF Job
  <2> QED BY <1>3, <2>1, TakeType DEF Pop, Go
<1>4. CASE SetBuzy(t)
  BY <1>4 DEF SetBuzy, Go
<1>5. CASE Run(t)
  BY <1>5 DEF Run, Go
<1>6. CASE Again(t)
  BY <1>6 DEF Again, Go
<1>7. CASE Check(t)
  BY <1>7 DEF Check, AfterPop, Go
<1>8. CASE Sleep(t)
  BY <1>8 DEF Sleep, Go
<1>9. CASE Wake(t)
  BY <1>9 DEF Wake, Go
<1> QED BY <1>1, <1>2, <1>3, <1>4, <1>5, <1>6, <1>7, <1>8, <1>9 DEF Step

LEMMA HandStep == TypeOK /\ HandOK /\ StartOK /\ [Next]_vars => HandOK'
<1> SUFFICES ASSUME TypeOK, HandOK, StartOK, [Next]_vars PROVE HandOK'
  OBVIOUS
<1>1. ASSUME NEW t \in Threads, Step(t) PROVE HandOK'
  <2>1. \A s \in Threads : s # t => thread'[s] = thread[s] /\ hand'[s] = hand[s]
    BY <1>1, StepIsLocal
  <2> QED BY <1>1, <2>1, HandOfStep DEF HandOK
<1>2. CASE StartWorker
  <2>1. hand' = hand /\ thread' = [thread EXCEPT ![<<i, starts>>] = "loop"]
    BY <1>2 DEF StartWorker
  <2>2. <<i, starts>> \in Threads /\ Unstarted(<<i, starts>>)
    BY <1>2 DEF StartWorker, Advance, TypeOK, Threads, Unstarted, Workers
  <2>3. hand[<<i, starts>>] = 0
    BY <2>2 DEF HandOK, StartOK
  <2> QED BY <2>1, <2>2, <2>3 DEF HandOK, TypeOK
<1>3. CASE UNCHANGED threads
  BY <1>3 DEF HandOK, threads
<1>4. addJobFast \/ cleanup \/ CallStart \/ CallStop \/ CallWait \/ StopWorker
        \/ WaitEmpty \/ WaitBuzy => UNCHANGED threads
  BY DEF addJobFast, cleanup, CallStart, CallStop, CallWait, StopWorker, WaitEmpty, WaitBuzy
<1>5. UNCHANGED vars => UNCHANGED threads
  BY DEF vars
<1> QED BY <1>1, <1>2, <1>3, <1>4, <1>5 DEF Next, Caller, Proceed

LEMMA StartStep == TypeOK /\ StartOK /\ [Next]_vars => StartOK'
<1> SUFFICES ASSUME TypeOK, StartOK, [Next]_vars PROVE StartOK'
  OBVIOUS
<1>1. ASSUME NEW t \in Threads, Step(t) PROVE StartOK'
  <2>1. /\ UNCHANGED <<starts, op, i>> /\ thread[t] # "none"
        /\ \A s \in Threads : s # t => thread'[s] = thread[s]
    BY <1>1, StepIsLocal DEF caller
  <2> QED BY <2>1 DEF StartOK, Unstarted
<1>2. CASE StartWorker
  <2>1. /\ op = "start" /\ i \in Workers /\ starts \in Nat /\ starts' = starts
        /\ i' = NextWorker /\ op' = (IF i' = 0 THEN "free" ELSE "start")
        /\ thread' = [thread EXCEPT ![<<i, starts>>] = "loop"]
    BY <1>2, PoolAssumption DEF StartWorker, Advance, TypeOK
  <2>2. ASSUME NEW s \in Threads, Unstarted(s)' PROVE Unstarted(s) /\ s # <<i, starts>>
    <3>1. s[1] \in Workers /\ s[2] \in 1..MaxStarts
      BY ThreadWorker
    <3>2. CASE s[2] > starts
      BY <2>1, <3>1, <3>2 DEF Unstarted
    <3>3. CASE s[2] = starts /\ i' # 0 /\ s[1] >= i'
      <4>1. i' = i + 1
        BY <2>1, <3>3 DEF NextWorker
      <4> QED BY <2>1, <3>1, <3>3, <4>1 DEF Unstarted, Workers
    <3> QED BY <2>1, <2>2, <3>2, <3>3 DEF Unstarted
  <2>3. \A s \in Threads : s # <<i, starts>> => thread'[s] = thread[s]
    BY <2>1 DEF TypeOK
  <2> QED BY <2>2, <2>3 DEF StartOK
<1>3. CASE CallStart
  <2>1. /\ starts' = starts + 1 /\ starts \in Nat /\ thread' = thread
    BY <1>3, PoolAssumption DEF CallStart, TypeOK, threads
  <2>2. ASSUME NEW s \in Threads, Unstarted(s)' PROVE s[2] > starts
    <3>1. s[2] \in Nat
      BY ThreadWorker, PoolAssumption
    <3> QED BY <2>1, <2>2, <3>1 DEF Unstarted
  <2> QED BY <2>1, <2>2 DEF StartOK, Unstarted
<1>4. CASE thread' = thread /\ starts' = starts /\ (op' = "start" => op = "start" /\ i' = i)
  BY <1>4 DEF StartOK, Unstarted
<1>5. addJobFast \/ cleanup \/ CallStop \/ CallWait \/ StopWorker \/ WaitEmpty \/ WaitBuzy
        => thread' = thread /\ starts' = starts /\ (op' = "start" => op = "start" /\ i' = i)
  BY DEF addJobFast, cleanup, CallStop, CallWait, Call, StopWorker, Advance, WaitEmpty,
         WaitBuzy, threads, caller
<1>6. UNCHANGED vars => thread' = thread /\ starts' = starts /\ (op' = "start" => op = "start" /\ i' = i)
  BY DEF vars, threads, caller
<1> QED BY <1>1, <1>2, <1>3, <1>4, <1>5, <1>6 DEF Next, Caller, Proceed
-----------------------------------------------------------------------------
(* The jobs: a step either leaves the deque and the places alone or does   *)
(* what one action of JobQueue does.                                       *)

(* A pop by a thread with empty hands, with or without a job to take.      *)
LEMMA TakeStep ==
  ASSUME Inv, NEW t \in Threads, Take(t), hand[t] = 0, UNCHANGED <<added, done, gone>>
  PROVE  /\ FifoOrder' /\ OnePlace'
         /\ Queue!Begin \/ UNCHANGED Queue!jobVars
<1> USE DEF Inv
<1>1. CASE deque = <<>>
  <2>1. deque' = deque /\ hand' = hand
    BY <1>1 DEF Take, TypeOK
  <2> QED BY <2>1 DEF FifoOrder, OnePlace, Held, Queue!jobVars
<1>2. CASE deque # <<>>
  <2> DEFINE h == Head(deque)
  <2>1. /\ deque \in Seq(Job) /\ added \in Nat /\ hand \in [Threads -> Nat]
        /\ h \in Job /\ h # 0 /\ h \in Nat
        /\ deque' = Tail(deque) /\ hand' = [hand EXCEPT ![t] = h]
    BY <1>2, PoolAssumption DEF Take, TypeOK, Job
  <2>2. FifoOrder'
    <3>1. ASSUME NEW k \in 1..Len(Tail(deque)) PROVE Tail(deque)[k] = added - Len(Tail(deque)) + k
      <4>1. Tail(deque)[k] = deque[k + 1] /\ k + 1 \in 1..Len(deque) /\ Len(Tail(deque)) = Len(deque) - 1
        BY <1>2, <2>1
      <4>2. deque[k + 1] = added - Len(deque) + (k + 1)
        BY <4>1 DEF FifoOrder
      <4>3. Len(deque) \in Nat /\ k \in Nat
        BY <2>1, <4>1
      <4>4. added - Len(deque) + (k + 1) = added - (Len(deque) - 1) + k
        BY <2>1, <4>3
      <4> QED BY <4>1, <4>2, <4>4
    <3> QED BY <2>1, <3>1 DEF FifoOrder
  <2>3. ToSet(deque) = {h} \cup ToSet(deque')
    BY <1>2, <2>1, ToSetTail
  <2>4. h \notin ToSet(deque')
    <3>1. ASSUME NEW k \in 1..Len(Tail(deque)) PROVE Tail(deque)[k] # h
      <4>1. h = added - Len(deque) + 1
        BY <1>2, <2>1 DEF FifoOrder
      <4>2. Tail(deque)[k] = added - Len(Tail(deque)) + k /\ Len(Tail(deque)) = Len(deque) - 1
        BY <1>2, <2>1, <2>2 DEF FifoOrder
      <4> QED BY <1>2, <2>1, <4>1, <4>2
    <3>2. DOMAIN Tail(deque) = 1..Len(Tail(deque))
      BY <1>2, <2>1
    <3> QED BY <2>1, <3>1, <3>2 DEF ToSet
  <2>5. Held' = Held \cup {h}
    BY <2>1, TakenIsHeld DEF Held
  <2>6. h \notin Held \cup done \cup gone
    BY <2>3 DEF OnePlace
  <2>7. OnePlace'
    <3>1. \A s, r \in Threads : hand'[s] = hand'[r] /\ hand'[s] # 0 => s = r
      <4>1. \A s \in Threads : hand[s] # h
        BY <2>1, <2>6 DEF Held
      <4> QED BY <2>1, <4>1 DEF OnePlace
    <3> QED BY <2>3, <2>4, <2>5, <2>6, <3>1 DEF OnePlace
  <2>8. Queue!Begin
    BY <1>2, <2>1, <2>5 DEF Queue!Begin
  <2> QED BY <2>2, <2>7, <2>8
<1> QED BY <1>1, <1>2

(* A thread puts its job down: it ran (Run) or is lost (Stop).             *)
LEMMA PutDown ==
  ASSUME Inv, NEW t \in Threads, hand[t] # 0, hand' = [hand EXCEPT ![t] = 0],
         UNCHANGED <<deque, added>>,
         \/ done' = done \cup {hand[t]} /\ gone' = gone
         \/ gone' = gone \cup {hand[t]} /\ done' = done
  PROVE  FifoOrder' /\ OnePlace' /\ Queue!JobNext
<1>1. hand \in [Threads -> Nat] /\ hand[t] \in Job
  BY PoolAssumption DEF Inv, TypeOK, Job
<1>2. hand[t] \in Held /\ \A s \in Threads : hand[s] = hand[t] /\ hand[s] # 0 => s = t
  BY DEF Inv, OnePlace, Held
<1>3. Held' = Held \ {hand[t]}
  BY <1>1, <1>2, DroppedIsNotHeld DEF Held
<1>4. FifoOrder'
  BY DEF Inv, FifoOrder
<1>5. OnePlace'
  <2>1. \A s, r \in Threads : hand'[s] = hand'[r] /\ hand'[s] # 0 => s = r
    BY <1>1 DEF Inv, OnePlace
  <2> QED BY <1>2, <1>3, <2>1 DEF Inv, OnePlace
<1>6. Queue!End(hand[t]) \/ Queue!Abandon(hand[t])
  BY <1>2, <1>3 DEF Queue!End, Queue!Abandon
<1> QED BY <1>1, <1>4, <1>5, <1>6 DEF Queue!JobNext

LEMMA AddStep ==
  ASSUME Inv, addJobFast
  PROVE  FifoOrder' /\ OnePlace' /\ Queue!JobNext
<1> USE PoolAssumption
<1>1. /\ added \in Nat /\ added < MaxJobs /\ added' = added + 1 /\ deque \in Seq(Job)
      /\ deque' = Append(deque, added + 1) /\ UNCHANGED <<done, gone, hand>>
      /\ added + 1 \in Job
  BY DEF Inv, TypeOK, addJobFast, Push, threads, Job
<1>2. FifoOrder'
  <2>1. ASSUME NEW k \in 1..Len(deque') PROVE deque'[k] = added' - Len(deque') + k
    <3>1. Len(deque') = Len(deque) + 1
      BY <1>1
    <3>2. CASE k = Len(deque) + 1
      BY <1>1, <3>1, <3>2
    <3>3. CASE k \in 1..Len(deque)
      BY <1>1, <3>1, <3>3 DEF Inv, FifoOrder
    <3> QED BY <1>1, <3>1, <3>2, <3>3
  <2> QED BY <2>1 DEF FifoOrder
<1>3. ToSet(deque') = ToSet(deque) \cup {added + 1}
  BY <1>1, ToSetAppend
<1>4. Held' = Held
  BY <1>1 DEF Held
<1>5. 1..added' = 1..added \cup {added + 1} /\ added + 1 \notin 1..added
  BY <1>1
<1>6. OnePlace'
  BY <1>1, <1>3, <1>4, <1>5 DEF Inv, OnePlace
<1>7. Queue!Submit(added + 1)
  <2>1. added + 1 \notin Queue!Known
    BY <1>5 DEF Queue!Known, Queue!ToSet, ToSet, Inv, OnePlace
  <2> QED BY <1>1, <1>4, <2>1 DEF Queue!Submit
<1> QED BY <1>1, <1>2, <1>6, <1>7 DEF Queue!JobNext

LEMMA CleanupStep ==
  ASSUME Inv, cleanup
  PROVE  FifoOrder' /\ OnePlace' /\ Queue!JobNext
<1>1. /\ gone' = gone \cup ToSet(deque) /\ deque' = <<>> /\ UNCHANGED <<added, done, hand>>
  BY DEF cleanup, threads
<1>2. Held' = Held /\ ToSet(deque') = {}
  BY <1>1 DEF Held, ToSet
<1>3. FifoOrder'
  BY <1>1 DEF FifoOrder
<1>4. OnePlace'
  BY <1>1, <1>2 DEF Inv, OnePlace
<1>5. Queue!Discard
  BY <1>1, <1>2 DEF Queue!Discard, Queue!ToSet, ToSet
<1> QED BY <1>3, <1>4, <1>5 DEF Queue!JobNext

LEMMA JobsStep ==
  ASSUME Inv, [Next]_vars
  PROVE  FifoOrder' /\ OnePlace' /\ [Queue!JobNext]_(Queue!jobVars)
<1>1. ASSUME UNCHANGED <<jobs, hand>> PROVE FifoOrder' /\ OnePlace' /\ UNCHANGED Queue!jobVars
  BY <1>1 DEF Inv, FifoOrder, OnePlace, Held, jobs, Queue!jobVars
<1>2. CASE addJobFast
  BY <1>2, AddStep
<1>3. CASE cleanup
  BY <1>3, CleanupStep
<1>4. CallStart \/ CallStop \/ CallWait \/ StartWorker \/ StopWorker \/ WaitEmpty \/ WaitBuzy
        => UNCHANGED <<jobs, hand>>
  BY DEF CallStart, CallStop, CallWait, StartWorker, StopWorker, WaitEmpty, WaitBuzy, threads
<1>5. UNCHANGED vars => UNCHANGED <<jobs, hand>>
  BY DEF vars, threads
<1>6. ASSUME NEW t \in Threads, Step(t)
      PROVE  FifoOrder' /\ OnePlace' /\ [Queue!JobNext]_(Queue!jobVars)
  <2>1. Loop(t) \/ SetBuzy(t) \/ Check(t) \/ Sleep(t) \/ Wake(t) => UNCHANGED <<jobs, hand>>
    BY DEF Loop, SetBuzy, Check, Sleep, Wake
  <2>2. CASE Pop(t)
    <3>1. Take(t) /\ hand[t] = 0 /\ UNCHANGED <<added, done, gone>>
      BY <2>2 DEF Pop, Go, Inv, HandOK
    <3> QED BY <3>1, TakeStep DEF Queue!JobNext
  <2>3. CASE Again(t)
    <3>1. Take(t) /\ hand[t] = 0 /\ UNCHANGED <<added, done, gone>>
      BY <2>3 DEF Again, Go, Inv, HandOK
    <3> QED BY <3>1, TakeStep DEF Queue!JobNext
  <2>4. CASE Run(t)
    <3>1. /\ hand[t] # 0 /\ hand' = [hand EXCEPT ![t] = 0] /\ UNCHANGED <<deque, added, gone>>
          /\ done' = done \cup {hand[t]}
      BY <2>4 DEF Run, Go, Inv, HandOK
    <3> QED BY <3>1, PutDown
  <2>5. CASE Stop(t)
    <3>1. /\ hand' = [hand EXCEPT ![t] = 0] /\ UNCHANGED <<deque, added, done>>
          /\ gone' = gone \cup ({hand[t]} \ {0})
      BY <2>5 DEF Stop
    <3>2. CASE hand[t] = 0
      <4>1. hand' = hand /\ gone' = gone
        BY <3>1, <3>2 DEF Inv, TypeOK
      <4> QED BY <1>1, <3>1, <4>1 DEF jobs
    <3>3. CASE hand[t] # 0
      BY <3>1, <3>3, PutDown
    <3> QED BY <3>2, <3>3
  <2> QED BY <1>1, <1>6, <2>1, <2>2, <2>3, <2>4, <2>5 DEF Step
<1> QED BY <1>1, <1>2, <1>3, <1>4, <1>5, <1>6 DEF Next, Caller, Proceed
-----------------------------------------------------------------------------
(* waitForDone.                                                            *)

LEMMA WaitStep == Inv /\ [Next]_vars => WaitOK'
<1> SUFFICES ASSUME Inv, [Next]_vars, op' = "wait", i' # 0, ~bBuzy' PROVE deque' = <<>>
  BY DEF WaitOK
<1>1. ASSUME NEW t \in Threads, Step(t) PROVE deque' = <<>>
  <2>1. deque = <<>>
    BY <1>1, StepIsLocal DEF Inv, WaitOK, caller
  <2>2. CASE Take(t)
    BY <2>1, <2>2 DEF Take
  <2>3. CASE deque' = deque
    BY <2>1, <2>3
  <2> QED BY <1>1, <2>2, <2>3 DEF Step, Loop, Stop, Pop, SetBuzy, Run, Again, Check, Sleep, Wake, jobs
<1>2. CASE WaitEmpty
  BY <1>2 DEF WaitEmpty, jobs
<1>3. CASE WaitBuzy
  <2>1. op = "wait" /\ i # 0 /\ ~bBuzy /\ deque' = deque
    <3>1. op = "wait" /\ i # 0 /\ deque' = deque
      BY <1>3, PoolAssumption DEF WaitBuzy, jobs, Workers
    <3>2. ~bBuzy
      BY <1>3, Zenon DEF WaitBuzy, Found
    <3> QED BY <3>1, <3>2
  <2> QED BY <2>1 DEF Inv, WaitOK
<1>4. CASE UNCHANGED vars
  BY <1>4 DEF vars, caller, jobs, Inv, WaitOK
<1>5. ~addJobFast /\ ~cleanup /\ ~CallStart /\ ~CallStop /\ ~CallWait /\ ~StartWorker /\ ~StopWorker
  BY DEF addJobFast, cleanup, CallStart, CallStop, CallWait, Call, StartWorker, StopWorker, Advance, caller
<1> QED BY <1>1, <1>2, <1>3, <1>4, <1>5 DEF Next, Caller, Proceed

LEMMA InvStep == Inv /\ [Next]_vars => Inv'
BY TypeStep, HandStep, StartStep, JobsStep, WaitStep DEF Inv

LEMMA InvHolds == Spec => []Inv
BY InitInv, InvStep, PTL DEF Spec
-----------------------------------------------------------------------------
(* Every variable keeps its type, and the caller's loop its range.         *)
THEOREM TypesHold == Spec => []TypeOK
BY InvHolds, PTL DEF Inv

(* Jobs leave the deque in the order they were added.                      *)
THEOREM JobsLeaveInOrder == Spec => []FifoOrder
BY InvHolds, PTL DEF Inv

(* A job is in one place, and so is never run twice nor run and deleted.   *)
THEOREM JobsAreInOnePlace == Spec => []OnePlace
BY InvHolds, PTL DEF Inv

(* The two together.                                                       *)
THEOREM JobsAreKept == Spec => []JobsKept
BY JobsLeaveInOrder, JobsAreInOnePlace, PTL DEF JobsKept

(* waitForDone returns only when nothing waits in the deque.               *)
THEOREM WaitReturnsDrained == Spec => WaitDrains
<1>1. ASSUME Inv, [Next]_vars, WaitReturns PROVE 1..added = Held \cup done \cup gone
  <2>1. WaitBuzy
    <3>1. op = "wait" /\ op' = "free"
      BY <1>1 DEF WaitReturns
    <3>2. ASSUME NEW t \in Threads PROVE ~Step(t)
      BY <1>1, <3>1, StepIsLocal DEF Inv, caller
    <3> QED BY <1>1, <3>1, <3>2 DEF Next, Caller, Proceed, addJobFast, cleanup, CallStart, CallStop,
                 CallWait, Call, StartWorker, StopWorker, Advance, WaitEmpty, vars, caller
  <2>2. deque = <<>>
    <3>1. op = "wait" /\ i # 0 /\ op' = "free"
      BY <1>1, <2>1, PoolAssumption DEF WaitReturns, WaitBuzy, Workers
    <3>2. ~bBuzy'
      BY <2>1, <3>1 DEF WaitBuzy
    <3>3. ~bBuzy
      BY <2>1, <3>2, Zenon DEF WaitBuzy, Found
    <3> QED BY <1>1, <3>1, <3>3 DEF Inv, WaitOK
  <2>3. ToSet(deque) = {}
    BY <2>2 DEF ToSet
  <2> QED BY <1>1, <2>3 DEF Inv, OnePlace
<1>2. Inv /\ [Next]_vars => [WaitReturns => 1..added = Held \cup done \cup gone]_vars
  BY <1>1
<1> QED BY <1>2, InvHolds, PTL DEF Spec, WaitDrains

(* A job in a thread's hands is given up only where a stop was asked for.  *)
THEOREM DropsNeedAStop == Spec => DropsOnlyOnStop
<1> DEFINE Drop == \A t \in Threads : hand[t] \in gone' \ gone => m_bStop[t[1]]
<1>1. ASSUME Inv, [Next]_vars PROVE Drop
  <2> SUFFICES ASSUME NEW t \in Threads, hand[t] \in gone', hand[t] \notin gone PROVE m_bStop[t[1]]
    OBVIOUS
  <2>1. CASE cleanup
    <3>1. hand[t] \in ToSet(deque) /\ ToSet(deque) \subseteq Job
      BY <1>1, <2>1 DEF cleanup, Inv, TypeOK, ToSet
    <3>2. hand[t] # 0
      BY <3>1, PoolAssumption DEF Job
    <3>3. hand[t] \in Held
      BY <3>2 DEF Held
    <3> QED BY <1>1, <3>1, <3>3 DEF Inv, OnePlace
  <2>2. ASSUME NEW s \in Threads, Stop(s) PROVE m_bStop[t[1]]
    <3>1. hand[t] = hand[s] /\ hand[t] # 0 /\ m_bStop[s[1]]
      BY <2>2 DEF Stop, Halted
    <3>2. t = s
      BY <1>1, <3>1 DEF Inv, OnePlace
    <3> QED BY <3>1, <3>2
  <2>3. ~UNCHANGED gone
    OBVIOUS
  <2> QED BY <1>1, <2>1, <2>2, <2>3 DEF Next, Caller, Proceed, Step, addJobFast, CallStart, CallStop,
           CallWait, StartWorker, StopWorker, WaitEmpty, WaitBuzy, Loop, Pop, SetBuzy, Run,
           Again, Check, Sleep, Wake, vars, jobs
<1>2. Inv /\ [Next]_vars => [Drop]_vars
  BY <1>1
<1> QED BY <1>2, InvHolds, PTL DEF Spec, DropsOnlyOnStop

(* The pool implements JobQueue: what waits is the deque, what runs is in  *)
(* the threads' hands.                                                     *)
THEOREM PoolImplementsQueue == Spec => Refines
<1>1. Init => Queue!JobInit
  BY DEF Init, Queue!JobInit, Held
<1>2. Inv /\ [Next]_vars => [Queue!JobNext]_(Queue!jobVars)
  BY JobsStep
<1> QED BY <1>1, <1>2, InvHolds, PTL DEF Spec, Refines, Queue!JobSpec
-----------------------------------------------------------------------------
LEMMA HeadAndTail ==
  ASSUME NEW T, NEW s \in Seq(T), s # <<>>
  PROVE  /\ Head(s) \in T /\ Head(s) = s[1] /\ 1 \in 1..Len(s)
         /\ Tail(s) \in Seq(T) /\ Len(Tail(s)) = Len(s) - 1
         /\ \A k \in 1..Len(Tail(s)) : Tail(s)[k] = s[k + 1]
OBVIOUS

LEMMA AppendOne ==
  ASSUME NEW T, NEW s \in Seq(T), NEW e \in T
  PROVE  /\ Append(s, e) \in Seq(T) /\ Len(Append(s, e)) = Len(s) + 1
         /\ Append(s, e)[Len(s) + 1] = e /\ \A k \in 1..Len(s) : Append(s, e)[k] = s[k]
OBVIOUS

(* The light web server.  A worker holds a request exactly while it serves *)
(* it; and where a request waits, somebody will look at the deque or the   *)
(* accepting thread is about to unlock the waiter.                         *)
HoldsWhileServing == \A w \in WebWorkers : serving[w] # 0 <=> worker_pc[w] = "serve"

SomebodyLooks ==
  requests # <<>> =>
    \/ ~waiter_locked
    \/ \E w \in WebWorkers : worker_pc[w] # "wait"
    \/ accept_pc = "wake"
    \/ accept_pc = "pushed" /\ Len(requests) = 1

WebInv == WebTypeOK /\ WebInOrder /\ WebOnePlace /\ HoldsWhileServing /\ SomebodyLooks

LEMMA WebInitInv == WebInit => WebInv
<1>. SUFFICES ASSUME WebInit PROVE WebInv OBVIOUS
<1>1. WebTypeOK
  <2>1. requests \in Seq(Connections) /\ answered \subseteq Connections
    BY DEF WebInit
  <2>3. waiter_locked \in BOOLEAN
    BY DEF WebInit
  <2>2. accepted \in 0..MaxConnections
    BY WebAssumption DEF WebInit
  <2>. QED BY <2>1, <2>2, <2>3 DEF WebInit, WebTypeOK
<1>2. WebInOrder /\ HoldsWhileServing /\ SomebodyLooks
  BY DEF WebInit, WebInOrder, HoldsWhileServing, SomebodyLooks
<1>3. WebOnePlace
  BY DEF WebInit, WebOnePlace, Serving
<1>. QED BY <1>1, <1>2, <1>3 DEF WebInv

LEMMA WebTypes == WebTypeOK /\ HoldsWhileServing /\ [WebNext]_webVars => WebTypeOK'
<1>. SUFFICES ASSUME WebTypeOK, HoldsWhileServing, [WebNext]_webVars PROVE WebTypeOK' OBVIOUS
<1>. USE WebAssumption DEF WebTypeOK, Connections
<1>1. CASE PushRequest
  BY <1>1 DEF PushRequest, workerVars
<1>2. CASE AcceptStep
  BY <1>2 DEF AcceptStep, AfterPush, UnlockWaiter, workerVars
<1>3. ASSUME NEW w \in WebWorkers, WorkerStep(w) PROVE WebTypeOK'
  <2>1. CASE PopRequest(w)
    <3>1. Head(requests) \in 1..MaxConnections /\ Tail(requests) \in Seq(1..MaxConnections)
      BY <2>1 DEF PopRequest
    <3>. QED BY <2>1, <3>1 DEF PopRequest, WorkerGoes, acceptVars
  <2>2. CASE Serve(w)
    BY <2>2 DEF Serve, WorkerGoes, acceptVars, HoldsWhileServing
  <2>3. CASE AskSize(w) \/ LockWaiter(w) \/ PopNothing(w)
    BY <2>3 DEF AskSize, LockWaiter, PopNothing, AfterNull, WorkerGoes, acceptVars
  <2>. QED BY <1>3, <2>1, <2>2, <2>3 DEF WorkerStep
<1>4. CASE UNCHANGED webVars
  BY <1>4 DEF webVars, acceptVars, workerVars
<1>. QED BY <1>1, <1>2, <1>3, <1>4 DEF WebNext
LEMMA WebHolds == WebTypeOK /\ HoldsWhileServing /\ [WebNext]_webVars => HoldsWhileServing'
<1>. SUFFICES ASSUME WebTypeOK, HoldsWhileServing, [WebNext]_webVars PROVE HoldsWhileServing' OBVIOUS
<1>. USE DEF HoldsWhileServing
<1>1. CASE PushRequest \/ AcceptStep
  BY <1>1 DEF PushRequest, AcceptStep, AfterPush, UnlockWaiter, workerVars
<1>2. ASSUME NEW w \in WebWorkers, WorkerStep(w) PROVE HoldsWhileServing'
  <2>1. CASE PopRequest(w)
    <3>1. Head(requests) \in 1..MaxConnections
      BY <2>1, HeadAndTail DEF PopRequest, WebTypeOK, Connections
    <3>2. Head(requests) # 0
      BY <3>1, WebAssumption
    <3>. QED BY <2>1, <3>2 DEF PopRequest, WorkerGoes, WebTypeOK
  <2>2. CASE Serve(w)
    BY <2>2 DEF Serve, WorkerGoes, WebTypeOK
  <2>3. CASE AskSize(w) \/ LockWaiter(w) \/ PopNothing(w)
    BY <2>3 DEF AskSize, LockWaiter, PopNothing, AfterNull, WorkerGoes, WebTypeOK
  <2>. QED BY <1>2, <2>1, <2>2, <2>3 DEF WorkerStep
<1>3. CASE UNCHANGED webVars
  BY <1>3 DEF webVars, workerVars
<1>. QED BY <1>1, <1>2, <1>3 DEF WebNext

LEMMA WebOrder == WebTypeOK /\ WebInOrder /\ [WebNext]_webVars => WebInOrder'
<1>. SUFFICES ASSUME WebTypeOK, WebInOrder, [WebNext]_webVars PROVE WebInOrder' OBVIOUS
<1>. USE DEF WebTypeOK, WebInOrder, Connections
<1>1. CASE PushRequest
  <2>1. accepted \in Nat /\ accepted + 1 \in 1..MaxConnections
    BY <1>1, WebAssumption DEF PushRequest
  <2>2. /\ Len(requests') = Len(requests) + 1 /\ requests'[Len(requests) + 1] = accepted + 1
        /\ \A k \in 1..Len(requests) : requests'[k] = requests[k]
    BY <1>1, <2>1, AppendOne DEF PushRequest
  <2>3. Len(requests) \in Nat /\ accepted' = accepted + 1
    BY <1>1 DEF PushRequest
  <2>4. ASSUME NEW k \in 1..Len(requests') PROVE requests'[k] = accepted' - Len(requests') + k
    <3>1. CASE k = Len(requests) + 1
      BY <2>1, <2>2, <2>3, <3>1
    <3>2. CASE k # Len(requests) + 1
      <4>1. k \in 1..Len(requests)
        BY <2>2, <2>3, <3>2
      <4>2. requests'[k] = accepted - Len(requests) + k
        BY <2>2, <4>1
      <4>. QED BY <2>1, <2>2, <2>3, <4>1, <4>2
    <3>. QED BY <3>1, <3>2
  <2>. QED BY <2>4
<1>2. ASSUME NEW w \in WebWorkers, PopRequest(w) PROVE WebInOrder'
  <2>1. requests' \in Seq(1..MaxConnections) /\ Len(requests') = Len(requests) - 1
    BY <1>2 DEF PopRequest
  <2>2. \A k \in 1..Len(requests') : requests'[k] = requests[k + 1]
    BY <1>2 DEF PopRequest
  <2>. QED BY <1>2, <2>1, <2>2 DEF PopRequest, acceptVars
<1>3. CASE UNCHANGED <<accepted, requests>>
  BY <1>3
<1>4. ASSUME NEW w \in WebWorkers, WorkerStep(w) PROVE WebInOrder'
  BY <1>2, <1>3, <1>4 DEF WorkerStep, AskSize, LockWaiter, PopNothing, Serve, acceptVars
<1>5. CASE AcceptStep \/ UNCHANGED webVars
  BY <1>3, <1>5 DEF AcceptStep, AfterPush, UnlockWaiter, webVars, acceptVars
<1>. QED BY <1>1, <1>4, <1>5 DEF WebNext

LEMMA WebPlaces ==
  WebTypeOK /\ WebInOrder /\ HoldsWhileServing /\ WebOnePlace /\ [WebNext]_webVars => WebOnePlace'
<1>. SUFFICES ASSUME WebTypeOK, WebInOrder, HoldsWhileServing, WebOnePlace, [WebNext]_webVars
     PROVE  WebOnePlace'
  OBVIOUS
<1>. USE DEF WebTypeOK, Connections
<1>0. accepted \in Nat /\ Len(requests) \in Nat
  BY WebAssumption
<1>1. CASE PushRequest
  <2>1. accepted' - Len(requests') = accepted - Len(requests)
    BY <1>0, <1>1 DEF PushRequest
  <2>. QED BY <1>1, <2>1 DEF PushRequest, workerVars, WebOnePlace, Serving
<1>2. ASSUME NEW w \in WebWorkers, PopRequest(w) PROVE WebOnePlace'
  <2>. DEFINE c == Head(requests)
              n == accepted - Len(requests)
  <2>1. c = n + 1 /\ c \in 1..MaxConnections
    <3>1. c \in 1..MaxConnections /\ c = requests[1] /\ 1 \in 1..Len(requests)
      BY <1>2, HeadAndTail DEF PopRequest
    <3>. QED BY <1>0, <3>1 DEF WebInOrder
  <2>2. accepted' - Len(requests') = n + 1
    BY <1>0, <1>2 DEF PopRequest, acceptVars
  <2>3. n \in Nat
    <3>1. n + 1 \in 1..MaxConnections /\ n \in Int
      BY <1>0, <2>1
    <3>. QED BY <3>1, WebAssumption
  <2>4. 1..(n + 1) = 1..n \cup {c} /\ c \notin 1..n /\ c # 0
    BY <2>1, <2>3
  <2>5. serving[w] = 0 /\ serving' = [serving EXCEPT ![w] = c] /\ answered' = answered
    BY <1>2 DEF PopRequest, WorkerGoes, HoldsWhileServing
  <2>. HIDE DEF c, n
  <2>6. Serving' = Serving \cup {c}
    BY <2>4, <2>5 DEF Serving
  <2>7. 1..n = Serving \cup answered /\ Serving \cap answered = {}
    BY DEF WebOnePlace, n
  <2>8. 1..(n + 1) = Serving' \cup answered' /\ Serving' \cap answered' = {}
    BY <2>4, <2>5, <2>6, <2>7
  <2>9. ASSUME NEW u \in WebWorkers, NEW v \in WebWorkers, serving'[u] = serving'[v], serving'[u] # 0
        PROVE  u = v
    <3>1. \A x \in WebWorkers : serving[x] # c
      BY <2>4, <2>7 DEF Serving
    <3>. QED BY <2>5, <2>9, <3>1 DEF WebOnePlace
  <2>. QED BY <2>2, <2>8, <2>9 DEF WebOnePlace
<1>3. ASSUME NEW w \in WebWorkers, Serve(w) PROVE WebOnePlace'
  <2>1. serving[w] # 0 /\ serving' = [serving EXCEPT ![w] = 0] /\ answered' = answered \cup {serving[w]}
    BY <1>3 DEF Serve, WorkerGoes, HoldsWhileServing
  <2>2. Serving' = Serving \ {serving[w]} /\ serving[w] \in Serving
    BY <2>1 DEF Serving, WebOnePlace
  <2>3. UNCHANGED <<accepted, requests>>
    BY <1>3 DEF Serve, acceptVars
  <2>4. \A u, v \in WebWorkers : serving'[u] = serving'[v] /\ serving'[u] # 0 => u = v
    BY <2>1 DEF WebOnePlace
  <2>5. Serving' \cup answered' = Serving \cup answered /\ Serving' \cap answered' = {}
    BY <2>1, <2>2 DEF WebOnePlace
  <2>. QED BY <2>3, <2>4, <2>5 DEF WebOnePlace
<1>4. CASE UNCHANGED <<accepted, requests, serving, answered>>
  BY <1>4 DEF WebOnePlace, Serving
<1>5. ASSUME NEW w \in WebWorkers, WorkerStep(w) PROVE WebOnePlace'
  BY <1>2, <1>3, <1>4, <1>5 DEF WorkerStep, AskSize, LockWaiter, PopNothing, acceptVars
<1>6. CASE AcceptStep \/ UNCHANGED webVars
  BY <1>4, <1>6 DEF AcceptStep, AfterPush, UnlockWaiter, webVars, acceptVars, workerVars
<1>. QED BY <1>1, <1>5, <1>6 DEF WebNext

(* What a worker takes or answers is with it no longer or from then on.    *)
LEMMA WebTakes ==
  ASSUME WebTypeOK, HoldsWhileServing, WebOnePlace, NEW w \in WebWorkers
  PROVE  /\ PopRequest(w) => Serving' = Serving \cup {Head(requests)}
         /\ Serve(w) => serving[w] \in Serving /\ Serving' = Serving \ {serving[w]}
<1>1. ASSUME PopRequest(w) PROVE Serving' = Serving \cup {Head(requests)}
  <2>. DEFINE c == Head(requests)
  <2>1. c \in 1..MaxConnections
    BY <1>1, HeadAndTail DEF PopRequest, WebTypeOK, Connections
  <2>2. c # 0
    BY <2>1, WebAssumption
  <2>3. serving[w] = 0 /\ serving' = [serving EXCEPT ![w] = c] /\ serving \in [WebWorkers -> Connections \cup {0}]
    BY <1>1 DEF PopRequest, WorkerGoes, HoldsWhileServing, WebTypeOK
  <2>. HIDE DEF c
  <2>. QED BY <2>2, <2>3 DEF Serving, c
<1>2. ASSUME Serve(w) PROVE serving[w] \in Serving /\ Serving' = Serving \ {serving[w]}
  <2>1. serving[w] # 0 /\ serving' = [serving EXCEPT ![w] = 0] /\ serving \in [WebWorkers -> Connections \cup {0}]
    BY <1>2 DEF Serve, WorkerGoes, HoldsWhileServing, WebTypeOK
  <2>. QED BY <2>1 DEF Serving, WebOnePlace
<1>. QED BY <1>1, <1>2

LEMMA WebLooks == WebTypeOK /\ SomebodyLooks /\ [WebNext]_webVars => SomebodyLooks'
<1>. SUFFICES ASSUME WebTypeOK, SomebodyLooks, [WebNext]_webVars PROVE SomebodyLooks' OBVIOUS
<1>. USE DEF SomebodyLooks, WebTypeOK
<1>1. CASE PushRequest
  <2>1. CASE requests = <<>>
    BY <1>1, <2>1 DEF PushRequest
  <2>2. CASE requests # <<>>
    BY <1>1, <2>2 DEF PushRequest, workerVars
  <2>. QED BY <2>1, <2>2
<1>2. CASE AcceptStep
  BY <1>2 DEF AcceptStep, AfterPush, Wakes, UnlockWaiter, workerVars
<1>3. ASSUME NEW w \in WebWorkers, WorkerStep(w) PROVE SomebodyLooks'
  <2>1. CASE requests' = <<>>
    BY <2>1
  <2>2. CASE requests' # <<>>
    <3>1. requests # <<>>
      BY <1>3, <2>2 DEF WorkerStep, AskSize, LockWaiter, PopRequest, PopNothing, Serve
    <3>2. worker_pc'[w] # "wait"
      BY <1>3, <3>1 DEF WorkerStep, AskSize, LockWaiter, PopRequest, PopNothing, Serve, WorkerGoes
    <3>. QED BY <3>2
  <2>. QED BY <2>1, <2>2
<1>4. CASE UNCHANGED webVars
  BY <1>4 DEF webVars, acceptVars, workerVars
<1>. QED BY <1>1, <1>2, <1>3, <1>4 DEF WebNext

LEMMA WebInvHolds == WebSpec => []WebInv
<1>1. WebInv /\ [WebNext]_webVars => WebInv'
  BY WebTypes, WebHolds, WebOrder, WebPlaces, WebLooks DEF WebInv
<1>. QED BY WebInitInv, <1>1, PTL DEF WebSpec

(* The deque and its signal lose no connection: it is taken in order, held *)
(* by one worker, answered once, and never waits with every worker at a    *)
(* locked mutex (pushRequest, popRequest).                                 *)
THEOREM ConnectionsAreKept == WebSpec => []WebKept
<1>1. WebInv => WebKept
  BY DEF WebInv, WebKept, WebNotStuck, SomebodyLooks
<1>. QED BY WebInvHolds, <1>1, PTL

LEMMA WebQueueStep == WebInv /\ [WebNext]_webVars => [WebQueue!JobNext]_(WebQueue!jobVars)
<1>. SUFFICES ASSUME WebInv, [WebNext]_webVars PROVE [WebQueue!JobNext]_(WebQueue!jobVars)
  OBVIOUS
<1>1. CASE PushRequest
  <2>1. /\ accepted \in Nat /\ accepted + 1 \in Connections /\ Len(requests) \in Nat
        /\ DOMAIN requests = 1..Len(requests)
    BY <1>1, WebAssumption DEF PushRequest, WebInv, WebTypeOK, Connections
  <2>2. accepted + 1 \notin {requests[k] : k \in DOMAIN requests}
    BY <2>1 DEF WebInv, WebInOrder
  <2>3. accepted + 1 \notin Serving \cup answered
    BY <2>1 DEF WebInv, WebOnePlace
  <2>4. accepted + 1 \notin WebQueue!Known
    BY <2>2, <2>3 DEF WebQueue!Known, WebQueue!ToSet
  <2>5. requests' = Append(requests, accepted + 1) /\ answered' = answered /\ Serving' = Serving
    BY <1>1 DEF PushRequest, workerVars, Serving
  <2>6. WebQueue!Submit(accepted + 1)
    BY <2>4, <2>5 DEF WebQueue!Submit
  <2>. QED BY <2>1, <2>6 DEF WebQueue!JobNext
<1>2. ASSUME NEW w \in WebWorkers, PopRequest(w) PROVE WebQueue!JobNext
  <2>1. requests # <<>> /\ requests' = Tail(requests) /\ answered' = answered
    BY <1>2 DEF PopRequest
  <2>2. Serving' = Serving \cup {Head(requests)}
    BY <1>2, WebTakes DEF WebInv
  <2>. QED BY <2>1, <2>2 DEF WebQueue!JobNext, WebQueue!Begin
<1>3. ASSUME NEW w \in WebWorkers, Serve(w) PROVE WebQueue!JobNext
  <2>1. requests' = requests /\ answered' = answered \cup {serving[w]}
    BY <1>3 DEF Serve
  <2>2. serving[w] \in Serving /\ Serving' = Serving \ {serving[w]}
    BY <1>3, WebTakes DEF WebInv
  <2>3. serving[w] \in Connections
    BY <2>2 DEF WebInv, WebTypeOK, Serving
  <2>. QED BY <2>1, <2>2, <2>3 DEF WebQueue!JobNext, WebQueue!End
<1>4. ASSUME UNCHANGED <<requests, serving, answered>> PROVE UNCHANGED WebQueue!jobVars
  BY <1>4 DEF WebQueue!jobVars, Serving
<1>5. CASE AcceptStep \/ UNCHANGED webVars
  BY <1>4, <1>5 DEF AcceptStep, AfterPush, UnlockWaiter, webVars, workerVars
<1>6. ASSUME NEW w \in WebWorkers, WorkerStep(w) PROVE [WebQueue!JobNext]_(WebQueue!jobVars)
  BY <1>2, <1>3, <1>4, <1>6 DEF WorkerStep, AskSize, LockWaiter, PopNothing
<1>. QED BY <1>1, <1>5, <1>6 DEF WebNext

(* The server implements JobQueue with nothing lost: connections are begun *)
(* in the order they came and each ends answered, however size, mutex and  *)
(* deque are looked at (pushRequest, popRequest, run).                     *)
THEOREM WebImplementsQueue == WebSpec => WebRefines
<1>1. WebInit => WebQueue!JobInit
  BY DEF WebInit, WebQueue!JobInit, Serving
<1>. QED BY <1>1, WebInvHolds, WebQueueStep, PTL DEF WebSpec, WebRefines, WebQueue!JobSpec
=============================================================================
