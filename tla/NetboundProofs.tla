--------------------------- MODULE NetboundProofs ---------------------------
(* What is proved of the fence for every number of callers and workers.      *)
EXTENDS Netbound, FiniteSetTheorems, TLAPS

\* Types, but for the bound on slots, which rests on the accounting.
Shape ==
  /\ pc \in [Caller -> CallerLabels]
  /\ calls \in [Caller -> 0..MaxCalls]
  /\ late \in [Caller -> BOOLEAN]
  /\ slots \in Nat
  /\ lock \in Caller \cup {None}
  /\ threads \subseteq Worker
  /\ jobs \in Seq(Job)
  /\ future \in [Job -> FutureStates]
  /\ worker \in [Worker -> WorkerLabels]
  /\ job \in [Worker -> Job \cup {None}]

\* A caller that is in a call has a job to its name.
Calling == \A c \in Caller : pc[c] # "idle" => calls[c] >= 1

\* A worker that is busy holds a job.
Holding == \A w \in Worker : worker[w] # "idle" => job[w] \in Job

\* The pool is up before anything is queued.
PoolIsUp ==
  /\ \A c \in Caller : pc[c] = "submit" => threads = Worker
  /\ jobs # <<>> => threads = Worker

\* A future is pending only while its caller waits for it.
PendingIsAwaited ==
  \A j \in Job : future[j] = "pending" =>
    calls[j[1]] = j[2] /\ pc[j[1]] \in {"waiting", "leaving"}

Inv == Shape /\ Calling /\ Holding /\ SlotsAccounted /\ PoolIsUp /\ PendingIsAwaited

LEMMA CurrentIsJob ==
  ASSUME Shape, Calling, NEW c \in Caller, pc[c] # "idle"
  PROVE  Current(c) \in Job
BY CallAssumption DEF Shape, Calling, Current, Job

\* The sets that the accounting counts are finite.
LEMMA Counts ==
  /\ IsFiniteSet(Preparing) /\ Cardinality(Preparing) \in Nat
  /\ IsFiniteSet(Busy) /\ Cardinality(Busy) \in Nat
  /\ MaxWorkers \in Nat
<1>1. IsFiniteSet(Preparing) /\ IsFiniteSet(Busy)
  BY WorkerAssumption, FS_Subset DEF Preparing, Busy
<1> QED
  BY <1>1, WorkerAssumption, FS_CardinalityType DEF MaxWorkers

LEMMA Enters ==
  ASSUME NEW S, IsFiniteSet(S), NEW x, x \notin S
  PROVE  Cardinality(S \cup {x}) = Cardinality(S) + 1
BY FS_AddElement

LEMMA Leaves ==
  ASSUME NEW S, IsFiniteSet(S), NEW x \in S
  PROVE  Cardinality(S \ {x}) = Cardinality(S) - 1
BY FS_RemoveElement

LEMMA CallerShape ==
  ASSUME Inv, NEW c \in Caller, Call(c) \/ Expire(c) \/ CallerStep(c)
  PROVE  Shape'
<1> USE DEF Inv, Shape
<1>1. CASE Call(c)
  BY <1>1, CallAssumption DEF Call, Go, CallerLabels
<1>2. CASE Expire(c)
  BY <1>2 DEF Expire
<1>3. CASE Admit(c) \/ Reject(c) \/ Lock(c)
  <2>1. CASE Admit(c)
    BY <2>1 DEF Admit, Go, CallerLabels
  <2>2. CASE Reject(c)
    BY <2>2 DEF Reject, Go, CallerLabels
  <2>3. CASE Lock(c)
    BY <2>3 DEF Lock, Go, CallerLabels
  <2> QED
    BY <1>3, <2>1, <2>2, <2>3
<1>4. CASE LockTimesOut(c) \/ StartupFails(c) \/ SubmitTimesOut(c)
  <2>1. CASE LockTimesOut(c)
    BY <2>1 DEF LockTimesOut, GiveBack, Go, CallerLabels
  <2>2. CASE StartupFails(c)
    BY <2>2 DEF StartupFails, GiveBack, Go, CallerLabels
  <2>3. CASE SubmitTimesOut(c)
    BY <2>3 DEF SubmitTimesOut, GiveBack, Go, CallerLabels
  <2> QED
    BY <1>4, <2>1, <2>2, <2>3
<1>5. CASE StartThread(c)
  BY <1>5 DEF StartThread
<1>6. CASE Started(c) \/ Leave(c)
  BY <1>6 DEF Started, Leave, Go, CallerLabels
<1>7. CASE Submit(c)
  <2>1. Current(c) \in Job
    BY <1>7, CurrentIsJob DEF Submit
  <2> QED
    BY <1>7, <2>1 DEF Submit, Go, CallerLabels, FutureStates
<1>8. CASE Cancel(c)
  <2>1. Current(c) \in Job
    BY <1>8, CurrentIsJob DEF Cancel
  <2> QED
    BY <1>8, <2>1 DEF Cancel, Go, CallerLabels, FutureStates
<1> QED
  BY <1>1, <1>2, <1>3, <1>4, <1>5, <1>6, <1>7, <1>8 DEF CallerStep

LEMMA WorkerShape ==
  ASSUME Inv, NEW w \in Worker, WorkerStep(w) \/ Finish(w)
  PROVE  Shape'
<1> USE DEF Inv, Shape
<1>1. CASE Take(w)
  <2>1. Head(jobs) \in Job /\ Tail(jobs) \in Seq(Job)
    BY <1>1 DEF Take
  <2> QED
    BY <1>1, <2>1 DEF Take, WorkerLabels
<1>2. CASE Begin(w)
  BY <1>2 DEF Begin, Holding, WorkerLabels, FutureStates
<1>3. CASE Finish(w)
  BY <1>3 DEF Finish, Holding, WorkerLabels, FutureStates
<1>4. CASE Release(w)
  BY <1>4 DEF Release, WorkerLabels
<1> QED
  BY <1>1, <1>2, <1>3, <1>4 DEF WorkerStep

\* The accounting, action by action.
LEMMA CallerAccounts ==
  ASSUME Inv, NEW c \in Caller, Call(c) \/ Expire(c) \/ CallerStep(c)
  PROVE  SlotsAccounted'
<1> USE DEF Inv, Shape
<1>0. /\ IsFiniteSet(Preparing) /\ Cardinality(Preparing) \in Nat
      /\ Cardinality(Busy) \in Nat /\ MaxWorkers \in Nat /\ Len(jobs) \in Nat
  BY Counts
<1>1. CASE Call(c) \/ Expire(c) \/ Reject(c) \/ Lock(c) \/ StartThread(c) \/ Started(c)
           \/ Leave(c) \/ Cancel(c)
  <2>1. UNCHANGED <<slots, jobs, worker>>
    BY <1>1 DEF Call, Expire, Reject, Lock, StartThread, Started, Leave, Cancel
  <2>2. Preparing' = Preparing
    BY <1>1 DEF Call, Expire, Reject, Lock, StartThread, Started, Leave, Cancel, Go, Preparing
  <2>3. Busy' = Busy
    BY <2>1 DEF Busy
  <2> QED
    BY <2>1, <2>2, <2>3 DEF SlotsAccounted, MaxWorkers
<1>2. CASE Admit(c)
  <2>1. Preparing' = Preparing \cup {c} /\ c \notin Preparing
    BY <1>2 DEF Admit, Go, Preparing
  <2>2. Cardinality(Preparing') = Cardinality(Preparing) + 1
    BY <1>0, <2>1, Enters
  <2>3. Busy' = Busy /\ slots' = slots - 1 /\ jobs' = jobs
    BY <1>2 DEF Admit, Busy
  <2> QED
    BY <1>0, <2>2, <2>3 DEF SlotsAccounted, MaxWorkers
<1>3. CASE LockTimesOut(c) \/ StartupFails(c) \/ SubmitTimesOut(c)
  <2>1. Preparing' = Preparing \ {c} /\ c \in Preparing
    BY <1>3 DEF LockTimesOut, StartupFails, SubmitTimesOut, GiveBack, Go, Preparing
  <2>2. Cardinality(Preparing') = Cardinality(Preparing) - 1
    BY <1>0, <2>1, Leaves
  <2>3. Busy' = Busy /\ slots' = slots + 1 /\ jobs' = jobs
    BY <1>3 DEF LockTimesOut, StartupFails, SubmitTimesOut, GiveBack, Busy
  <2> QED
    BY <1>0, <2>2, <2>3 DEF SlotsAccounted, MaxWorkers
<1>4. CASE Submit(c)
  <2>1. Preparing' = Preparing \ {c} /\ c \in Preparing
    BY <1>4 DEF Submit, Go, Preparing
  <2>2. Cardinality(Preparing') = Cardinality(Preparing) - 1
    BY <1>0, <2>1, Leaves
  <2>3. Current(c) \in Job
    BY <1>4, CurrentIsJob DEF Submit
  <2>4. Busy' = Busy /\ slots' = slots /\ Len(jobs') = Len(jobs) + 1
    BY <1>4, <2>3 DEF Submit, Busy
  <2> QED
    BY <1>0, <2>2, <2>4 DEF SlotsAccounted, MaxWorkers
<1> QED
  BY <1>1, <1>2, <1>3, <1>4 DEF CallerStep

LEMMA WorkerAccounts ==
  ASSUME Inv, NEW w \in Worker, WorkerStep(w) \/ Finish(w)
  PROVE  SlotsAccounted'
<1> USE DEF Inv, Shape
<1>0. /\ IsFiniteSet(Busy) /\ Cardinality(Preparing) \in Nat
      /\ Cardinality(Busy) \in Nat /\ MaxWorkers \in Nat /\ Len(jobs) \in Nat
  BY Counts
<1>1. Preparing' = Preparing
  BY DEF WorkerStep, Take, Begin, Finish, Release, Preparing
<1>2. CASE Take(w)
  <2>1. Busy' = Busy \cup {w} /\ w \notin Busy
    BY <1>2 DEF Take, Busy
  <2>2. Cardinality(Busy') = Cardinality(Busy) + 1
    BY <1>0, <2>1, Enters
  <2>3. slots' = slots /\ Len(jobs') = Len(jobs) - 1
    BY <1>2 DEF Take
  <2> QED
    BY <1>0, <1>1, <2>2, <2>3 DEF SlotsAccounted, MaxWorkers
<1>3. CASE Begin(w) \/ Finish(w)
  <2>1. Busy' = Busy /\ slots' = slots /\ jobs' = jobs
    BY <1>3 DEF Begin, Finish, Busy
  <2> QED
    BY <1>1, <2>1 DEF SlotsAccounted, MaxWorkers
<1>4. CASE Release(w)
  <2>1. Busy' = Busy \ {w} /\ w \in Busy
    BY <1>4 DEF Release, Busy
  <2>2. Cardinality(Busy') = Cardinality(Busy) - 1
    BY <1>0, <2>1, Leaves
  <2>3. slots' = slots + 1 /\ jobs' = jobs
    BY <1>4 DEF Release
  <2> QED
    BY <1>0, <1>1, <2>2, <2>3 DEF SlotsAccounted, MaxWorkers
<1> QED
  BY <1>2, <1>3, <1>4 DEF WorkerStep

\* The rest of the invariant, and what a step starts.
LEMMA CallerKeeps ==
  ASSUME Inv, NEW c \in Caller, Call(c) \/ Expire(c) \/ CallerStep(c)
  PROVE  /\ Calling' /\ Holding' /\ PoolIsUp' /\ PendingIsAwaited'
         /\ \A j \in Job : future[j] # "running" => future'[j] # "running"
<1> USE DEF Inv, Shape
<1>1. Calling'
  BY CallAssumption DEF Calling, CallerStep, Call, Expire, Admit, Reject, Lock, LockTimesOut,
     StartThread, StartupFails, Started, Submit, SubmitTimesOut, Leave, Cancel, GiveBack, Go
<1>2. Holding'
  BY DEF Holding, CallerStep, Call, Expire, Admit, Reject, Lock, LockTimesOut,
     StartThread, StartupFails, Started, Submit, SubmitTimesOut, Leave, Cancel
<1>3. PoolIsUp'
  <2>1. CASE Submit(c)
    BY <2>1 DEF PoolIsUp, Submit, Go
  <2>2. CASE StartThread(c)
    BY <2>2 DEF PoolIsUp, StartThread
  <2>3. CASE ~Submit(c) /\ ~StartThread(c)
    <3>1. UNCHANGED <<threads, jobs>>
      BY <2>3 DEF CallerStep, Call, Expire, Admit, Reject, Lock, LockTimesOut,
         StartupFails, Started, SubmitTimesOut, Leave, Cancel
    <3>2. \A d \in Caller : pc'[d] = "submit" => pc[d] = "submit" \/ threads = Worker
      BY <2>3 DEF CallerStep, Call, Expire, Admit, Reject, Lock, LockTimesOut,
         StartupFails, Started, SubmitTimesOut, Leave, Cancel, GiveBack, Go
    <3> QED
      BY <3>1, <3>2 DEF PoolIsUp
  <2> QED
    BY <2>1, <2>2, <2>3
<1>4. \A j \in Job : j[1] \in Caller /\ j = <<j[1], j[2]>>
  BY DEF Job
<1>5. CASE Submit(c)
  <2>1. Current(c) \in Job /\ Current(c)[1] = c /\ Current(c)[2] = calls[c]
    BY <1>5, CurrentIsJob DEF Submit, Current
  <2>2. \A j \in Job : future'[j] = IF j = Current(c) THEN "pending" ELSE future[j]
    BY <1>5 DEF Submit
  <2>3. pc' = [pc EXCEPT ![c] = "waiting"] /\ calls' = calls /\ pc[c] = "submit"
    BY <1>5 DEF Submit, Go
  <2>4. PendingIsAwaited'
    BY <1>4, <2>1, <2>2, <2>3 DEF PendingIsAwaited
  <2> QED
    BY <1>1, <1>2, <1>3, <2>2, <2>4
<1>6. CASE Cancel(c)
  <2>1. Current(c) \in Job /\ Current(c) = <<c, calls[c]>>
    BY <1>6, CurrentIsJob DEF Cancel, Current
  <2>2. \A j \in Job : /\ future'[j] = "pending" => future[j] = "pending" /\ j # Current(c)
                       /\ future'[j] = "running" => future[j] = "running"
    BY <1>6, <2>1 DEF Cancel
  <2>3. pc' = [pc EXCEPT ![c] = "idle"] /\ calls' = calls
    BY <1>6 DEF Cancel, Go
  <2>4. PendingIsAwaited'
    BY <1>4, <2>1, <2>2, <2>3 DEF PendingIsAwaited
  <2> QED
    BY <1>1, <1>2, <1>3, <2>2, <2>4
<1>7. CASE ~Submit(c) /\ ~Cancel(c)
  <2>1. future' = future
    BY <1>7 DEF CallerStep, Call, Expire, Admit, Reject, Lock, LockTimesOut,
       StartThread, StartupFails, Started, SubmitTimesOut, Leave
  <2>2. \A d \in Caller : pc[d] \in {"waiting", "leaving"} =>
          pc'[d] \in {"waiting", "leaving"} /\ calls'[d] = calls[d]
    BY <1>7 DEF CallerStep, Call, Expire, Admit, Reject, Lock, LockTimesOut,
       StartThread, StartupFails, Started, SubmitTimesOut, Leave, GiveBack, Go
  <2>3. PendingIsAwaited'
    BY <1>4, <2>1, <2>2 DEF PendingIsAwaited
  <2> QED
    BY <1>1, <1>2, <1>3, <2>1, <2>3
<1> QED
  BY <1>5, <1>6, <1>7

LEMMA WorkerKeeps ==
  ASSUME Inv, NEW w \in Worker, WorkerStep(w) \/ Finish(w)
  PROVE  /\ Calling' /\ Holding' /\ PoolIsUp' /\ PendingIsAwaited'
         /\ \A j \in Job : future[j] # "running" /\ future'[j] = "running" =>
              future[j] = "pending"
<1> USE DEF Inv, Shape
<1>1. UNCHANGED <<pc, calls, threads>>
  BY DEF WorkerStep, Take, Begin, Finish, Release
<1>2. Holding'
  <2>1. jobs # <<>> => Head(jobs) \in Job
    OBVIOUS
  <2> QED
    BY <2>1 DEF Holding, WorkerStep, Take, Begin, Finish, Release
<1>3. jobs' # <<>> => jobs # <<>>
  BY DEF WorkerStep, Take, Begin, Finish, Release
<1>4. worker[w] # "idle" => job[w] \in Job
  BY DEF Holding
<1>5. \A j \in Job : /\ future'[j] = "pending" => future[j] = "pending"
                     /\ future[j] # "running" /\ future'[j] = "running" =>
                          future[j] = "pending"
  BY <1>4 DEF WorkerStep, Take, Begin, Finish, Release
<1> QED
  BY <1>1, <1>2, <1>3, <1>5 DEF Calling, PoolIsUp, PendingIsAwaited

LEMMA Invariance == Spec => []Inv
<1>1. Init => Inv
  <2> SUFFICES ASSUME Init PROVE Inv
    OBVIOUS
  <2>1. Preparing = {} /\ Busy = {}
    BY DEF Init, Preparing, Busy
  <2>2. Cardinality({}) = 0
    BY FS_EmptySet
  <2>3. SlotsAccounted
    BY <2>1, <2>2, Counts DEF Init, SlotsAccounted
  <2>4. Shape
    BY Counts, CallAssumption DEF Init, Shape, CallerLabels, WorkerLabels, FutureStates
  <2> QED
    BY <2>3, <2>4 DEF Init, Inv, Calling, Holding, PoolIsUp, PendingIsAwaited
<1>2. Inv /\ [Next]_vars => Inv'
  <2> SUFFICES ASSUME Inv, [Next]_vars PROVE Inv'
    OBVIOUS
  <2>1. ASSUME NEW c \in Caller, Call(c) \/ Expire(c) \/ CallerStep(c) PROVE Inv'
    BY <2>1, CallerShape, CallerAccounts, CallerKeeps DEF Inv
  <2>2. ASSUME NEW w \in Worker, WorkerStep(w) \/ Finish(w) PROVE Inv'
    BY <2>2, WorkerShape, WorkerAccounts, WorkerKeeps DEF Inv
  <2>3. CASE UNCHANGED vars
    BY <2>3 DEF vars, Inv, Shape, Calling, Holding, SlotsAccounted, Preparing, Busy,
       PoolIsUp, PendingIsAwaited, MaxWorkers
  <2> QED
    BY <2>1, <2>2, <2>3 DEF Next
<1> QED
  BY <1>1, <1>2, PTL DEF Spec

\* No slot is lost or released twice, on any path through run and _work.
THEOREM NoSlotIsLost == Spec => []SlotsAccounted
<1>1. Inv => SlotsAccounted
  BY DEF Inv
<1> QED
  BY <1>1, Invariance, PTL

\* Type correctness; the bound on slots is BoundedSemaphore's.
THEOREM TypeCorrect == Spec => []TypeOK
<1>1. Inv => TypeOK
  <2> SUFFICES ASSUME Inv PROVE TypeOK
    OBVIOUS
  <2>1. slots \in 0..MaxWorkers
    BY Counts DEF Inv, Shape, SlotsAccounted
  <2> QED
    BY <2>1 DEF Inv, Shape, TypeOK
<1> QED
  BY <1>1, Invariance, PTL

\* However many operations hang, a job that is queued has a worker free for it.
THEOREM EveryJobHasRoom == Spec => []RoomForEveryJob
<1>1. Inv => RoomForEveryJob
  <2> SUFFICES ASSUME Inv PROVE RoomForEveryJob
    OBVIOUS
  <2>1. slots \in Nat /\ Len(jobs) \in Nat
    BY DEF Inv, Shape
  <2>2. Busy \subseteq Worker
    BY DEF Busy
  <2>3. Cardinality(Worker \ Busy) = MaxWorkers - Cardinality(Busy)
    <3>1. Worker \cap Busy = Busy
      BY <2>2
    <3>2. Cardinality(Worker \ Busy)
            = Cardinality(Worker) - Cardinality(Worker \cap Busy)
      BY WorkerAssumption, FS_Difference
    <3> QED
      BY <3>1, <3>2 DEF MaxWorkers
  <2>4. Cardinality(Preparing) + Len(jobs) <= MaxWorkers
    BY <2>1, Counts DEF Inv, SlotsAccounted
  <2>5. Len(jobs) <= MaxWorkers - Cardinality(Busy)
    BY <2>1, Counts, SMTT(20) DEF Inv, SlotsAccounted
  <2> QED
    BY <2>3, <2>4, <2>5 DEF Inv, PoolIsUp, RoomForEveryJob
<1> QED
  BY <1>1, Invariance, PTL

\* No operation starts after its caller has come back.
THEOREM NoAbandonedStart == Spec => AbandonedNeverStarts
<1> DEFINE A == \A j \in Job : future[j] # "running" /\ future'[j] = "running" =>
                  calls[j[1]] = j[2] /\ pc[j[1]] \in {"waiting", "leaving"}
<1>1. Inv /\ [Next]_vars => A
  <2> SUFFICES ASSUME Inv, [Next]_vars, NEW j \in Job,
                      future[j] # "running", future'[j] = "running"
               PROVE  calls[j[1]] = j[2] /\ pc[j[1]] \in {"waiting", "leaving"}
    OBVIOUS
  <2>1. future[j] = "pending"
    BY CallerKeeps, WorkerKeeps DEF Next, vars
  <2> QED
    BY <2>1 DEF Inv, PendingIsAwaited
<1> QED
  BY <1>1, Invariance, PTL DEF Spec, AbandonedNeverStarts
=============================================================================
