------------------------------ MODULE Netbound ------------------------------
(***************************************************************************)
(* The fence around blocking HTTP reads (collector/netbound.py).           *)
(*                                                                         *)
(* A caller hands its operation to a fixed pool of threads and waits for   *)
(* it no longer than its timeout.  The operation cannot be interrupted: a  *)
(* resolver that never answers keeps its worker and its admission slot for *)
(* good, and the caller leaves without it.  Callers race for slots, for    *)
(* the lock under which the pool is started, and against their deadlines;  *)
(* an abandoned operation races the worker that would start it.            *)
(*                                                                         *)
(* Time is abstracted to whether a caller's deadline has passed.  What an  *)
(* operation returns or raises is left out: both end it the same way.      *)
(***************************************************************************)
EXTENDS Naturals, Sequences, FiniteSets

CONSTANTS
  Caller,    \* threads that call bounded_call
  Worker,    \* the pool; MAX_WORKERS of them
  MaxCalls,  \* bound: calls of one caller
  None       \* no caller, no job

Job == Caller \X (1..MaxCalls)

ASSUME WorkerAssumption == IsFiniteSet(Worker) /\ Worker # {} /\ IsFiniteSet(Caller)
ASSUME CallAssumption == MaxCalls \in Nat
ASSUME NoneAssumption == None \notin Caller /\ None \notin Job

VARIABLES
  pc,       \* pc[c]: where caller c is in run
  calls,    \* calls[c]: calls made so far; <<c, calls[c]>> is its current job
  late,     \* late[c]: the deadline of c's current call has passed
  slots,    \* BoundedSemaphore(MAX_WORKERS)
  lock,     \* the caller that is starting the pool
  threads,  \* the workers started
  jobs,     \* the queue
  future,   \* future[j]: state of the future of job j
  worker,   \* worker[w]: where worker w is in _work
  job       \* job[w]: the job it holds

vars == <<pc, calls, late, slots, lock, threads, jobs, future, worker, job>>

MaxWorkers == Cardinality(Worker)
Current(c) == <<c, calls[c]>>

CallerLabels == {"idle", "admission", "lock", "start", "submit", "waiting", "leaving"}
WorkerLabels == {"idle", "taken", "running", "done"}
FutureStates == {"none", "pending", "running", "cancelled", "notified", "finished"}

TypeOK ==
  /\ pc \in [Caller -> CallerLabels]
  /\ calls \in [Caller -> 0..MaxCalls]
  /\ late \in [Caller -> BOOLEAN]
  /\ slots \in 0..MaxWorkers
  /\ lock \in Caller \cup {None}
  /\ threads \subseteq Worker
  /\ jobs \in Seq(Job)
  /\ future \in [Job -> FutureStates]
  /\ worker \in [Worker -> WorkerLabels]
  /\ job \in [Worker -> Job \cup {None}]

Init ==
  /\ pc = [c \in Caller |-> "idle"]
  /\ calls = [c \in Caller |-> 0]
  /\ late = [c \in Caller |-> FALSE]
  /\ slots = MaxWorkers
  /\ lock = None
  /\ threads = {}
  /\ jobs = <<>>
  /\ future = [j \in Job |-> "none"]
  /\ worker = [w \in Worker |-> "idle"]
  /\ job = [w \in Worker |-> None]

-----------------------------------------------------------------------------
Go(c, label) == pc' = [pc EXCEPT ![c] = label]

\* A call with a timeout that is finite and positive; any other raises at once.
Call(c) ==
  /\ pc[c] = "idle" /\ calls[c] < MaxCalls
  /\ calls' = [calls EXCEPT ![c] = @ + 1]
  /\ late' = [late EXCEPT ![c] = FALSE]
  /\ Go(c, "admission")
  /\ UNCHANGED <<slots, lock, threads, jobs, future, worker, job>>

\* The deadline of c's call passes.
Expire(c) ==
  /\ pc[c] # "idle" /\ ~late[c]
  /\ late' = [late EXCEPT ![c] = TRUE]
  /\ UNCHANGED <<pc, calls, slots, lock, threads, jobs, future, worker, job>>

\* slots.acquire(timeout): it gives up only if there is no slot at the deadline.
Admit(c) ==
  /\ pc[c] = "admission" /\ slots > 0
  /\ slots' = slots - 1
  /\ Go(c, "lock")
  /\ UNCHANGED <<calls, late, lock, threads, jobs, future, worker, job>>

Reject(c) ==
  /\ pc[c] = "admission" /\ slots = 0 /\ late[c]
  /\ Go(c, "idle")
  /\ UNCHANGED <<calls, late, slots, lock, threads, jobs, future, worker, job>>

\* lock.acquire with what is left of the timeout.
Lock(c) ==
  /\ pc[c] = "lock" /\ lock = None
  /\ lock' = c
  /\ Go(c, "start")
  /\ UNCHANGED <<calls, late, slots, threads, jobs, future, worker, job>>

\* The finally clause of the submission: the caller raises and gives its slot
\* back.
GiveBack(c) ==
  /\ slots' = slots + 1
  /\ Go(c, "idle")

LockTimesOut(c) ==
  /\ pc[c] = "lock" /\ lock # None /\ late[c]
  /\ GiveBack(c)
  /\ UNCHANGED <<calls, late, lock, threads, jobs, future, worker, job>>

\* Lazy startup of the fixed pool, one thread per turn of the loop.
StartThread(c) ==
  /\ pc[c] = "start" /\ ~late[c]
  /\ \E w \in Worker \ threads : threads' = threads \cup {w}
  /\ UNCHANGED <<pc, calls, late, slots, lock, jobs, future, worker, job>>

\* The deadline passes during startup, or no thread can be started.
StartupFails(c) ==
  /\ pc[c] = "start" /\ threads # Worker
  /\ lock' = None
  /\ GiveBack(c)
  /\ UNCHANGED <<calls, late, threads, jobs, future, worker, job>>

\* Mutant: one started thread is taken for a started pool.
AnyThreadStarted(c) ==
  /\ pc[c] = "start" /\ threads # {}
  /\ lock' = None
  /\ Go(c, "submit")
  /\ UNCHANGED <<calls, late, slots, threads, jobs, future, worker, job>>

Started(c) ==
  /\ pc[c] = "start" /\ threads = Worker
  /\ lock' = None
  /\ Go(c, "submit")
  /\ UNCHANGED <<calls, late, slots, threads, jobs, future, worker, job>>

\* jobs.put_nowait; that it never raises Full is part of RoomForEveryJob.
Submit(c) ==
  /\ pc[c] = "submit" /\ ~late[c]
  /\ jobs' = Append(jobs, Current(c))
  /\ future' = [future EXCEPT ![Current(c)] = "pending"]
  /\ Go(c, "waiting")
  /\ UNCHANGED <<calls, late, slots, lock, threads, worker, job>>

SubmitTimesOut(c) ==
  /\ pc[c] = "submit" /\ late[c]
  /\ GiveBack(c)
  /\ UNCHANGED <<calls, late, lock, threads, jobs, future, worker, job>>

\* Mutant: the caller waits for the result without a timeout.
LeaveWithResult(c) ==
  /\ pc[c] = "waiting" /\ future[Current(c)] = "finished"
  /\ Go(c, "leaving")
  /\ UNCHANGED <<calls, late, slots, lock, threads, jobs, future, worker, job>>

\* future.result(timeout) returns or raises.
Leave(c) ==
  /\ pc[c] = "waiting"
  /\ future[Current(c)] = "finished" \/ late[c]
  /\ Go(c, "leaving")
  /\ UNCHANGED <<calls, late, slots, lock, threads, jobs, future, worker, job>>

\* future.cancel(), after the result as after the timeout: only a pending future
\* is cancelled.
Cancel(c) ==
  /\ pc[c] = "leaving"
  /\ future' = [future EXCEPT ![Current(c)] = IF @ = "pending" THEN "cancelled" ELSE @]
  /\ Go(c, "idle")
  /\ UNCHANGED <<calls, late, slots, lock, threads, jobs, worker, job>>

-----------------------------------------------------------------------------
\* jobs.get()
Take(w) ==
  /\ w \in threads /\ worker[w] = "idle" /\ jobs # <<>>
  /\ job' = [job EXCEPT ![w] = Head(jobs)]
  /\ jobs' = Tail(jobs)
  /\ worker' = [worker EXCEPT ![w] = "taken"]
  /\ UNCHANGED <<pc, calls, late, slots, lock, threads, future>>

\* Mutant: the worker does not ask whether the future was cancelled.
BeginRegardless(w) ==
  /\ worker[w] = "taken"
  /\ future' = [future EXCEPT ![job[w]] = "running"]
  /\ worker' = [worker EXCEPT ![w] = "running"]
  /\ UNCHANGED <<pc, calls, late, slots, lock, threads, jobs, job>>

\* set_running_or_notify_cancel
Begin(w) ==
  /\ worker[w] = "taken"
  /\ \/ /\ future[job[w]] = "pending"
        /\ future' = [future EXCEPT ![job[w]] = "running"]
        /\ worker' = [worker EXCEPT ![w] = "running"]
     \/ /\ future[job[w]] = "cancelled"
        /\ future' = [future EXCEPT ![job[w]] = "notified"]
        /\ worker' = [worker EXCEPT ![w] = "done"]
  /\ UNCHANGED <<pc, calls, late, slots, lock, threads, jobs, job>>

\* The operation returns or raises, at any time or never.
Finish(w) ==
  /\ worker[w] = "running"
  /\ future' = [future EXCEPT ![job[w]] = "finished"]
  /\ worker' = [worker EXCEPT ![w] = "done"]
  /\ UNCHANGED <<pc, calls, late, slots, lock, threads, jobs, job>>

\* Mutant: the slot is released only after an operation that ran.
ReleaseFinished(w) ==
  /\ worker[w] = "done"
  /\ slots' = IF future[job[w]] = "finished" THEN slots + 1 ELSE slots
  /\ worker' = [worker EXCEPT ![w] = "idle"]
  /\ job' = [job EXCEPT ![w] = None]
  /\ UNCHANGED <<pc, calls, late, lock, threads, jobs, future>>

\* The finally clause of _work: the slot, then the worker's references.
Release(w) ==
  /\ worker[w] = "done"
  /\ slots' = slots + 1
  /\ worker' = [worker EXCEPT ![w] = "idle"]
  /\ job' = [job EXCEPT ![w] = None]
  /\ UNCHANGED <<pc, calls, late, lock, threads, jobs, future>>

-----------------------------------------------------------------------------
\* What a caller does on its own, once it has called.
CallerStep(c) ==
  \/ Admit(c) \/ Reject(c) \/ Lock(c) \/ LockTimesOut(c)
  \/ StartThread(c) \/ StartupFails(c) \/ Started(c)
  \/ Submit(c) \/ SubmitTimesOut(c) \/ Leave(c) \/ Cancel(c)

WorkerStep(w) == Take(w) \/ Begin(w) \/ Release(w)

Next ==
  \/ \E c \in Caller : Call(c) \/ Expire(c) \/ CallerStep(c)
  \/ \E w \in Worker : WorkerStep(w) \/ Finish(w)

Spec == Init /\ [][Next]_vars

\* Threads are scheduled and time passes; that an operation ends is not assumed.
Fairness ==
  /\ \A c \in Caller : WF_vars(Expire(c)) /\ WF_vars(CallerStep(c))
  /\ \A w \in Worker : WF_vars(WorkerStep(w))

FairSpec == Spec /\ Fairness

-----------------------------------------------------------------------------
\* Callers that hold a slot and have no job in the queue yet.
Preparing == {c \in Caller : pc[c] \in {"lock", "start", "submit"}}
Busy == {w \in Worker : worker[w] # "idle"}

\* Every slot is free, or held by exactly one of: a caller on its way to the
\* queue, a queued job, a worker that has not finished with its job.  No path
\* (deadline in any phase, failed startup, cancelled or raising operation) loses
\* a slot or releases one twice, which BoundedSemaphore would raise on, in the
\* worker, whose thread would be gone from the pool for good.
SlotsAccounted ==
  slots + Cardinality(Preparing) + Len(jobs) + Cardinality(Busy) = MaxWorkers

\* The pool's promise when operations hang: there is room in the queue for
\* everyone who will submit (put_nowait does not raise Full), and a worker free
\* to take each queued job, so none waits behind an operation that may never end.
RoomForEveryJob ==
  /\ Cardinality(Preparing) + Len(jobs) <= MaxWorkers
  /\ jobs # <<>> => Len(jobs) <= Cardinality(threads \ Busy)

\* "Queued operations must not start after abandonment" (run): when an operation
\* starts, its caller has not come back from run.
AbandonedNeverStarts ==
  [][\A j \in Job : future[j] # "running" /\ future'[j] = "running" =>
       calls[j[1]] = j[2] /\ pc[j[1]] \in {"waiting", "leaving"}]_vars

\* The fence: a call ends, whatever the operations do.
CallsEnd == \A c \in Caller : pc[c] # "idle" ~> pc[c] = "idle"
=============================================================================
