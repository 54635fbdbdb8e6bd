------------------------------ MODULE ScanLock ------------------------------
(***************************************************************************)
(* The single-run lock of one scan tier (collector/emit/lock.py) and the   *)
(* part of scan.py's main that takes and releases it.                      *)
(*                                                                         *)
(* EventBridge may start several tasks of a tier: every r \in Run is one   *)
(* such task.  The lock is an S3 object that is created only if absent     *)
(* and deleted only if its ETag still matches.  acquire() is a chain of up *)
(* to four AWS requests, and between any two of them other tasks act, time *)
(* passes, and the task may be killed; each request is one action here.    *)
(*                                                                         *)
(* S3 is linearizable and its ETag is a hash of the body, so an object is  *)
(* modelled by its body and "ETag matches" is equality of bodies.  A       *)
(* request may fail before S3 applies it, after S3 applied it (the answer  *)
(* is lost), or be repeated by the AWS CLI after it was applied.           *)
(***************************************************************************)
EXTENDS Naturals

CONSTANTS
  Run,        \* tasks of the tier; a task runs once
  Bypass,     \* tasks started with --ignore-lock
  Deadline,   \* Deadline[r]: the scan deadline of r, in clock units
  Grace,      \* LOCK_GRACE_SECONDS
  Skew,       \* Skew[r]: how far r's wall clock is ahead of the slowest one
  MaxSkew,    \* bound of Skew
  MaxOverrun, \* how long a task may live past its deadline (see Tick)
  MaxClock,   \* bound of the model's clock
  Absent,     \* no object under locks/<tier>.lock
  Unreadable  \* an object whose body does not parse

Body == [holder : Run, acquired : Nat, expires : Nat]

ASSUME BypassAssumption == Bypass \subseteq Run
ASSUME TimeAssumption ==
  /\ Deadline \in [Run -> Nat]
  /\ Grace \in Nat /\ MaxSkew \in Nat /\ MaxOverrun \in Nat /\ MaxClock \in Nat
  /\ Skew \in [Run -> Nat] /\ \A r \in Run : Skew[r] <= MaxSkew
ASSUME ObjectAssumption ==
  Absent \notin Body /\ Unreadable \notin Body /\ Absent # Unreadable

VARIABLES
  clock,   \* reading of the slowest wall clock
  object,  \* the lock object in S3
  pc,      \* pc[r]: the request r has in flight, or its phase
  start,   \* start[r]: when r's deadline started counting
  body,    \* body[r]: the lock body r built last (its ETag, once created)
  seen,    \* seen[r]: the incumbent r read
  exit     \* exit[r]: how the task ended

vars == <<clock, object, pc, start, body, seen, exit>>

Locked == Run \ Bypass
Creating == {"create", "createFree", "createBroken"}
Acquiring == Creating \cup {"read", "judge", "break"}
Active == Acquiring \cup {"scanning"}
Exits == {"none", "finished", "held", "backend", "raised", "unreleased", "killed"}

TypeOK ==
  /\ clock \in Nat
  /\ object \in Body \cup {Absent, Unreadable}
  /\ pc \in [Run -> {"off", "done"} \cup Active]
  /\ start \in [Run -> Nat]
  /\ body \in [Run -> Body \cup {Absent}]
  /\ seen \in [Run -> Body \cup {Absent, Unreadable}]
  /\ exit \in [Run -> Exits]

-----------------------------------------------------------------------------
Now(r) == clock + Skew[r]

\* Mutant: the lock expires with the deadline, without the grace.
TtlWithoutGrace(r) == Deadline[r]

\* ttl_for: the deadline plus the grace.
Ttl(r) == Deadline[r] + Grace

\* _body: what the lock object of r says when it is built now.
NewBody(r) == [holder |-> r, acquired |-> Now(r), expires |-> Now(r) + Ttl(r)]

StaleIfParsed(b, r) == b # Unreadable /\ Now(r) > b.expires

\* The negation of acquire's "held" test: an unparseable body is stale too, and
\* a body is still held at the very instant it expires.
Stale(b, r) == b # Unreadable => Now(r) > b.expires

Init ==
  /\ clock = 0
  /\ object \in {Absent, Unreadable}
  /\ pc = [r \in Run |-> "off"]
  /\ start = [r \in Run |-> 0]
  /\ body = [r \in Run |-> Absent]
  /\ seen = [r \in Run |-> Absent]
  /\ exit = [r \in Run |-> "none"]

Goto(r, label) == pc' = [pc EXCEPT ![r] = label]

\* The process ends, and its memory with it.
End(r, code) ==
  /\ Goto(r, "done")
  /\ exit' = [exit EXCEPT ![r] = code]
  /\ start' = [start EXCEPT ![r] = 0]
  /\ body' = [body EXCEPT ![r] = Absent]
  /\ seen' = [seen EXCEPT ![r] = Absent]

\* Build a body and send the conditional create.
SendCreate(r, label) ==
  /\ Goto(r, label)
  /\ body' = [body EXCEPT ![r] = NewBody(r)]

-----------------------------------------------------------------------------
\* main: the client, and with it the deadline, starts before the lock is asked
\* for.  --ignore-lock makes acquire return at once with nothing held.
Launch(r) ==
  /\ pc[r] = "off"
  /\ start' = [start EXCEPT ![r] = clock]
  /\ IF r \in Bypass
       THEN Goto(r, "scanning") /\ UNCHANGED body
       ELSE SendCreate(r, "create")
  /\ UNCHANGED <<clock, object, seen, exit>>

\* Mutant: a plain put instead of a create-if-absent.
CreatedByOverwriting(r) ==
  /\ pc[r] \in Creating
  /\ object' = body[r]
  /\ Goto(r, "scanning")
  /\ UNCHANGED <<clock, start, body, seen, exit>>

\* put_if_absent created the object: the lock is held.
Created(r) ==
  /\ pc[r] \in Creating
  /\ object = Absent
  /\ object' = body[r]
  /\ Goto(r, "scanning")
  /\ UNCHANGED <<clock, start, body, seen, exit>>

\* The first put_if_absent answers 412: an object is there (or the CLI repeated
\* a create that S3 had already applied).
CreateRefused(r) ==
  /\ pc[r] = "create"
  /\ \/ object # Absent /\ UNCHANGED object
     \/ object = Absent /\ object' = body[r]
  /\ Goto(r, "read")
  /\ UNCHANGED <<clock, start, body, seen, exit>>

\* A later put_if_absent answers 412.  acquire catches PreconditionFailed around
\* the first create only, and main catches LockHeld and LockBackendFailed: the
\* exception leaves the process.
LaterCreateRefused(r) ==
  /\ pc[r] \in {"createFree", "createBroken"}
  /\ \/ object # Absent /\ UNCHANGED object
     \/ object = Absent /\ object' = body[r]
  /\ End(r, "raised")
  /\ UNCHANGED clock

\* The create fails otherwise: LockBackendFailed, whether or not S3 applied it.
CreateFails(r) ==
  /\ pc[r] \in Creating
  /\ \/ UNCHANGED object
     \/ object = Absent /\ object' = body[r]
  /\ End(r, "backend")
  /\ UNCHANGED clock

\* get finds no object: the incumbent released it after our 412.
ReadNothing(r) ==
  /\ pc[r] = "read"
  /\ object = Absent
  /\ SendCreate(r, "createFree")
  /\ UNCHANGED <<clock, object, start, seen, exit>>

ReadIncumbent(r) ==
  /\ pc[r] = "read"
  /\ object # Absent
  /\ seen' = [seen EXCEPT ![r] = object]
  /\ Goto(r, "judge")
  /\ UNCHANGED <<clock, object, start, body, exit>>

ReadFails(r) ==
  /\ pc[r] = "read"
  /\ End(r, "backend")
  /\ UNCHANGED <<clock, object>>

\* The incumbent that was read, some time ago, has not expired: LockHeld.
JudgeHeld(r) ==
  /\ pc[r] = "judge"
  /\ ~Stale(seen[r], r)
  /\ End(r, "held")
  /\ UNCHANGED <<clock, object>>

JudgeStale(r) ==
  /\ pc[r] = "judge"
  /\ Stale(seen[r], r)
  /\ Goto(r, "break")
  /\ UNCHANGED <<clock, object, start, body, seen, exit>>

\* Mutant: a plain delete of the stale lock, without its ETag.
BreakWhatever(r) ==
  /\ pc[r] = "break"
  /\ object' = Absent
  /\ SendCreate(r, "createBroken")
  /\ UNCHANGED <<clock, start, seen, exit>>

\* delete_if_match removed the stale object; the next create is sent.
BreakStale(r) ==
  /\ pc[r] = "break"
  /\ object = seen[r]
  /\ object' = Absent
  /\ SendCreate(r, "createBroken")
  /\ UNCHANGED <<clock, start, seen, exit>>

\* delete_if_match answers 412: the object is not the one that was read (or the
\* CLI repeated a delete that S3 had already applied).
BreakRefused(r) ==
  /\ pc[r] = "break"
  /\ \/ object # seen[r] /\ UNCHANGED object
     \/ object = seen[r] /\ object' = Absent
  /\ End(r, "held")
  /\ UNCHANGED clock

BreakFails(r) ==
  /\ pc[r] = "break"
  /\ \/ UNCHANGED object
     \/ object = seen[r] /\ object' = Absent
  /\ End(r, "backend")
  /\ UNCHANGED clock

\* run() returned or raised; main's finally releases.  The delete carries the
\* ETag of our own create.  A backend failure leaves the process as an exception
\* instead of the exit code.
Release(r) ==
  /\ pc[r] = "scanning"
  /\ r \in Locked
  /\ object' = IF object = body[r] THEN Absent ELSE object
  /\ End(r, "finished")
  /\ UNCHANGED clock

ReleaseFails(r) ==
  /\ pc[r] = "scanning"
  /\ r \in Locked
  /\ \/ UNCHANGED object
     \/ object = body[r] /\ object' = Absent
  /\ End(r, "unreleased")
  /\ UNCHANGED clock

\* release returns at once when nothing is held.
FinishBypass(r) ==
  /\ pc[r] = "scanning"
  /\ r \in Bypass
  /\ End(r, "finished")
  /\ UNCHANGED <<clock, object>>

\* OOM, spot reclaim or StopTask: no finally runs.  S3 may still have applied
\* the request in flight.
Kill(r) ==
  /\ pc[r] \in Active
  /\ \/ UNCHANGED object
     \/ pc[r] \in Creating /\ object = Absent /\ object' = body[r]
     \/ pc[r] = "break" /\ object = seen[r] /\ object' = Absent
  /\ End(r, "killed")
  /\ UNCHANGED clock

\* Time passes.  No task outlives its deadline by more than MaxOverrun: the code
\* itself bounds only its HTTP requests by the deadline, never the composition
\* or the writes after them, so the bound is the environment's.
Tick ==
  /\ clock < MaxClock
  /\ \A r \in Run : pc[r] \in Active => clock < start[r] + Deadline[r] + MaxOverrun
  /\ clock' = clock + 1
  /\ UNCHANGED <<object, pc, start, body, seen, exit>>

Acquire(r) ==
  \/ Created(r) \/ CreateRefused(r) \/ LaterCreateRefused(r) \/ CreateFails(r)
  \/ ReadNothing(r) \/ ReadIncumbent(r) \/ ReadFails(r)
  \/ JudgeHeld(r) \/ JudgeStale(r)
  \/ BreakStale(r) \/ BreakRefused(r) \/ BreakFails(r)

Finish(r) == Release(r) \/ ReleaseFails(r) \/ FinishBypass(r)

Next ==
  \/ \E r \in Run : Launch(r) \/ Acquire(r) \/ Finish(r) \/ Kill(r)
  \/ Tick

Spec == Init /\ [][Next]_vars

\* A request the AWS CLI has sent is answered: the CLI's own connect and read
\* timeouts bound it.  Nothing is assumed of launches, scans or the clock.
FairSpec == Spec /\ \A r \in Run : WF_vars(Acquire(r))

-----------------------------------------------------------------------------
(***************************************************************************)
(* Properties.                                                             *)
(***************************************************************************)

Scanning(r) == r \in Locked /\ pc[r] = "scanning"

\* Two tasks that took the lock never scan at once while the lock of each is
\* unexpired on every clock.
ExclusiveWhileValid ==
  \A r, s \in Run :
    (Scanning(r) /\ Scanning(s) /\ clock + MaxSkew <= body[r].expires
                 /\ clock + MaxSkew <= body[s].expires) => r = s

\* "A live run is never overtaken" (lock.py:20): no two tasks that took the lock
\* are scanning at the same time.
LiveRunNeverOvertaken ==
  \A r, s \in Run : Scanning(r) /\ Scanning(s) => r = s

\* A lock object goes away only because its own task released it, or because it
\* had expired or never parsed: a task that overran, that lost a race or that
\* was refused never removes another's lock.
RemovedOnlyByOwnerOrExpiry ==
  [][object' # object /\ object # Absent =>
       \/ object = Unreadable
       \/ clock + MaxSkew > object.expires
       \/ /\ pc[object.holder] = "scanning"
          /\ body[object.holder] = object
          /\ pc'[object.holder] = "done"]_vars

\* A dead task cannot wedge the tier: once a lock is stale for a contender that
\* is asking, the stale object leaves S3, unless that contender itself is killed
\* or cannot reach S3.
StaleLockIsBroken ==
  LET StaleFor(r) == object = Unreadable \/ (object \in Body /\ Now(r) > object.expires)
  IN \A r \in Run :
       (pc[r] = "create" /\ StaleFor(r))
         ~> (~StaleFor(r) \/ exit[r] \in {"backend", "killed"})

\* The inductive invariant behind the safety properties.
\* A task knows its own body: the holder field tells whose object it is.
OwnBody == \A r \in Run : body[r] \in Body => body[r].holder = r

\* Where each task can be, and what it has built and read by then.
Progress ==
  /\ \A r \in Bypass : pc[r] \in {"off", "scanning", "done"}
  /\ \A r \in Locked : pc[r] \in Active => body[r] \in Body
  /\ \A r \in Run : pc[r] \in {"judge", "break"} => seen[r] # Absent

\* The lock outlives the deadline by the grace, and the task outlives the
\* deadline by MaxOverrun at most.
Deadlines ==
  \A r \in Locked : pc[r] \in Active =>
    /\ start[r] <= clock
    /\ start[r] + Deadline[r] + Grace <= body[r].expires
    /\ clock <= start[r] + Deadline[r] + MaxOverrun

\* What a task is about to delete stays expired: clocks do not go back.
BreaksOnlyStale ==
  \A r \in Run : pc[r] = "break" =>
    seen[r] = Unreadable \/ clock + MaxSkew > seen[r].expires

\* As long as no clock in the system has passed its expiry, the lock of a
\* scanning task is the object in S3: no sequence of lost answers, kills and
\* breaks of older locks by other tasks can remove or replace it.
ValidLockInPlace ==
  \A r \in Run : Scanning(r) /\ clock + MaxSkew <= body[r].expires => object = body[r]

SafetyInv == OwnBody /\ Progress /\ Deadlines /\ BreaksOnlyStale /\ ValidLockInPlace

\* The tier as its tasks see it, and the abstract mutual exclusion over it.
Phase == [r \in Locked |->
  CASE pc[r] = "scanning" -> "scanning"
    [] pc[r] = "done" -> "over"
    [] OTHER -> "waiting"]

Mutex == INSTANCE TierMutex WITH Task <- Locked, phase <- Phase

\* While an overrun and the clock skew together stay within the grace, the lock
\* implements mutual exclusion of the tier.
ImplementsMutex == Mutex!Spec
=============================================================================
