--------------------------- MODULE ScanLockProofs ---------------------------
(***************************************************************************)
(* Proofs about the single-run lock, for every set of tasks, every         *)
(* deadline, grace, clock skew and overrun.  MaxClock only cuts the clock. *)
(***************************************************************************)
EXTENDS ScanLock, TLAPS

\* A new body is a body, names its owner, and outlives the deadline by the grace.
LEMMA NewBodyFacts ==
  ASSUME NEW r \in Run, clock \in Nat
  PROVE  /\ NewBody(r) \in Body
         /\ NewBody(r).holder = r
         /\ clock + Deadline[r] + Grace <= NewBody(r).expires
<1>1. Skew[r] \in Nat /\ Deadline[r] \in Nat /\ Grace \in Nat
  BY TimeAssumption
<1>2. QED
  BY <1>1 DEF NewBody, Body, Now, Ttl

\* Every variable of the lock protocol keeps its type.
THEOREM TypeCorrect == Spec => []TypeOK
<1>1. Init => TypeOK
  BY DEF Init, TypeOK, Exits
<1>2. TypeOK /\ [Next]_vars => TypeOK'
  <2> SUFFICES ASSUME TypeOK, [Next]_vars PROVE TypeOK'
    OBVIOUS
  <2> USE DEF TypeOK, Goto, End, SendCreate, Active, Acquiring, Creating, Exits
  <2>1. ASSUME NEW r \in Run, Launch(r) PROVE TypeOK'
    BY <2>1, NewBodyFacts DEF Launch
  <2>2. ASSUME NEW r \in Run, Acquire(r) PROVE TypeOK'
    <3>1. CASE Created(r)
      <4>1. body[r] \in Body \cup {Absent}
        OBVIOUS
      <4>2. QED
        BY <3>1, <4>1 DEF Created
    <3>2. CASE CreateRefused(r) \/ LaterCreateRefused(r) \/ CreateFails(r)
      BY <3>2 DEF CreateRefused, LaterCreateRefused, CreateFails
    <3>3. CASE ReadNothing(r) \/ BreakStale(r)
      BY <3>3, NewBodyFacts DEF ReadNothing, BreakStale
    <3>4. CASE ReadIncumbent(r) \/ ReadFails(r) \/ JudgeHeld(r) \/ JudgeStale(r)
      BY <3>4 DEF ReadIncumbent, ReadFails, JudgeHeld, JudgeStale
    <3>5. CASE BreakRefused(r) \/ BreakFails(r)
      BY <3>5 DEF BreakRefused, BreakFails
    <3>6. QED
      BY <2>2, <3>1, <3>2, <3>3, <3>4, <3>5 DEF Acquire
  <2>3. ASSUME NEW r \in Run, Finish(r) PROVE TypeOK'
    BY <2>3 DEF Finish, Release, ReleaseFails, FinishBypass
  <2>4. ASSUME NEW r \in Run, Kill(r) PROVE TypeOK'
    BY <2>4 DEF Kill
  <2>5. CASE Tick
    BY <2>5 DEF Tick
  <2>6. CASE UNCHANGED vars
    BY <2>6 DEF vars
  <2>7. QED
    BY <2>1, <2>2, <2>3, <2>4, <2>5, <2>6 DEF Next
<1>3. QED
  BY <1>1, <1>2, PTL DEF Spec

-----------------------------------------------------------------------------
\* A step that moves only r, r's own memory and the object, and neither starts
\* r nor lets it scan, keeps the parts of the invariant about r's bookkeeping.
\* Every way a task ends is such a step.
LEMMA EndKeepsBookkeeping ==
  ASSUME TypeOK, OwnBody, Progress, Deadlines, BreaksOnlyStale,
         NEW r \in Run, NEW code, End(r, code), UNCHANGED clock
  PROVE  OwnBody' /\ Progress' /\ Deadlines' /\ BreaksOnlyStale'
<1> USE DEF TypeOK, End, Goto
<1>1. OwnBody'
  BY ObjectAssumption DEF OwnBody
<1>2. Progress'
  BY DEF Progress, Active, Acquiring, Creating
<1>3. Deadlines'
  BY DEF Deadlines, Active, Acquiring, Creating
<1>4. BreaksOnlyStale'
  BY DEF BreaksOnlyStale
<1>5. QED
  BY <1>1, <1>2, <1>3, <1>4

\* A step that ends r keeps valid locks in place if it leaves the object alone,
\* creates one where none was, or deletes r's own or a stale one.
LEMMA EndKeepsValidLock ==
  ASSUME TypeOK, OwnBody, Progress, ValidLockInPlace,
         NEW r \in Run, NEW code, End(r, code), UNCHANGED clock,
         \/ UNCHANGED object
         \/ object = Absent
         \/ object = body[r]
         \/ object = Unreadable
         \/ clock + MaxSkew > object.expires
  PROVE  ValidLockInPlace'
<1> SUFFICES ASSUME NEW s \in Run, Scanning(s)', clock + MaxSkew <= body'[s].expires
             PROVE  object' = body'[s]
  BY DEF ValidLockInPlace, End
<1>1. s # r
  BY DEF Scanning, End, Goto, TypeOK
<1>2. Scanning(s) /\ body'[s] = body[s]
  BY <1>1 DEF Scanning, End, Goto, TypeOK
<1>3. object = body[s]
  BY <1>2 DEF ValidLockInPlace
<1>4. body[s] \in Body /\ body[s].holder = s
  BY <1>2 DEF Progress, OwnBody, Scanning, Active
<1>5. object # Absent /\ object # Unreadable
  BY <1>3, <1>4, ObjectAssumption
<1>6. object # body[r]
  BY <1>1, <1>3, <1>4 DEF OwnBody
<1>7. ~(clock + MaxSkew > object.expires)
  BY <1>2, <1>3, <1>4, TimeAssumption DEF TypeOK, Body
<1>8. QED
  BY <1>2, <1>3, <1>5, <1>6, <1>7

\* Between launch and scan: what the requests that do not end r preserve.
LEMMA LaunchKeepsInv ==
  ASSUME TypeOK, SafetyInv, NEW r \in Run, Launch(r)
  PROVE  SafetyInv'
<1> USE BypassAssumption DEF TypeOK, SafetyInv, Launch, SendCreate, Goto
<1>0. Deadline[r] \in Nat /\ Grace \in Nat /\ MaxOverrun \in Nat
  BY TimeAssumption
<1>1. CASE r \in Bypass
  <2>1. OwnBody' /\ Progress'
    BY <1>1 DEF OwnBody, Progress, Locked, Active, Acquiring, Creating
  <2>2. Deadlines' /\ BreaksOnlyStale' /\ ValidLockInPlace'
    BY <1>1 DEF Deadlines, Locked, BreaksOnlyStale, ValidLockInPlace, Scanning, Active, Acquiring, Creating
  <2>3. QED
    BY <2>1, <2>2
<1>2. CASE r \notin Bypass
  <2>1. OwnBody'
    BY <1>2, NewBodyFacts DEF OwnBody
  <2>2. Progress'
    BY <1>2, NewBodyFacts DEF Progress, Locked, Active, Acquiring, Creating
  <2>3. Deadlines'
    BY <1>0, <1>2, NewBodyFacts DEF Deadlines, Locked, Active, Acquiring, Creating
  <2>4. BreaksOnlyStale' /\ ValidLockInPlace'
    BY <1>2 DEF BreaksOnlyStale, ValidLockInPlace, Scanning
  <2>5. QED
    BY <2>1, <2>2, <2>3, <2>4
<1>3. QED
  BY <1>1, <1>2

\* The same for the requests of acquire that leave r running.
LEMMA AcquireKeepsInv ==
  ASSUME TypeOK, SafetyInv, NEW r \in Run, Acquire(r)
  PROVE  SafetyInv'
<1> USE BypassAssumption DEF TypeOK, SafetyInv, Goto
<1>0. r \in Locked
  <2>1. pc[r] \in Acquiring
    BY DEF Acquire, Created, CreateRefused, LaterCreateRefused, CreateFails, ReadNothing,
           ReadIncumbent, ReadFails, JudgeHeld, JudgeStale, BreakStale, BreakRefused,
           BreakFails, Acquiring, Creating
  <2>2. QED
    BY <2>1 DEF Progress, Locked, Acquiring, Creating
<1>1. CASE Created(r)
  <2>1. body[r] \in Body /\ object = Absent /\ object' = body[r]
    BY <1>0, <1>1 DEF Created, Progress, Active, Acquiring
  <2>2. OwnBody' /\ BreaksOnlyStale'
    BY <1>1 DEF Created, OwnBody, BreaksOnlyStale
  <2>3. Progress' /\ Deadlines'
    BY <1>0, <1>1, <2>1 DEF Created, Progress, Deadlines, Locked, Active, Acquiring, Creating
  <2>4. ValidLockInPlace'
    <3> SUFFICES ASSUME NEW s \in Run, s # r, Scanning(s), clock + MaxSkew <= body[s].expires
                 PROVE  FALSE
      BY <1>1, <2>1 DEF Created, ValidLockInPlace, Scanning
    <3>1. object = body[s] /\ body[s] \in Body
      BY DEF ValidLockInPlace, Progress, Scanning, Active
    <3>2. QED
      BY <2>1, <3>1, ObjectAssumption
  <2>5. QED
    BY <2>2, <2>3, <2>4
<1>2. CASE CreateRefused(r)
  <2>1. OwnBody' /\ BreaksOnlyStale'
    BY <1>2 DEF CreateRefused, OwnBody, BreaksOnlyStale
  <2>2. Progress' /\ Deadlines'
    BY <1>0, <1>2 DEF CreateRefused, Progress, Deadlines, Locked, Active, Acquiring, Creating
  <2>3. ASSUME NEW s \in Run, Scanning(s)', clock + MaxSkew <= body[s].expires
        PROVE  object' = body[s]
    <3>1. Scanning(s) /\ object = body[s] /\ body[s] \in Body
      BY <1>2, <2>3 DEF CreateRefused, ValidLockInPlace, Progress, Scanning, Active
    <3>2. QED
      BY <1>2, <3>1, ObjectAssumption DEF CreateRefused
  <2>4. ValidLockInPlace'
    BY <1>2, <2>3 DEF CreateRefused, ValidLockInPlace
  <2>5. QED
    BY <2>1, <2>2, <2>4
<1>3. CASE ReadNothing(r)
  <2>1. OwnBody'
    BY <1>3, NewBodyFacts DEF ReadNothing, SendCreate, OwnBody
  <2>2. Progress'
    BY <1>0, <1>3, NewBodyFacts DEF ReadNothing, SendCreate, Progress, Locked, Active, Acquiring, Creating
  <2>3. Deadlines' /\ BreaksOnlyStale'
    <3>1. clock + Deadline[r] + Grace <= NewBody(r).expires
      BY NewBodyFacts
    <3>2. start[r] <= clock
      BY <1>0, <1>3 DEF ReadNothing, Deadlines, Active, Acquiring
    <3>3. start[r] + Deadline[r] + Grace <= NewBody(r).expires
      <4>1. NewBody(r).expires \in Nat /\ Deadline[r] \in Nat /\ Grace \in Nat /\ start[r] \in Nat
        BY NewBodyFacts, TimeAssumption DEF Body
      <4>2. QED
        BY <3>1, <3>2, <4>1
    <3>4. QED
      BY <1>0, <1>3, <3>3 DEF ReadNothing, SendCreate, Deadlines, BreaksOnlyStale, Locked, Active, Acquiring, Creating
  <2>4. ValidLockInPlace'
    BY <1>3 DEF ReadNothing, SendCreate, ValidLockInPlace, Scanning
  <2>5. QED
    BY <2>1, <2>2, <2>3, <2>4
<1>4. CASE ReadIncumbent(r)
  <2>1. OwnBody' /\ BreaksOnlyStale' /\ ValidLockInPlace'
    BY <1>4 DEF ReadIncumbent, OwnBody, BreaksOnlyStale, ValidLockInPlace, Scanning
  <2>2. Progress' /\ Deadlines'
    BY <1>0, <1>4 DEF ReadIncumbent, Progress, Deadlines, Locked, Active, Acquiring, Creating
  <2>3. QED
    BY <2>1, <2>2
<1>5. CASE JudgeStale(r)
  <2>1. OwnBody' /\ ValidLockInPlace'
    BY <1>5 DEF JudgeStale, OwnBody, ValidLockInPlace, Scanning
  <2>2. Progress' /\ Deadlines'
    BY <1>0, <1>5 DEF JudgeStale, Progress, Deadlines, Locked, Active, Acquiring, Creating
  <2>3. BreaksOnlyStale'
    <3>1. seen[r] = Unreadable \/ clock + MaxSkew > seen[r].expires
      <4> SUFFICES ASSUME seen[r] # Unreadable PROVE clock + MaxSkew > seen[r].expires
        OBVIOUS
      <4>1. seen[r] \in Body
        BY <1>5 DEF JudgeStale, Progress
      <4>2. clock + Skew[r] > seen[r].expires
        BY <1>5 DEF JudgeStale, Stale, Now
      <4>3. QED
        BY <4>1, <4>2, TimeAssumption DEF Body
    <3>2. QED
      BY <1>5, <3>1 DEF JudgeStale, BreaksOnlyStale
  <2>4. QED
    BY <2>1, <2>2, <2>3
<1>6. CASE BreakStale(r)
  <2>1. OwnBody'
    BY <1>6, NewBodyFacts DEF BreakStale, SendCreate, OwnBody
  <2>2. Progress'
    BY <1>0, <1>6, NewBodyFacts DEF BreakStale, SendCreate, Progress, Locked, Active, Acquiring, Creating
  <2>3. Deadlines' /\ BreaksOnlyStale'
    <3>1. clock + Deadline[r] + Grace <= NewBody(r).expires /\ NewBody(r) \in Body
      BY NewBodyFacts
    <3>2. start[r] <= clock
      BY <1>0, <1>6 DEF BreakStale, Deadlines, Active, Acquiring
    <3>3. start[r] + Deadline[r] + Grace <= NewBody(r).expires
      <4>1. NewBody(r).expires \in Nat /\ Deadline[r] \in Nat /\ Grace \in Nat /\ start[r] \in Nat
        BY <3>1, TimeAssumption DEF Body
      <4>2. QED
        BY <3>1, <3>2, <4>1
    <3>4. QED
      BY <1>0, <1>6, <3>3 DEF BreakStale, SendCreate, Deadlines, BreaksOnlyStale, Locked, Active, Acquiring, Creating
  <2>4. ValidLockInPlace'
    <3> SUFFICES ASSUME NEW s \in Run, Scanning(s), clock + MaxSkew <= body[s].expires
                 PROVE  FALSE
      BY <1>6 DEF BreakStale, SendCreate, ValidLockInPlace, Scanning
    <3>1. object = body[s] /\ body[s] \in Body
      BY DEF ValidLockInPlace, Progress, Scanning, Active
    <3>2. seen[r] # Unreadable /\ ~(clock + MaxSkew > seen[r].expires)
      BY <1>6, <3>1, ObjectAssumption, TimeAssumption DEF BreakStale, Body
    <3>3. QED
      BY <1>6, <3>2 DEF BreakStale, BreaksOnlyStale
  <2>5. QED
    BY <2>1, <2>2, <2>3, <2>4
<1>7. CASE LaterCreateRefused(r) \/ CreateFails(r) \/ ReadFails(r) \/ JudgeHeld(r)
  <2>1. PICK code : End(r, code)
    BY <1>7 DEF LaterCreateRefused, CreateFails, ReadFails, JudgeHeld
  <2>2. UNCHANGED clock /\ (UNCHANGED object \/ object = Absent)
    BY <1>7 DEF LaterCreateRefused, CreateFails, ReadFails, JudgeHeld
  <2>3. QED
    BY <2>1, <2>2, EndKeepsBookkeeping, EndKeepsValidLock
<1>8. CASE BreakRefused(r) \/ BreakFails(r)
  <2>1. PICK code : End(r, code)
    BY <1>8 DEF BreakRefused, BreakFails
  <2>2. UNCHANGED clock /\ pc[r] = "break" /\ (UNCHANGED object \/ object = seen[r])
    BY <1>8 DEF BreakRefused, BreakFails
  <2>3. UNCHANGED object \/ object = Unreadable \/ clock + MaxSkew > object.expires
    BY <2>2 DEF BreaksOnlyStale
  <2>4. QED
    BY <2>1, <2>2, <2>3, EndKeepsBookkeeping, EndKeepsValidLock
<1>9. QED
  BY <1>1, <1>2, <1>3, <1>4, <1>5, <1>6, <1>7, <1>8 DEF Acquire

\* A task that finishes or is killed disturbs no other task's valid lock.
LEMMA StopKeepsInv ==
  ASSUME TypeOK, SafetyInv, NEW r \in Run, Finish(r) \/ Kill(r)
  PROVE  SafetyInv'
<1> USE DEF SafetyInv
<1>1. PICK code : End(r, code)
  BY DEF Finish, Kill, Release, ReleaseFails, FinishBypass
<1>2. UNCHANGED clock
  BY DEF Finish, Kill, Release, ReleaseFails, FinishBypass
<1>3. \/ UNCHANGED object
      \/ object = Absent
      \/ object = body[r]
      \/ object = Unreadable
      \/ clock + MaxSkew > object.expires
  <2>1. CASE Finish(r)
    BY <2>1 DEF Finish, Release, ReleaseFails, FinishBypass
  <2>2. CASE Kill(r)
    <3>1. UNCHANGED object \/ object = Absent \/ (pc[r] = "break" /\ object = seen[r])
      BY <2>2 DEF Kill
    <3>2. QED
      BY <3>1 DEF BreaksOnlyStale
  <2>3. QED
    BY <2>1, <2>2
<1>4. QED
  BY <1>1, <1>2, <1>3, EndKeepsBookkeeping, EndKeepsValidLock

\* Time only makes locks older: what was stale stays stale.
LEMMA TickKeepsInv ==
  ASSUME TypeOK, SafetyInv, Tick
  PROVE  SafetyInv'
<1> USE TimeAssumption DEF TypeOK, SafetyInv, Tick
<1>1. OwnBody' /\ Progress'
  BY DEF OwnBody, Progress
<1>2. Deadlines'
  <2> SUFFICES ASSUME NEW r \in Locked, pc[r] \in Active
               PROVE  /\ start[r] <= clock + 1
                      /\ start[r] + Deadline[r] + Grace <= body[r].expires
                      /\ clock + 1 <= start[r] + Deadline[r] + MaxOverrun
    BY DEF Deadlines
  <2>1. r \in Run
    BY DEF Locked
  <2>2. clock < start[r] + Deadline[r] + MaxOverrun
    BY <2>1
  <2>3. start[r] \in Nat /\ Deadline[r] \in Nat
    BY <2>1
  <2>4. QED
    BY <2>2, <2>3 DEF Deadlines
<1>3. BreaksOnlyStale'
  <2> SUFFICES ASSUME NEW r \in Run, pc[r] = "break", seen[r] # Unreadable
               PROVE  clock + 1 + MaxSkew > seen[r].expires
    BY DEF BreaksOnlyStale
  <2>1. seen[r] \in Body
    BY DEF Progress
  <2>2. QED
    BY <2>1 DEF BreaksOnlyStale, Body
<1>4. ValidLockInPlace'
  <2> SUFFICES ASSUME NEW r \in Run, Scanning(r), clock + 1 + MaxSkew <= body[r].expires
               PROVE  object = body[r]
    BY DEF ValidLockInPlace, Scanning
  <2>1. body[r].expires \in Nat
    BY DEF Progress, Scanning, Active, Body
  <2>2. clock + MaxSkew <= body[r].expires
    BY <2>1
  <2>3. QED
    BY <2>2 DEF ValidLockInPlace
<1>5. QED
  BY <1>1, <1>2, <1>3, <1>4

-----------------------------------------------------------------------------
LEMMA SafetyInvStep ==
  ASSUME TypeOK, SafetyInv, [Next]_vars
  PROVE  SafetyInv'
<1>1. ASSUME NEW r \in Run, Launch(r) \/ Acquire(r) \/ Finish(r) \/ Kill(r)
      PROVE  SafetyInv'
  BY <1>1, LaunchKeepsInv, AcquireKeepsInv, StopKeepsInv
<1>2. CASE UNCHANGED vars
  BY <1>2 DEF vars, SafetyInv, OwnBody, Progress, Deadlines, BreaksOnlyStale,
              ValidLockInPlace, Scanning
<1>3. QED
  BY <1>1, <1>2, TickKeepsInv DEF Next

\* The inductive invariant holds in every reachable state of the lock.
THEOREM SafetyInvariant == Spec => []SafetyInv
<1>1. Init => SafetyInv
  <2> SUFFICES ASSUME Init PROVE SafetyInv
    OBVIOUS
  <2>1. \A r \in Run : pc[r] = "off" /\ body[r] \notin Body
    BY ObjectAssumption DEF Init
  <2>2. QED
    BY <2>1, BypassAssumption
       DEF SafetyInv, OwnBody, Progress, Deadlines, BreaksOnlyStale, ValidLockInPlace,
           Scanning, Locked, Active, Acquiring, Creating
<1>2. QED
  BY <1>1, SafetyInvStep, TypeCorrect, PTL DEF Spec

\* Whatever a run's overrun, two tasks whose locks are unexpired on every clock
\* never scan at once (ScanLock.acquire and release).
THEOREM ValidLocksExclude == Spec => []ExclusiveWhileValid
<1>1. TypeOK /\ SafetyInv => ExclusiveWhileValid
  <2> SUFFICES ASSUME TypeOK, SafetyInv, NEW r \in Run, NEW s \in Run,
                      Scanning(r), Scanning(s),
                      clock + MaxSkew <= body[r].expires,
                      clock + MaxSkew <= body[s].expires
               PROVE  r = s
    BY DEF ExclusiveWhileValid
  <2>1. body[r] = body[s]
    BY DEF SafetyInv, ValidLockInPlace
  <2>2. body[r].holder = r /\ body[s].holder = s
    BY DEF SafetyInv, OwnBody, Progress, Scanning, Active
  <2>3. QED
    BY <2>1, <2>2
<1>2. QED
  BY <1>1, SafetyInvariant, TypeCorrect, PTL

\* No step of any task removes the unexpired lock of another: neither a late
\* release, nor a break decided on a body read earlier, nor a kill.
THEOREM OnlyOwnerOrExpiryRemoves == Spec => RemovedOnlyByOwnerOrExpiry
<1> DEFINE Removal ==
      object' # object /\ object # Absent =>
        \/ object = Unreadable
        \/ clock + MaxSkew > object.expires
        \/ /\ pc[object.holder] = "scanning"
           /\ body[object.holder] = object
           /\ pc'[object.holder] = "done"
<1>1. TypeOK /\ SafetyInv /\ [Next]_vars => [Removal]_vars
  <2> SUFFICES ASSUME TypeOK, SafetyInv, [Next]_vars,
                      object' # object, object # Absent, object # Unreadable,
                      ~(clock + MaxSkew > object.expires)
               PROVE  /\ pc[object.holder] = "scanning"
                      /\ body[object.holder] = object
                      /\ pc'[object.holder] = "done"
    OBVIOUS
  <2>1. ASSUME NEW r \in Run, pc[r] = "break", object = seen[r]
        PROVE  FALSE
    BY <2>1 DEF SafetyInv, BreaksOnlyStale
  <2>2. ASSUME NEW r \in Run, Acquire(r) PROVE FALSE
    <3>1. CASE Created(r) \/ CreateRefused(r) \/ LaterCreateRefused(r) \/ CreateFails(r)
      BY <3>1 DEF Created, CreateRefused, LaterCreateRefused, CreateFails
    <3>2. CASE ReadNothing(r) \/ ReadIncumbent(r) \/ ReadFails(r) \/ JudgeHeld(r) \/ JudgeStale(r)
      BY <3>2 DEF ReadNothing, ReadIncumbent, ReadFails, JudgeHeld, JudgeStale
    <3>3. CASE BreakStale(r) \/ BreakRefused(r) \/ BreakFails(r)
      BY <2>1, <3>3 DEF BreakStale, BreakRefused, BreakFails
    <3>4. QED
      BY <2>2, <3>1, <3>2, <3>3 DEF Acquire
  <2>3. ASSUME NEW r \in Run, Kill(r) PROVE FALSE
    BY <2>1, <2>3 DEF Kill
  <2>4. PICK r \in Run : Release(r) \/ ReleaseFails(r)
    <3>1. ~Tick /\ ~(UNCHANGED vars) /\ \A r \in Run : ~Launch(r) /\ ~FinishBypass(r)
      BY DEF Tick, vars, Launch, FinishBypass
    <3>2. QED
      BY <2>2, <2>3, <3>1 DEF Next, Finish
  <2>5. pc[r] = "scanning" /\ object = body[r] /\ pc'[r] = "done"
    BY <2>4 DEF Release, ReleaseFails, End, Goto, TypeOK
  <2>6. body[r] \in Body
    BY <2>5 DEF TypeOK
  <2>7. object.holder = r
    BY <2>5, <2>6 DEF SafetyInv, OwnBody
  <2>8. QED
    BY <2>5, <2>7
<1>2. QED
  BY <1>1, SafetyInvariant, TypeCorrect, PTL DEF Spec, RemovedOnlyByOwnerOrExpiry

-----------------------------------------------------------------------------
\* The ordering the docstring relies on: "the scan is killed by its deadline
\* first, and only then can its lock be declared stale".
GraceCoversOverrun == MaxOverrun + MaxSkew <= Grace

\* Under that ordering a scanning task's lock is unexpired on every clock.
LEMMA LiveLockIsValid ==
  ASSUME GraceCoversOverrun, TypeOK, SafetyInv, NEW r \in Run, Scanning(r)
  PROVE  clock + MaxSkew <= body[r].expires
<1>1. body[r] \in Body /\ r \in Locked /\ pc[r] \in Active
  BY DEF SafetyInv, Progress, Scanning, Active
<1>2. /\ start[r] + Deadline[r] + Grace <= body[r].expires
      /\ clock <= start[r] + Deadline[r] + MaxOverrun
  BY <1>1 DEF SafetyInv, Deadlines
<1>3. /\ start[r] \in Nat /\ Deadline[r] \in Nat /\ clock \in Nat
      /\ body[r].expires \in Nat
  BY <1>1, TimeAssumption DEF TypeOK, Body
<1>4. QED
  BY <1>2, <1>3, TimeAssumption DEF GraceCoversOverrun

LEMMA OneScanner ==
  ASSUME GraceCoversOverrun, TypeOK, SafetyInv
  PROVE  LiveRunNeverOvertaken
<1> SUFFICES ASSUME NEW r \in Run, NEW s \in Run, Scanning(r), Scanning(s)
             PROVE  r = s
  BY DEF LiveRunNeverOvertaken
<1>1. body[r] = body[s]
  BY LiveLockIsValid DEF SafetyInv, ValidLockInPlace
<1>2. body[r].holder = r /\ body[s].holder = s
  BY DEF SafetyInv, OwnBody, Progress, Scanning, Active
<1>3. QED
  BY <1>1, <1>2

\* "A live run is never overtaken", for every instance in which no run outlives
\* its deadline by more than the grace less the clock skew.
THEOREM NeverOvertaken ==
  ASSUME GraceCoversOverrun
  PROVE  Spec => []LiveRunNeverOvertaken
<1>1. TypeOK /\ SafetyInv => LiveRunNeverOvertaken
  BY OneScanner
<1>2. QED
  BY <1>1, SafetyInvariant, TypeCorrect, PTL

\* In those instances the chain of S3 requests implements mutual exclusion of the
\* tier: every request maps to a step of TierMutex or to no step at all.
THEOREM LockImplementsMutex ==
  ASSUME GraceCoversOverrun
  PROVE  Spec => ImplementsMutex
<1>1. Init => Mutex!Init
  BY DEF Init, Mutex!Init, Phase, Locked
<1>2. TypeOK /\ SafetyInv /\ LiveRunNeverOvertaken' /\ [Next]_vars => [Mutex!Next]_Phase
  <2> SUFFICES ASSUME TypeOK, SafetyInv, LiveRunNeverOvertaken', [Next]_vars
               PROVE  Mutex!Next \/ UNCHANGED Phase
    OBVIOUS
  <2> USE DEF Phase
  \* The create that S3 applied is the step that begins a scan.
  <2>1. ASSUME NEW r \in Run, Created(r) PROVE Mutex!Next
    <3>1. r \in Locked /\ Scanning(r)' /\ pc[r] \in Creating
      <4>1. r \notin Bypass
        BY <2>1 DEF Created, Creating, SafetyInv, Progress
      <4>2. QED
        BY <2>1, <4>1 DEF Created, Goto, Scanning, TypeOK, Locked
    <3>2. ASSUME NEW s \in Locked, pc[s] = "scanning" PROVE FALSE
      <4>1. Scanning(s)' /\ s \in Run /\ s # r
        BY <2>1, <3>2 DEF Created, Creating, Goto, Scanning, TypeOK, Locked
      <4>2. QED
        BY <3>1, <4>1 DEF LiveRunNeverOvertaken
    <3>3. Mutex!Begin(r)
      BY <2>1, <3>1, <3>2 DEF Created, Creating, Goto, TypeOK, Locked, Mutex!Begin
    <3>4. QED
      BY <3>1, <3>3 DEF Mutex!Next
  \* A launch, and a request that leads to another request, are invisible.
  <2>2. ASSUME NEW r \in Run, NEW label \in Acquiring, Goto(r, label),
               pc[r] \in {"off"} \cup Acquiring
        PROVE  UNCHANGED Phase
    BY <2>2 DEF Goto, TypeOK, Locked, Acquiring, Creating
  \* A bypassing task is not part of the tier's exclusion.
  <2>3. ASSUME NEW r \in Bypass, NEW label, Goto(r, label) PROVE UNCHANGED Phase
    BY <2>3, BypassAssumption DEF Goto, TypeOK, Locked
  \* Every way to end is a Stop or a GiveUp.
  <2>4. ASSUME NEW r \in Run, NEW code, End(r, code), pc[r] \in Active
        PROVE  Mutex!Next \/ UNCHANGED Phase
    <3>1. CASE r \in Bypass
      BY <2>3, <2>4, <3>1 DEF End
    <3>2. CASE r \in Locked /\ pc[r] = "scanning"
      <4>1. Mutex!Stop(r)
        BY <2>4, <3>2 DEF End, Goto, TypeOK, Locked, Mutex!Stop
      <4>2. QED
        BY <3>2, <4>1 DEF Mutex!Next
    <3>3. CASE r \in Locked /\ pc[r] \in Acquiring
      <4>1. Mutex!GiveUp(r)
        BY <2>4, <3>3 DEF End, Goto, TypeOK, Locked, Acquiring, Creating, Mutex!GiveUp
      <4>2. QED
        BY <3>3, <4>1 DEF Mutex!Next
    <3>4. QED
      BY <2>4, <3>1, <3>2, <3>3 DEF Active, Locked
  <2>5. ASSUME NEW r \in Run, Launch(r) PROVE UNCHANGED Phase
    BY <2>2, <2>3, <2>5 DEF Launch, SendCreate, Acquiring, Creating
  <2>6. ASSUME NEW r \in Run, Acquire(r) PROVE Mutex!Next \/ UNCHANGED Phase
    <3>1. CASE CreateRefused(r) \/ ReadNothing(r) \/ ReadIncumbent(r) \/ JudgeStale(r) \/ BreakStale(r)
      BY <2>2, <3>1 DEF CreateRefused, ReadNothing, ReadIncumbent, JudgeStale, BreakStale,
                        SendCreate, Acquiring, Creating
    <3>2. CASE LaterCreateRefused(r) \/ CreateFails(r) \/ ReadFails(r) \/ JudgeHeld(r)
      BY <2>4, <3>2 DEF LaterCreateRefused, CreateFails, ReadFails, JudgeHeld,
                        Active, Acquiring, Creating
    <3>3. CASE BreakRefused(r) \/ BreakFails(r)
      BY <2>4, <3>3 DEF BreakRefused, BreakFails, Active, Acquiring, Creating
    <3>4. QED
      BY <2>1, <2>6, <3>1, <3>2, <3>3 DEF Acquire
  <2>7. ASSUME NEW r \in Run, Finish(r) \/ Kill(r) PROVE Mutex!Next \/ UNCHANGED Phase
    BY <2>4, <2>7 DEF Finish, Release, ReleaseFails, FinishBypass, Kill, Active
  <2>8. CASE Tick \/ UNCHANGED vars
    BY <2>8 DEF Tick, vars
  <2>9. QED
    BY <2>5, <2>6, <2>7, <2>8 DEF Next
<1>3. QED
  BY <1>1, <1>2, SafetyInvariant, TypeCorrect, NeverOvertaken, PTL DEF Spec, Mutex!Spec, ImplementsMutex
=============================================================================
