-------------------------- MODULE HttpClientProofs --------------------------
(* Proofs about HttpClient: whatever the number of threads, the timeouts and  *)
(* the transports that hang, no host's limits are exceeded (LimitsKept) and   *)
(* no request goes out too early or too late (SentInTime).                    *)
EXTENDS HttpClient, FiniteSetTheorems, TLAPS

-----------------------------------------------------------------------------
(* The inductive invariant.                                                   *)

\* The types, without the limits that SlotsAccounted gives.
Shape ==
  /\ clock \in Nat
  /\ pc \in [Caller -> {"ready", "waiting", "done"}]
  /\ tries \in [Caller -> 0 .. MaxAttempts]
  /\ wake \in [Caller -> Nat]
  /\ op \in [Job -> {"none", "queued", "pacing", "host", "oversized", "transport", "over"}
                    \cup Outcome]
  /\ end \in [Job -> 0 .. Deadline]
  /\ slots \in [Host -> Nat]
  /\ reads \in Nat
  /\ bucket \in [Host -> [tokens : 0 .. Rate, last : Nat]]
  /\ granted \in [Job -> Nat \cup {None}]
  /\ penalty \in [Host -> Nat]

\* A caller that is to try again has an attempt left, one that waits has made one.
AttemptsLeft ==
  \A c \in Caller :
    /\ pc[c] = "ready" => tries[c] < MaxAttempts
    /\ pc[c] = "waiting" => tries[c] >= 1

\* What a worker can be doing: nothing before its attempt is made, pacing only
\* where there is a limiter, waiting for an oversized read only for one.
InPlace ==
  \A j \in Job :
    /\ j[2] > tries[j[1]] => op[j] = "none"
    /\ op[j] = "pacing" => At(j) \in Limited
    /\ op[j] = "oversized" => j[1] \in Synthetic

\* A worker that goes on after its caller has gone is late already.
WaitedForOrLate ==
  \A j \in Job : op[j] \notin {"none", "over"} => Awaited(j) \/ Late(j)

\* While a penalty lasts the bucket is empty, and counted from its end.
PenaltyDrains ==
  \A h \in Limited :
    \/ penalty[h] <= clock
    \/ bucket[h].tokens = 0 /\ bucket[h].last = penalty[h]

Grants(h, from, to) == {j \in Job : At(j) = h /\ granted[j] \in from .. to}

\* What was granted since any time, and what may be granted now on top of it.
PaceAccounted ==
  /\ \A j \in Job : granted[j] # None => granted[j] <= clock
  /\ \A h \in Limited : \A from \in 0 .. clock :
       LET most == Rate + Rate * (clock - from) IN
       /\ Cardinality(Grants(h, from, clock)) <= most
       /\ Cardinality(Grants(h, from, clock)) + Level(h) <= most

-----------------------------------------------------------------------------
(* Arithmetic and finite sets.                                                *)

LEMMA LeastIsOne ==
  ASSUME NEW a \in Int, NEW b \in Int
  PROVE  Least(a, b) \in {a, b} /\ Least(a, b) <= a /\ Least(a, b) <= b
  BY DEF Least

LEMMA MoreTime ==
  ASSUME NEW r \in Nat, NEW a \in Int, NEW b \in Int
  PROVE  /\ r * (a - b) \in Int /\ (a - b) * r \in Int
         /\ r * (a + 1 - b) = r * (a - b) + r
         /\ (a + 1 - b) * r = (a - b) * r + r
  OBVIOUS

LEMMA NoTime ==
  ASSUME NEW r \in Nat, NEW a \in Int, a <= 0
  PROVE  a * r <= 0
  OBVIOUS

LEMMA JobsAreFinite == IsFiniteSet(Job)
<1>1. IsFiniteSet(Caller)
  BY CallerAssumption
<1>2. IsFiniteSet(1 .. MaxAttempts)
  BY SizeAssumption, FS_Interval
<1>3. QED
  BY <1>1, <1>2, FS_Product DEF Job

LEMMA Counted ==
  ASSUME NEW S \in SUBSET Job
  PROVE  IsFiniteSet(S) /\ Cardinality(S) \in Nat
  BY JobsAreFinite, FS_Subset, FS_CardinalityType

LEMMA OneMore ==
  ASSUME NEW S \in SUBSET Job, NEW j \in Job, j \notin S
  PROVE  Cardinality(S \cup {j}) = Cardinality(S) + 1
  BY Counted, FS_AddElement

LEMMA OneLess ==
  ASSUME NEW S \in SUBSET Job, NEW j \in S
  PROVE  Cardinality(S \ {j}) = Cardinality(S) - 1
  BY Counted, FS_RemoveElement

LEMMA AtMostOneMore ==
  ASSUME NEW S \in SUBSET Job, NEW T \in SUBSET Job, NEW j \in Job, T \subseteq S \cup {j}
  PROVE  Cardinality(T) <= Cardinality(S) + 1
<1>1. IsFiniteSet(S \cup {j}) /\ S \cup {j} \in SUBSET Job
  BY Counted
<1>2. Cardinality(T) <= Cardinality(S \cup {j}) /\ Cardinality(T) \in Nat
  BY <1>1, FS_Subset, Counted
<1>3. CASE j \in S
  <2>1. S \cup {j} = S
    BY <1>3
  <2>2. QED
    BY <2>1, <1>2, Counted
<1>4. CASE j \notin S
  BY <1>4, <1>2, OneMore, Counted
<1>5. QED
  BY <1>3, <1>4

LEMMA NoMore ==
  ASSUME NEW S \in SUBSET Job, NEW T \in SUBSET S
  PROVE  Cardinality(T) <= Cardinality(S)
  BY Counted, FS_Subset

LEMMA JobsOfACaller ==
  /\ \A c \in Caller, i \in 1 .. MaxAttempts :
       <<c, i>> \in Job /\ <<c, i>>[1] = c /\ <<c, i>>[2] = i
  /\ \A j \in Job : j[1] \in Caller /\ j[2] \in 1 .. MaxAttempts /\ At(j) \in Host
  BY CallerAssumption DEF Job, At
-----------------------------------------------------------------------------
(* Types, and what a caller and its workers may be doing.                     *)

Placed == Shape /\ AttemptsLeft /\ InPlace

LEMMA PlacedAtFirst == Init => Placed
  BY SizeAssumption, JobsOfACaller
  DEF Init, Placed, Shape, AttemptsLeft, InPlace, Outcome

\* The attempt a waiting caller waits for is one of its jobs.
LEMMA CurrentIsAJob ==
  ASSUME Placed, NEW c \in Caller, pc[c] = "waiting"
  PROVE  /\ Current(c) \in Job /\ Current(c)[1] = c /\ Current(c)[2] = tries[c]
         /\ tries[c] \in 1 .. MaxAttempts
  BY JobsOfACaller DEF Placed, Shape, AttemptsLeft, Current

\* After a failed attempt the call ends, or sleeps if it has an attempt left.
LEMMA AgainKeeps ==
  ASSUME Placed, NEW c \in Caller, NEW advised \in BOOLEAN, Again(c, advised)
  PROVE  /\ \/ pc' = [pc EXCEPT ![c] = "done"]
            \/ pc' = [pc EXCEPT ![c] = "ready"] /\ tries[c] # MaxAttempts
         /\ wake' \in [Caller -> Nat]
         /\ \/ UNCHANGED <<bucket, penalty>>
            \/ \E delay \in Nat :
                 /\ HostOf[c] \in Limited
                 /\ penalty' = [penalty EXCEPT ![HostOf[c]] = clock + delay]
                 /\ bucket' = [bucket EXCEPT
                      ![HostOf[c]] = [tokens |-> 0, last |-> clock + delay]]
<1>1. ASSUME NEW delay \in Nat, Sleep(c, delay)
      PROVE  /\ \/ pc' = [pc EXCEPT ![c] = "done"]
                \/ pc' = [pc EXCEPT ![c] = "ready"]
             /\ wake' \in [Caller -> Nat]
  <2>1. PICK jitter \in 0 .. delay \div 2 :
          IF delay + jitter >= Deadline - clock
          THEN pc' = [pc EXCEPT ![c] = "done"] /\ UNCHANGED wake
          ELSE /\ pc' = [pc EXCEPT ![c] = "ready"]
               /\ wake' = [wake EXCEPT ![c] = clock + delay + jitter]
    BY <1>1 DEF Sleep
  <2>2. clock + delay + jitter \in Nat /\ wake \in [Caller -> Nat]
    BY <1>1 DEF Placed, Shape
  <2>3. QED
    BY <2>1, <2>2
<1>2. CASE c \in Guarded \/ tries[c] = MaxAttempts
  BY <1>2 DEF Again, Placed, Shape
<1>3. CASE ~(c \in Guarded \/ tries[c] = MaxAttempts) /\ advised
  <2>1. PICK advice \in Advice :
          /\ Sleep(c, Least(BackoffCap, advice))
          /\ IF HostOf[c] \in Limited
             THEN Penalise(HostOf[c], Least(BackoffCap, advice))
             ELSE UNCHANGED <<bucket, penalty>>
    BY <1>3 DEF Again
  <2>2. Least(BackoffCap, advice) \in Nat
    BY SizeAssumption DEF Least
  <2>3. QED
    BY <1>1, <1>3, <2>1, <2>2 DEF Penalise
<1>4. CASE ~(c \in Guarded \/ tries[c] = MaxAttempts) /\ ~advised
  <2>1. UNCHANGED <<bucket, penalty>>
        /\ \E delay \in 0 .. BackoffCap : Sleep(c, delay)
    BY <1>4 DEF Again
  <2>2. QED
    BY <1>1, <1>4, <2>1
<1>5. QED
  BY <1>2, <1>3, <1>4

\* What Penalise leaves is a bucket, and Shape's types hold of it.
LEMMA PenaltyShape ==
  ASSUME Shape, NEW h \in Host, NEW delay \in Nat,
         penalty' = [penalty EXCEPT ![h] = clock + delay],
         bucket' = [bucket EXCEPT ![h] = [tokens |-> 0, last |-> clock + delay]]
  PROVE  /\ bucket' \in [Host -> [tokens : 0 .. Rate, last : Nat]]
         /\ penalty' \in [Host -> Nat]
<1>1. clock + delay \in Nat /\ 0 \in 0 .. Rate
  BY SizeAssumption DEF Shape
<1>2. [tokens |-> 0, last |-> clock + delay] \in [tokens : 0 .. Rate, last : Nat]
  BY <1>1
<1>3. QED
  BY <1>1, <1>2 DEF Shape
LEMMA LevelIsWhole ==
  ASSUME Shape, NEW h \in Host
  PROVE  Level(h) \in Int /\ Level(h) <= Rate
<1>1. /\ clock \in Nat /\ Rate \in Nat /\ bucket[h].last \in Nat
      /\ bucket[h].tokens \in 0 .. Rate
  BY SizeAssumption DEF Shape
<1>2. bucket[h].tokens + (clock - bucket[h].last) * Rate \in Int
  BY <1>1, MoreTime
<1>3. QED
  BY <1>1, <1>2 DEF Level, Least

LEMMA PlacedStep == Placed /\ [Next]_vars => Placed'
<1> SUFFICES ASSUME Placed, [Next]_vars PROVE Placed'
  OBVIOUS
<1>1. ASSUME NEW c \in Caller, Attempt(c) PROVE Placed'
  <2> DEFINE j == <<c, tries[c] + 1>>
  <2>1. pc[c] = "ready" /\ tries[c] + 1 \in 1 .. MaxAttempts
    BY <1>1, SizeAssumption DEF Attempt, Placed, Shape, AttemptsLeft
  <2>2. j \in Job
    BY <2>1 DEF Job
  <2>3. Least(clock + Timeout, Deadline) \in 0 .. Deadline
    BY <1>1, SizeAssumption DEF Attempt, Placed, Shape, Least
  <2>4. Shape'
    BY <1>1, <2>1, <2>2, <2>3 DEF Attempt, Move, Placed, Shape
  <2>5. AttemptsLeft'
    BY <1>1, <2>1 DEF Attempt, Placed, Shape, AttemptsLeft
  <2>6. InPlace'
    BY <1>1, <2>1, <2>2 DEF Attempt, Move, Placed, Shape, InPlace, At, Job
  <2>7. QED
    BY <2>4, <2>5, <2>6 DEF Placed
<1>2. ASSUME NEW c \in Caller, TooLate(c) PROVE Placed'
  BY <1>2 DEF TooLate, Placed, Shape, AttemptsLeft, InPlace, At
\* A caller's next move after an attempt that failed.
<1>3. ASSUME NEW c \in Caller, NEW advised \in BOOLEAN, NEW stage,
             pc[c] = "waiting", Again(c, advised), Move(Current(c), stage),
             stage \in {"over", op[Current(c)]},
             UNCHANGED <<clock, tries, end, slots, reads, granted>>
      PROVE  Placed'
  <2>1. /\ Current(c) \in Job /\ Current(c)[1] = c /\ Current(c)[2] = tries[c]
        /\ tries[c] \in 1 .. MaxAttempts
    BY <1>3, CurrentIsAJob
  <2>2. /\ \/ pc' = [pc EXCEPT ![c] = "done"]
           \/ pc' = [pc EXCEPT ![c] = "ready"] /\ tries[c] # MaxAttempts
        /\ wake' \in [Caller -> Nat]
        /\ \/ UNCHANGED <<bucket, penalty>>
           \/ \E delay \in Nat :
                /\ HostOf[c] \in Limited
                /\ penalty' = [penalty EXCEPT ![HostOf[c]] = clock + delay]
                /\ bucket' = [bucket EXCEPT
                     ![HostOf[c]] = [tokens |-> 0, last |-> clock + delay]]
    BY <1>3, AgainKeeps
  <2>3. /\ bucket' \in [Host -> [tokens : 0 .. Rate, last : Nat]]
        /\ penalty' \in [Host -> Nat]
    <3>1. HostOf[c] \in Host
      BY CallerAssumption
    <3>2. QED
      BY <2>2, <3>1, PenaltyShape DEF Placed, Shape
  <2>4. op' = [op EXCEPT ![Current(c)] = stage] /\ stage \in {"over", op[Current(c)]}
    BY <1>3 DEF Move
  <2>5. op' = op \/ op' = [op EXCEPT ![Current(c)] = "over"]
    BY <2>1, <2>4 DEF Placed, Shape
  <2>6. /\ op' \in [Job -> {"none", "queued", "pacing", "host", "oversized", "transport",
                            "over"} \cup Outcome]
        /\ \A j \in Job : op'[j] \in {op[j], "over"} /\ (j # Current(c) => op'[j] = op[j])
    BY <2>1, <2>5 DEF Placed, Shape
  <2>7. /\ \/ pc' = [pc EXCEPT ![c] = "done"]
           \/ pc' = [pc EXCEPT ![c] = "ready"] /\ tries[c] # MaxAttempts
        /\ UNCHANGED <<clock, tries, end, slots, reads, granted>>
    BY <1>3, <2>2
  <2>8. Shape'
    BY <2>2, <2>3, <2>6, <2>7 DEF Placed, Shape
  <2>9. AttemptsLeft'
    <3>1. AttemptsLeft /\ pc \in [Caller -> {"ready", "waiting", "done"}] /\ tries' = tries
      BY <2>7 DEF Placed, Shape
    <3>2. tries[c] # MaxAttempts => tries[c] < MaxAttempts
      BY <2>1, SizeAssumption
    <3>3. QED
      BY <2>7, <3>1, <3>2 DEF AttemptsLeft
  <2>10. InPlace'
    BY <2>1, <2>6, <2>7, JobsOfACaller DEF Placed, Shape, InPlace, At
  <2>11. QED
    BY <2>8, <2>9, <2>10 DEF Placed
<1> USE JobsOfACaller
<1>4. ASSUME NEW c \in Caller, Return(c) PROVE Placed'
  <2>1. CASE op[Current(c)] = "answered"
    <3>1. Current(c) \in Job
      BY <1>4, CurrentIsAJob DEF Return
    <3>2. QED
      BY <1>4, <2>1, <3>1 DEF Return, Move, Placed, Shape, AttemptsLeft, InPlace, At
  <2>2. CASE op[Current(c)] # "answered"
    BY <1>3, <1>4, <2>2 DEF Return
  <2>3. QED
    BY <2>1, <2>2
<1>5. ASSUME NEW c \in Caller, Abandon(c) PROVE Placed'
  BY <1>3, <1>5 DEF Abandon
<1>6. ASSUME NEW j \in Job, Begin(j) PROVE Placed'
  BY <1>6 DEF Begin, Move, Placed, Shape, AttemptsLeft, InPlace, At
<1>7. ASSUME NEW j \in Job, Grant(j) PROVE Placed'
  <2>1. At(j) \in Host
    BY CallerAssumption DEF At, Job
  <2>2. Level(At(j)) \in Int /\ Level(At(j)) <= Rate /\ Level(At(j)) >= 1
    BY <1>7, <2>1, LevelIsWhole DEF Grant, Placed
  <2>3. [tokens |-> Level(At(j)) - 1, last |-> clock] \in [tokens : 0 .. Rate, last : Nat]
    BY <2>2, SizeAssumption DEF Placed, Shape
  <2>4. Shape'
    BY <1>7, <2>1, <2>3 DEF Grant, Move, Placed, Shape
  <2>5. AttemptsLeft' /\ InPlace'
    BY <1>7 DEF Grant, Move, Placed, Shape, AttemptsLeft, InPlace, At
  <2>6. QED
    BY <2>4, <2>5 DEF Placed
<1>8. ASSUME NEW j \in Job, GiveUp(j) PROVE Placed'
  BY <1>8 DEF GiveUp, Ends, Move, Outcome, Placed, Shape, AttemptsLeft, InPlace, At
<1>9. ASSUME NEW j \in Job, TakeSlot(j) PROVE Placed'
  <2>1. At(j) \in Host
    BY CallerAssumption DEF At, Job
  <2>2. QED
    BY <1>9, <2>1 DEF TakeSlot, Move, Placed, Shape, AttemptsLeft, InPlace, At
<1>10. ASSUME NEW j \in Job, TakeRead(j) PROVE Placed'
  BY <1>10 DEF TakeRead, Move, Placed, Shape, AttemptsLeft, InPlace, At
<1>11. ASSUME NEW j \in Job, GiveUpRead(j) PROVE Placed'
  BY <1>11 DEF GiveUpRead, Ends, Move, Outcome, Placed, Shape, AttemptsLeft, InPlace, At
<1>12. ASSUME NEW j \in Job, Finish(j) PROVE Placed'
  <2>1. PICK outcome \in Outcome : Ends(j, outcome)
    BY <1>12 DEF Finish, Outcome
  <2>2. QED
    BY <1>12, <2>1
    DEF Finish, Ends, Move, Outcome, Placed, Shape, AttemptsLeft, InPlace, At
<1>13. ASSUME Tick PROVE Placed'
  BY <1>13 DEF Tick, Placed, Shape, AttemptsLeft, InPlace, At
<1>14. CASE UNCHANGED vars
  BY <1>14 DEF vars, Placed, Shape, AttemptsLeft, InPlace, At
<1>15. QED
  BY <1>1, <1>2, <1>4, <1>5, <1>6, <1>7, <1>8, <1>9, <1>10, <1>11, <1>12, <1>13, <1>14
  DEF Next, Progress, CallerStep, WorkerStep
-----------------------------------------------------------------------------
(* Slots and oversized reads: each is free or held by one worker.             *)

LEMMA HeldAreJobs ==
  /\ \A h \in Host : InFlight(h) \in SUBSET Job
  /\ Oversized \in SUBSET Job
  BY DEF InFlight, Oversized

LEMMA AccountedAtFirst == Init => SlotsAccounted
<1> SUFFICES ASSUME Init PROVE SlotsAccounted
  OBVIOUS
<1>1. \A h \in Host : InFlight(h) = {}
  BY DEF Init, InFlight
<1>2. Oversized = {}
  BY DEF Init, Oversized
<1>3. Cardinality({}) = 0
  BY FS_EmptySet
<1>4. QED
  BY <1>1, <1>2, <1>3, SizeAssumption DEF Init, SlotsAccounted

\* A step that neither takes nor gives back.
LEMMA NothingTaken ==
  ASSUME SlotsAccounted, UNCHANGED <<slots, reads>>,
         \A j \in Job :
           /\ op'[j] \in {"oversized", "transport"} <=> op[j] \in {"oversized", "transport"}
           /\ op'[j] = "transport" <=> op[j] = "transport"
  PROVE  SlotsAccounted'
<1>1. \A h \in Host : InFlight(h)' = InFlight(h)
  BY DEF InFlight, At
<1>2. Oversized' = Oversized
  BY DEF Oversized
<1>3. QED
  BY <1>1, <1>2 DEF SlotsAccounted

\* A step that takes the host's slot.
LEMMA SlotTaken ==
  ASSUME Placed, SlotsAccounted, NEW j \in Job, TakeSlot(j)
  PROVE  SlotsAccounted'
<1> DEFINE stage == IF j[1] \in Synthetic THEN "oversized" ELSE "transport"
<1>1. op[j] = "host" /\ op'[j] = stage /\ \A k \in Job \ {j} : op'[k] = op[k]
  BY DEF TakeSlot, Move, Placed, Shape
<1>2. At(j) \in Host
  BY JobsOfACaller
<1>3. InFlight(At(j))' = InFlight(At(j)) \cup {j} /\ j \notin InFlight(At(j))
  BY <1>1 DEF InFlight, At
<1>4. \A h \in Host \ {At(j)} : InFlight(h)' = InFlight(h)
  BY <1>1 DEF InFlight, At
<1>5. Oversized' = Oversized
  BY <1>1 DEF Oversized
<1>6. Cardinality(InFlight(At(j))') = Cardinality(InFlight(At(j))) + 1
  BY <1>2, <1>3, HeldAreJobs, OneMore
<1>7. slots' = [slots EXCEPT ![At(j)] = @ - 1] /\ reads' = reads /\ slots \in [Host -> Nat]
  BY DEF TakeSlot, Placed, Shape
<1>8. Cardinality(InFlight(At(j))) \in Nat
  BY <1>2, HeldAreJobs, Counted
<1>9. ASSUME NEW h \in Host
      PROVE  slots'[h] + Cardinality(InFlight(h)') = HostSlots
  <2>1. CASE h = At(j)
    BY <1>2, <1>6, <1>7, <1>8, <2>1 DEF SlotsAccounted
  <2>2. CASE h # At(j)
    BY <1>4, <1>7, <2>2 DEF SlotsAccounted
  <2>3. QED
    BY <2>1, <2>2
<1>10. QED
  BY <1>5, <1>7, <1>9 DEF SlotsAccounted

LEMMA ReadTaken ==
  ASSUME Placed, SlotsAccounted, NEW j \in Job, TakeRead(j)
  PROVE  SlotsAccounted'
<1>1. /\ op[j] = "oversized" /\ op'[j] = "transport" /\ j[1] \in Synthetic
      /\ \A k \in Job \ {j} : op'[k] = op[k]
  BY DEF TakeRead, Move, Placed, Shape, InPlace
<1>2. \A h \in Host : InFlight(h)' = InFlight(h)
  BY <1>1 DEF InFlight, At
<1>3. Oversized' = Oversized \cup {j} /\ j \notin Oversized
  BY <1>1 DEF Oversized
<1>4. Cardinality(Oversized') = Cardinality(Oversized) + 1 /\ Cardinality(Oversized) \in Nat
  BY <1>3, HeldAreJobs, OneMore, Counted
<1>5. slots' = slots /\ reads' = reads - 1 /\ reads \in Nat
  BY DEF TakeRead, Placed, Shape
<1>6. QED
  BY <1>2, <1>4, <1>5 DEF SlotsAccounted

\* A worker that held the host's slot, and perhaps a read, ends.
LEMMA GivenBack ==
  ASSUME Placed, SlotsAccounted, NEW j \in Job,
         op[j] \in {"oversized", "transport"}, op'[j] \notin {"oversized", "transport"},
         \A k \in Job \ {j} : op'[k] = op[k],
         slots' = [slots EXCEPT ![At(j)] = @ + 1],
         reads' = IF j[1] \in Synthetic /\ op[j] = "transport" THEN reads + 1 ELSE reads
  PROVE  SlotsAccounted'
<1>1. At(j) \in Host /\ slots \in [Host -> Nat] /\ reads \in Nat
  BY JobsOfACaller DEF Placed, Shape
<1>2. InFlight(At(j))' = InFlight(At(j)) \ {j} /\ j \in InFlight(At(j))
  BY DEF InFlight, At
<1>3. \A h \in Host \ {At(j)} : InFlight(h)' = InFlight(h)
  BY DEF InFlight, At
<1>4. Oversized' = Oversized \ {j}
  BY DEF Oversized
<1>5. j \in Oversized <=> j[1] \in Synthetic /\ op[j] = "transport"
  BY DEF Oversized
<1>6. /\ Cardinality(InFlight(At(j))') = Cardinality(InFlight(At(j))) - 1
      /\ Cardinality(InFlight(At(j))) \in Nat
  BY <1>1, <1>2, HeldAreJobs, OneLess, Counted
<1>7. ASSUME NEW h \in Host
      PROVE  slots'[h] + Cardinality(InFlight(h)') = HostSlots
  <2>1. CASE h = At(j)
    BY <1>1, <1>6, <2>1 DEF SlotsAccounted
  <2>2. CASE h # At(j)
    BY <1>1, <1>3, <2>2 DEF SlotsAccounted
  <2>3. QED
    BY <2>1, <2>2
<1>8. reads' + Cardinality(Oversized') = MaxReads
  <2>1. CASE j \in Oversized
    <3>1. Cardinality(Oversized') = Cardinality(Oversized) - 1 /\ Cardinality(Oversized) \in Nat
      BY <1>4, <2>1, HeldAreJobs, OneLess, Counted
    <3>2. QED
      BY <1>1, <1>5, <2>1, <3>1 DEF SlotsAccounted
  <2>2. CASE j \notin Oversized
    <3>1. Oversized' = Oversized
      BY <1>4, <2>2
    <3>2. QED
      BY <1>5, <2>2, <3>1 DEF SlotsAccounted
  <2>3. QED
    BY <2>1, <2>2
<1>9. QED
  BY <1>7, <1>8 DEF SlotsAccounted
LEMMA AccountedStep == Placed /\ SlotsAccounted /\ [Next]_vars => SlotsAccounted'
<1> SUFFICES ASSUME Placed, SlotsAccounted, [Next]_vars PROVE SlotsAccounted'
  OBVIOUS
<1> USE JobsOfACaller
<1>1. ASSUME NEW c \in Caller, Attempt(c) PROVE SlotsAccounted'
  <2> DEFINE j == <<c, tries[c] + 1>>
  <2>1. pc[c] = "ready" /\ tries[c] + 1 \in 1 .. MaxAttempts
    BY <1>1, SizeAssumption DEF Attempt, Placed, Shape, AttemptsLeft
  <2>2. j \in Job /\ op[j] = "none"
    BY <2>1 DEF Job, Placed, Shape, InPlace
  <2>3. QED
    BY <1>1, <2>2, NothingTaken DEF Attempt, Move, Placed, Shape
<1>2. ASSUME NEW c \in Caller, TooLate(c) PROVE SlotsAccounted'
  BY <1>2, NothingTaken DEF TooLate
<1>3. ASSUME NEW c \in Caller, Return(c) PROVE SlotsAccounted'
  <2>1. Current(c) \in Job
    BY <1>3, CurrentIsAJob DEF Return
  <2>2. QED
    BY <1>3, <2>1, NothingTaken DEF Return, Move, Outcome, Placed, Shape
<1>4. ASSUME NEW c \in Caller, Abandon(c) PROVE SlotsAccounted'
  <2>1. Current(c) \in Job
    BY <1>4, CurrentIsAJob DEF Abandon
  <2>2. QED
    BY <1>4, <2>1, NothingTaken DEF Abandon, Move, Placed, Shape
<1>5. ASSUME NEW j \in Job, Begin(j) PROVE SlotsAccounted'
  BY <1>5, NothingTaken DEF Begin, Move, Placed, Shape
<1>6. ASSUME NEW j \in Job, Grant(j) PROVE SlotsAccounted'
  BY <1>6, NothingTaken DEF Grant, Move, Placed, Shape
<1>7. ASSUME NEW j \in Job, GiveUp(j) PROVE SlotsAccounted'
  BY <1>7, NothingTaken DEF GiveUp, Ends, Move, Placed, Shape
<1>8. ASSUME NEW j \in Job, TakeSlot(j) PROVE SlotsAccounted'
  BY <1>8, SlotTaken
<1>9. ASSUME NEW j \in Job, TakeRead(j) PROVE SlotsAccounted'
  BY <1>9, ReadTaken
<1>10. ASSUME NEW j \in Job, GiveUpRead(j) PROVE SlotsAccounted'
  <2>1. /\ op[j] = "oversized" /\ op'[j] \notin {"oversized", "transport"}
        /\ \A k \in Job \ {j} : op'[k] = op[k]
        /\ slots' = [slots EXCEPT ![At(j)] = @ + 1] /\ reads' = reads
    BY <1>10 DEF GiveUpRead, Ends, Move, Placed, Shape
  <2>2. QED
    BY <2>1, GivenBack
<1>11. ASSUME NEW j \in Job, Finish(j) PROVE SlotsAccounted'
  <2>1. PICK outcome \in Outcome : Ends(j, outcome)
    BY <1>11 DEF Finish, Outcome
  <2>2. /\ op[j] = "transport" /\ op'[j] \notin {"oversized", "transport"}
        /\ \A k \in Job \ {j} : op'[k] = op[k]
    BY <1>11, <2>1 DEF Finish, Ends, Move, Outcome, Placed, Shape
  <2>3. QED
    BY <1>11, <2>2, GivenBack DEF Finish
<1>12. ASSUME Tick PROVE SlotsAccounted'
  BY <1>12, NothingTaken DEF Tick
<1>13. CASE UNCHANGED vars
  BY <1>13, NothingTaken DEF vars
<1>14. QED
  BY <1>1, <1>2, <1>3, <1>4, <1>5, <1>6, <1>7, <1>8, <1>9, <1>10, <1>11, <1>12, <1>13
  DEF Next, Progress, CallerStep, WorkerStep
-----------------------------------------------------------------------------
(* Pace: what was granted since any time, with what may be granted now, is no *)
(* more than a full bucket and what has flowed into it since.                 *)

Paced == PaceAccounted /\ PaceKept /\ PenaltyDrains

LEMMA GrantsAreJobs ==
  \A h, from, to :
    /\ Grants(h, from, to) \in SUBSET Job
    /\ IsFiniteSet(Grants(h, from, to)) /\ Cardinality(Grants(h, from, to)) \in Nat
<1>1. \A h, from, to : Grants(h, from, to) \in SUBSET Job
  BY DEF Grants
<1>2. QED
  BY <1>1, Counted

LEMMA PaceInTerms ==
  PaceKept <=> \A h \in Limited : \A from \in 0 .. clock : \A to \in from .. clock :
                 Cardinality(Grants(h, from, to)) <= Rate + Rate * (to - from)
  BY DEF PaceKept, Grants

LEMMA PacedAtFirst == Init => Paced
<1> SUFFICES ASSUME Init PROVE Paced
  OBVIOUS
<1>1. \A h \in Limited : \A from \in 0 .. clock : \A to \in from .. clock :
        Grants(h, from, to) = {} /\ from = 0 /\ to = 0 /\ clock = 0
  BY SizeAssumption DEF Init, Grants
<1>2. Cardinality({}) = 0
  BY FS_EmptySet
<1>3. Rate \in Nat /\ Rate * (0 - 0) = 0 /\ (0 - 0) * Rate = 0
  BY SizeAssumption
<1>4. \A h \in Limited : Level(h) = Rate
  BY <1>3, CallerAssumption DEF Init, Level, Least
<1>5. PaceAccounted
  BY <1>1, <1>2, <1>3, <1>4 DEF PaceAccounted, Init
<1>6. PaceKept
  BY <1>1, <1>2, <1>3, PaceInTerms
<1>7. PenaltyDrains
  BY CallerAssumption DEF Init, PenaltyDrains
<1>8. QED
  BY <1>5, <1>6, <1>7 DEF Paced

LEMMA NothingGranted ==
  ASSUME Paced, UNCHANGED <<clock, bucket, granted, penalty>>
  PROVE  Paced'
  BY DEF Paced, PaceAccounted, PaceKept, PenaltyDrains, Grants, Level

\* A penalty takes what the bucket has, and lets it refill only afterwards.
LEMMA Penalised ==
  ASSUME Placed, Paced, NEW h \in Host, NEW delay \in Nat, UNCHANGED <<clock, granted>>,
         penalty' = [penalty EXCEPT ![h] = clock + delay],
         bucket' = [bucket EXCEPT ![h] = [tokens |-> 0, last |-> clock + delay]]
  PROVE  Paced'
<1>1. /\ clock \in Nat /\ penalty \in [Host -> Nat] /\ Rate \in Nat /\ Limited \subseteq Host
      /\ bucket \in [Host -> [tokens : 0 .. Rate, last : Nat]]
  BY SizeAssumption, CallerAssumption DEF Placed, Shape
<1>2. Level(h)' \in Int /\ Level(h)' <= 0
  <2>1. bucket'[h].tokens = 0 /\ bucket'[h].last = clock + delay /\ clock' = clock
    BY <1>1
  <2>2. Level(h)' = Least(Rate, 0 + (clock - (clock + delay)) * Rate)
    BY <2>1 DEF Level
  <2>3. (clock - (clock + delay)) * Rate \in Int /\ (clock - (clock + delay)) * Rate <= 0
    <3>1. clock - (clock + delay) \in Int /\ clock - (clock + delay) <= 0
      BY <1>1
    <3>2. QED
      BY <1>1, <3>1, NoTime
  <2>4. QED
    BY <1>1, <2>2, <2>3 DEF Least
<1>3. \A g \in Limited : g # h => Level(g)' = Level(g)
  BY <1>1 DEF Level
<1>4. \A g, from, to : Grants(g, from, to)' = Grants(g, from, to)
  BY DEF Grants
<1>5. PaceAccounted'
  <2>1. \A j \in Job : granted'[j] # None => granted'[j] <= clock'
    BY DEF Paced, PaceAccounted
  <2>2. ASSUME NEW g \in Limited, NEW from \in 0 .. clock
        PROVE  /\ Cardinality(Grants(g, from, clock)) <= Rate + Rate * (clock - from)
               /\ Cardinality(Grants(g, from, clock)) + Level(g)'
                    <= Rate + Rate * (clock - from)
    <3>1. /\ Cardinality(Grants(g, from, clock)) <= Rate + Rate * (clock - from)
          /\ Cardinality(Grants(g, from, clock)) + Level(g) <= Rate + Rate * (clock - from)
      BY DEF Paced, PaceAccounted
    <3>2. Cardinality(Grants(g, from, clock)) \in Nat /\ Rate * (clock - from) \in Int
      BY <1>1, GrantsAreJobs
    <3>3. CASE g = h
      BY <1>1, <1>2, <3>1, <3>2, <3>3
    <3>4. CASE g # h
      BY <1>3, <3>1, <3>4
    <3>5. QED
      BY <3>3, <3>4
  <2>3. QED
    BY <1>4, <2>1, <2>2 DEF PaceAccounted
<1>6. PaceKept'
  BY DEF Paced, PaceKept
<1>7. PenaltyDrains'
  BY <1>1 DEF Paced, PenaltyDrains
<1>8. QED
  BY <1>5, <1>6, <1>7 DEF Paced
\* A token: one more is granted, one less is left.
LEMMA OneGranted ==
  ASSUME Placed, Paced, NEW j \in Job, Grant(j)
  PROVE  Paced'
<1> DEFINE h == At(j)
<1>1. /\ clock \in Nat /\ clock' = clock /\ Rate \in Nat
      /\ h \in Limited /\ h \in Host
      /\ granted \in [Job -> Nat \cup {None}] /\ granted' = [granted EXCEPT ![j] = clock]
      /\ bucket \in [Host -> [tokens : 0 .. Rate, last : Nat]]
      /\ bucket' = [bucket EXCEPT ![h] = [tokens |-> Level(h) - 1, last |-> clock]]
      /\ penalty' = penalty
  BY SizeAssumption, JobsOfACaller DEF Placed, Shape, InPlace, Grant
<1>2. Level(h) \in 1 .. Rate
  BY <1>1, LevelIsWhole, SizeAssumption DEF Grant, Placed
<1>3. Level(h)' = Level(h) - 1
  <2>1. bucket'[h].tokens = Level(h) - 1 /\ bucket'[h].last = clock
    BY <1>1
  <2>2. Level(h)' = Least(Rate, Level(h) - 1 + (clock - clock) * Rate)
    BY <1>1, <2>1 DEF Level
  <2>3. (clock - clock) * Rate = 0
    BY <1>1
  <2>4. QED
    BY <1>1, <1>2, <2>2, <2>3 DEF Least
<1>4. \A g \in Limited : g # h => Level(g)' = Level(g)
  BY <1>1, CallerAssumption DEF Level
<1>5. \A g, from, to : g # h => Grants(g, from, to)' = Grants(g, from, to)
  BY <1>1 DEF Grants
<1>6. ASSUME NEW from \in 0 .. clock
      PROVE  /\ Cardinality(Grants(h, from, clock)') <= Rate + Rate * (clock - from)
             /\ Cardinality(Grants(h, from, clock)') + Level(h)'
                  <= Rate + Rate * (clock - from)
  <2>1. Cardinality(Grants(h, from, clock)) + Level(h) <= Rate + Rate * (clock - from)
    BY <1>1 DEF Paced, PaceAccounted
  <2>2. Grants(h, from, clock)' \in SUBSET Job
    BY DEF Grants
  <2>3. Cardinality(Grants(h, from, clock)') <= Cardinality(Grants(h, from, clock)) + 1
    <3>1. Grants(h, from, clock) \in SUBSET Job
      BY DEF Grants
    <3>2. Grants(h, from, clock)' \subseteq Grants(h, from, clock) \cup {j}
      BY <1>1 DEF Grants
    <3>3. QED
      BY <2>2, <3>1, <3>2, AtMostOneMore
  <2>4. /\ Cardinality(Grants(h, from, clock)) \in Nat
        /\ Cardinality(Grants(h, from, clock)') \in Nat
        /\ Rate * (clock - from) \in Int
    BY <1>1, <2>2, GrantsAreJobs, Counted
  <2>5. QED
    BY <1>1, <1>2, <1>3, <2>1, <2>3, <2>4
<1>7. PaceAccounted'
  <2>1. \A k \in Job : granted'[k] # None => granted'[k] <= clock'
    BY <1>1 DEF Paced, PaceAccounted
  <2>2. ASSUME NEW g \in Limited, NEW from \in 0 .. clock
        PROVE  /\ Cardinality(Grants(g, from, clock)') <= Rate + Rate * (clock - from)
               /\ Cardinality(Grants(g, from, clock)') + Level(g)'
                    <= Rate + Rate * (clock - from)
    <3>1. CASE g = h
      BY <1>6, <3>1
    <3>2. CASE g # h
      <4>1. Grants(g, from, clock)' = Grants(g, from, clock) /\ Level(g)' = Level(g)
        BY <1>1, <3>2, CallerAssumption DEF Grants, Level
      <4>2. QED
        BY <4>1 DEF Paced, PaceAccounted
    <3>3. QED
      BY <3>1, <3>2
  <2>3. QED
    BY <1>1, <2>1, <2>2 DEF PaceAccounted, Grants
<1>8. PaceKept'
  <2>1. ASSUME NEW g \in Limited, NEW from \in 0 .. clock, NEW to \in from .. clock
        PROVE  Cardinality(Grants(g, from, to)') <= Rate + Rate * (to - from)
    <3>1. Cardinality(Grants(g, from, to)) <= Rate + Rate * (to - from)
      BY PaceInTerms DEF Paced
    <3>2. CASE g # h
      BY <1>5, <3>1, <3>2
    <3>3. CASE g = h /\ to = clock
      <4>1. Cardinality(Grants(h, from, clock)') <= Rate + Rate * (clock - from)
        BY <1>6
      <4>2. QED
        BY <1>1, <3>3, <4>1 DEF Grants
    <3>4. CASE g = h /\ to # clock
      <4>1. Grants(h, from, to)' \subseteq Grants(h, from, to)
        BY <1>1, <3>4 DEF Grants
      <4>2. Cardinality(Grants(h, from, to)') <= Cardinality(Grants(h, from, to))
        BY <4>1, GrantsAreJobs, NoMore
      <4>3. /\ Cardinality(Grants(h, from, to)) \in Nat
            /\ Cardinality(Grants(h, from, to)') \in Nat
            /\ Rate * (to - from) \in Int
        <5>1. Grants(h, from, to)' \in SUBSET Job
          BY DEF Grants
        <5>2. QED
          BY <1>1, <5>1, GrantsAreJobs, Counted
      <4>4. QED
        BY <1>1, <3>1, <3>4, <4>2, <4>3
    <3>5. QED
      BY <3>2, <3>3, <3>4
  <2>2. QED
    BY <1>1, <2>1 DEF PaceKept, Grants
<1>9. PenaltyDrains'
  <2>1. ASSUME penalty[h] > clock
        PROVE  FALSE
    <3>1. /\ bucket[h].tokens = 0 /\ bucket[h].last = penalty[h]
          /\ penalty[h] \in Nat
      BY <1>1, <2>1 DEF Paced, PenaltyDrains, Placed, Shape
    <3>2. clock - bucket[h].last \in Int /\ clock - bucket[h].last <= 0
      BY <1>1, <2>1, <3>1
    <3>3. (clock - bucket[h].last) * Rate <= 0 /\ (clock - bucket[h].last) * Rate \in Int
      BY <1>1, <3>2, NoTime
    <3>4. QED
      BY <1>1, <1>2, <3>1, <3>3 DEF Level, Least
  <2>2. penalty[h] <= clock
    BY <1>1, <2>1 DEF Placed, Shape
  <2>3. QED
    BY <1>1, <2>2, CallerAssumption DEF Paced, PenaltyDrains
<1>10. QED
  BY <1>7, <1>8, <1>9 DEF Paced

\* Time: what has flowed into the bucket is what the window has grown by.
LEMMA Ticked ==
  ASSUME Placed, Paced, Tick
  PROVE  Paced'
<1>1. /\ clock \in Nat /\ clock' = clock + 1 /\ Rate \in Nat
      /\ Limited \subseteq Host
      /\ bucket \in [Host -> [tokens : 0 .. Rate, last : Nat]]
      /\ UNCHANGED <<bucket, granted, penalty>>
      /\ granted \in [Job -> Nat \cup {None}] /\ None \notin Nat
  BY SizeAssumption, CallerAssumption DEF Tick, Placed, Shape
<1>2. \A g, from, to : Grants(g, from, to)' = Grants(g, from, to)
  BY <1>1 DEF Grants
<1>3. \A k \in Job : granted[k] # None => granted[k] <= clock
  BY DEF Paced, PaceAccounted
<1>4. \A g \in Limited : \A from \in 0 .. clock :
        Grants(g, from, clock + 1) = Grants(g, from, clock)
  BY <1>1, <1>3 DEF Grants
<1>5. \A g \in Limited : Grants(g, clock + 1, clock + 1) = {}
  BY <1>1, <1>3 DEF Grants
<1>6. Cardinality({}) = 0
  BY FS_EmptySet
<1>7. ASSUME NEW g \in Limited
      PROVE  /\ Level(g)' \in Int /\ Level(g) \in Int
             /\ Level(g)' <= Level(g) + Rate /\ Level(g)' <= Rate
  <2>1. bucket[g].tokens \in 0 .. Rate /\ bucket[g].last \in Nat
    BY <1>1
  <2>2. /\ (clock - bucket[g].last) * Rate \in Int
        /\ (clock + 1 - bucket[g].last) * Rate = (clock - bucket[g].last) * Rate + Rate
    BY <1>1, <2>1, MoreTime
  <2>3. Level(g) = Least(Rate, bucket[g].tokens + (clock - bucket[g].last) * Rate)
    BY DEF Level
  <2>4. Level(g)' = Least(Rate, bucket[g].tokens + (clock + 1 - bucket[g].last) * Rate)
    BY <1>1 DEF Level
  <2>5. QED
    BY <1>1, <2>1, <2>2, <2>3, <2>4 DEF Least
<1>8. ASSUME NEW g \in Limited, NEW from \in 0 .. clock + 1
      PROVE  /\ Cardinality(Grants(g, from, clock + 1)) <= Rate + Rate * (clock + 1 - from)
             /\ Cardinality(Grants(g, from, clock + 1)) + Level(g)'
                  <= Rate + Rate * (clock + 1 - from)
  <2>1. CASE from = clock + 1
    <3>1. Cardinality(Grants(g, from, clock + 1)) = 0 /\ Rate * (clock + 1 - from) = 0
      <4>1. Grants(g, from, clock + 1) = {}
        BY <1>1, <1>3, <2>1 DEF Grants
      <4>2. clock + 1 - from = 0 /\ Rate * 0 = 0
        BY <1>1, <2>1
      <4>3. QED
        BY <1>6, <4>1, <4>2
    <3>2. QED
      BY <1>1, <1>7, <3>1
  <2>2. CASE from # clock + 1
    <3>1. from \in 0 .. clock
      BY <1>1, <2>2
    <3>2. /\ Cardinality(Grants(g, from, clock)) <= Rate + Rate * (clock - from)
          /\ Cardinality(Grants(g, from, clock)) + Level(g) <= Rate + Rate * (clock - from)
      BY <3>1 DEF Paced, PaceAccounted
    <3>3. /\ Rate * (clock + 1 - from) = Rate * (clock - from) + Rate
          /\ Rate * (clock - from) \in Int
          /\ Cardinality(Grants(g, from, clock)) \in Nat
      BY <1>1, <3>1, MoreTime, GrantsAreJobs
    <3>4. QED
      BY <1>1, <1>4, <1>7, <3>1, <3>2, <3>3
  <2>3. QED
    BY <2>1, <2>2
<1>9. PaceAccounted'
  <2>1. \A k \in Job : granted'[k] # None => granted'[k] <= clock'
    BY <1>1, <1>3
  <2>2. QED
    BY <1>1, <1>2, <1>8, <2>1 DEF PaceAccounted
<1>10. PaceKept'
  <2>1. ASSUME NEW g \in Limited, NEW from \in 0 .. clock + 1, NEW to \in from .. clock + 1
        PROVE  Cardinality(Grants(g, from, to)) <= Rate + Rate * (to - from)
    <3>1. CASE to = clock + 1
      <4>1. Cardinality(Grants(g, from, clock + 1)) <= Rate + Rate * (clock + 1 - from)
        BY <1>8
      <4>2. QED
        BY <1>1, <3>1, <4>1 DEF Grants
    <3>2. CASE to # clock + 1
      <4>1. from \in 0 .. clock /\ to \in from .. clock
        BY <1>1, <3>2
      <4>2. QED
        BY <4>1, PaceInTerms DEF Paced
    <3>3. QED
      BY <3>1, <3>2
  <2>2. QED
    BY <1>1, <2>1 DEF PaceKept, Grants
<1>11. PenaltyDrains'
  BY <1>1 DEF Paced, PenaltyDrains, Placed, Shape
<1>12. QED
  BY <1>9, <1>10, <1>11 DEF Paced
LEMMA PacedStep == Placed /\ Paced /\ [Next]_vars => Paced'
<1> SUFFICES ASSUME Placed, Paced, [Next]_vars PROVE Paced'
  OBVIOUS
<1>1. ASSUME NEW c \in Caller, NEW advised \in BOOLEAN, Again(c, advised),
             UNCHANGED <<clock, granted>>
      PROVE  Paced'
  <2>1. \/ UNCHANGED <<bucket, penalty>>
        \/ \E delay \in Nat :
             /\ HostOf[c] \in Limited
             /\ penalty' = [penalty EXCEPT ![HostOf[c]] = clock + delay]
             /\ bucket' = [bucket EXCEPT
                  ![HostOf[c]] = [tokens |-> 0, last |-> clock + delay]]
    BY <1>1, AgainKeeps
  <2>2. HostOf[c] \in Host
    BY CallerAssumption
  <2>3. QED
    BY <1>1, <2>1, <2>2, NothingGranted, Penalised
<1>2. ASSUME NEW c \in Caller, Return(c) PROVE Paced'
  BY <1>1, <1>2, NothingGranted DEF Return
<1>3. ASSUME NEW c \in Caller, Abandon(c) PROVE Paced'
  BY <1>1, <1>3 DEF Abandon
<1>4. ASSUME NEW c \in Caller, Attempt(c) \/ TooLate(c) PROVE Paced'
  BY <1>4, NothingGranted DEF Attempt, TooLate
<1>5. ASSUME NEW j \in Job, Grant(j) PROVE Paced'
  BY <1>5, OneGranted
<1>6. ASSUME NEW j \in Job,
             Begin(j) \/ GiveUp(j) \/ TakeSlot(j) \/ TakeRead(j) \/ GiveUpRead(j) \/ Finish(j)
      PROVE  Paced'
  BY <1>6, NothingGranted DEF Begin, GiveUp, TakeSlot, TakeRead, GiveUpRead, Finish
<1>7. ASSUME Tick PROVE Paced'
  BY <1>7, Ticked
<1>8. CASE UNCHANGED vars
  BY <1>8, NothingGranted DEF vars
<1>9. QED
  BY <1>2, <1>3, <1>4, <1>5, <1>6, <1>7, <1>8 DEF Next, Progress, CallerStep, WorkerStep

-----------------------------------------------------------------------------
(* Deadlines: who goes on has a caller, or is late and goes nowhere.          *)

LEMMA WaitedForAtFirst == Init => WaitedForOrLate
  BY DEF Init, WaitedForOrLate

LEMMA WaitedForStep == Placed /\ WaitedForOrLate /\ [Next]_vars => WaitedForOrLate'
<1> SUFFICES ASSUME Placed, WaitedForOrLate, [Next]_vars PROVE WaitedForOrLate'
  OBVIOUS
<1> USE JobsOfACaller
\* A caller's own attempt leaves with it, or is late.
<1>1. ASSUME NEW c \in Caller, pc[c] = "waiting", UNCHANGED <<clock, tries, end>>,
             \A b \in Caller \ {c} : pc'[b] = pc[b],
             \A j \in Job : j # Current(c) => op'[j] = op[j],
             \/ op'[Current(c)] = "over"
             \/ op'[Current(c)] = op[Current(c)] /\ Late(Current(c))
      PROVE  WaitedForOrLate'
  BY <1>1 DEF WaitedForOrLate, Awaited, Late, Current
\* Any step of a worker that keeps who waits.
<1>2. ASSUME NEW j \in Job, UNCHANGED <<clock, pc, tries, end>>,
             \A k \in Job \ {j} : op'[k] = op[k],
             op[j] \notin {"none", "over"}
      PROVE  WaitedForOrLate'
  BY <1>2 DEF WaitedForOrLate, Awaited, Late, Current
<1>3. ASSUME NEW c \in Caller, Attempt(c) PROVE WaitedForOrLate'
  <2>1. pc[c] = "ready" /\ tries[c] + 1 \in 1 .. MaxAttempts
    BY <1>3, SizeAssumption DEF Attempt, Placed, Shape, AttemptsLeft
  <2>2. PICK j \in Job : j = <<c, tries[c] + 1>> /\ j[1] = c
    BY <2>1 DEF Job
  <2>3. Awaited(j)'
    <3>1. pc'[c] = "waiting" /\ tries'[c] = tries[c] + 1
      BY <1>3 DEF Attempt, Placed, Shape
    <3>2. Current(c)' = j
      BY <2>2, <3>1 DEF Current
    <3>3. QED
      BY <2>2, <3>1, <3>2 DEF Awaited
  <2>4. ASSUME NEW k \in Job, k # j, op'[k] \notin {"none", "over"}
        PROVE  Awaited(k)' \/ Late(k)'
    <3>1. op'[k] = op[k] /\ end'[k] = end[k] /\ clock' = clock
      BY <1>3, <2>2, <2>4 DEF Attempt, Move, Placed, Shape
    <3>2. Awaited(k) \/ Late(k)
      BY <2>4, <3>1 DEF WaitedForOrLate
    <3>3. CASE k[1] = c
      BY <2>1, <3>1, <3>2, <3>3 DEF Awaited, Late
    <3>4. CASE k[1] # c
      <4>1. pc'[k[1]] = pc[k[1]] /\ tries'[k[1]] = tries[k[1]]
        BY <1>3, <3>4 DEF Attempt, Placed, Shape
      <4>2. QED
        BY <3>1, <3>2, <4>1 DEF Awaited, Late, Current
    <3>5. QED
      BY <3>3, <3>4
  <2>5. QED
    BY <2>3, <2>4 DEF WaitedForOrLate
<1>4. ASSUME NEW c \in Caller, TooLate(c) PROVE WaitedForOrLate'
  BY <1>4 DEF TooLate, WaitedForOrLate, Awaited, Late, Current, Placed, Shape
<1>5. ASSUME NEW c \in Caller, Return(c) PROVE WaitedForOrLate'
  <2>1. /\ Current(c) \in Job /\ pc[c] = "waiting" /\ UNCHANGED <<clock, tries, end>>
        /\ op' = [op EXCEPT ![Current(c)] = "over"]
    BY <1>5, CurrentIsAJob DEF Return, Move
  <2>2. \/ pc' = [pc EXCEPT ![c] = "done"]
        \/ pc' = [pc EXCEPT ![c] = "ready"]
    BY <1>5, AgainKeeps DEF Return
  <2>3. \A b \in Caller \ {c} : pc'[b] = pc[b]
    BY <2>2 DEF Placed, Shape
  <2>4. /\ op'[Current(c)] = "over"
        /\ \A j \in Job : j # Current(c) => op'[j] = op[j]
    BY <2>1 DEF Placed, Shape
  <2>5. QED
    BY <1>1, <2>1, <2>3, <2>4
<1>6. ASSUME NEW c \in Caller, Abandon(c) PROVE WaitedForOrLate'
  <2>1. /\ Current(c) \in Job /\ pc[c] = "waiting" /\ UNCHANGED <<clock, tries, end>>
        /\ op' = [op EXCEPT ![Current(c)] =
                    IF op[Current(c)] = "queued" THEN "over" ELSE op[Current(c)]]
        /\ Late(Current(c))
    BY <1>6, CurrentIsAJob DEF Abandon, Move
  <2>2. \/ pc' = [pc EXCEPT ![c] = "done"]
        \/ pc' = [pc EXCEPT ![c] = "ready"]
    BY <1>6, AgainKeeps DEF Abandon
  <2>3. \A b \in Caller \ {c} : pc'[b] = pc[b]
    BY <2>2 DEF Placed, Shape
  <2>4. /\ op'[Current(c)] = "over" \/ op'[Current(c)] = op[Current(c)]
        /\ \A j \in Job : j # Current(c) => op'[j] = op[j]
    BY <2>1 DEF Placed, Shape
  <2>5. QED
    BY <1>1, <2>1, <2>3, <2>4
<1>7. ASSUME NEW j \in Job,
             \/ Begin(j) \/ Grant(j) \/ GiveUp(j) \/ TakeSlot(j) \/ TakeRead(j)
             \/ GiveUpRead(j) \/ Finish(j)
      PROVE  WaitedForOrLate'
  <2>1. \E stage : Move(j, stage)
    BY <1>7 DEF Begin, Grant, GiveUp, TakeSlot, TakeRead, GiveUpRead, Finish, Ends
  <2>2. \A k \in Job \ {j} : op'[k] = op[k]
    BY <2>1 DEF Move, Placed, Shape
  <2>3. op[j] \notin {"none", "over"} /\ UNCHANGED <<clock, pc, tries, end>>
    BY <1>7 DEF Begin, Grant, GiveUp, TakeSlot, TakeRead, GiveUpRead, Finish
  <2>4. QED
    BY <1>2, <2>2, <2>3
<1>8. ASSUME Tick PROVE WaitedForOrLate'
  BY <1>8 DEF Tick, WaitedForOrLate, Awaited, Late, Current, Placed, Shape
<1>9. CASE UNCHANGED vars
  BY <1>9 DEF vars, WaitedForOrLate, Awaited, Late, Current
<1>10. QED
  BY <1>3, <1>4, <1>5, <1>6, <1>7, <1>8, <1>9 DEF Next, Progress, CallerStep, WorkerStep
-----------------------------------------------------------------------------
(* What follows.                                                              *)

IInv == Placed /\ SlotsAccounted /\ Paced /\ WaitedForOrLate

\* The inductive invariant: how callers, workers, slots, tokens and deadlines of
\* the whole client belong together.
THEOREM Invariance == Spec => []IInv
<1>1. Init => IInv
  BY PlacedAtFirst, AccountedAtFirst, PacedAtFirst, WaitedForAtFirst DEF IInv
<1>2. IInv /\ [Next]_vars => IInv'
  BY PlacedStep, AccountedStep, PacedStep, WaitedForStep DEF IInv
<1>3. QED
  BY <1>1, <1>2, PTL DEF Spec

LEMMA TypesFollow == IInv => TypeOK
<1> SUFFICES ASSUME IInv PROVE TypeOK
  OBVIOUS
<1>1. /\ HostSlots \in Nat /\ MaxReads \in Nat
      /\ slots \in [Host -> Nat] /\ reads \in Nat
  BY SizeAssumption DEF IInv, Placed, Shape
<1>2. \A h \in Host : Cardinality(InFlight(h)) \in Nat
  BY HeldAreJobs, Counted
<1>3. \A h \in Host : slots[h] + Cardinality(InFlight(h)) = HostSlots
  BY DEF IInv, SlotsAccounted
<1>4. \A h \in Host : slots[h] \in 0 .. HostSlots
  BY <1>1, <1>2, <1>3
<1>5. slots \in [Host -> 0 .. HostSlots]
  BY <1>1, <1>4
<1>6. reads \in 0 .. MaxReads
  <2>1. Cardinality(Oversized) \in Nat
    BY HeldAreJobs, Counted
  <2>2. QED
    BY <1>1, <2>1 DEF IInv, SlotsAccounted
<1>7. QED
  BY <1>5, <1>6 DEF IInv, Placed, Shape, TypeOK

\* Every variable keeps its type: in particular no host's semaphore and no
\* bucket ever holds more than it was made for, or less than nothing.
THEOREM TypeCorrect == Spec => []TypeOK
  BY Invariance, TypesFollow, PTL

\* Whatever hangs, is retried, given up or penalised: what is in flight to a
\* host and the oversized reads stay within their semaphores, and the tokens of
\* a host within its rate in every window of time (RateLimiter, _attempt).
THEOREM LimitsAreKept == Spec => []LimitsKept
<1>1. IInv => LimitsKept
  BY TypesFollow DEF IInv, Paced, LimitsKept
<1>2. QED
  BY <1>1, Invariance, PTL

\* A token is given only to a job of a paced host, when its bucket has one.
LEMMA TokensComeFromGrant ==
  ASSUME Placed, [Next]_vars, NEW j \in Job, granted'[j] # granted[j]
  PROVE  Grant(j)
<1>1. ASSUME NEW k \in Job, Grant(k) PROVE k = j
  BY <1>1 DEF Grant, Placed, Shape
<1>2. \E k \in Job : Grant(k)
  BY DEF Next, Progress, CallerStep, WorkerStep, Attempt, TooLate, Return, Abandon,
         Begin, GiveUp, TakeSlot, TakeRead, GiveUpRead, Finish, Tick, vars
<1>3. QED
  BY <1>1, <1>2

LEMMA PenaltyStep == IInv /\ [Next]_vars => PenaltyKept
<1> SUFFICES ASSUME IInv, [Next]_vars, NEW j \in Job, granted'[j] # granted[j]
             PROVE  clock >= penalty[At(j)]
  BY DEF PenaltyKept
<1> DEFINE h == At(j)
<1>1. Grant(j)
  BY TokensComeFromGrant DEF IInv
<1>2. /\ clock \in Nat /\ Rate \in Nat /\ h \in Limited /\ h \in Host
      /\ penalty[h] \in Nat /\ Level(h) >= 1
  BY <1>1, SizeAssumption, JobsOfACaller DEF IInv, Placed, Shape, InPlace, Grant
<1>3. CASE penalty[h] <= clock
  BY <1>2, <1>3
<1>4. CASE bucket[h].tokens = 0 /\ bucket[h].last = penalty[h]
  <2>1. Level(h) = Least(Rate, 0 + (clock - penalty[h]) * Rate)
    BY <1>4 DEF Level
  <2>2. SUFFICES ASSUME penalty[h] > clock PROVE FALSE
    BY <1>2
  <2>3. clock - penalty[h] \in Int /\ clock - penalty[h] <= 0
    BY <1>2, <2>2
  <2>4. (clock - penalty[h]) * Rate <= 0 /\ (clock - penalty[h]) * Rate \in Int
    BY <1>2, <2>3, NoTime
  <2>5. QED
    BY <1>2, <2>1, <2>4 DEF Least
<1>5. QED
  BY <1>2, <1>3, <1>4 DEF IInv, Paced, PenaltyDrains

LEMMA SendingStep == IInv /\ [Next]_vars => NothingSentLate
<1> SUFFICES ASSUME IInv, [Next]_vars, NEW j \in Job,
                    op[j] # "transport", op'[j] = "transport"
             PROVE  clock < Deadline /\ Awaited(j)
  BY DEF NothingSentLate
<1>1. (TakeSlot(j) \/ TakeRead(j))
  <2>1. ASSUME NEW k \in Job, NEW stage, Move(k, stage), k # j
        PROVE  FALSE
    BY <2>1 DEF Move, IInv, Placed, Shape
  <2>2. ASSUME NEW c \in Caller, CallerStep(c)
        PROVE  FALSE
    <3>1. CASE Attempt(c)
      BY <3>1 DEF Attempt, Move, IInv, Placed, Shape
    <3>2. CASE TooLate(c)
      BY <3>2 DEF TooLate
    <3>3. CASE Return(c)
      BY <3>3 DEF Return, Move, IInv, Placed, Shape
    <3>4. CASE Abandon(c)
      BY <3>4 DEF Abandon, Move, IInv, Placed, Shape
    <3>5. QED
      BY <2>2, <3>1, <3>2, <3>3, <3>4 DEF CallerStep
  <2>3. ASSUME NEW k \in Job, WorkerStep(k) \/ Finish(k)
        PROVE  TakeSlot(j) \/ TakeRead(j)
    <3>1. \E stage : Move(k, stage)
      BY <2>3 DEF WorkerStep, Begin, Grant, GiveUp, TakeSlot, TakeRead, GiveUpRead,
                 Finish, Ends
    <3>2. k = j
      BY <2>1, <3>1
    <3>3. ~Begin(j) /\ ~Grant(j)
      BY DEF Begin, Grant, Move, IInv, Placed, Shape
    <3>4. ~GiveUp(j) /\ ~GiveUpRead(j)
      BY DEF GiveUp, GiveUpRead, Ends, Move, IInv, Placed, Shape
    <3>5. ~Finish(j)
      BY DEF Finish
    <3>6. QED
      BY <2>3, <3>2, <3>3, <3>4, <3>5 DEF WorkerStep
  <2>4. QED
    BY <2>2, <2>3 DEF Next, Progress, Tick, vars
<1>2. op[j] \in {"host", "oversized"} /\ ~Late(j)
  BY <1>1 DEF TakeSlot, TakeRead
<1>3. Awaited(j)
  BY <1>2 DEF IInv, WaitedForOrLate
<1>4. clock < Deadline
  BY <1>2, SizeAssumption DEF Late, IInv, Placed, Shape
<1>5. QED
  BY <1>3, <1>4

\* No step gives a token while a penalty of the host lasts, or sends a request
\* past its deadline or for a caller that has gone (penalise, _attempt).
THEOREM RequestsGoInTime == Spec => SentInTime
<1>1. IInv /\ [Next]_vars => [PenaltyKept /\ NothingSentLate]_vars
  BY PenaltyStep, SendingStep
<1>2. QED
  BY <1>1, Invariance, PTL DEF Spec, SentInTime
=============================================================================
