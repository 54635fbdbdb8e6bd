----------------------------- MODULE HttpClient -----------------------------
(* collector/httpclient.py: many threads share one client.  Each call hands an *)
(* attempt to the fence of Netbound and waits for it no longer than its       *)
(* timeout; the attempt is paced by its host's limiter, queues for a slot of  *)
(* its host, perhaps for one of the few oversized reads, and is sent.  A      *)
(* transport may hang, and keeps what it holds while its caller tries again.  *)
EXTENDS Integers, FiniteSets

CONSTANTS
  Caller,       \* threads, each with one GET
  Guarded,      \* those whose route is fixed: one attempt, no redirect
  Synthetic,    \* those whose body may be oversized
  Host, HostOf,
  Limited,      \* the hosts with a rate limit
  Rate,         \* tokens per unit of time, and the capacity of a bucket
  HostSlots,    \* host_concurrency
  MaxReads,     \* MAX_SYNTHETIC_READS
  MaxAttempts,
  Timeout, Deadline,
  Backoff, BackoffCap,
  Advice,       \* what a Retry-After may say
  None,
  MaxClock      \* bound: time

ASSUME CallerAssumption ==
  /\ IsFiniteSet(Caller) /\ Synthetic \subseteq Guarded /\ Guarded \subseteq Caller
  /\ HostOf \in [Caller -> Host] /\ Limited \subseteq Host
ASSUME SizeAssumption ==
  /\ Rate \in Nat \ {0} /\ HostSlots \in Nat \ {0} /\ MaxReads \in Nat
  /\ MaxAttempts \in Nat \ {0} /\ Timeout \in Nat \ {0} /\ Deadline \in Nat
  /\ Backoff \in Nat /\ BackoffCap \in Nat /\ Advice \subseteq Nat
  /\ MaxClock \in Nat /\ None \notin Nat

Job == Caller \X (1 .. MaxAttempts)

VARIABLES
  clock,
  pc,       \* the callers
  tries,    \* tries[c]: attempts made; <<c, tries[c]>> is the current one
  wake,     \* wake[c]: when c's backoff ends
  op,       \* op[j]: where the worker of attempt j is
  end,      \* end[j]: until when attempt j may run
  slots,    \* slots[h]: the host's semaphore
  reads,    \* _SYNTHETIC_READS
  bucket,   \* bucket[h]: tokens, and the time they were counted at
  granted,  \* history: when attempt j was given a token
  penalty   \* history: until when the last penalty of a host lasts

vars == <<clock, pc, tries, wake, op, end, slots, reads, bucket, granted, penalty>>

Outcome == {"answered", "advised", "failed"}
TypeOK ==
  /\ clock \in Nat
  /\ pc \in [Caller -> {"ready", "waiting", "done"}]
  /\ tries \in [Caller -> 0 .. MaxAttempts]
  /\ wake \in [Caller -> Nat]
  /\ op \in [Job -> {"none", "queued", "pacing", "host", "oversized", "transport", "over"}
                    \cup Outcome]
  /\ end \in [Job -> 0 .. Deadline]
  /\ slots \in [Host -> 0 .. HostSlots]
  /\ reads \in 0 .. MaxReads
  /\ bucket \in [Host -> [tokens : 0 .. Rate, last : Nat]]
  /\ granted \in [Job -> Nat \cup {None}]
  /\ penalty \in [Host -> Nat]

Init ==
  /\ clock = 0
  /\ pc = [c \in Caller |-> "ready"]
  /\ tries = [c \in Caller |-> 0]
  /\ wake = [c \in Caller |-> 0]
  /\ op = [j \in Job |-> "none"]
  /\ end = [j \in Job |-> 0]
  /\ slots = [h \in Host |-> HostSlots]
  /\ reads = MaxReads
  /\ bucket = [h \in Host |-> [tokens |-> Rate, last |-> 0]]
  /\ granted = [j \in Job |-> None]
  /\ penalty = [h \in Host |-> 0]

Least(a, b) == IF a < b THEN a ELSE b
Current(c) == <<c, tries[c]>>
At(j) == HostOf[j[1]]
\* The caller still waits for attempt j.
Awaited(j) == pc[j[1]] = "waiting" /\ j = Current(j[1])
Late(j) == clock >= end[j]
Move(j, stage) == op' = [op EXCEPT ![j] = stage]

-----------------------------------------------------------------------------
(* The callers.                                                               *)

\* An attempt is handed to bounded_call, with what is left of the deadline.
Attempt(c) ==
  LET j == <<c, tries[c] + 1>> IN
  /\ pc[c] = "ready" /\ clock >= wake[c] /\ clock < Deadline
  /\ pc' = [pc EXCEPT ![c] = "waiting"]
  /\ tries' = [tries EXCEPT ![c] = @ + 1]
  /\ end' = [end EXCEPT ![j] = Least(clock + Timeout, Deadline)]
  /\ Move(j, "queued")
  /\ UNCHANGED <<clock, wake, slots, reads, bucket, granted, penalty>>

TooLate(c) ==
  /\ pc[c] = "ready" /\ clock >= wake[c] /\ clock >= Deadline
  /\ pc' = [pc EXCEPT ![c] = "done"]
  /\ UNCHANGED <<clock, tries, wake, op, end, slots, reads, bucket, granted, penalty>>

\* Mutant: the bucket is drained, but refills from now.
PenaliseNothing(h, delay) ==
  /\ penalty' = [penalty EXCEPT ![h] = clock + delay]
  /\ bucket' = [bucket EXCEPT ![h] = [tokens |-> 0, last |-> clock]]

\* penalise
Penalise(h, delay) ==
  /\ penalty' = [penalty EXCEPT ![h] = clock + delay]
  /\ bucket' = [bucket EXCEPT ![h] = [tokens |-> 0, last |-> clock + delay]]

\* The backoff, with its jitter, or the end of the call if there is no time.
Sleep(c, delay) ==
  \E jitter \in 0 .. delay \div 2 :
    IF delay + jitter >= Deadline - clock
    THEN /\ pc' = [pc EXCEPT ![c] = "done"]
         /\ UNCHANGED wake
    ELSE /\ pc' = [pc EXCEPT ![c] = "ready"]
         /\ wake' = [wake EXCEPT ![c] = clock + delay + jitter]

\* What becomes of the call after a failed attempt.
Again(c, advised) ==
  IF c \in Guarded \/ tries[c] = MaxAttempts
  THEN /\ pc' = [pc EXCEPT ![c] = "done"]
       /\ UNCHANGED <<wake, bucket, penalty>>
  ELSE IF advised
  THEN \E advice \in Advice :
         LET delay == Least(BackoffCap, advice) IN
         /\ Sleep(c, delay)
         /\ IF HostOf[c] \in Limited THEN Penalise(HostOf[c], delay)
            ELSE UNCHANGED <<bucket, penalty>>
  ELSE /\ \E delay \in 0 .. BackoffCap :
            delay = Least(BackoffCap, Backoff * 2^(tries[c] - 1)) /\ Sleep(c, delay)
       /\ UNCHANGED <<bucket, penalty>>

\* The attempt ended in time.
Return(c) ==
  /\ pc[c] = "waiting" /\ op[Current(c)] \in Outcome
  /\ IF op[Current(c)] = "answered"
     THEN pc' = [pc EXCEPT ![c] = "done"] /\ UNCHANGED <<wake, bucket, penalty>>
     ELSE Again(c, op[Current(c)] = "advised")
  /\ Move(Current(c), "over")
  /\ UNCHANGED <<clock, tries, end, slots, reads, granted>>

\* Mutant: a caller leaves only what has not begun.
AbandonQueued(c) ==
  LET j == Current(c) IN
  /\ pc[c] = "waiting" /\ op[j] = "queued" /\ Late(j)
  /\ Again(c, FALSE)
  /\ Move(j, "over")
  /\ UNCHANGED <<clock, tries, end, slots, reads, granted>>

\* The fence raises: what has not begun never will, what has begun goes on.
Abandon(c) ==
  LET j == Current(c) IN
  /\ pc[c] = "waiting" /\ op[j] \notin Outcome /\ Late(j)
  /\ Again(c, FALSE)
  /\ Move(j, IF op[j] = "queued" THEN "over" ELSE op[j])
  /\ UNCHANGED <<clock, tries, end, slots, reads, granted>>

-----------------------------------------------------------------------------
(* The workers: _attempt and _guarded_attempt.                                *)

\* A worker ends; its outcome is lost if nobody waits for it.
Ends(j, outcome) == Move(j, IF Awaited(j) THEN outcome ELSE "over")

Begin(j) ==
  /\ op[j] = "queued"
  /\ Move(j, IF At(j) \in Limited THEN "pacing" ELSE "host")
  /\ UNCHANGED <<clock, pc, tries, wake, end, slots, reads, bucket, granted, penalty>>

\* What acquire counts: less than nothing while a penalty lasts.
Level(h) == Least(Rate, bucket[h].tokens + (clock - bucket[h].last) * Rate)

\* Mutant: the time the tokens were counted at is not moved.
GrantWithoutCounting(j) ==
  /\ op[j] = "pacing" /\ ~Late(j) /\ Level(At(j)) >= 1
  /\ bucket' = [bucket EXCEPT ![At(j)].tokens = Level(At(j)) - 1]
  /\ granted' = [granted EXCEPT ![j] = clock]
  /\ Move(j, "host")
  /\ UNCHANGED <<clock, pc, tries, wake, end, slots, reads, penalty>>

\* acquire.  A look that finds no token changes what is written, not the level.
Grant(j) ==
  /\ op[j] = "pacing" /\ ~Late(j) /\ Level(At(j)) >= 1
  /\ bucket' = [bucket EXCEPT ![At(j)] = [tokens |-> Level(At(j)) - 1, last |-> clock]]
  /\ granted' = [granted EXCEPT ![j] = clock]
  /\ Move(j, "host")
  /\ UNCHANGED <<clock, pc, tries, wake, end, slots, reads, penalty>>

\* The limiter or the host's queue outlasts the attempt.
GiveUp(j) ==
  /\ op[j] \in {"pacing", "host"} /\ Late(j)
  /\ Ends(j, "failed")
  /\ UNCHANGED <<clock, pc, tries, wake, end, slots, reads, bucket, granted, penalty>>

\* The host's slot; a body of ordinary size is sent for at once.
TakeSlot(j) ==
  /\ op[j] = "host" /\ ~Late(j) /\ slots[At(j)] > 0
  /\ slots' = [slots EXCEPT ![At(j)] = @ - 1]
  /\ Move(j, IF j[1] \in Synthetic THEN "oversized" ELSE "transport")
  /\ UNCHANGED <<clock, pc, tries, wake, end, reads, bucket, granted, penalty>>

TakeRead(j) ==
  /\ op[j] = "oversized" /\ ~Late(j) /\ reads > 0
  /\ reads' = reads - 1
  /\ Move(j, "transport")
  /\ UNCHANGED <<clock, pc, tries, wake, end, slots, bucket, granted, penalty>>

GiveUpRead(j) ==
  /\ op[j] = "oversized" /\ Late(j)
  /\ slots' = [slots EXCEPT ![At(j)] = @ + 1]
  /\ Ends(j, "failed")
  /\ UNCHANGED <<clock, pc, tries, wake, end, reads, bucket, granted, penalty>>

\* The transport returns or raises, at any time or never.
Finish(j) ==
  /\ op[j] = "transport"
  /\ slots' = [slots EXCEPT ![At(j)] = @ + 1]
  /\ reads' = IF j[1] \in Synthetic THEN reads + 1 ELSE reads
  /\ \E outcome \in IF Late(j) THEN {"failed"} ELSE Outcome : Ends(j, outcome)
  /\ UNCHANGED <<clock, pc, tries, wake, end, bucket, granted, penalty>>

Tick ==
  /\ clock < MaxClock /\ clock' = clock + 1
  /\ UNCHANGED <<pc, tries, wake, op, end, slots, reads, bucket, granted, penalty>>

CallerStep(c) == Attempt(c) \/ TooLate(c) \/ Return(c) \/ Abandon(c)
WorkerStep(j) ==
  \/ Begin(j) \/ Grant(j) \/ GiveUp(j) \/ TakeSlot(j) \/ TakeRead(j) \/ GiveUpRead(j)

Progress ==
  \/ \E c \in Caller : CallerStep(c)
  \/ \E j \in Job : WorkerStep(j)
  \/ Tick

Next == Progress \/ \E j \in Job : Finish(j)
Spec == Init /\ [][Next]_vars

\* Threads are scheduled and time passes; that a transport returns is not
\* assumed.  No thread takes steps for ever, so that it is enough that one does.
FairSpec == Spec /\ WF_vars(Progress)

-----------------------------------------------------------------------------
InFlight(h) == {j \in Job : At(j) = h /\ op[j] \in {"oversized", "transport"}}
Oversized == {j \in Job : j[1] \in Synthetic /\ op[j] = "transport"}

\* "A worker owns pacing and the host slot until the transport actually exits"
\* (_attempt): every slot of a host and every oversized read is free or held by
\* one worker, whether its caller waits, has gone, or is trying again; so what
\* is in flight never exceeds the limits, and a hung transport costs its own.
SlotsAccounted ==
  /\ \A h \in Host : slots[h] + Cardinality(InFlight(h)) = HostSlots
  /\ reads + Cardinality(Oversized) = MaxReads

\* Tokens stay under the host's rate in every window of time, whatever
\* penalties, timeouts and retries fall into it (RateLimiter).
PaceKept ==
  \A h \in Limited : \A from \in 0 .. clock : \A to \in from .. clock :
    Cardinality({j \in Job : At(j) = h /\ granted[j] \in from .. to})
      <= Rate + Rate * (to - from)

\* Slots, oversized reads and tokens of every host stay within their limits.
LimitsKept == TypeOK /\ SlotsAccounted /\ PaceKept

\* "Drain the bucket after a 429 so concurrent callers also back off": no call
\* gets a token before the last advised wait of the host is over.
PenaltyKept ==
  \A j \in Job : granted'[j] # granted[j] => clock >= penalty[At(j)]

\* Nothing is sent when the deadline is past, nor for a caller that has gone:
\* neither from the queues, nor by a retry behind its own hung predecessor.
NothingSentLate ==
  \A j \in Job : op[j] # "transport" /\ op'[j] = "transport" =>
    clock < Deadline /\ Awaited(j)

\* A request goes out neither too early for its host nor too late for its caller
\* (penalise, _attempt's give-ups).
SentInTime == [][PenaltyKept /\ NothingSentLate]_vars

\* Every call ends and every queue drains, even if no transport ever returns:
\* only a transport may last.
CallsEnd ==
  <>(/\ \A c \in Caller : pc[c] = "done"
     /\ \A j \in Job : op[j] \notin {"queued", "pacing", "host", "oversized"})
=============================================================================
