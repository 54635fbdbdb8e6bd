----------------------------- MODULE AiHistory -----------------------------
(* collector/emit/ai_history.py: state/ai-cost-history.json, the monthly      *)
(* observations of AI usage, read, merged and written back under a condition. *)
(* Runs of t2 write it while they gather; two of them overlap when a scan     *)
(* lock was overtaken or bypassed, and the one-time import shares the object. *)
(*                                                                            *)
(* S3's ETag is a digest of the content, which is serialised with sorted      *)
(* keys, so an If-Match on it compares contents.  A snapshot's numbers are    *)
(* one value; clocks of writers run ahead of `clock' by at most Drift.        *)
EXTENDS Integers, FiniteSets

CONSTANTS
  Writer,       \* processes that call update
  Source,       \* SOURCES
  Stack,        \* ids of stacks
  Value,        \* what an observation says
  None,         \* no snapshot
  MonthLength,  \* units of time in a month; the first one is its first day
  MaxMonths,    \* MAX_MONTHS
  MaxRows,      \* MAX_ROWS
  FutureSkew,   \* carry.MAX_FUTURE_SKEW
  Drift,        \* how far a writer's clock is ahead at most
  MaxClock,     \* bound: end of time
  MaxRuns       \* bound: runs of each writer

ASSUME TimeAssumption ==
  /\ MonthLength \in Nat \ {0}
  /\ FutureSkew \in Nat /\ Drift \in Nat /\ MaxClock \in Nat /\ MaxRuns \in Nat
ASSUME CapAssumption == MaxMonths \in Nat \ {0} /\ MaxRows \in Nat
ASSUME StackAssumption == IsFiniteSet(Stack)

VARIABLES
  clock,
  live,     \* the stacks of the estate
  object,   \* state/ai-cost-history.json
  flying,   \* puts whose sender has given up on an answer
  task,     \* the run of each writer
  runs      \* bound: runs begun

vars == <<clock, live, object, flying, task, runs>>

Row == [source : Source, time : Nat, value : Value, stacks : SUBSET Stack]
History == SUBSET Row

\* The object; a missing one has no rows.
File == [exists : BOOLEAN, rows : History]
Missing == [exists |-> FALSE, rows |-> {}]
Stored(rows) == [exists |-> TRUE, rows |-> rows]

Put == [expect : File, rows : History]
Task ==
  [pc : {"idle", "head", "get", "put", "published"},
   snapshot : Row \cup {None},
   rollover : BOOLEAN,              \* period_status is rollover_unverified
   inventory : SUBSET Stack,        \* the stacks the run has listed
   now : Nat,                       \* update's current
   etag : File,                     \* the object as the head found it
   rows : History]                  \* the merged history

Idle ==
  [pc |-> "idle", snapshot |-> None, rollover |-> FALSE, inventory |-> {},
   now |-> 0, etag |-> Missing, rows |-> {}]

Init ==
  /\ clock = 0
  /\ live \in SUBSET Stack \ {{}}
  /\ object = Missing
  /\ flying = {}
  /\ task = [w \in Writer |-> Idle]
  /\ runs = [w \in Writer |-> 0]

-----------------------------------------------------------------------------
Month(time) == time \div MonthLength
FirstDay(time) == time % MonthLength = 0

\* Rows of one source and month are one observation, made at different times.
Same(r, q) == r.source = q.source /\ Month(r.time) = Month(q.time)
Months(rows) == {Month(r.time) : r \in rows}
Later(rows, m) == {n \in Months(rows) : n > m}
Size(rows) ==
  Cardinality(rows) + Cardinality(UNION {{r} \X r.stacks : r \in rows})

\* _history: what a reader accepts, and a writer writes.
Valid(rows, now) ==
  /\ \A r \in rows : r.time <= now + FutureSkew
  /\ \A r \in rows, q \in rows : Same(r, q) => r = q
  /\ Cardinality(Months(rows)) <= MaxMonths
  /\ Size(rows) <= MaxRows

\* merge: an observation at the very time of a known one must be that one.
Conflicts(rows, new) == \E r \in rows : Same(r, new) /\ r.time = new.time /\ r # new

\* merge: only a newer observation replaces the one of its source and month.
Observed(rows, new) ==
  IF \E r \in rows : Same(r, new) /\ r.time >= new.time
  THEN rows
  ELSE {r \in rows : ~Same(r, new)} \cup {new}

\* merge: rows of stacks that have left the estate are taken out.
Trim(r, inventory) == [r EXCEPT !.stacks = @ \cap inventory]

\* merge: the newest months, with the stacks that are still there.
Kept(rows, inventory) ==
  {Trim(r, inventory) : r \in
     {q \in rows : Cardinality(Later(rows, Month(q.time))) < MaxMonths}}

-----------------------------------------------------------------------------
Become(w, t) == task' = [task EXCEPT ![w] = t]

\* HistoryError, or a run killed: the history is not an input of this run.
Fail(w) == Become(w, Idle)

\* update has returned: its rows go into the run's scan and views.
Return(w, t, rows) ==
  Become(w, [Idle EXCEPT !.pc = "published", !.rows = rows,
                         !.snapshot = IF t.rollover THEN None ELSE t.snapshot])

\* Mutant: merge does not validate its result.
MergeUnchecked(w, t, previous) ==
  LET rows == Kept(IF t.rollover THEN previous ELSE Observed(previous, t.snapshot),
                   t.inventory)
  IN  \/ ~Valid(previous, t.now) /\ Fail(w)
      \/ Valid(previous, t.now) /\ Become(w, [t EXCEPT !.pc = "put", !.rows = rows])

\* update, once the history has been read: merge, validate, and write only what
\* has changed.  t is the run's memory by then.
Merge(w, t, previous) ==
  LET rows == Kept(IF t.rollover THEN previous ELSE Observed(previous, t.snapshot),
                   t.inventory)
      refused == \/ t.snapshot.time > t.now + FutureSkew
                 \/ ~Valid(previous, t.now)
                 \/ ~t.rollover /\ Conflicts(previous, t.snapshot)
                 \/ ~Valid(rows, t.now)
  IN  \/ refused /\ Fail(w)
      \/ ~refused /\ (t.rollover \/ rows = previous) /\ Return(w, t, rows)
      \/ ~refused /\ ~t.rollover /\ rows # previous
         /\ Become(w, [t EXCEPT !.pc = "put", !.rows = rows])

\* The run lists the estate and queries the billing aggregates.  Aggregates of
\* the first day still hold the month before.
Gather(w) ==
  /\ task[w].pc \in {"idle", "published"}
  /\ runs[w] < MaxRuns
  /\ runs' = [runs EXCEPT ![w] = @ + 1]
  /\ \E source \in Source, value \in Value, time \in clock..(clock + Drift) :
       Become(w, [Idle EXCEPT
         !.pc = "head", !.inventory = live,
         !.snapshot = [source |-> source, time |-> time, value |-> value,
                       stacks |-> Stack],
         !.rollover = (source = "billing_observation" /\ FirstDay(time))])
  /\ UNCHANGED <<clock, live, object, flying>>

\* _read: head-object.  Only a missing object is an empty history.
Head(w) ==
  /\ task[w].pc = "head"
  /\ \/ \E now \in clock..(clock + Drift) :
          LET t == [task[w] EXCEPT !.pc = "get", !.now = now, !.etag = object]
          IN  \/ ~object.exists /\ Merge(w, t, {})
              \/ object.exists /\ Become(w, t)
     \/ Fail(w)
  /\ UNCHANGED <<clock, live, object, flying, runs>>

\* _read: get-object under the ETag of the head, then the merge.
Get(w) ==
  /\ task[w].pc = "get"
  /\ \/ object = task[w].etag /\ Merge(w, task[w], object.rows)
     \/ Fail(w)
  /\ UNCHANGED <<clock, live, object, flying, runs>>

\* Mutant: the put has no condition.
WriteUnconditionally(w) ==
  /\ task[w].pc = "put"
  /\ object' = Stored(task[w].rows)
  /\ Return(w, task[w], task[w].rows)
  /\ UNCHANGED <<clock, live, flying, runs>>

\* update: the conditional put.
Write(w) ==
  /\ task[w].pc = "put"
  /\ object = task[w].etag
  /\ object' = Stored(task[w].rows)
  /\ Return(w, task[w], task[w].rows)
  /\ UNCHANGED <<clock, live, flying, runs>>

\* Mutant: the put's return code is not looked at.
AbandonPublishing(w) ==
  /\ task[w].pc = "put"
  /\ Return(w, task[w], task[w].rows)
  /\ UNCHANGED <<clock, live, object, flying, runs>>

\* update: the put is refused, or its sender gives up or is killed, and leaves
\* its request in flight.
Abandon(w) ==
  /\ task[w].pc = "put"
  /\ flying' \in {flying,
                  flying \cup {[expect |-> task[w].etag, rows |-> task[w].rows]}}
  /\ Fail(w)
  /\ UNCHANGED <<clock, live, object, runs>>

\* S3 serves a request whose sender has given up, or drops it.
Land ==
  /\ \E put \in flying :
       /\ flying' = flying \ {put}
       /\ \/ UNCHANGED object
          \/ object = put.expect /\ object' = Stored(put.rows)
  /\ UNCHANGED <<clock, live, task, runs>>

Churn ==
  /\ live' \in SUBSET Stack \ {{}, live}
  /\ UNCHANGED <<clock, object, flying, task, runs>>

Tick ==
  /\ clock < MaxClock
  /\ clock' = clock + 1
  /\ UNCHANGED <<live, object, flying, task, runs>>

Step(w) == Gather(w) \/ Head(w) \/ Get(w) \/ Write(w) \/ Abandon(w)
Next == (\E w \in Writer : Step(w)) \/ Land \/ Churn \/ Tick
Spec == Init /\ [][Next]_vars

-----------------------------------------------------------------------------
TypeOK ==
  /\ clock \in Nat
  /\ live \in SUBSET Stack
  /\ object \in File
  /\ flying \in SUBSET Put
  /\ task \in [Writer -> Task]
  /\ runs \in [Writer -> Nat]

\* The observation r has left the newest MaxMonths of rows, or is among them, or
\* was replaced by a later one of its source and month.
Holds(rows, r) ==
  \/ Cardinality(Later(rows, Month(r.time))) >= MaxMonths
  \/ \E q \in rows :
       /\ Same(r, q)
       /\ q.time >= r.time
       /\ q.time = r.time => q.value = r.value

Covers(new, old) == \A r \in old : Holds(new, r)

\* An observation that has been recorded is never lost, and never goes back to
\* an earlier one, although writers overlap, bootstrap together, are killed, and
\* their puts arrive late (update's If-Match and If-None-Match).
ObservationsOnlyAdvance ==
  [][object.exists => object'.exists /\ Covers(object'.rows, object.rows)]_object

\* What a run publishes is recorded, and so is the observation it made: a row
\* that reached views or scans is in the object from then on, until something
\* later replaces it or its month is too old.
PublishedIsRecorded ==
  \A w \in Writer :
    task[w].pc = "published" =>
      Covers(object.rows, task[w].rows \cup ({task[w].snapshot} \ {None}))

\* A departed stack does not come back into an observation it was taken out of,
\* although a writer may know only an older inventory.
DepartedStaysOut ==
  [][\A r \in object.rows, q \in object'.rows :
       Same(r, q) /\ q.time = r.time => q.stacks \subseteq r.stacks]_object

\* No writer leaves a history that readers refuse: it would stop every update
\* from then on, because an unreadable history is never replaced.
HistoryIsReadable == Valid(object.rows, clock + Drift)
=============================================================================
