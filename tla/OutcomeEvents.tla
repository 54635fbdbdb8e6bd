--------------------------- MODULE OutcomeEvents ---------------------------
(* collector/outcome_events.py with its calls in scan.py and emit/s3.py: the  *)
(* records that a scan leaves in the task log.  Recording is best effort: a   *)
(* record may fail, a task may die anywhere, and its clock may be set back.   *)
EXTENDS Integers, FiniteSets

CONSTANTS
  Attempt,   \* admitted scans: each has a UUID of its own
  Tier,
  Unread,    \* the tiers that read no inventory (t4)
  View,      \* RECEIPT_VIEWS
  None,
  MaxClock,  \* bound: time and faults together
  MaxFaults  \* bound: records that fail, tasks that die, clocks set back

ASSUME AttemptAssumption == IsFiniteSet(Attempt) /\ None \notin Attempt \cup View
ASSUME TierAssumption == Unread \subseteq Tier
ASSUME ClockAssumption == MaxClock \in Nat /\ MaxFaults \in Nat

VARIABLES
  clock,  \* time
  att,    \* the recorder of each attempt
  log,    \* the records that the task logs hold
  faults  \* bound: and queries that miss something

recorders == <<clock, att, log, faults>>

Kind == {"attempt_started", "inventory_result", "view_write_result", "attempt_finished"}
\* `ok': success, acknowledged, or not failed (t4's inventory is unknown).
Event ==
  [attempt : Attempt, sequence : Nat, kind : Kind, ok : BOOLEAN,
   view : View \cup {None}, at : Nat]

Recorder ==
  [phase : {"none", "running", "over"},
   tier : Tier \cup {None},
   started : Nat,
   late : {0, 1},                         \* how far its clock was set back
   sequence : Nat,
   inventory : {"none", "read", "failed"},
   views : SUBSET View,
   result : {"none", "success", "failed"}]

Fresh == [phase |-> "none", tier |-> None, started |-> 0, late |-> 0,
          sequence |-> 0, inventory |-> "none", views |-> {}, result |-> "none"]

\* One more fault is within the bounds.
Trouble == faults < MaxFaults /\ clock + faults < MaxClock

InitRecorders ==
  /\ clock = 0
  /\ att = [a \in Attempt |-> Fresh]
  /\ log = {}

\* Mutant: the sequence counts the records that were emitted.
RecordUncounted(a, after, kind, ok, view) ==
  LET n == after.sequence + 1
      now == IF clock < after.late THEN 0 ELSE clock - after.late
      event == [attempt |-> a, sequence |-> n, kind |-> kind, ok |-> ok,
                view |-> view, at |-> now]
  IN
  \/ /\ att' = [att EXCEPT ![a] = [after EXCEPT !.sequence = n]]
     /\ log' = log \cup {event}
     /\ UNCHANGED <<clock, faults>>
  \/ /\ Trouble /\ faults' = faults + 1
     /\ att' = [att EXCEPT ![a] = after]
     /\ UNCHANGED <<clock, log>>

\* _record: the sequence is consumed first, so that a failure leaves a gap.
Record(a, after, kind, ok, view) ==
  LET n == after.sequence + 1
      now == IF clock < after.late THEN 0 ELSE clock - after.late
      event == [attempt |-> a, sequence |-> n, kind |-> kind, ok |-> ok,
                view |-> view, at |-> now]
  IN
  /\ att' = [att EXCEPT ![a] = [after EXCEPT !.sequence = n]]
  /\ \/ /\ now >= after.started
        /\ log' = log \cup {event}
        /\ UNCHANGED faults
     \/ /\ Trouble \/ now < after.started
        /\ faults' = faults + (IF now < after.started THEN 0 ELSE 1)
        /\ UNCHANGED log
  /\ UNCHANGED clock

\* start, under the tier's lock.
Start(a, t) ==
  /\ att[a].phase = "none"
  /\ \A b \in Attempt : att[b].phase = "running" => att[b].tier # t
  /\ Record(a, [Fresh EXCEPT !.phase = "running", !.tier = t, !.started = clock],
            "attempt_started", TRUE, None)

\* _fetch_inventory, and t4's `unknown': nothing is written before it.
Inventory(a) ==
  /\ att[a].phase = "running" /\ att[a].inventory = "none"
  /\ \E ok \in IF att[a].tier \in Unread THEN {TRUE} ELSE BOOLEAN :
       Record(a, [att[a] EXCEPT !.inventory = IF ok THEN "read" ELSE "failed"],
              "inventory_result", ok, None)

\* write_views; a view that fails ends the run with an exception.
ViewWrite(a, v) ==
  /\ att[a].phase = "running" /\ att[a].tier \notin Unread
  /\ att[a].inventory = "read"
  /\ v \notin att[a].views /\ att[a].result = "none"
  /\ \E ok \in BOOLEAN :
       Record(a, [att[a] EXCEPT !.views = @ \cup {v},
                                !.result = IF ok THEN @ ELSE "failed"],
              "view_write_result", ok, v)

\* finish: a run may fail at any point, and succeeds only past its inventory.
Finish(a) ==
  /\ att[a].phase = "running"
  /\ att[a].inventory # "none"
  /\ \E ok \in BOOLEAN :
       /\ ok => att[a].inventory = "read" /\ att[a].result = "none"
       /\ Record(a, [att[a] EXCEPT !.phase = "over",
                                   !.result = IF ok THEN "success" ELSE "failed"],
                 "attempt_finished", ok, None)

\* The task dies: nothing more is recorded.
Kill(a) ==
  /\ att[a].phase = "running"
  /\ Trouble /\ faults' = faults + 1
  /\ att' = [att EXCEPT ![a].phase = "over", ![a].result = "failed"]
  /\ UNCHANGED <<clock, log>>

SetBack(a) ==
  /\ att[a].phase = "running" /\ att[a].late = 0
  /\ Trouble /\ faults' = faults + 1
  /\ att' = [att EXCEPT ![a].late = 1]
  /\ UNCHANGED <<clock, log>>

Tick == clock + faults < MaxClock /\ clock' = clock + 1 /\ UNCHANGED <<att, log, faults>>

Scan ==
  \/ \E a \in Attempt :
       \/ \E t \in Tier : Start(a, t)
       \/ Inventory(a) \/ (\E v \in View : ViewWrite(a, v))
       \/ Finish(a) \/ Kill(a) \/ SetBack(a)
  \/ Tick

RecordersTypeOK ==
  /\ clock \in Nat /\ faults \in Nat
  /\ att \in [Attempt -> Recorder]
  /\ log \in SUBSET Event
=============================================================================
