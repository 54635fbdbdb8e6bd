----------------------------- MODULE TierMutex -----------------------------
(***************************************************************************)
(* What the single-run lock promises its tier, with no lock in sight: of   *)
(* the tasks that ask, one at a time scans, and a task that has given up   *)
(* or finished never scans again.  The number of tasks is arbitrary.       *)
(***************************************************************************)
CONSTANT Task

VARIABLE phase  \* phase[t] \in {"waiting", "scanning", "over"}

Init == phase = [t \in Task |-> "waiting"]

\* The tier is free: t starts scanning.
Begin(t) ==
  /\ phase[t] = "waiting"
  /\ \A s \in Task : phase[s] # "scanning"
  /\ phase' = [phase EXCEPT ![t] = "scanning"]

\* t is refused, fails to reach the lock, or dies before it scans.
GiveUp(t) ==
  /\ phase[t] = "waiting"
  /\ phase' = [phase EXCEPT ![t] = "over"]

\* t finishes its scan, or dies in it.
Stop(t) ==
  /\ phase[t] = "scanning"
  /\ phase' = [phase EXCEPT ![t] = "over"]

Next == \E t \in Task : Begin(t) \/ GiveUp(t) \/ Stop(t)

Spec == Init /\ [][Next]_phase
=============================================================================
