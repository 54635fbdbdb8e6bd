------------------------------ MODULE GapState ------------------------------
(***************************************************************************)
(* state/credential-gaps.json (collector/emit/gapstate.py): when each       *)
(* stack's missing credential was first seen.  t2 reads it, merges what it  *)
(* has just measured and writes it back (scan.py, assistant_gaps), before   *)
(* its scan is published; t1 and t3 read it and publish the age of the      *)
(* oldest gap among the stacks that their hydrated payload says are         *)
(* missing.  A read that fails is an empty object and a write that fails is *)
(* not noticed.                                                             *)
(*                                                                          *)
(* One t2 runs at a time (TierMutex); the readers overlap it.               *)
(***************************************************************************)
EXTENDS Naturals

CONSTANTS Stacks, MaxClock

VARIABLES
    clock,
    gaps,     \* stacks without a usable credential now
    store,    \* the object in the bucket: stack -> first seen
    payload,  \* stacks missing in the last published Assistant payload
    t2,       \* the measuring run: its step, the stacks missing, their stamps, when it stamped, the age
    age,      \* what the last run of t1 published: a set of one age, or Absent
    since,    \* ghost: stack -> start of the unbroken series of landed records of its gap
    blind     \* ghost: the object t2 has merged into was not the one in the bucket

vars == <<clock, gaps, store, payload, t2, age, since, blind>>

Absent == {}
NoRun == [pc |-> "idle", missing |-> {}, seen |-> <<>>, at |-> 0, age |-> Absent]
Ages == {Absent} \cup {{a} : a \in 0 .. MaxClock}
Stamps == UNION {[S -> 0 .. MaxClock] : S \in SUBSET Stacks}

TypeOK ==
    /\ clock \in 0 .. MaxClock
    /\ gaps \subseteq Stacks /\ payload \subseteq Stacks
    /\ store \in Stamps /\ since \in Stamps
    /\ t2.pc \in {"idle", "measured", "merged", "composed"}
    /\ t2.missing \subseteq Stacks /\ t2.seen \in Stamps /\ t2.at \in 0 .. MaxClock
    /\ {age, t2.age} \subseteq Ages
    /\ blind \in BOOLEAN

Init ==
    /\ clock = 0
    /\ gaps \in SUBSET Stacks
    /\ store = <<>> /\ since = <<>>
    /\ payload = {}
    /\ t2 = NoRun
    /\ age = Absent
    /\ blind = FALSE

\* Time passes.
Tick ==
    /\ clock < MaxClock
    /\ clock' = clock + 1
    /\ UNCHANGED <<gaps, store, payload, t2, age, since, blind>>

\* The provisioner heals a gap, or a stack appears, loses its credential, or fails to answer.
Change ==
    /\ \E s \in Stacks : gaps' = IF s \in gaps THEN gaps \ {s} ELSE gaps \cup {s}
    /\ UNCHANGED <<clock, store, payload, t2, age, since, blind>>

\* t2 has gathered the whole estate and its publication floors are met.
Measure ==
    /\ t2.pc = "idle"
    /\ t2' = [NoRun EXCEPT !.pc = "measured", !.missing = gaps]
    /\ blind' = FALSE
    /\ UNCHANGED <<clock, gaps, store, payload, age, since>>

\* Mutant: every gap is stamped again.
MergeRestamps(previous, missing) == [s \in missing |-> clock]

\* A gap that persists keeps its stamp, a new one gets the time, a healed one goes.
Merge(previous, missing) ==
    [s \in missing |-> IF s \in DOMAIN previous THEN previous[s] ELSE clock]

\* The object is read, or the read fails, and what was measured is merged into it.
ReadAndMerge ==
    /\ t2.pc = "measured"
    /\ \E read \in {store, <<>>} :
        /\ t2' = [t2 EXCEPT !.pc = "merged", !.seen = Merge(read, t2.missing), !.at = clock]
        /\ blind' = (read # store)
    /\ UNCHANGED <<clock, gaps, store, payload, age, since>>

\* oldest_age_seconds over the missing stacks that have a stamp.
Oldest(stamps, missing) ==
    LET ages == {clock - stamps[s] : s \in DOMAIN stamps \cap missing}
    IN  {a \in ages : \A b \in ages : b <= a}

\* The write replaces the object; the run composes with what it merged.
Write ==
    /\ t2.pc = "merged"
    /\ t2' = [t2 EXCEPT !.pc = "composed", !.age = Oldest(t2.seen, t2.missing)]
    /\ store' = t2.seen
    /\ since' = [s \in t2.missing |-> IF s \in DOMAIN since THEN since[s] ELSE t2.at]
    /\ UNCHANGED <<clock, gaps, payload, age, blind>>

\* The write fails; nobody looks.
WriteFails ==
    /\ t2.pc = "merged"
    /\ t2' = [t2 EXCEPT !.pc = "composed", !.age = Oldest(t2.seen, t2.missing)]
    /\ UNCHANGED <<clock, gaps, store, payload, age, since, blind>>

\* t2 publishes its payload, and with it the age by its own merge.
Publish ==
    /\ t2.pc = "composed"
    /\ payload' = t2.missing
    /\ age' = t2.age
    /\ t2' = NoRun
    /\ UNCHANGED <<clock, gaps, store, since, blind>>

\* The task dies, or its publication is refused at a later seam.
Die ==
    /\ t2.pc # "idle"
    /\ t2' = NoRun
    /\ UNCHANGED <<clock, gaps, store, payload, age, since, blind>>

\* t1 or t3 reads the object, or fails to, and publishes the age for the payload it hydrates.
Report ==
    /\ \E read \in {store, <<>>} : age' = Oldest(read, payload)
    /\ UNCHANGED <<clock, gaps, store, payload, t2, since, blind>>

Next == Tick \/ Change \/ Measure \/ ReadAndMerge \/ Write \/ WriteFails \/ Publish \/ Die \/ Report

Spec == Init /\ [][Next]_vars

-----------------------------------------------------------------------------
(* Properties *)

\* No stamp is older than the gap it is for: once a write that dropped a healed stack has landed, a
\* later gap of that stack starts anew, whichever reads and writes failed in between ("a slug left
\* behind ... would keep reporting an ever-growing age", gapstate.py:66).
HealedGapsStartAnew == \A s \in DOMAIN store : s \in DOMAIN since /\ store[s] >= since[s]

\* The stamp of a gap that persists is replaced by a younger one only by a run whose read did not
\* return the object: not by a lost write, not by a run that died, not by a reader.
StampsCarried == \A s \in DOMAIN store \cap DOMAIN store' : store'[s] # store[s] => blind

\* An age that is published belongs to a stack that the payload beside it calls missing, and does
\* not go back beyond the recorded start of that stack's gap, although object and payload are written
\* in two steps with a death between them.
AgeMatches ==
    age' # age => \A a \in age' : \E s \in payload' :
        a + (IF s \in DOMAIN since THEN since[s] ELSE t2.at) <= clock

\* Both ends of an age are right: stamps neither outlive their gap nor restart within it, and what is
\* published is the age of a gap that the payload has.
AgesTrue == TypeOK' /\ HealedGapsStartAnew' /\ StampsCarried /\ AgeMatches
GapAgesAreTrue == [][AgesTrue]_vars
=============================================================================
