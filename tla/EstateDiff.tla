----------------------------- MODULE EstateDiff -----------------------------
(***************************************************************************)
(* t4 (scan.py, run_t4) and the choice of what it compares                  *)
(* (collector/emit/diff.py).  For each window in turn it lists the archived *)
(* scans of t3, and of t1 when t3 has no baseline, takes the latest and the *)
(* one nearest the window's target, and loads the two; a listing or a load  *)
(* that fails is a missing baseline.  The other tiers archive scans and     *)
(* the bucket expires them while it runs.                                   *)
(***************************************************************************)
EXTENDS Integers, FiniteSets, Sequences

CONSTANTS
    Windows,     \* the windows, in the order of diff.WINDOWS
    Least,       \* window -> min_interval
    Target,      \* window -> target
    Most,        \* window -> max_interval
    Now,         \* the time of the run; scans are archived at earlier times, and now
    MaxScans,    \* scans of a tier that the bucket holds at the start
    MaxChanges   \* scans that are archived or expire while the run is going on

Sources == <<"t3", "t1">>
Range(seq) == {seq[i] : i \in DOMAIN seq}

VARIABLES
    archive,   \* tier -> times of its archived scans
    changes,   \* how many were archived or expired since the start
    t4,        \* the run: step, window, source, and the pair chosen
    views,     \* window -> what the run will publish
    listed,    \* ghost: window -> source -> the archive as it was listed
    lost       \* ghost: windows in which a listing or a load failed

vars == <<archive, changes, t4, views, listed, lost>>

NoView == [tier |-> "none", latest |-> 0, baseline |-> 0]
At(pc, w) == [pc |-> pc, window |-> w, source |-> 1, pair |-> NoView]
Done == At("done", 1)
\* Before a listing anything may be there.
Unlisted == [w \in Range(Windows) |-> [tier \in Range(Sources) |-> 0 .. Now]]
Empty == [w \in Range(Windows) |-> NoView]

Pairs == [tier : Range(Sources) \cup {"none"}, latest : 0 .. Now, baseline : 0 .. Now]

TypeOK ==
    /\ archive \in [Range(Sources) -> SUBSET (0 .. Now)]
    /\ t4.pc \in {"list", "load", "done"} /\ t4.pair \in Pairs
    /\ t4.window \in 1 .. Len(Windows) /\ t4.source \in DOMAIN Sources
    /\ views \in [Range(Windows) -> Pairs] /\ changes \in 0 .. MaxChanges
    /\ listed \in [Range(Windows) -> [Range(Sources) -> SUBSET (0 .. Now)]]
    /\ lost \subseteq Range(Windows)

Init ==
    /\ archive \in [Range(Sources) -> {S \in SUBSET (0 .. Now - 1) : Cardinality(S) <= MaxScans}]
    /\ changes = 0
    /\ t4 = At("list", 1)
    /\ views = Empty
    /\ listed = Unlisted
    /\ lost = {}

\* t1 or t3 publishes and its scan is archived under the time of the run (s3.write_scan).
Archive ==
    /\ changes < MaxChanges /\ changes' = changes + 1
    /\ \E tier \in Range(Sources) :
        /\ Now \notin archive[tier]
        /\ archive' = [archive EXCEPT ![tier] = @ \cup {Now}]
    /\ UNCHANGED <<t4, views, listed, lost>>

\* The bucket expires the oldest scan of a tier.
Expire ==
    /\ changes < MaxChanges /\ changes' = changes + 1
    /\ \E tier \in Range(Sources) : \E x \in archive[tier] :
        /\ \A y \in archive[tier] : x <= y
        /\ archive' = [archive EXCEPT ![tier] = @ \ {x}]
    /\ UNCHANGED <<t4, views, listed, lost>>

-----------------------------------------------------------------------------
(* select_baseline *)

Distance(a, b) == IF a < b THEN b - a ELSE a - b
Latest(scans) == CHOOSE x \in scans : \A y \in scans : y <= x

Candidates(scans, w) == {x \in scans \ {Latest(scans)} : Latest(scans) - x >= Least[w]}

\* Mutant: the two most recent scans.
NearestOfAll(scans, w) ==
    LET wanted == Latest(scans) - Target[w]
        others == scans \ {Latest(scans)}
    IN  {x \in others : \A y \in others :
            \/ Distance(x, wanted) < Distance(y, wanted)
            \/ Distance(x, wanted) = Distance(y, wanted) /\ y <= x}

\* The candidate nearest the target, the newer of two that are as near; none if there is none.
Nearest(scans, w) ==
    LET wanted == Latest(scans) - Target[w]
    IN  {x \in Candidates(scans, w) : \A y \in Candidates(scans, w) :
            \/ Distance(x, wanted) < Distance(y, wanted)
            \/ Distance(x, wanted) = Distance(y, wanted) /\ y <= x}

\* The baseline, unless it is past the window's maximum.
Baseline(scans, w) ==
    IF Cardinality(scans) < 2 THEN {}
    ELSE {x \in Nearest(scans, w) : Latest(scans) - x <= Most[w]}

-----------------------------------------------------------------------------
(* run_t4 *)

Window == Windows[t4.window]
Source == Sources[t4.source]

\* On to the next window, or out of the loop.
NextWindow ==
    IF t4.window = Len(Windows) THEN Done
    ELSE At("list", t4.window + 1)

\* No baseline here: on to the next source, or to the next window.
NoBaseline ==
    IF t4.source = Len(Sources) THEN NextWindow
    ELSE [t4 EXCEPT !.pc = "list", !.source = @ + 1, !.pair = NoView]

\* The listing is answered: a pair is chosen, or there is none.
List ==
    /\ t4.pc = "list"
    /\ LET scans == archive[Source]
       IN  /\ listed' = [listed EXCEPT ![Window][Source] = scans]
           /\ t4' = IF Baseline(scans, Window) = {} THEN NoBaseline
                    ELSE [t4 EXCEPT !.pc = "load",
                                    !.pair = [tier |-> Source, latest |-> Latest(scans),
                                              baseline |-> CHOOSE x \in Baseline(scans, Window) : TRUE]]
    /\ UNCHANGED <<archive, changes, views, lost>>

\* Both scans are loaded and compared.
Load ==
    /\ t4.pc = "load"
    /\ {t4.pair.latest, t4.pair.baseline} \subseteq archive[Source]
    /\ views' = [views EXCEPT ![Window] = t4.pair]
    /\ t4' = NextWindow
    /\ UNCHANGED <<archive, changes, listed, lost>>

\* The listing fails, or a scan cannot be read, expired or not.
ReadFails ==
    /\ t4.pc # "done"
    /\ t4' = NoBaseline
    /\ lost' = lost \cup {Window}
    /\ UNCHANGED <<archive, changes, views, listed>>

\* The task dies and publishes nothing.
Die ==
    /\ t4.pc # "done"
    /\ t4' = Done
    /\ views' = Empty /\ listed' = Unlisted /\ lost' = Range(Windows)
    /\ UNCHANGED <<archive, changes>>

Next == Archive \/ Expire \/ List \/ Load \/ ReadFails \/ Die

Spec == Init /\ [][Next]_vars

-----------------------------------------------------------------------------
(* Properties *)

\* Every comparison is over an interval that its window's label covers, from the newest scan of its
\* source, and no archived scan of that source was nearer the target, whatever the other window found
\* and whatever was archived or expired meanwhile.
IntervalFitsTheLabel ==
    \A w \in Range(Windows) : views[w] # NoView =>
        LET v == views[w]
            off(x) == Distance(v.latest - x, Target[w])
            scans == listed[w][v.tier]
        IN  /\ v.latest - v.baseline \in Least[w] .. Most[w]
            /\ \A x \in scans : x <= v.latest
            /\ \A x \in scans : v.latest - x >= Least[w] => off(v.baseline) <= off(x)

\* A window that is left out although every read was answered had no pair to compare in either
\* source: the refusals never hide a baseline that would do, and one window's refusal is not
\* another's ("each window succeeds or fails independently", scan.py:1868).
RefusedOnlyWithoutBaseline ==
    t4.pc = "done" => \A w \in Range(Windows) \ lost : views[w] = NoView =>
        \A tier \in Range(Sources) : \A x, y \in listed[w][tier] :
            (y = Latest(listed[w][tier]) /\ x # y) => y - x \notin Least[w] .. Most[w]

\* What is compared fits its label, and what is refused could not have been compared.
BaselinesAreHonest == TypeOK /\ IntervalFitsTheLabel /\ RefusedOnlyWithoutBaseline
=============================================================================
