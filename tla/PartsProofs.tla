---------------------------- MODULE PartsProofs ----------------------------
(* Proofs about the parts of Parts: for any estate, threads, windows, scans,   *)
(* revisions, alerts, dashboards, edits and faults.  A section for each part   *)
(* finds its invariant; the theorems come last.                                *)
EXTENDS Parts, Integers, FiniteSets, FiniteSetTheorems, SequenceTheorems, WellFoundedInduction, TLAPS

-----------------------------------------------------------------------------
(* FleetScan.                                                                 *)

\* What the counters of some keys have counted, a pair for each time.
Ticks(c, keys) == UNION {{key} \X (1 .. c[key]) : key \in keys}

Busy(t) == work[t].pc # "idle"

FleetTyped ==
  /\ tier \in {"t2", "t3"} /\ paused \subseteq Slugs /\ enabled \subseteq Origins
  /\ queue \subseteq Slugs /\ results \subseteq Slugs
  /\ work \in [Threads -> {Fleet!Idle} \cup
                 [pc : {"read"}, stack : Slugs, key : {"none"}] \cup
                 [pc : {"count", "store"}, stack : Slugs, key : Fleet!Keys]]
  /\ counts \in [Fleet!Keys \cup {"scanned"} -> Nat]
  /\ DOMAIN failed \subseteq Slugs /\ DOMAIN skipped \subseteq Slugs
  /\ DOMAIN measured = Origins \cup {"no_datasource"}
  /\ verdict.end \in {"none", "unknown", "refused", "published"}
  /\ verdict.inputs \subseteq Origins \cup {"stack_detail", "dataplane"}

\* A stack is in one place: it waits, a thread has it, or it is told in one way.
FleetPlaces ==
  /\ \A s \in Slugs : \/ s \in queue \cup results \cup DOMAIN failed \cup DOMAIN skipped
                      \/ \E t \in Threads : Busy(t) /\ work[t].stack = s
  /\ \A t \in Threads : Busy(t) =>
       work[t].stack \notin queue \cup results \cup DOMAIN failed \cup DOMAIN skipped
  /\ \A t, u \in Threads : Busy(t) /\ Busy(u) /\ work[t].stack = work[u].stack => t = u
  /\ queue \cap (results \cup DOMAIN failed \cup DOMAIN skipped) = {}
  /\ results \cap (DOMAIN failed \cup DOMAIN skipped) = {}
  /\ DOMAIN failed \cap DOMAIN skipped = {}

\* A paused stack is skipped and nothing else.
FleetPaused ==
  /\ paused \cap (results \cup DOMAIN failed) = {}
  /\ \A t \in Threads : Busy(t) /\ work[t].stack \in paused => work[t].key \in Fleet!Skips

\* The counters may lose a stack, but never count one twice.
FleetCounts ==
  /\ counts["scanned"] = Cardinality(results)
  /\ Cardinality(Ticks(counts, Exceptions)) <= Cardinality(DOMAIN failed)
  /\ Cardinality(Ticks(counts, Fleet!Skips)) <= Cardinality(DOMAIN skipped)

\* The verdict is on all of the estate.
FleetDecided ==
  /\ verdict # Fleet!Undecided => Fleet!PoolDone
  /\ Fleet!AcceptedInputsCoverTheEstate

FleetInv == FleetTyped /\ FleetPlaces /\ FleetPaused /\ FleetCounts /\ FleetDecided

LEMMA FleetCardinality == ASSUME NEW S PROVE Fleet!Cardinality(S) = Cardinality(S)
BY DEF Fleet!Cardinality, Cardinality

LEMMA TotalIs == ASSUME NEW keys PROVE Fleet!Total(keys) = Cardinality(Ticks(counts, keys))
BY FleetCardinality DEF Fleet!Total, Ticks

LEMMA TickIs ==
  ASSUME NEW c, NEW keys, NEW p
  PROVE  p \in Ticks(c, keys) <=> \E key \in keys : \E n \in 1 .. c[key] : p = <<key, n>>
BY DEF Ticks

LEMMA TicksAreFinite ==
  ASSUME NEW keys, IsFiniteSet(keys), NEW c, \A key \in keys : c[key] \in Nat
  PROVE  IsFiniteSet(Ticks(c, keys))
<1> DEFINE Of(key) == {key} \X (1 .. c[key])
           f == [key \in keys |-> Of(key)]
           T == {Of(key) : key \in keys}
<1>1. f \in Surjection(keys, T)
  BY DEF Surjection
<1>2. IsFiniteSet(T)
  BY <1>1, FS_Surjection
<1>3. \A key \in keys : IsFiniteSet(Of(key))
  <2> SUFFICES ASSUME NEW key \in keys PROVE IsFiniteSet(Of(key))
    OBVIOUS
  <2>1. IsFiniteSet({key}) /\ c[key] \in Int /\ 1 \in Int
    BY FS_Singleton
  <2>2. IsFiniteSet(1 .. c[key])
    BY <2>1, FS_Interval
  <2>3. QED
    BY <2>1, <2>2, FS_Product
<1>4. \A U \in T : IsFiniteSet(U)
  BY <1>3
<1>5. Ticks(c, keys) = UNION T
  BY DEF Ticks
<1> HIDE DEF T
<1>6. QED
  BY <1>2, <1>4, <1>5, FS_UNION

\* A counter that is set to no more than one above what it was has counted once.
LEMMA OneTick ==
  ASSUME NEW c, NEW d, NEW key, NEW keys, IsFiniteSet(keys),
         \A k \in keys : c[k] \in Nat /\ d[k] \in Nat /\ (k # key => d[k] = c[k]),
         d[key] <= c[key] + 1
  PROVE  /\ Cardinality(Ticks(d, keys)) <= Cardinality(Ticks(c, keys)) + 1
         /\ key \notin keys => Ticks(d, keys) = Ticks(c, keys)
         /\ Cardinality(Ticks(c, keys)) \in Nat /\ Cardinality(Ticks(d, keys)) \in Nat
<1>1. IsFiniteSet(Ticks(c, keys)) /\ IsFiniteSet(Ticks(d, keys))
  BY TicksAreFinite
<1>2. ASSUME NEW p, p \in Ticks(d, keys) PROVE p \in Ticks(c, keys) \cup {<<key, d[key]>>}
  <2>1. PICK k \in keys : \E i \in 1 .. d[k] : p = <<k, i>>
    BY <1>2 DEF Ticks
  <2>2. PICK i \in 1 .. d[k] : p = <<k, i>>
    BY <2>1
  <2>3. CASE k # key
    BY <2>2, <2>3, TickIs
  <2>4. CASE k = key /\ i # d[key]
    <3>1. i \in 1 .. c[k]
      BY <2>2, <2>4
    <3>2. QED
      BY <2>2, <3>1, TickIs
  <2>5. QED
    BY <2>2, <2>3, <2>4
<1>3. Ticks(d, keys) \subseteq Ticks(c, keys) \cup {<<key, d[key]>>}
  BY <1>2
<1>4. /\ IsFiniteSet(Ticks(c, keys) \cup {<<key, d[key]>>})
      /\ Cardinality(Ticks(c, keys) \cup {<<key, d[key]>>}) <= Cardinality(Ticks(c, keys)) + 1
  <2> DEFINE S == Ticks(c, keys)
             x == <<key, d[key]>>
  <2>1. IsFiniteSet(S) /\ Cardinality(S) \in Nat
    BY <1>1, FS_CardinalityType
  <2> HIDE DEF S, x
  <2>2. /\ IsFiniteSet(S \cup {x})
        /\ Cardinality(S \cup {x}) = IF x \in S THEN Cardinality(S) ELSE Cardinality(S) + 1
    BY <2>1, FS_AddElement
  <2>3. Cardinality(S \cup {x}) <= Cardinality(S) + 1
    BY <2>1, <2>2
  <2>4. QED
    BY <2>2, <2>3 DEF S, x
<1>5. Cardinality(Ticks(d, keys)) <= Cardinality(Ticks(c, keys) \cup {<<key, d[key]>>})
  BY <1>3, <1>4, FS_Subset
<1>6. key \notin keys => Ticks(d, keys) = Ticks(c, keys)
  <2> SUFFICES ASSUME key \notin keys PROVE \A p : p \in Ticks(d, keys) <=> p \in Ticks(c, keys)
    OBVIOUS
  <2>1. \A k \in keys : d[k] = c[k]
    OBVIOUS
  <2>2. QED
    BY <2>1 DEF Ticks
<1>7. /\ Cardinality(Ticks(c, keys)) \in Nat /\ Cardinality(Ticks(d, keys)) \in Nat
      /\ Cardinality(Ticks(c, keys) \cup {<<key, d[key]>>}) \in Nat
  BY <1>1, <1>4, FS_CardinalityType
<1>8. QED
  BY <1>4, <1>5, <1>6, <1>7

LEMMA KeysAre ==
  ASSUME FleetConstants
  PROVE  /\ Fleet!Keys = Exceptions \cup Fleet!Skips /\ Fleet!Skips = {"paused", "unavailable"}
         /\ IsFiniteSet(Exceptions) /\ IsFiniteSet(Fleet!Skips)
         /\ Exceptions \cap Fleet!Skips = {}
         /\ "scanned" \notin Fleet!Keys /\ "none" \notin Fleet!Keys
<1>1. IsFiniteSet({"paused"} \cup {"unavailable"})
  BY FS_Singleton, FS_AddElement
<1>2. {"paused", "unavailable"} = {"paused"} \cup {"unavailable"}
  OBVIOUS
<1>3. QED
  BY <1>1, <1>2 DEF FleetConstants, Fleet!Keys, Fleet!Skips

\* What a thread has in hand.
LEMMA HandIs ==
  ASSUME FleetTyped, NEW t \in Threads
  PROVE  /\ Busy(t) <=> work[t] # Fleet!Idle
         /\ Busy(t) => work[t].stack \in Slugs
         /\ work[t].pc \in {"count", "store"} => work[t].key \in Fleet!Keys
         /\ work[t].pc = "read" => work[t].key = "none"
         /\ work[t].pc \in {"idle", "read", "count", "store"}
BY DEF FleetTyped, Busy, Fleet!Idle

\* While a thread is busy the run has not been judged.
LEMMA NotYetJudged ==
  ASSUME FleetInv, NEW t \in Threads, Busy(t) \/ queue # {}
  PROVE  verdict = Fleet!Undecided
BY HandIs DEF FleetInv, FleetDecided, Fleet!PoolDone

LEMMA UndecidedCovers ==
  ASSUME verdict = Fleet!Undecided
  PROVE  FleetDecided
BY DEF FleetDecided, Fleet!AcceptedInputsCoverTheEstate, Fleet!Undecided

LEMMA FleetBegins == ASSUME FleetConstants, Fleet!Init PROVE FleetInv
<1>0. DOMAIN <<>> = {}
  OBVIOUS
<1>1. DOMAIN failed = {} /\ DOMAIN skipped = {}
  BY <1>0 DEF Fleet!Init
<1>2. /\ queue = Slugs /\ results = {} /\ verdict = Fleet!Undecided
      /\ \A t \in Threads : work[t] = Fleet!Idle /\ ~ Busy(t)
      /\ work = [t \in Threads |-> Fleet!Idle]
  BY DEF Fleet!Init, Busy, Fleet!Idle
<1>3. counts = [k \in Fleet!Keys \cup {"scanned"} |-> 0]
  BY DEF Fleet!Init
<1>4. FleetTyped
  BY <1>1, <1>2, <1>3 DEF FleetTyped, Fleet!Init, Fleet!Undecided
<1>5. FleetPlaces /\ FleetPaused
  BY <1>1, <1>2 DEF FleetPlaces, FleetPaused
<1>6. \A keys \in SUBSET Fleet!Keys : Ticks(counts, keys) = {}
  BY <1>3 DEF Ticks
<1>7. FleetCounts
  <2>1. Cardinality({}) = 0
    BY FS_EmptySet
  <2>2. Ticks(counts, Exceptions) = {} /\ Ticks(counts, Fleet!Skips) = {}
    BY <1>6, KeysAre
  <2>3. counts["scanned"] = 0
    BY <1>3
  <2>4. Cardinality(results) = 0 /\ Cardinality(DOMAIN failed) = 0 /\ Cardinality(DOMAIN skipped) = 0
    BY <1>1, <1>2, <2>1
  <2>5. /\ Cardinality(Ticks(counts, Exceptions)) = 0
        /\ Cardinality(Ticks(counts, Fleet!Skips)) = 0
    BY <2>1, <2>2
  <2>6. QED
    BY <2>3, <2>4, <2>5 DEF FleetCounts
<1>8. QED
  BY <1>2, <1>4, <1>5, <1>7, UndecidedCovers DEF FleetInv

LEMMA TakeKeeps ==
  ASSUME FleetConstants, FleetInv, NEW t \in Threads, Fleet!Take(t)
  PROVE  FleetInv'
<1>1. PICK s \in queue :
        /\ queue' = queue \ {s}
        /\ work' = [work EXCEPT ![t] = IF s \in paused THEN Fleet!At("count", s, "paused")
                                                       ELSE Fleet!At("read", s, "none")]
  BY DEF Fleet!Take
<1>2. /\ UNCHANGED <<tier, paused, enabled, counts, failed, skipped, results, measured, verdict>>
      /\ ~ Busy(t)
  BY DEF Fleet!Take, Busy, Fleet!Idle
<1>3. verdict = Fleet!Undecided
  BY <1>1, NotYetJudged
<1>4. FleetTyped /\ s \in Slugs /\ "paused" \in Fleet!Keys /\ "paused" \in Fleet!Skips
  BY <1>1, KeysAre DEF FleetInv, FleetTyped
<1>5. /\ work'[t].stack = s
      /\ work'[t].pc = IF s \in paused THEN "count" ELSE "read"
      /\ work'[t].key = IF s \in paused THEN "paused" ELSE "none"
      /\ \A u \in Threads : u # t => work'[u] = work[u]
  BY <1>1, <1>4 DEF FleetTyped, Fleet!At
<1>6. FleetTyped'
  BY <1>1, <1>2, <1>4 DEF FleetTyped, Fleet!At
<1>7. FleetPlaces'
  BY <1>1, <1>2, <1>4, <1>5 DEF FleetInv, FleetPlaces, Busy
<1>8. FleetPaused'
  BY <1>2, <1>4, <1>5 DEF FleetInv, FleetPaused, Busy
<1>9. FleetCounts'
  BY <1>2 DEF FleetInv, FleetCounts
<1>10. QED
  BY <1>2, <1>3, <1>6, <1>7, <1>8, <1>9, UndecidedCovers DEF FleetInv, FleetDecided,
     Fleet!AcceptedInputsCoverTheEstate, Fleet!Undecided

LEMMA ReadOkKeeps ==
  ASSUME FleetConstants, FleetInv, NEW t \in Threads, Fleet!ReadOk(t)
  PROVE  FleetInv'
<1> DEFINE s == work[t].stack
<1>1. /\ results' = results \cup {s}
      /\ counts' = [counts EXCEPT !["scanned"] = counts["scanned"] + 1]
      /\ work' = [work EXCEPT ![t] = Fleet!Idle]
      /\ UNCHANGED <<tier, paused, enabled, queue, failed, skipped, measured, verdict>>
      /\ work[t].pc = "read" /\ Busy(t)
  BY DEF Fleet!ReadOk, Busy
<1>2. verdict = Fleet!Undecided
  BY <1>1, NotYetJudged
<1>3. FleetTyped /\ s \in Slugs /\ work[t].key = "none" /\ IsFiniteSet(Slugs)
  BY <1>1, HandIs DEF FleetInv, FleetConstants
<1>4. /\ ~ Busy(t)'
      /\ \A u \in Threads : u # t => work'[u] = work[u]
  BY <1>1, <1>3 DEF FleetTyped, Busy, Fleet!Idle
<1>5. FleetTyped'
  BY <1>1, <1>3 DEF FleetTyped
<1>6. FleetPlaces'
  BY <1>1, <1>4 DEF FleetInv, FleetPlaces, Busy
<1>7. s \notin paused
  BY <1>1, <1>3, KeysAre DEF FleetInv, FleetPaused
<1>8. FleetPaused'
  BY <1>1, <1>4, <1>7 DEF FleetInv, FleetPaused, Busy
<1>9. FleetCounts'
  <2>1. s \notin results
    BY <1>1 DEF FleetInv, FleetPlaces
  <2>2. IsFiniteSet(results) /\ Cardinality(results) \in Nat
    BY <1>3, FS_Subset, FS_CardinalityType DEF FleetTyped
  <2>3. Cardinality(results') = Cardinality(results) + 1
    BY <1>1, <2>1, <2>2, FS_AddElement
  <2>4. counts'["scanned"] = counts["scanned"] + 1
    BY <1>1, <1>3 DEF FleetTyped
  <2>5. \A keys \in SUBSET Fleet!Keys : Ticks(counts', keys) = Ticks(counts, keys)
    <3>1. \A k \in Fleet!Keys : counts'[k] = counts[k]
      BY <1>1, <1>3, KeysAre DEF FleetTyped
    <3>2. QED
      BY <3>1 DEF Ticks
  <2>6. Ticks(counts', Exceptions) = Ticks(counts, Exceptions)
    BY <2>5, KeysAre
  <2>7. Ticks(counts', Fleet!Skips) = Ticks(counts, Fleet!Skips)
    BY <2>5, KeysAre
  <2>8. QED
    BY <1>1, <2>3, <2>4, <2>6, <2>7 DEF FleetInv, FleetCounts, Fleet!Skips
<1>10. QED
  BY <1>1, <1>2, <1>5, <1>6, <1>8, <1>9, UndecidedCovers DEF FleetInv, FleetDecided,
     Fleet!AcceptedInputsCoverTheEstate, Fleet!Undecided

\* A step that changes only what a thread has in hand, and not its stack.
LEMMA HandKeeps ==
  ASSUME FleetConstants, FleetInv, NEW t \in Threads, Busy(t), FleetTyped',
         work'[t].pc # "idle", work'[t].stack = work[t].stack,
         work[t].key \in Fleet!Skips => work'[t].key \in Fleet!Skips,
         \A u \in Threads : u # t => work'[u] = work[u],
         UNCHANGED <<tier, paused, enabled, queue, counts, failed, skipped, results, measured, verdict>>
  PROVE  FleetInv'
<1>1. verdict = Fleet!Undecided
  BY NotYetJudged
<1>2. FleetPlaces'
  BY DEF FleetInv, FleetPlaces, Busy
<1>3. FleetPaused'
  BY DEF FleetInv, FleetPaused, Busy, Fleet!Skips
<1>4. FleetCounts'
  BY DEF FleetInv, FleetCounts, Fleet!Skips
<1>5. QED
  BY <1>1, <1>2, <1>3, <1>4 DEF FleetInv, FleetDecided,
     Fleet!AcceptedInputsCoverTheEstate, Fleet!Undecided

LEMMA ReadFailsKeeps ==
  ASSUME FleetConstants, FleetInv, NEW t \in Threads, Fleet!ReadFails(t)
  PROVE  FleetInv'
<1>1. PICK key \in Fleet!Keys : work' = [work EXCEPT ![t] = Fleet!At("count", work[t].stack, key)]
  BY KeysAre DEF Fleet!ReadFails
<1>2. /\ UNCHANGED <<tier, paused, enabled, queue, counts, failed, skipped, results, measured, verdict>>
      /\ work[t].pc = "read" /\ Busy(t)
  BY DEF Fleet!ReadFails, Busy
<1>3. FleetTyped /\ work[t].stack \in Slugs /\ work[t].key = "none"
  BY <1>2, HandIs DEF FleetInv
<1>4. FleetTyped'
  BY <1>1, <1>2, <1>3 DEF FleetTyped, Fleet!At
<1>5. /\ work'[t].pc = "count" /\ work'[t].stack = work[t].stack
      /\ \A u \in Threads : u # t => work'[u] = work[u]
  BY <1>1, <1>3 DEF FleetTyped, Fleet!At
<1>6. "none" \notin Fleet!Skips
  BY KeysAre
<1>7. QED
  BY <1>2, <1>3, <1>4, <1>5, <1>6, HandKeeps

LEMMA CountMissingKeeps ==
  ASSUME FleetConstants, FleetInv, NEW t \in Threads, Fleet!CountMissing(t)
  PROVE  FleetInv'
<1>1. /\ work' = [work EXCEPT ![t] = [work[t] EXCEPT !.pc = "store"]]
      /\ UNCHANGED <<tier, paused, enabled, queue, counts, failed, skipped, results, measured, verdict>>
      /\ work[t].pc = "count" /\ Busy(t)
  BY DEF Fleet!CountMissing, Busy
<1>2. FleetTyped
  BY DEF FleetInv
<1>3. work[t] \in [pc : {"count", "store"}, stack : Slugs, key : Fleet!Keys]
  BY <1>1, <1>2 DEF FleetTyped, Fleet!Idle
<1>4. [work[t] EXCEPT !.pc = "store"] \in [pc : {"count", "store"}, stack : Slugs, key : Fleet!Keys]
  BY <1>3
<1>5. FleetTyped'
  BY <1>1, <1>2, <1>4 DEF FleetTyped
<1>6. /\ work'[t].pc = "store" /\ work'[t].stack = work[t].stack /\ work'[t].key = work[t].key
      /\ \A u \in Threads : u # t => work'[u] = work[u]
  BY <1>1, <1>2, <1>3 DEF FleetTyped
<1>7. QED
  BY <1>1, <1>5, <1>6, HandKeeps

\* A thread that names its stack has counted it once.
LEMMA RecordKeeps ==
  ASSUME FleetConstants, FleetInv, NEW t \in Threads, Fleet!Record(t), Busy(t),
         NEW n \in Nat, n <= counts[work[t].key] + 1, work[t].key \in Fleet!Keys,
         counts' = [counts EXCEPT ![work[t].key] = n]
  PROVE  FleetInv'
<1> DEFINE s == work[t].stack
           key == work[t].key
<1>1. /\ work' = [work EXCEPT ![t] = Fleet!Idle]
      /\ UNCHANGED <<tier, paused, enabled, queue, results, measured, verdict>>
  BY DEF Fleet!Record
<1>2. /\ key \in Fleet!Skips => DOMAIN skipped' = DOMAIN skipped \cup {s} /\ failed' = failed
      /\ key \notin Fleet!Skips => DOMAIN failed' = DOMAIN failed \cup {s} /\ skipped' = skipped
  BY DEF Fleet!Record
<1>3. FleetTyped /\ s \in Slugs /\ IsFiniteSet(Slugs)
  BY HandIs DEF FleetInv, FleetConstants
<1>4. verdict = Fleet!Undecided
  BY NotYetJudged
<1>5. /\ ~ Busy(t)'
      /\ \A u \in Threads : u # t => work'[u] = work[u]
  BY <1>1, <1>3 DEF FleetTyped, Busy, Fleet!Idle
<1>6. FleetTyped'
  BY <1>1, <1>2, <1>3 DEF FleetTyped
<1>7. FleetPlaces'
  BY <1>1, <1>2, <1>5 DEF FleetInv, FleetPlaces, Busy
<1>8. FleetPaused'
  <2>1. s \in paused => key \in Fleet!Skips
    BY DEF FleetInv, FleetPaused
  <2>2. Fleet!Skips' = Fleet!Skips
    BY DEF Fleet!Skips
  <2>3. QED
    BY <1>1, <1>2, <1>5, <2>1, <2>2 DEF FleetInv, FleetPaused, Busy
<1>9. FleetCounts'
  <2>1. /\ s \notin DOMAIN failed /\ s \notin DOMAIN skipped
        /\ IsFiniteSet(DOMAIN failed) /\ IsFiniteSet(DOMAIN skipped)
        /\ Cardinality(DOMAIN failed) \in Nat /\ Cardinality(DOMAIN skipped) \in Nat
    BY <1>3, FS_Subset, FS_CardinalityType DEF FleetInv, FleetPlaces, FleetTyped
  <2>2. /\ Cardinality(DOMAIN failed \cup {s}) = Cardinality(DOMAIN failed) + 1
        /\ Cardinality(DOMAIN skipped \cup {s}) = Cardinality(DOMAIN skipped) + 1
    BY <2>1, FS_AddElement
  <2>3. /\ key \in DOMAIN counts /\ counts'[key] <= counts[key] + 1
        /\ \A k \in DOMAIN counts : /\ counts[k] \in Nat /\ counts'[k] \in Nat
                                    /\ k # key => counts'[k] = counts[k]
    BY <1>3 DEF FleetTyped
  <2>4. /\ Exceptions \in SUBSET DOMAIN counts /\ IsFiniteSet(Exceptions)
        /\ Fleet!Skips \in SUBSET DOMAIN counts /\ IsFiniteSet(Fleet!Skips)
        /\ "scanned" \in DOMAIN counts
        /\ key \in Exceptions <=> key \notin Fleet!Skips
        /\ key # "scanned"
    BY <1>3, KeysAre DEF FleetTyped
  <2>5. \A keys \in SUBSET DOMAIN counts :
           /\ \A k \in keys : counts[k] \in Nat /\ counts'[k] \in Nat /\ (k # key => counts'[k] = counts[k])
           /\ counts'[key] <= counts[key] + 1
    BY <2>3
  <2>6. ASSUME NEW keys \in SUBSET DOMAIN counts, IsFiniteSet(keys)
        PROVE  /\ Cardinality(Ticks(counts', keys)) <= Cardinality(Ticks(counts, keys)) + 1
               /\ key \notin keys => Ticks(counts', keys) = Ticks(counts, keys)
               /\ Cardinality(Ticks(counts, keys)) \in Nat
               /\ Cardinality(Ticks(counts', keys)) \in Nat
    <3> DEFINE c == counts
               d == counts'
    <3>1. /\ \A k \in keys : c[k] \in Nat /\ d[k] \in Nat /\ (k # key => d[k] = c[k])
          /\ d[key] <= c[key] + 1
      BY <2>5
    <3> HIDE DEF key, c, d
    <3>2. /\ Cardinality(Ticks(d, keys)) <= Cardinality(Ticks(c, keys)) + 1
          /\ key \notin keys => Ticks(d, keys) = Ticks(c, keys)
          /\ Cardinality(Ticks(c, keys)) \in Nat /\ Cardinality(Ticks(d, keys)) \in Nat
      BY <2>6, <3>1, OneTick
    <3>3. QED
      BY <3>2 DEF c, d
  <2>7. /\ Cardinality(Ticks(counts', Exceptions)) <= Cardinality(Ticks(counts, Exceptions)) + 1
        /\ key \notin Exceptions => Ticks(counts', Exceptions) = Ticks(counts, Exceptions)
        /\ Cardinality(Ticks(counts, Exceptions)) \in Nat
        /\ Cardinality(Ticks(counts', Exceptions)) \in Nat
    BY <2>4, <2>6
  <2>8. /\ Cardinality(Ticks(counts', Fleet!Skips)) <= Cardinality(Ticks(counts, Fleet!Skips)) + 1
        /\ key \notin Fleet!Skips => Ticks(counts', Fleet!Skips) = Ticks(counts, Fleet!Skips)
        /\ Cardinality(Ticks(counts, Fleet!Skips)) \in Nat
        /\ Cardinality(Ticks(counts', Fleet!Skips)) \in Nat
    BY <2>4, <2>6
  <2>9. /\ counts'["scanned"] = counts["scanned"]
        /\ counts["scanned"] = Cardinality(results)
        /\ Cardinality(Ticks(counts, Exceptions)) <= Cardinality(DOMAIN failed)
        /\ Cardinality(Ticks(counts, Fleet!Skips)) <= Cardinality(DOMAIN skipped)
    BY <2>3, <2>4 DEF FleetInv, FleetCounts
  <2>10. CASE key \in Fleet!Skips
    <3>1. /\ Cardinality(DOMAIN skipped') = Cardinality(DOMAIN skipped) + 1 /\ failed' = failed
          /\ Ticks(counts', Exceptions) = Ticks(counts, Exceptions)
      BY <1>2, <2>2, <2>4, <2>7, <2>10
    <3>2. Cardinality(Ticks(counts', Fleet!Skips)) <= Cardinality(DOMAIN skipped')
      BY <2>1, <2>8, <2>9, <3>1
    <3>3. Fleet!Skips' = Fleet!Skips
      BY DEF Fleet!Skips
    <3>4. QED
      BY <1>1, <2>9, <3>1, <3>2, <3>3 DEF FleetCounts
  <2>11. CASE key \notin Fleet!Skips
    <3>1. /\ Cardinality(DOMAIN failed') = Cardinality(DOMAIN failed) + 1 /\ skipped' = skipped
          /\ Ticks(counts', Fleet!Skips) = Ticks(counts, Fleet!Skips)
      BY <1>2, <2>2, <2>8, <2>11
    <3>2. Cardinality(Ticks(counts', Exceptions)) <= Cardinality(DOMAIN failed')
      BY <2>1, <2>7, <2>9, <3>1
    <3>3. Fleet!Skips' = Fleet!Skips
      BY DEF Fleet!Skips
    <3>4. QED
      BY <1>1, <2>9, <3>1, <3>2, <3>3 DEF FleetCounts
  <2>12. QED
    BY <2>10, <2>11
<1>10. QED
  BY <1>1, <1>4, <1>6, <1>7, <1>8, <1>9 DEF FleetInv, FleetDecided,
     Fleet!AcceptedInputsCoverTheEstate, Fleet!Undecided

LEMMA CountKeeps ==
  ASSUME FleetConstants, FleetInv, NEW t \in Threads, Fleet!CountKnown(t) \/ Fleet!Store(t)
  PROVE  FleetInv'
<1> DEFINE key == work[t].key
<1>1. Busy(t) /\ key \in Fleet!Keys /\ counts \in [Fleet!Keys \cup {"scanned"} -> Nat]
  BY HandIs DEF FleetInv, FleetTyped, Fleet!CountKnown, Fleet!Store, Busy
<1>2. CASE Fleet!CountKnown(t)
  <2>1. /\ counts' = [counts EXCEPT ![key] = counts[key] + 1]
        /\ Fleet!Record(t)
    BY <1>2 DEF Fleet!CountKnown
  <2>2. counts[key] + 1 \in Nat /\ counts[key] + 1 <= counts[key] + 1
    BY <1>1
  <2>3. QED
    BY <1>1, <2>1, <2>2, RecordKeeps
<1>3. CASE Fleet!Store(t)
  <2>1. counts' = [counts EXCEPT ![key] = 1] /\ Fleet!Record(t)
    BY <1>3 DEF Fleet!Store
  <2>2. 1 \in Nat /\ 1 <= counts[key] + 1
    BY <1>1
  <2>3. QED
    BY <1>1, <2>1, <2>2, RecordKeeps
<1>4. QED
  BY <1>2, <1>3

\* What is missing of fewer is no greater a share, if no more than all may be missing.
LEMMA LessIsCovered ==
  ASSUME NEW of \in Nat, NEW fewer \in Nat, fewer <= of, NEW have \in Nat,
         NEW num \in Nat, NEW den \in Nat, num <= den,
         (of - Fleet!Lesser(of, have)) * den <= num * of
  PROVE  (fewer - Fleet!Lesser(fewer, have)) * den <= num * fewer
<1>1. CASE fewer <= have
  <2>1. fewer - Fleet!Lesser(fewer, have) = 0
    BY <1>1 DEF Fleet!Lesser
  <2>2. 0 * den = 0 /\ num * fewer >= 0
    OBVIOUS
  <2>3. QED
    BY <2>1, <2>2
<1>2. CASE have < fewer
  <2>1. /\ fewer - Fleet!Lesser(fewer, have) = fewer - have
        /\ of - Fleet!Lesser(of, have) = of - have
    BY <1>2 DEF Fleet!Lesser
  <2> DEFINE rest == of - fewer
  <2>2. rest \in Nat /\ of = fewer + rest
    OBVIOUS
  <2>3. (of - have) * den = (fewer - have) * den + rest * den
    BY <2>2
  <2>4. num * of = num * fewer + rest * num
    BY <2>2
  <2>5. rest * num <= rest * den
    BY <2>2
  <2>6. QED
    BY <2>1, <2>2, <2>3, <2>4, <2>5
<1>3. QED
  BY <1>1, <1>2

\* The sizes of what the gates compare.
LEMMA SizesAre ==
  ASSUME FleetConstants, FleetInv
  PROVE  /\ Cardinality(Slugs) \in Nat /\ Cardinality(results) \in Nat
         /\ Cardinality(DOMAIN failed) \in Nat /\ Cardinality(DOMAIN skipped) \in Nat
         /\ Fleet!Total(Exceptions) \in Nat /\ Fleet!Total(Exceptions) <= Cardinality(DOMAIN failed)
         /\ Fleet!Scannable \in Nat
         /\ Cardinality(Fleet!Refusable) \in Nat /\ Cardinality(Fleet!Refusable) <= Fleet!Scannable
<1>1. /\ IsFiniteSet(Slugs) /\ IsFiniteSet(results)
      /\ IsFiniteSet(DOMAIN failed) /\ IsFiniteSet(DOMAIN skipped)
      /\ DOMAIN skipped \subseteq Slugs
      /\ \A key \in Fleet!Keys : counts[key] \in Nat
  BY FS_Subset DEF FleetConstants, FleetInv, FleetTyped
<1>2. /\ Cardinality(Slugs) \in Nat /\ Cardinality(results) \in Nat
      /\ Cardinality(DOMAIN failed) \in Nat /\ Cardinality(DOMAIN skipped) \in Nat
  BY <1>1, FS_CardinalityType
<1>3. IsFiniteSet(Ticks(counts, Exceptions)) /\ IsFiniteSet(Ticks(counts, Fleet!Skips))
  BY <1>1, KeysAre, TicksAreFinite
<1>4. Fleet!Total(Exceptions) \in Nat /\ Fleet!Total(Fleet!Skips) \in Nat
  BY <1>3, TotalIs, FS_CardinalityType
<1>5. /\ Fleet!Total(Exceptions) <= Cardinality(DOMAIN failed)
      /\ Fleet!Total(Fleet!Skips) <= Cardinality(DOMAIN skipped)
  BY TotalIs DEF FleetInv, FleetCounts
<1>6. Cardinality(Slugs \ DOMAIN skipped) = Cardinality(Slugs) - Cardinality(DOMAIN skipped)
  <2>1. Slugs \cap DOMAIN skipped = DOMAIN skipped
    BY <1>1
  <2>2. QED
    BY <1>1, <2>1, FS_Difference
<1>7. /\ IsFiniteSet(Slugs \ DOMAIN skipped)
      /\ Cardinality(Slugs \ DOMAIN skipped) \in Nat
  BY <1>1, FS_Difference, FS_CardinalityType
<1>8. Fleet!Refusable = Slugs \ DOMAIN skipped
  BY DEF Fleet!Refusable
<1>9. Fleet!Scannable = IF Fleet!Total(Fleet!Skips) > Cardinality(Slugs) THEN 0
                        ELSE Cardinality(Slugs) - Fleet!Total(Fleet!Skips)
  BY FleetCardinality DEF Fleet!Scannable
<1>10. QED
  BY <1>2, <1>4, <1>5, <1>6, <1>7, <1>8, <1>9

\* A source that its own gate calls healthy covers what it should.
LEMMA HealthyCovers ==
  ASSUME FleetConstants, FleetInv, NEW src \in Origins \cup {"stack_detail"},
         NEW have \in Nat, NEW bare \in Nat,
         src = "stack_detail" \/ src \in enabled, Fleet!Healthy(src, have, bare)
  PROVE  LET of == Fleet!Due(src, bare)
         IN  ~ Fleet!Over(of - Fleet!Lesser(of, have), of, Shares[src])
<1> DEFINE of == Fleet!Due(src, bare)
           all == Cardinality(Fleet!Covered(src))
           e == Fleet!Expected(src, bare)
           num == Shares[src][1]
           den == Shares[src][2]
<1>1. num \in Nat /\ den \in Nat /\ num <= den
  BY DEF FleetConstants
<1>2. e \in Nat /\ of \in Nat /\ of <= e
  <2>0. of = IF src # "stack_detail" /\ Population[src] = "sourced"
             THEN all - (IF all < bare THEN all ELSE bare) ELSE all
    BY FleetCardinality DEF Fleet!Due, Fleet!Lesser
  <2> HIDE DEF of
  <2>1. CASE src = "stack_detail"
    BY <2>0, <2>1, SizesAre DEF Fleet!Expected, Fleet!Covered
  <2>2. CASE src # "stack_detail" /\ Population[src] = "org"
    <3>1. Cardinality({"org"}) = 1
      BY FS_Singleton
    <3>2. QED
      BY <2>0, <2>2, <3>1 DEF Fleet!Expected, Fleet!Covered
  <2>3. CASE src # "stack_detail" /\ Population[src] = "scannable"
    BY <2>0, <2>3, SizesAre DEF Fleet!Expected, Fleet!Covered
  <2>4. CASE src # "stack_detail" /\ Population[src] \in {"live", "producer"}
    <3>1. IsFiniteSet(Fleet!Live)
      BY FS_Subset DEF Fleet!Live, FleetConstants
    <3>2. Cardinality(Fleet!Live) \in Nat
      BY <3>1, FS_CardinalityType
    <3>3. QED
      BY <2>0, <2>4, <3>2, FleetCardinality DEF Fleet!Expected, Fleet!Covered
  <2>5. CASE src # "stack_detail" /\ Population[src] = "sourced"
    <3> DEFINE n == Fleet!Scannable
    <3>1. all = Cardinality(Fleet!Refusable) /\ all \in Nat /\ n \in Nat /\ all <= n
      BY <2>5, SizesAre DEF Fleet!Covered
    <3>2. e = n - (IF n < bare THEN n ELSE bare)
      BY <2>5 DEF Fleet!Expected, Fleet!Lesser
    <3> HIDE DEF n, e, all
    <3>3. QED
      BY <2>0, <2>5, <3>1, <3>2
  <2>6. QED
    BY <2>1, <2>2, <2>3, <2>4, <2>5 DEF FleetConstants
<1>3. ~ Fleet!Over(e - Fleet!Lesser(e, have), e, Shares[src])
  BY DEF Fleet!Healthy
<1>4. (e - Fleet!Lesser(e, have)) * den <= num * e
  <2>1. e - Fleet!Lesser(e, have) \in Nat
    BY <1>2 DEF Fleet!Lesser
  <2> HIDE DEF e
  <2>2. ~ ((e - Fleet!Lesser(e, have)) * den > num * e)
    BY <1>3 DEF Fleet!Over
  <2>3. (e - Fleet!Lesser(e, have)) * den \in Int /\ num * e \in Int
    BY <1>1, <1>2, <2>1
  <2>4. QED
    BY <2>2, <2>3
<1>5. (of - Fleet!Lesser(of, have)) * den <= num * of
  <2> HIDE DEF e, of, num, den
  <2>1. QED
    BY <1>1, <1>2, <1>4, LessIsCovered
<1>6. ~ ((of - Fleet!Lesser(of, have)) * den > num * of)
  <2>1. of - Fleet!Lesser(of, have) \in Nat
    BY <1>2 DEF Fleet!Lesser
  <2> HIDE DEF e, of
  <2>2. (of - Fleet!Lesser(of, have)) * den \in Int /\ num * of \in Int
    BY <1>1, <1>2, <2>1
  <2>3. QED
    BY <1>5, <2>2
<1>7. QED
  BY <1>6 DEF Fleet!Over


\* A verdict is on inputs that were gathered from the estate.
LEMMA FinishKeeps ==
  ASSUME FleetConstants, FleetInv, Fleet!FinishT2 \/ Fleet!FinishT3
  PROVE  FleetInv'
<1>1. /\ UNCHANGED <<tier, paused, enabled, queue, work, counts, failed, skipped, results>>
      /\ Fleet!PoolDone
  BY DEF Fleet!FinishT2, Fleet!FinishT3
<1>2. FleetPlaces' /\ FleetPaused' /\ FleetCounts'
  BY <1>1 DEF FleetInv, FleetPlaces, FleetPaused, FleetCounts, Busy, Fleet!Skips
<1>3. Fleet!PoolDone'
  BY <1>1 DEF Fleet!PoolDone, Fleet!Idle
<1>4. ASSUME NEW inputs \in SUBSET (Origins \cup {"stack_detail", "dataplane"}), NEW blocking,
             Fleet!Decide(inputs, blocking), DOMAIN measured' = Origins \cup {"no_datasource"}
      PROVE  FleetTyped' /\ verdict'.inputs \subseteq inputs
  <2>1. /\ verdict'.end \in {"none", "unknown", "refused", "published"}
        /\ verdict'.inputs \subseteq inputs
    BY <1>4 DEF Fleet!Decide
  <2>2. FleetTyped
    BY DEF FleetInv
  <2>3. QED
    BY <1>1, <1>4, <2>1, <2>2 DEF FleetTyped, Fleet!Keys, Fleet!Skips, Fleet!Idle
<1>5. CASE Fleet!FinishT3
  <2>1. /\ Fleet!Decide({"dataplane"}, {}) /\ measured' = measured /\ tier = "t3"
    BY <1>5 DEF Fleet!FinishT3
  <2>2. FleetTyped'
    BY <1>4, <2>1 DEF FleetInv, FleetTyped
  <2>3. FleetDecided'
    BY <1>1, <1>3, <2>1 DEF FleetDecided, Fleet!AcceptedInputsCoverTheEstate
  <2>4. QED
    BY <1>2, <2>2, <2>3 DEF FleetInv
<1>6. CASE Fleet!FinishT2
  <2>0. PICK m \in Fleet!Gatherings : \E none \in Fleet!Without(m) :
          LET low == Fleet!Unhealthy(m, Fleet!Cardinality(none))
          IN  /\ measured' = [x \in Origins \cup {"no_datasource"} |->
                                 IF x = "no_datasource" THEN none ELSE m[x]]
              /\ Fleet!Decide((enabled \cup {"stack_detail"}) \ low, low \ NonBlocking)
    BY <1>6 DEF Fleet!FinishT2
  <2>1. PICK none \in Fleet!Without(m) :
          LET low == Fleet!Unhealthy(m, Fleet!Cardinality(none))
          IN  /\ measured' = [x \in Origins \cup {"no_datasource"} |->
                                 IF x = "no_datasource" THEN none ELSE m[x]]
              /\ Fleet!Decide((enabled \cup {"stack_detail"}) \ low, low \ NonBlocking)
    BY <2>0
  <2> DEFINE bare == Cardinality(none)
             low == Fleet!Unhealthy(m, bare)
             inputs == (enabled \cup {"stack_detail"}) \ low
  <2>a. /\ measured' = [x \in Origins \cup {"no_datasource"} |->
                          IF x = "no_datasource" THEN none ELSE m[x]]
        /\ Fleet!Decide(inputs, low \ NonBlocking)
    BY <2>1, FleetCardinality
  <2>2. DOMAIN m = Origins /\ \A src \in Origins : m[src] \subseteq Fleet!Live \cup {"org"}
    BY DEF Fleet!Gatherings
  <2>3. inputs \subseteq Origins \cup {"stack_detail"}
    BY DEF FleetInv, FleetTyped
  <2>b. /\ bare \in Nat
        /\ "no_datasource" \notin Origins
        /\ measured'["no_datasource"] = none
        /\ \A src \in Origins : measured'[src] = m[src]
    <3>1. none \subseteq Fleet!Live
      BY DEF Fleet!Without
    <3>2. IsFiniteSet(none)
      BY <3>1, FS_Subset DEF Fleet!Live, FleetConstants
    <3>3. bare \in Nat
      BY <3>2, FS_CardinalityType
    <3>4. QED
      BY <2>a, <3>3 DEF FleetConstants
  <2>4. FleetTyped' /\ verdict'.inputs \subseteq inputs
    <3>1. inputs \in SUBSET (Origins \cup {"stack_detail", "dataplane"})
      BY <2>3
    <3>2. DOMAIN measured' = Origins \cup {"no_datasource"}
      BY <2>a
    <3> HIDE DEF inputs, low
    <3>3. QED
      BY <1>4, <2>a, <3>1, <3>2
  <2>5. \A src \in Origins \cup {"stack_detail"} : Fleet!Covered(src)' = Fleet!Covered(src)
    BY <1>1 DEF Fleet!Covered, Fleet!Refusable, Fleet!Live
  <2>6. ASSUME NEW src \in verdict'.inputs
        PROVE  LET of == Fleet!Due(src, bare)
                   have == Cardinality(IF src = "stack_detail" THEN results ELSE m[src])
               IN  ~ Fleet!Over(of - Fleet!Lesser(of, have), of, Shares[src])
    <3> DEFINE have == Cardinality(IF src = "stack_detail" THEN results ELSE m[src])
    <3>1. /\ src \in Origins \cup {"stack_detail"} /\ src \notin low
          /\ src = "stack_detail" \/ src \in enabled
      BY <2>3, <2>4
    <3>2. Fleet!Healthy(src, have, bare)
      BY <3>1, FleetCardinality DEF Fleet!Unhealthy
    <3>3. have \in Nat
      <4>1. IsFiniteSet(Fleet!Live \cup {"org"}) /\ IsFiniteSet(results)
        <5>1. IsFiniteSet(Fleet!Live) /\ IsFiniteSet(results)
          BY FS_Subset DEF Fleet!Live, FleetConstants, FleetInv, FleetTyped
        <5>2. QED
          BY <5>1, FS_AddElement
      <4>2. IsFiniteSet(IF src = "stack_detail" THEN results ELSE m[src])
        BY <2>2, <3>1, <4>1, FS_Subset
      <4>3. QED
        BY <4>2, FS_CardinalityType
    <3> HIDE DEF have, bare
    <3>4. LET of == Fleet!Due(src, bare)
          IN  ~ Fleet!Over(of - Fleet!Lesser(of, have), of, Shares[src])
      BY <2>b, <3>1, <3>2, <3>3, HealthyCovers
    <3>5. QED
      BY <3>4 DEF have
  <2>7. Fleet!AcceptedInputsCoverTheEstate'
    <3>1. ASSUME NEW src \in verdict'.inputs
          PROVE  LET of == Fleet!Due(src, Fleet!Cardinality(measured["no_datasource"]))'
                     have == Fleet!Cardinality(IF src = "stack_detail" THEN results' ELSE measured'[src])
                 IN  ~ Fleet!Over(of - Fleet!Lesser(of, have), of, Shares[src])
      <4>1. Fleet!Covered(src)' = Fleet!Covered(src)
        BY <2>3, <2>4, <2>5
      <4>2. Fleet!Due(src, Fleet!Cardinality(measured["no_datasource"]))' = Fleet!Due(src, bare)
        BY <2>b, <4>1, FleetCardinality DEF Fleet!Due, Fleet!Lesser
      <4>3. measured'[src] = m[src] \/ src = "stack_detail"
        BY <2>b, <2>3, <2>4
      <4>4. QED
        BY <1>1, <2>6, <4>2, <4>3, FleetCardinality
    <3>2. QED
      BY <3>1 DEF Fleet!AcceptedInputsCoverTheEstate, Fleet!Over, Fleet!Lesser
  <2>8. QED
    BY <1>2, <1>3, <2>4, <2>7 DEF FleetInv, FleetDecided
<1>7. QED
  BY <1>5, <1>6

LEMMA FleetKeeps ==
  ASSUME FleetConstants, FleetInv, [Fleet!Next]_(Fleet!vars)
  PROVE  FleetInv'
<1>1. ASSUME NEW t \in Threads,
             \/ Fleet!Take(t) \/ Fleet!ReadOk(t) \/ Fleet!ReadFails(t)
             \/ Fleet!CountKnown(t) \/ Fleet!CountMissing(t) \/ Fleet!Store(t)
      PROVE  FleetInv'
  BY <1>1, TakeKeeps, ReadOkKeeps, ReadFailsKeeps, CountKeeps, CountMissingKeeps
<1>2. CASE UNCHANGED Fleet!vars
  <2>1. /\ UNCHANGED <<tier, paused, enabled, queue, work, counts, failed, skipped>>
        /\ UNCHANGED <<results, measured, verdict>>
    BY <1>2 DEF Fleet!vars
  <2>2. FleetTyped' /\ FleetPlaces' /\ FleetPaused' /\ FleetCounts'
    BY <2>1 DEF FleetInv, FleetTyped, FleetPlaces, FleetPaused, FleetCounts,
       Busy, Fleet!Keys, Fleet!Skips, Fleet!Idle
  <2>3. /\ Fleet!Refusable' = Fleet!Refusable /\ Fleet!Live' = Fleet!Live
        /\ Fleet!PoolDone' = Fleet!PoolDone
    BY <2>1 DEF Fleet!Refusable, Fleet!Live, Fleet!PoolDone, Fleet!Idle
  <2>4. ASSUME NEW src \in verdict.inputs
        PROVE  Fleet!Due(src, Fleet!Cardinality(measured["no_datasource"]))'
                 = Fleet!Due(src, Fleet!Cardinality(measured["no_datasource"]))
    BY <2>1, <2>3 DEF Fleet!Due, Fleet!Covered, Fleet!Lesser
  <2>5. Fleet!AcceptedInputsCoverTheEstate'
    BY <2>1, <2>4 DEF FleetInv, FleetDecided, Fleet!AcceptedInputsCoverTheEstate,
       Fleet!Over, Fleet!Lesser
  <2>6. QED
    BY <2>1, <2>2, <2>3, <2>5 DEF FleetInv, FleetDecided, Fleet!Undecided
<1>3. QED
  BY <1>1, <1>2, FinishKeeps DEF Fleet!Next

\* A counter is no more than what its kind has counted.
LEMMA CounterWithin ==
  ASSUME NEW c, NEW keys, IsFiniteSet(keys), \A k \in keys : c[k] \in Nat, NEW key \in keys
  PROVE  c[key] <= Cardinality(Ticks(c, keys)) /\ Cardinality(Ticks(c, keys)) \in Nat
<1> DEFINE n == c[key]
           Of == {key} \X (1 .. n)
<1>1. IsFiniteSet(Ticks(c, keys)) /\ Cardinality(Ticks(c, keys)) \in Nat
  BY TicksAreFinite, FS_CardinalityType
<1>2. Of \subseteq Ticks(c, keys)
  BY DEF Ticks
<1>3. Cardinality(Of) <= Cardinality(Ticks(c, keys))
  BY <1>1, <1>2, FS_Subset
<1>4. n \in Nat /\ n \in Int /\ 1 \in Int
  OBVIOUS
<1>5. IsFiniteSet({key}) /\ Cardinality({key}) = 1
  BY FS_Singleton
<1> HIDE DEF n
<1>6. IsFiniteSet(1 .. n) /\ Cardinality(1 .. n) = n
  <2>1. Cardinality(1 .. n) = IF 1 > n THEN 0 ELSE n - 1 + 1
    BY <1>4, FS_Interval
  <2>2. QED
    BY <1>4, <2>1, FS_Interval
<1>7. Cardinality(Of) = n
  <2>1. Cardinality(Of) = 1 * n
    <3> DEFINE S == {key}
               T == 1 .. n
    <3>1. IsFiniteSet(S) /\ Cardinality(S) = 1 /\ IsFiniteSet(T) /\ Cardinality(T) = n
      BY <1>5, <1>6
    <3> HIDE DEF S, T
    <3>2. Cardinality(S \X T) = Cardinality(S) * Cardinality(T)
      BY <3>1, FS_Product
    <3>3. Cardinality(S \X T) = 1 * n
      BY <3>1, <3>2
    <3>4. QED
      BY <3>3 DEF S, T
  <2>2. QED
    BY <1>4, <2>1
<1>8. QED
  BY <1>1, <1>3, <1>7 DEF n

\* More lost of a larger estate is a larger share of a smaller one.
LEMMA LossIsLarger ==
  ASSUME NEW n \in Nat, NEW m \in Nat, n <= m, NEW of \in Nat, NEW all \in Nat, of <= all,
         NEW num \in Nat, NEW den \in Nat, n * den > num * all
  PROVE  m * den > num * of
<1>1. m * den >= n * den
  <2>1. PICK k \in Nat : m = n + k
    <3>1. m - n \in Nat /\ m = n + (m - n)
      OBVIOUS
    <3>2. QED
      BY <3>1
  <2>2. m * den = n * den + k * den /\ k * den >= 0
    BY <2>1
  <2>3. QED
    BY <2>2
<1>2. num * all >= num * of
  <2>1. PICK k \in Nat : all = of + k
    <3>1. all - of \in Nat /\ all = of + (all - of)
      OBVIOUS
    <3>2. QED
      BY <3>1
  <2>2. num * all = num * of + num * k /\ num * k >= 0
    BY <2>1
  <2>3. QED
    BY <2>2
<1>3. m * den \in Int /\ n * den \in Int /\ num * all \in Int /\ num * of \in Int
  OBVIOUS
<1>4. QED
  BY <1>1, <1>2, <1>3

LEMMA FleetHolds == ASSUME FleetConstants, FleetInv PROVE Fleet!FleetIsCovered
<1>1. FleetTyped /\ FleetPlaces /\ FleetPaused /\ FleetCounts /\ FleetDecided
  BY DEF FleetInv
<1>2. /\ IsFiniteSet(Slugs) /\ IsFiniteSet(results)
      /\ IsFiniteSet(DOMAIN failed) /\ IsFiniteSet(DOMAIN skipped)
      /\ results \subseteq Slugs /\ DOMAIN failed \subseteq Slugs /\ DOMAIN skipped \subseteq Slugs
  BY <1>1, FS_Subset DEF FleetConstants, FleetTyped
<1>3. /\ Cardinality(results) <= Cardinality(Slugs)
      /\ Cardinality(DOMAIN failed) <= Cardinality(Slugs)
      /\ Cardinality(DOMAIN skipped) <= Cardinality(Slugs)
      /\ Cardinality(Slugs) \in Nat /\ Cardinality(results) \in Nat
      /\ Cardinality(DOMAIN failed) \in Nat /\ Cardinality(DOMAIN skipped) \in Nat
  BY <1>2, FS_Subset, FS_CardinalityType
<1>4. Fleet!TypeOK
  <2>1. /\ counts \in [Fleet!Keys \cup {"scanned"} -> Nat]
        /\ \A key \in Fleet!Keys : counts[key] \in Nat
    BY <1>1 DEF FleetTyped
  <2>2. ASSUME NEW key \in Fleet!Keys PROVE counts[key] <= Cardinality(Slugs)
    <3>1. CASE key \in Exceptions
      <4>1. /\ counts[key] <= Cardinality(Ticks(counts, Exceptions))
            /\ Cardinality(Ticks(counts, Exceptions)) \in Nat
        BY <2>1, <3>1, KeysAre, CounterWithin
      <4>2. QED
        BY <1>1, <1>3, <2>1, <4>1 DEF FleetCounts
    <3>2. CASE key \in Fleet!Skips
      <4>1. /\ counts[key] <= Cardinality(Ticks(counts, Fleet!Skips))
            /\ Cardinality(Ticks(counts, Fleet!Skips)) \in Nat
        BY <2>1, <3>2, KeysAre, CounterWithin
      <4>2. QED
        BY <1>1, <1>3, <2>1, <4>1 DEF FleetCounts
    <3>3. QED
      BY <3>1, <3>2, KeysAre
  <2>3. counts["scanned"] <= Cardinality(Slugs) /\ counts["scanned"] \in Nat
    BY <1>1, <1>3 DEF FleetCounts
  <2>4. \A key \in Fleet!Keys \cup {"scanned"} : counts[key] \in 0 .. Cardinality(Slugs)
    BY <1>3, <2>1, <2>2, <2>3
  <2>5. counts \in [Fleet!Keys \cup {"scanned"} -> 0 .. Cardinality(Slugs)]
    BY <2>1, <2>4
  <2>6. QED
    BY <1>1, <2>5, FleetCardinality DEF FleetTyped, Fleet!TypeOK
<1>5. Fleet!EveryStackIsAccountedFor
  <2> SUFFICES ASSUME Fleet!PoolDone
               PROVE  /\ results \cup DOMAIN failed \cup DOMAIN skipped = Slugs
                      /\ Cardinality(results) + Cardinality(DOMAIN failed)
                           + Cardinality(DOMAIN skipped) = Cardinality(Slugs)
                      /\ paused \subseteq DOMAIN skipped
                      /\ counts["scanned"] = Cardinality(results)
    BY FleetCardinality DEF Fleet!EveryStackIsAccountedFor
  <2>1. queue = {} /\ \A t \in Threads : ~ Busy(t)
    BY DEF Fleet!PoolDone, Busy, Fleet!Idle
  <2>2. results \cup DOMAIN failed \cup DOMAIN skipped = Slugs
    BY <1>1, <1>2, <2>1 DEF FleetPlaces
  <2>3. paused \subseteq DOMAIN skipped
    BY <1>1, <2>2 DEF FleetPaused, FleetTyped
  <2>4. /\ results \cap DOMAIN failed = {} /\ (results \cup DOMAIN failed) \cap DOMAIN skipped = {}
    BY <1>1 DEF FleetPlaces
  <2>5. /\ IsFiniteSet(results \cup DOMAIN failed)
        /\ Cardinality(results \cup DOMAIN failed) = Cardinality(results) + Cardinality(DOMAIN failed)
    <3>1. /\ IsFiniteSet(results \cup DOMAIN failed)
          /\ Cardinality(results \cup DOMAIN failed)
               = Cardinality(results) + Cardinality(DOMAIN failed) - Cardinality(results \cap DOMAIN failed)
      BY <1>2, FS_Union
    <3>2. Cardinality(results \cap DOMAIN failed) = 0
      BY <2>4, FS_EmptySet
    <3>3. QED
      BY <1>3, <3>1, <3>2
  <2>6. Cardinality(Slugs) = Cardinality(results \cup DOMAIN failed) + Cardinality(DOMAIN skipped)
    <3> DEFINE S == results \cup DOMAIN failed
    <3>1. IsFiniteSet(S) /\ Cardinality(S) \in Nat
      BY <2>5, FS_CardinalityType
    <3>2. S \cap DOMAIN skipped = {} /\ S \cup DOMAIN skipped = Slugs
      BY <2>2, <2>4
    <3> HIDE DEF S
    <3>3. Cardinality(S \cup DOMAIN skipped)
            = Cardinality(S) + Cardinality(DOMAIN skipped) - Cardinality(S \cap DOMAIN skipped)
      BY <1>2, <3>1, FS_Union
    <3>4. Cardinality(S \cap DOMAIN skipped) = 0
      BY <3>2, FS_EmptySet
    <3>5. Cardinality(Slugs) = Cardinality(S) + Cardinality(DOMAIN skipped)
      BY <1>3, <3>1, <3>2, <3>3, <3>4
    <3>6. QED
      BY <3>5 DEF S
  <2>7. QED
    BY <1>1, <1>3, <2>2, <2>3, <2>5, <2>6 DEF FleetCounts
<1>6. Fleet!AbortHasCause
  <2> DEFINE n == Fleet!Total(Exceptions)
             m == Cardinality(DOMAIN failed)
             all == Fleet!Scannable
             of == Cardinality(Fleet!Refusable)
             num == Shares["stack_detail"][1]
             den == Shares["stack_detail"][2]
  <2> SUFFICES ASSUME n * den > num * all PROVE m * den > num * of
    BY FleetCardinality DEF Fleet!AbortHasCause, Fleet!ShouldAbort, Fleet!Over
  <2>1. /\ n \in Nat /\ m \in Nat /\ n <= m
        /\ all \in Nat /\ of \in Nat /\ of <= all
    BY SizesAre
  <2>2. num \in Nat /\ den \in Nat
    BY DEF FleetConstants
  <2> HIDE DEF n, m, all, of, num, den
  <2>3. QED
    BY <2>1, <2>2, LossIsLarger
<1>7. QED
  BY <1>1, <1>4, <1>5, <1>6 DEF FleetDecided, Fleet!FleetIsCovered

-----------------------------------------------------------------------------
(* GapState.                                                                  *)

\* The gap of a stack began here, as far as records that landed tell.
Began(s) == IF s \in DOMAIN since THEN since[s] ELSE t2.at

GapInv ==
  /\ Gap!TypeOK
  /\ t2 \in [pc : {"idle", "measured", "merged", "composed"}, missing : SUBSET Stacks,
             seen : Gap!Stamps, at : 0 .. MaxClock, age : Gap!Ages]
  /\ Gap!HealedGapsStartAnew
  /\ \A s \in DOMAIN store : store[s] <= clock
  /\ \A s \in DOMAIN since : since[s] <= clock
  /\ t2.pc \in {"merged", "composed"} => t2.at <= clock
  /\ t2.pc = "merged" =>
       /\ DOMAIN t2.seen = t2.missing
       /\ \A s \in t2.missing : Began(s) <= t2.seen[s] /\ t2.seen[s] <= t2.at
       /\ ~ blind => \A s \in t2.missing \cap DOMAIN store : t2.seen[s] = store[s]
  /\ t2.pc = "composed" => \A a \in t2.age : \E s \in t2.missing : a + Began(s) <= clock

LEMMA StampIs ==
  ASSUME NEW f \in Gap!Stamps
  PROVE  /\ DOMAIN f \subseteq Stacks /\ f = [s \in DOMAIN f |-> f[s]]
         /\ \A s \in DOMAIN f : f[s] \in 0 .. MaxClock
<1>1. PICK S \in SUBSET Stacks : f \in [S -> 0 .. MaxClock]
  BY DEF Gap!Stamps
<1>2. QED
  BY <1>1

LEMMA StampOf ==
  ASSUME NEW S \in SUBSET Stacks, NEW f \in [S -> 0 .. MaxClock]
  PROVE  f \in Gap!Stamps
BY DEF Gap!Stamps

LEMMA NoStamp == <<>> \in Gap!Stamps /\ DOMAIN <<>> = {}
<1>1. <<>> \in [{} -> 0 .. MaxClock] /\ DOMAIN <<>> = {}
  OBVIOUS
<1>2. {} \in SUBSET Stacks
  OBVIOUS
<1>3. QED
  BY <1>1, <1>2 DEF Gap!Stamps

\* The oldest age is that of one of the stacks, if any has a stamp.
LEMMA OldestIs ==
  ASSUME MaxClock \in Nat, clock \in 0 .. MaxClock, NEW stamps \in Gap!Stamps, NEW missing,
         \A s \in DOMAIN stamps : stamps[s] <= clock
  PROVE  /\ Gap!Oldest(stamps, missing) \in Gap!Ages
         /\ \A a \in Gap!Oldest(stamps, missing) :
              a \in Nat /\ \E s \in DOMAIN stamps \cap missing : a + stamps[s] = clock
<1> DEFINE ages == {clock - stamps[s] : s \in DOMAIN stamps \cap missing}
           oldest == {a \in ages : \A b \in ages : b <= a}
<1>1. Gap!Oldest(stamps, missing) = oldest
  BY DEF Gap!Oldest
<1>2. \A a \in ages : a \in 0 .. MaxClock /\ \E s \in DOMAIN stamps \cap missing : a + stamps[s] = clock
  BY StampIs
<1>3. ASSUME NEW a \in oldest, NEW b \in oldest PROVE a = b
  <2>1. a \in ages /\ b \in ages /\ a <= b /\ b <= a
    OBVIOUS
  <2>2. a \in Nat /\ b \in Nat
    BY <1>2, <2>1
  <2>3. QED
    BY <2>1, <2>2
<1>4. oldest \in Gap!Ages
  <2>1. CASE oldest = {}
    BY <2>1 DEF Gap!Ages, Gap!Absent
  <2>2. CASE oldest # {}
    <3>1. PICK a \in oldest : TRUE
      BY <2>2
    <3>2. oldest = {a}
      BY <1>3, <3>1
    <3>3. a \in 0 .. MaxClock
      BY <1>2, <3>1
    <3>4. QED
      BY <3>2, <3>3 DEF Gap!Ages
  <2>3. QED
    BY <2>1, <2>2
<1>5. QED
  BY <1>1, <1>2, <1>4

LEMMA GapBegins ==
  ASSUME MaxClock \in Nat
  PROVE  Gap!Init => GapInv
<1>1. SUFFICES ASSUME Gap!Init PROVE GapInv
  OBVIOUS
<1>2. t2 \in [pc : {"idle", "measured", "merged", "composed"}, missing : SUBSET Stacks,
              seen : Gap!Stamps, at : 0 .. MaxClock, age : Gap!Ages] /\ t2.pc = "idle"
  BY <1>1, NoStamp DEF Gap!Init, Gap!NoRun, Gap!Ages, Gap!Absent
<1>3. blind \in BOOLEAN
  BY <1>1, Zenon DEF Gap!Init
<1>4. store \in Gap!Stamps /\ since \in Gap!Stamps /\ DOMAIN store = {} /\ DOMAIN since = {}
  BY <1>1, NoStamp DEF Gap!Init
<1>5. age \in Gap!Ages
  BY <1>1 DEF Gap!Init, Gap!Ages
<1>6. clock \in 0 .. MaxClock /\ gaps \subseteq Stacks /\ payload \subseteq Stacks
  BY <1>1 DEF Gap!Init
<1>7. Gap!TypeOK
  BY <1>2, <1>3, <1>4, <1>5, <1>6 DEF Gap!TypeOK
<1>8. QED
  BY <1>2, <1>4, <1>7 DEF GapInv, Gap!HealedGapsStartAnew

LEMMA GapTyped ==
  ASSUME MaxClock \in Nat, GapInv
  PROVE  /\ clock \in 0 .. MaxClock /\ clock \in Nat /\ t2.at \in Nat
         /\ store \in Gap!Stamps /\ since \in Gap!Stamps /\ t2.seen \in Gap!Stamps
         /\ \A s \in DOMAIN since : since[s] \in Nat
         /\ \A s \in DOMAIN store : store[s] \in Nat
         /\ t2.missing \subseteq Stacks
         /\ \A s : Began(s) \in Nat
<1>1. /\ clock \in 0 .. MaxClock /\ t2.at \in 0 .. MaxClock
      /\ store \in Gap!Stamps /\ since \in Gap!Stamps /\ t2.seen \in Gap!Stamps
      /\ t2.missing \subseteq Stacks
  BY DEF GapInv, Gap!TypeOK
<1>2. QED
  BY <1>1, StampIs DEF Began

\* What a step does to the invariant's parts that it leaves alone.
RunType ==
  [pc : {"idle", "measured", "merged", "composed"}, missing : SUBSET Stacks,
   seen : Gap!Stamps, at : 0 .. MaxClock, age : Gap!Ages]

LEMMA RunStops ==
  ASSUME MaxClock \in Nat, GapInv, t2' = Gap!NoRun, UNCHANGED <<clock, gaps, store, since, blind>>,
         payload' \subseteq Stacks, age' \in Gap!Ages
  PROVE  GapInv' /\ Gap!StampsCarried
<1>1. t2' \in RunType /\ t2'.pc = "idle"
  BY NoStamp DEF Gap!NoRun, Gap!Ages, Gap!Absent, RunType
<1>2. Gap!TypeOK'
  BY <1>1 DEF Gap!TypeOK, GapInv, RunType
<1>3. Gap!HealedGapsStartAnew'
  BY DEF Gap!HealedGapsStartAnew, GapInv
<1>4. QED
  BY <1>1, <1>2, <1>3 DEF GapInv, RunType, Gap!StampsCarried

LEMMA TickKeeps ==
  ASSUME MaxClock \in Nat, GapInv, Gap!Tick
  PROVE  GapInv' /\ Gap!StampsCarried /\ Gap!AgeMatches
<1>1. clock < MaxClock /\ clock' = clock + 1 /\ clock' \in 0 .. MaxClock /\ clock <= clock'
      /\ UNCHANGED <<gaps, store, payload, t2, age, since, blind>>
  BY GapTyped DEF Gap!Tick
<1>2. Gap!TypeOK' /\ Gap!HealedGapsStartAnew'
  BY <1>1 DEF Gap!TypeOK, GapInv, Gap!HealedGapsStartAnew
<1>3. (\A s \in DOMAIN store' : store'[s] <= clock') /\ (\A s \in DOMAIN since' : since'[s] <= clock')
  BY <1>1, GapTyped DEF GapInv
<1>4. \A s : Began(s)' = Began(s)
  BY <1>1 DEF Began
<1>5. t2'.pc \in {"merged", "composed"} => t2'.at <= clock'
  BY <1>1, GapTyped DEF GapInv
<1>6. t2'.pc = "composed" => \A a \in t2'.age : \E s \in t2'.missing : a + Began(s)' <= clock'
  <2>1. ASSUME t2.pc = "composed", NEW a \in t2.age
        PROVE  \E s \in t2.missing : a + Began(s) <= clock'
    <3>1. PICK s \in t2.missing : a + Began(s) <= clock
      BY <2>1 DEF GapInv
    <3>2. a \in Nat
      BY <2>1 DEF GapInv, Gap!Ages, Gap!Absent
    <3>3. QED
      BY <1>1, <3>1, <3>2, GapTyped
  <2>2. QED
    BY <1>1, <1>4, <2>1
<1>7. (t2.pc = "merged" =>
         /\ DOMAIN t2.seen = t2.missing
         /\ \A s \in t2.missing : Began(s) <= t2.seen[s] /\ t2.seen[s] <= t2.at
         /\ ~ blind => \A s \in t2.missing \cap DOMAIN store : t2.seen[s] = store[s])'
  BY <1>1, <1>4 DEF GapInv
<1>8. t2' \in RunType
  BY <1>1 DEF GapInv, RunType
<1>9. QED
  BY <1>1, <1>2, <1>3, <1>5, <1>6, <1>7, <1>8 DEF GapInv, RunType, Gap!StampsCarried, Gap!AgeMatches

LEMMA MeasureKeeps ==
  ASSUME MaxClock \in Nat, GapInv, Gap!Measure
  PROVE  GapInv' /\ Gap!StampsCarried /\ Gap!AgeMatches
<1>1. /\ t2' = [Gap!NoRun EXCEPT !.pc = "measured", !.missing = gaps]
      /\ blind' = FALSE /\ UNCHANGED <<clock, gaps, store, payload, age, since>>
  BY DEF Gap!Measure
<1>2. t2' \in RunType /\ t2'.pc = "measured"
  <2>1. Gap!NoRun \in RunType
    BY NoStamp DEF Gap!NoRun, Gap!Ages, Gap!Absent, RunType
  <2>2. gaps \in SUBSET Stacks
    BY DEF GapInv, Gap!TypeOK
  <2>3. QED
    BY <1>1, <2>1, <2>2 DEF RunType
<1>3. blind' \in BOOLEAN
  BY <1>1, Zenon
<1>4. Gap!TypeOK' /\ Gap!HealedGapsStartAnew'
  BY <1>1, <1>2, <1>3 DEF Gap!TypeOK, GapInv, RunType, Gap!HealedGapsStartAnew
<1>5. QED
  BY <1>1, <1>2, <1>4 DEF GapInv, RunType, Gap!StampsCarried, Gap!AgeMatches

LEMMA ReadAndMergeKeeps ==
  ASSUME MaxClock \in Nat, GapInv, Gap!ReadAndMerge
  PROVE  GapInv' /\ Gap!StampsCarried /\ Gap!AgeMatches
<1>1. PICK read \in {store, <<>>} :
        /\ t2' = [t2 EXCEPT !.pc = "merged", !.seen = Gap!Merge(read, t2.missing), !.at = clock]
        /\ blind' = (read # store)
  BY DEF Gap!ReadAndMerge
<1>2. UNCHANGED <<clock, gaps, store, payload, age, since>> /\ t2 \in RunType
  BY DEF Gap!ReadAndMerge, GapInv, RunType
<1>3. PICK seen : seen = Gap!Merge(read, t2.missing)
  OBVIOUS
<1>4. /\ DOMAIN seen = t2.missing
      /\ \A s \in t2.missing : seen[s] = IF s \in DOMAIN read THEN read[s] ELSE clock
      /\ seen = [s \in t2.missing |-> IF s \in DOMAIN read THEN read[s] ELSE clock]
  BY <1>3 DEF Gap!Merge
<1>5. \A s \in DOMAIN read : s \in DOMAIN store /\ read[s] = store[s]
  BY NoStamp
<1>6. \A s \in t2.missing :
        /\ seen[s] \in 0 .. MaxClock /\ seen[s] <= clock
        /\ s \in DOMAIN since => since[s] <= seen[s]
        /\ s \notin DOMAIN since => seen[s] = clock
  BY <1>4, <1>5, GapTyped, StampIs DEF GapInv, Gap!HealedGapsStartAnew
<1>7. seen \in Gap!Stamps
  <2>1. seen \in [t2.missing -> 0 .. MaxClock]
    BY <1>4, <1>6
  <2>2. QED
    BY <2>1, GapTyped, StampOf
<1>8. /\ t2' \in RunType /\ t2'.pc = "merged" /\ t2'.seen = seen /\ t2'.at = clock
      /\ t2'.missing = t2.missing
  BY <1>1, <1>2, <1>3, <1>7, GapTyped DEF RunType
<1>9. blind' \in BOOLEAN
  BY <1>1
<1>10. Gap!TypeOK' /\ Gap!HealedGapsStartAnew'
  BY <1>2, <1>8, <1>9 DEF Gap!TypeOK, GapInv, RunType, Gap!HealedGapsStartAnew
<1>11. \A s \in t2.missing : Began(s)' <= seen[s]
  BY <1>2, <1>6, <1>8, GapTyped DEF Began
<1>12. ~ blind' => \A s \in t2.missing \cap DOMAIN store : seen[s] = store[s]
  BY <1>1, <1>4
<1>13. clock <= clock
  BY GapTyped
<1>14. QED
  BY <1>2, <1>4, <1>6, <1>8, <1>10, <1>11, <1>12, <1>13
  DEF GapInv, RunType, Gap!StampsCarried, Gap!AgeMatches

LEMMA GapWriteKeeps ==
  ASSUME MaxClock \in Nat, GapInv, Gap!Write
  PROVE  GapInv' /\ Gap!StampsCarried /\ Gap!AgeMatches
<1>1. /\ t2.pc = "merged" /\ store' = t2.seen
      /\ t2' = [t2 EXCEPT !.pc = "composed", !.age = Gap!Oldest(t2.seen, t2.missing)]
      /\ since' = [s \in t2.missing |-> Began(s)]
      /\ UNCHANGED <<clock, gaps, payload, age, blind>>
  BY DEF Gap!Write, Began
<1>2. /\ DOMAIN t2.seen = t2.missing /\ t2.at <= clock
      /\ \A s \in t2.missing : Began(s) <= t2.seen[s] /\ t2.seen[s] <= t2.at
      /\ ~ blind => \A s \in t2.missing \cap DOMAIN store : t2.seen[s] = store[s]
  BY <1>1 DEF GapInv
<1>3. \A s \in t2.missing : t2.seen[s] \in 0 .. MaxClock /\ t2.seen[s] <= clock /\ Began(s) <= clock
                            /\ Began(s) \in 0 .. MaxClock
  BY <1>2, GapTyped, StampIs
<1>4. PICK oldest \in Gap!Ages : oldest = Gap!Oldest(t2.seen, t2.missing)
        /\ \A a \in oldest : a \in Nat /\ \E s \in t2.missing : a + t2.seen[s] = clock
  BY <1>2, <1>3, GapTyped, OldestIs
<1>5. /\ t2' \in RunType /\ t2'.pc = "composed" /\ t2'.age = oldest /\ t2'.missing = t2.missing
      /\ t2'.at = t2.at
  BY <1>1, <1>4 DEF GapInv, RunType
<1>6. since' \in Gap!Stamps /\ DOMAIN since' = t2.missing /\ \A s \in t2.missing : since'[s] = Began(s)
  <2>1. since' \in [t2.missing -> 0 .. MaxClock]
    BY <1>1, <1>3
  <2>2. QED
    BY <1>1, <2>1, GapTyped, StampOf
<1>7. Gap!TypeOK'
  BY <1>1, <1>5, <1>6, GapTyped DEF Gap!TypeOK, GapInv, RunType
<1>8. Gap!HealedGapsStartAnew'
  BY <1>1, <1>2, <1>6 DEF Gap!HealedGapsStartAnew
<1>9. \A s \in t2.missing : Began(s)' = Began(s)
  BY <1>6 DEF Began
<1>10. \A a \in oldest : \E s \in t2.missing : a + Began(s) <= clock
  BY <1>2, <1>3, <1>4, GapTyped
<1>11. Gap!StampsCarried
  BY <1>1, <1>2 DEF Gap!StampsCarried
<1>12. QED
  BY <1>1, <1>2, <1>3, <1>5, <1>6, <1>7, <1>8, <1>9, <1>10, <1>11 DEF GapInv, RunType, Gap!AgeMatches

LEMMA WriteFailsKeeps ==
  ASSUME MaxClock \in Nat, GapInv, Gap!WriteFails
  PROVE  GapInv' /\ Gap!StampsCarried /\ Gap!AgeMatches
<1>1. /\ t2.pc = "merged"
      /\ t2' = [t2 EXCEPT !.pc = "composed", !.age = Gap!Oldest(t2.seen, t2.missing)]
      /\ UNCHANGED <<clock, gaps, store, payload, age, since, blind>>
  BY DEF Gap!WriteFails
<1>2. /\ DOMAIN t2.seen = t2.missing /\ t2.at <= clock
      /\ \A s \in t2.missing : Began(s) <= t2.seen[s] /\ t2.seen[s] <= t2.at
  BY <1>1 DEF GapInv
<1>3. \A s \in t2.missing : t2.seen[s] \in 0 .. MaxClock /\ t2.seen[s] <= clock
  BY <1>2, GapTyped, StampIs
<1>4. PICK oldest \in Gap!Ages : oldest = Gap!Oldest(t2.seen, t2.missing)
        /\ \A a \in oldest : a \in Nat /\ \E s \in t2.missing : a + t2.seen[s] = clock
  BY <1>2, <1>3, GapTyped, OldestIs
<1>5. /\ t2' \in RunType /\ t2'.pc = "composed" /\ t2'.age = oldest /\ t2'.missing = t2.missing
      /\ t2'.at = t2.at
  BY <1>1, <1>4 DEF GapInv, RunType
<1>6. Gap!TypeOK' /\ Gap!HealedGapsStartAnew'
  BY <1>1, <1>5 DEF Gap!TypeOK, GapInv, RunType, Gap!HealedGapsStartAnew
<1>7. \A s \in t2.missing : Began(s)' = Began(s)
  BY <1>1, <1>5 DEF Began
<1>8. \A a \in oldest : \E s \in t2.missing : a + Began(s) <= clock
  BY <1>2, <1>3, <1>4, GapTyped
<1>9. QED
  BY <1>1, <1>2, <1>5, <1>6, <1>7, <1>8 DEF GapInv, RunType, Gap!StampsCarried, Gap!AgeMatches

LEMMA PublishKeeps ==
  ASSUME MaxClock \in Nat, GapInv, Gap!Publish
  PROVE  GapInv' /\ Gap!StampsCarried /\ Gap!AgeMatches
<1>1. /\ t2.pc = "composed" /\ payload' = t2.missing /\ age' = t2.age /\ t2' = Gap!NoRun
      /\ UNCHANGED <<clock, gaps, store, since, blind>>
  BY DEF Gap!Publish
<1>2. age' \in Gap!Ages /\ payload' \subseteq Stacks
  BY <1>1, GapTyped DEF GapInv, Gap!TypeOK
<1>3. \A a \in t2.age : \E s \in t2.missing : a + Began(s) <= clock
  BY <1>1 DEF GapInv
<1>4. Gap!AgeMatches
  BY <1>1, <1>3 DEF Gap!AgeMatches, Began
<1>5. QED
  BY <1>1, <1>2, <1>4, RunStops

LEMMA ReportKeeps ==
  ASSUME MaxClock \in Nat, GapInv, Gap!Report
  PROVE  GapInv' /\ Gap!StampsCarried /\ Gap!AgeMatches
<1>1. PICK read \in {store, <<>>} : age' = Gap!Oldest(read, payload)
  BY DEF Gap!Report
<1>2. UNCHANGED <<clock, gaps, store, payload, t2, since, blind>>
  BY DEF Gap!Report
<1>3. read \in Gap!Stamps /\ \A s \in DOMAIN read : s \in DOMAIN store /\ read[s] = store[s]
  BY NoStamp, GapTyped
<1>4. \A s \in DOMAIN read : read[s] <= clock
  BY <1>3 DEF GapInv
<1>5. /\ age' \in Gap!Ages
      /\ \A a \in age' : a \in Nat /\ \E s \in DOMAIN read \cap payload : a + read[s] = clock
  BY <1>1, <1>3, <1>4, GapTyped, OldestIs
<1>6. \A a \in age' : \E s \in payload : s \in DOMAIN since /\ a + since[s] <= clock
  BY <1>3, <1>5, GapTyped DEF GapInv, Gap!HealedGapsStartAnew
<1>7. Gap!AgeMatches
  BY <1>2, <1>6 DEF Gap!AgeMatches
<1>8. Gap!TypeOK' /\ Gap!HealedGapsStartAnew'
  BY <1>2, <1>5 DEF Gap!TypeOK, GapInv, Gap!HealedGapsStartAnew
<1>9. \A s : Began(s)' = Began(s)
  BY <1>2 DEF Began
<1>10. QED
  BY <1>2, <1>7, <1>8, <1>9 DEF GapInv, Gap!StampsCarried

LEMMA GapKeeps ==
  ASSUME MaxClock \in Nat, GapInv, [Gap!Next]_(Gap!vars)
  PROVE  GapInv' /\ (Gap!StampsCarried /\ Gap!AgeMatches)
<1>1. CASE UNCHANGED Gap!vars \/ Gap!Change
  <2>1. UNCHANGED <<clock, store, payload, t2, age, since, blind>> /\ gaps' \subseteq Stacks
    BY <1>1 DEF Gap!vars, Gap!Change, GapInv, Gap!TypeOK
  <2>2. Gap!TypeOK' /\ Gap!HealedGapsStartAnew'
    BY <2>1 DEF Gap!TypeOK, GapInv, Gap!HealedGapsStartAnew
  <2>3. \A s : Began(s)' = Began(s)
    BY <2>1 DEF Began
  <2>4. QED
    BY <2>1, <2>2, <2>3 DEF GapInv, Gap!StampsCarried, Gap!AgeMatches
<1>2. CASE Gap!Die
  <2>1. t2' = Gap!NoRun /\ UNCHANGED <<clock, gaps, store, payload, age, since, blind>>
    BY <1>2 DEF Gap!Die
  <2>2. payload' \subseteq Stacks /\ age' \in Gap!Ages
    BY <2>1 DEF GapInv, Gap!TypeOK
  <2>3. QED
    BY <2>1, <2>2, RunStops DEF Gap!AgeMatches
<1>3. QED
  BY <1>1, <1>2, TickKeeps, MeasureKeeps, ReadAndMergeKeeps, GapWriteKeeps, WriteFailsKeeps,
     PublishKeeps, ReportKeeps DEF Gap!Next

-----------------------------------------------------------------------------
(* EstateDiff.                                                                *)

\* A set of numbers has a least one, and one that is bounded a greatest.
LEMMA LeastOf ==
  ASSUME NEW T \in SUBSET Nat, T # {}
  PROVE  \E x \in T : \A y \in T : x <= y
<1>1. PICK R : R = OpToRel(<, Nat) /\ IsWellFoundedOn(R, Nat)
  BY NatLessThanWellFounded
<1>2. PICK x \in T : \A y \in T : ~ (<<y, x>> \in R)
  BY <1>1, WFMin
<1>3. \A y \in T : y < x => <<y, x>> \in R
  BY <1>1 DEF OpToRel
<1>4. x \in Nat /\ \A y \in T : y \in Nat
  OBVIOUS
<1>5. \A y \in T : ~ (y < x)
  BY <1>2, <1>3
<1>6. \A y \in T : x <= y
  BY <1>4, <1>5
<1>7. QED
  BY <1>6

LEMMA GreatestOf ==
  ASSUME NEW n \in Nat, NEW T \in SUBSET (0 .. n), T # {}
  PROVE  \E x \in T : \A y \in T : y <= x
<1>1. PICK D : D = {n - x : x \in T}
  OBVIOUS
<1>2. D \in SUBSET Nat /\ D # {}
  <2>1. \A x \in T : x \in 0 .. n /\ n - x \in Nat
    OBVIOUS
  <2>2. QED
    BY <1>1, <2>1
<1>3. PICK d \in D : \A e \in D : d <= e
  BY <1>2, LeastOf
<1>4. PICK x \in T : d = n - x
  BY <1>1, <1>3
<1>5. \A y \in T : d <= n - y
  BY <1>1, <1>3
<1>6. \A y \in T : y \in Int
  OBVIOUS
<1>7. \A y \in T : y <= x
  BY <1>4, <1>5, <1>6
<1>8. QED
  BY <1>7

LEMMA SameCardinality == ASSUME NEW S PROVE Diff!Cardinality(S) = Cardinality(S)
BY DEF Diff!Cardinality, Cardinality

LEMMA WindowIs ==
  ASSUME DiffConstants
  PROVE  /\ Len(Windows) \in Nat \ {0} /\ DOMAIN Windows = 1 .. Len(Windows)
         /\ \A i \in DOMAIN Windows : Windows[i] \in Diff!Range(Windows)
         /\ \A w \in Diff!Range(Windows) : \E i \in DOMAIN Windows : Windows[i] = w
         /\ \A w \in Diff!Range(Windows) :
              /\ Least[w] \in Nat /\ Least[w] > 0 /\ Target[w] \in Nat /\ Most[w] \in Nat
              /\ Least[w] <= Target[w] /\ Target[w] <= Most[w]
              /\ Target[w] - Least[w] <= Most[w] - Target[w]
BY DEF DiffConstants, Diff!Range

LEMMA SourcesAre ==
  /\ DOMAIN Diff!Sources = {1, 2} /\ Len(Diff!Sources) = 2
  /\ Diff!Sources[1] = "t3" /\ Diff!Sources[2] = "t1"
  /\ Diff!Range(Diff!Sources) = {"t3", "t1"}
<1>1. DOMAIN Diff!Sources = {1, 2} /\ Len(Diff!Sources) = 2 /\ Diff!Sources[1] = "t3" /\ Diff!Sources[2] = "t1"
  BY DEF Diff!Sources
<1>2. QED
  BY <1>1 DEF Diff!Range

LEMMA LatestIs ==
  ASSUME DiffConstants, NEW scans \in SUBSET (0 .. Now), scans # {}
  PROVE  Diff!Latest(scans) \in scans /\ \A x \in scans : x <= Diff!Latest(scans)
<1>1. \E x \in scans : \A y \in scans : y <= x
  BY GreatestOf DEF DiffConstants
<1>2. QED
  BY <1>1 DEF Diff!Latest

LEMMA DistanceIs ==
  ASSUME NEW a \in Int, NEW b \in Int
  PROVE  /\ Diff!Distance(a, b) \in Nat
         /\ a <= b => Diff!Distance(a, b) = b - a
         /\ b <= a => Diff!Distance(a, b) = a - b
BY DEF Diff!Distance

\* Of scans that are old enough, some is nearest the target.
LEMMA NearestIs ==
  ASSUME DiffConstants, NEW scans \in SUBSET (0 .. Now), NEW w \in Diff!Range(Windows),
         NEW x \in Diff!Candidates(scans, w)
  PROVE  Diff!Nearest(scans, w) # {}
<1>1. x \in scans /\ \A y \in Diff!Candidates(scans, w) : y \in scans /\ y \in 0 .. Now /\ y \in Int
  <2>1. \A y \in Diff!Candidates(scans, w) : y \in scans
    BY DEF Diff!Candidates
  <2>2. \A y \in scans : y \in 0 .. Now /\ y \in Int
    BY DEF DiffConstants
  <2>3. QED
    BY <2>1, <2>2
<1>2. PICK latest \in Int : latest = Diff!Latest(scans)
  <2>1. Diff!Latest(scans) \in scans
    BY <1>1, LatestIs
  <2>2. \A y \in scans : y \in Int
    BY DEF DiffConstants
  <2>3. QED
    BY <2>1, <2>2
<1>3. PICK wanted \in Int : wanted = Diff!Latest(scans) - Target[w]
  BY <1>2, WindowIs
<1>4. \A y \in Diff!Candidates(scans, w) : Diff!Distance(y, wanted) \in Nat
  BY <1>1, <1>3, DistanceIs
<1>5. PICK D : D = {Diff!Distance(y, wanted) : y \in Diff!Candidates(scans, w)}
  OBVIOUS
<1>6. D \in SUBSET Nat /\ D # {}
  BY <1>4, <1>5, Zenon
<1>7. PICK d \in D : \A e \in D : d <= e
  BY <1>6, LeastOf
<1>8. PICK N : N = {y \in Diff!Candidates(scans, w) : Diff!Distance(y, wanted) = d}
  OBVIOUS
<1>9. N \in SUBSET (0 .. Now) /\ N # {}
  BY <1>1, <1>5, <1>7, <1>8
<1>10. PICK best \in N : \A y \in N : y <= best
  <2>1. Now \in Nat
    BY DEF DiffConstants
  <2>2. QED
    BY <1>9, <2>1, GreatestOf
<1>11. ASSUME NEW y \in Diff!Candidates(scans, w)
       PROVE  \/ Diff!Distance(best, wanted) < Diff!Distance(y, wanted)
              \/ Diff!Distance(best, wanted) = Diff!Distance(y, wanted) /\ y <= best
  <2>1. Diff!Distance(best, wanted) = d /\ d <= Diff!Distance(y, wanted) /\ d \in Nat
    BY <1>5, <1>6, <1>7, <1>8, <1>10
  <2>2. CASE Diff!Distance(y, wanted) = d
    BY <1>8, <1>10, <2>1, <2>2
  <2>3. CASE Diff!Distance(y, wanted) # d
    BY <1>4, <2>1, <2>3
  <2>4. QED
    BY <2>2, <2>3
<1>12. best \in Diff!Nearest(scans, w)
  BY <1>3, <1>8, <1>10, <1>11 DEF Diff!Nearest
<1>13. QED
  BY <1>12

\* No scan of the source is far enough from its latest, and not too far.
Refused(w, scans) ==
  \A x, y \in scans : (y = Diff!Latest(scans) /\ x # y) => y - x \notin Least[w] .. Most[w]

\* The pair is of the newest scan, and of none that is nearer the target.
Fits(w, v, scans) ==
  /\ v.latest - v.baseline \in Least[w] .. Most[w]
  /\ \A x \in scans : x <= v.latest
  /\ \A x \in scans : v.latest - x >= Least[w] =>
       Diff!Distance(v.latest - v.baseline, Target[w]) <= Diff!Distance(v.latest - x, Target[w])

LEMMA NoBaselineIs ==
  ASSUME DiffConstants, NEW scans \in SUBSET (0 .. Now), NEW w \in Diff!Range(Windows),
         Diff!Baseline(scans, w) = {}
  PROVE  Refused(w, scans)
<1>1. SUFFICES ASSUME NEW x \in scans, NEW y \in scans, y = Diff!Latest(scans), x # y,
                      y - x \in Least[w] .. Most[w]
               PROVE  FALSE
  BY DEF Refused
<1>2. ~ (Diff!Cardinality(scans) < 2)
  <2>0. 0 \in Int /\ Now \in Int
    BY DEF DiffConstants
  <2>1. IsFiniteSet(scans)
    BY <2>0, FS_Interval, FS_Subset
  <2>2. Cardinality(scans) \in Nat /\ Cardinality(scans) # 0 /\ Cardinality(scans) # 1
    BY <1>1, <2>1, FS_CardinalityType, FS_EmptySet, FS_Singleton
  <2>3. QED
    BY <2>2, SameCardinality
<1>3. x \in Diff!Candidates(scans, w)
  BY <1>1, WindowIs DEF Diff!Candidates
<1>times. \A z \in scans : z \in 0 .. Now /\ z \in Int
  BY DEF DiffConstants
<1>bounds. PICK least \in Nat, target \in Nat, most \in Nat :
        /\ least = Least[w] /\ target = Target[w] /\ most = Most[w]
        /\ target - least <= most - target /\ least <= target /\ target <= most
  BY WindowIs
<1>4. PICK n \in Diff!Nearest(scans, w) : TRUE
  BY <1>3, NearestIs
<1>5. y - n > most /\ n \in Int /\ y \in Int /\ x \in Int
  <2>1. n \in scans
    BY DEF Diff!Nearest, Diff!Candidates
  <2>3. ~ (y - n <= most)
    BY <1>1, <1>2, <1>4, <1>bounds, Zenon DEF Diff!Baseline
  <2>4. QED
    BY <1>1, <1>times, <2>1, <2>3
<1>6. PICK wanted \in Int : wanted = y - target
  BY <1>5
<1>7. Diff!Distance(n, wanted) <= Diff!Distance(x, wanted)
  <2>1. \/ Diff!Distance(n, wanted) < Diff!Distance(x, wanted)
        \/ Diff!Distance(n, wanted) = Diff!Distance(x, wanted)
    BY <1>1, <1>bounds, <1>3, <1>4, <1>6 DEF Diff!Nearest
  <2>2. Diff!Distance(n, wanted) \in Nat /\ Diff!Distance(x, wanted) \in Nat
    BY <1>5, <1>6, DistanceIs
  <2>3. QED
    BY <2>1, <2>2
<1>8. Diff!Distance(n, wanted) = wanted - n /\ wanted - n > most - target
  <2>1. wanted - n > most - target /\ n <= wanted
    BY <1>5, <1>6, <1>bounds
  <2>2. QED
    BY <1>5, <2>1, DistanceIs
<1>9. Diff!Distance(x, wanted) <= most - target
  <2>1. least <= y - x /\ y - x <= most
    BY <1>1, <1>bounds, <1>5
  <2>2. CASE x <= wanted
    <3>1. Diff!Distance(x, wanted) = wanted - x
      BY <1>5, <2>2, DistanceIs
    <3>2. QED
      BY <1>5, <1>6, <2>1, <3>1
  <2>3. CASE wanted <= x
    <3>1. Diff!Distance(x, wanted) = x - wanted
      BY <1>5, <2>3, DistanceIs
    <3>2. QED
      BY <1>5, <1>6, <2>1, <3>1, <1>bounds
  <2>4. QED
    BY <1>5, <1>6, <2>2, <2>3
<1>10. QED
  BY <1>5, <1>6, <1>7, <1>8, <1>9, DistanceIs

LEMMA BaselineIs ==
  ASSUME DiffConstants, NEW scans \in SUBSET (0 .. Now), NEW w \in Diff!Range(Windows),
         NEW x \in Diff!Baseline(scans, w), NEW v, v.latest = Diff!Latest(scans), v.baseline = x
  PROVE  v.latest \in scans /\ x \in scans /\ Fits(w, v, scans)
<1>1. x \in Diff!Nearest(scans, w) /\ Diff!Latest(scans) - x <= Most[w]
  BY DEF Diff!Baseline
<1>2. x \in Diff!Candidates(scans, w)
  BY <1>1 DEF Diff!Nearest
<1>3. x \in scans /\ Diff!Latest(scans) - x >= Least[w]
  BY <1>2 DEF Diff!Candidates
<1>4. PICK latest \in scans : latest = Diff!Latest(scans) /\ \A y \in scans : y <= latest
  BY <1>3, LatestIs
<1>5. latest \in Int /\ \A y \in scans : y \in 0 .. Now /\ y \in Int
  BY DEF DiffConstants
<1>bounds. PICK least \in Nat, target \in Nat, most \in Nat :
        /\ least = Least[w] /\ target = Target[w] /\ most = Most[w]
        /\ target - least <= most - target /\ 0 < least /\ least <= target /\ target <= most
  BY WindowIs
<1>6. PICK wanted \in Int : wanted = latest - target
  BY <1>5
<1>7. ASSUME NEW y \in scans, latest - y >= least
      PROVE  Diff!Distance(latest - x, target) <= Diff!Distance(latest - y, target)
  <2>1. \A z \in scans : Diff!Distance(latest - z, target) = Diff!Distance(z, wanted)
    <3>1. ASSUME NEW z \in scans PROVE Diff!Distance(latest - z, target) = Diff!Distance(z, wanted)
      <4>1. z \in Int /\ latest \in Int /\ latest - z \in Int /\ target \in Int
        BY <1>5
      <4>2. CASE z <= wanted
        <5>1. target <= latest - z
          BY <1>6, <4>1, <4>2
        <5>2. Diff!Distance(latest - z, target) = (latest - z) - target
          BY <4>1, <5>1, DistanceIs
        <5>3. Diff!Distance(z, wanted) = wanted - z
          BY <4>1, <4>2, DistanceIs
        <5>4. QED
          BY <1>6, <4>1, <5>2, <5>3
      <4>3. CASE wanted <= z
        <5>1. latest - z <= target
          BY <1>6, <4>1, <4>3
        <5>2. Diff!Distance(latest - z, target) = target - (latest - z)
          BY <4>1, <5>1, DistanceIs
        <5>3. Diff!Distance(z, wanted) = z - wanted
          BY <4>1, <4>3, DistanceIs
        <5>4. QED
          BY <1>6, <4>1, <5>2, <5>3
      <4>4. QED
        BY <1>6, <4>1, <4>2, <4>3
    <3>2. QED
      BY <3>1
  <2>2. y # latest
    BY <1>5, <1>7, <1>bounds
  <2>3. y \in Diff!Candidates(scans, w)
    BY <1>4, <1>7, <1>bounds, <2>2 DEF Diff!Candidates
  <2>4. \/ Diff!Distance(x, wanted) < Diff!Distance(y, wanted)
        \/ Diff!Distance(x, wanted) = Diff!Distance(y, wanted)
    BY <1>1, <1>4, <1>6, <1>bounds, <2>3 DEF Diff!Nearest
  <2>5. Diff!Distance(x, wanted) \in Nat /\ Diff!Distance(y, wanted) \in Nat
    BY <1>3, <1>5, <1>6, DistanceIs
  <2>6. QED
    BY <1>3, <2>1, <2>4, <2>5
<1>8. latest - x \in least .. most
  BY <1>1, <1>3, <1>4, <1>5, <1>bounds
<1>9. QED
  BY <1>3, <1>4, <1>7, <1>8, <1>bounds DEF Fits

-----------------------------------------------------------------------------

Passed(i) == t4.pc = "done" \/ i < t4.window

\* What is published fits its window.
Compared ==
  \A w \in Diff!Range(Windows) : views[w] # Diff!NoView => Fits(w, views[w], listed[w][views[w].tier])

\* Nothing is published of the windows still to come.
Ahead ==
  \A i \in DOMAIN Windows : ~ Passed(i) => views[Windows[i]] = Diff!NoView

\* What is being loaded fits, too.
Chosen ==
  t4.pc = "load" => /\ t4.pair.tier = Diff!Source
                    /\ Fits(Diff!Window, t4.pair, listed[Diff!Window][Diff!Source])

\* A window that was passed over, and a source that was, had no baseline, or something was not read.
Behind ==
  \A i \in DOMAIN Windows : Passed(i) /\ Windows[i] \notin lost /\ views[Windows[i]] = Diff!NoView =>
    \A from \in Diff!Range(Diff!Sources) : Refused(Windows[i], listed[Windows[i]][from])

Tried ==
  t4.pc # "done" /\ t4.source = 2 /\ Diff!Window \notin lost =>
    Refused(Diff!Window, listed[Diff!Window]["t3"])

DiffTyped ==
  /\ Diff!TypeOK
  /\ t4 \in [pc : {"list", "load", "done"}, window : DOMAIN Windows, source : {1, 2}, pair : Diff!Pairs]

DiffInv == DiffTyped /\ Compared /\ Ahead /\ Chosen /\ Behind /\ Tried

T4Type == [pc : {"list", "load", "done"}, window : DOMAIN Windows, source : {1, 2}, pair : Diff!Pairs]

LEMMA T4Is ==
  ASSUME DiffConstants, DiffInv
  PROVE  /\ t4 \in T4Type
         /\ t4.window \in DOMAIN Windows /\ t4.window \in Nat /\ t4.source \in {1, 2}
         /\ Diff!Window = Windows[t4.window] /\ Diff!Window \in Diff!Range(Windows)
         /\ Diff!Source \in {"t3", "t1"}
         /\ t4.source = 1 => Diff!Source = "t3"
         /\ t4.source = 2 => Diff!Source = "t1"
         /\ \A i \in DOMAIN Windows : i \in Nat /\ (Windows[i] = Diff!Window => i = t4.window)
         /\ t4.pc # "done" => views[Diff!Window] = Diff!NoView
<1>1. t4 \in T4Type
  BY DEF DiffInv, DiffTyped, T4Type
<1>2. t4.window \in DOMAIN Windows /\ t4.source \in {1, 2}
  BY <1>1 DEF T4Type
<1>3. \A i \in DOMAIN Windows : i \in Nat
  BY WindowIs
<1>4. Diff!Window = Windows[t4.window] /\ Diff!Source = Diff!Sources[t4.source]
  BY DEF Diff!Window, Diff!Source
<1>5. ~ (t4.window < t4.window)
  BY <1>2, <1>3
<1>6. t4.pc # "done" => views[Diff!Window] = Diff!NoView
  BY <1>2, <1>4, <1>5 DEF DiffInv, Ahead, Passed
<1>7. \A i \in DOMAIN Windows : Windows[i] = Windows[t4.window] => i = t4.window
  BY <1>2 DEF DiffConstants
<1>8. Windows[t4.window] \in Diff!Range(Windows)
  BY <1>2, WindowIs
<1>9. QED
  BY <1>1, <1>2, <1>3, <1>4, <1>6, <1>7, <1>8, SourcesAre

LEMMA NoViewIs ==
  ASSUME DiffConstants
  PROVE  Diff!NoView \in Diff!Pairs /\ Diff!NoView.tier = "none"
<1>1. 0 \in 0 .. Now
  BY DEF DiffConstants
<1>2. QED
  BY <1>1 DEF Diff!NoView, Diff!Pairs

LEMMA GoesOn ==
  ASSUME DiffConstants, DiffInv, t4.pc # "done", t4' = Diff!NextWindow
  PROVE  /\ t4' \in T4Type /\ t4'.pc \in {"list", "done"} /\ t4'.source = 1
         /\ \A i \in DOMAIN Windows : Passed(i)' <=> i <= t4.window
<1>1. PICK n \in Nat : n = Len(Windows) /\ n # 0 /\ DOMAIN Windows = 1 .. n
  BY WindowIs
<1>2. t4.window \in 1 .. n
  BY <1>1, T4Is
<1>3. CASE t4.window = n
  <2>1. t4' = [pc |-> "done", window |-> 1, source |-> 1, pair |-> Diff!NoView]
    BY <1>1, <1>3 DEF Diff!NextWindow, Diff!Done, Diff!At
  <2>2. t4' \in T4Type
    BY <1>1, <2>1, NoViewIs DEF T4Type
  <2>3. t4'.pc = "done" /\ t4'.source = 1
    BY <2>1
  <2>4. QED
    BY <1>1, <1>3, <2>2, <2>3 DEF Passed
<1>4. CASE t4.window # n
  <2>1. t4' = [pc |-> "list", window |-> t4.window + 1, source |-> 1, pair |-> Diff!NoView]
    BY <1>1, <1>4 DEF Diff!NextWindow, Diff!At
  <2>2. t4.window + 1 \in 1 .. n
    BY <1>2, <1>4
  <2>3. t4' \in T4Type
    BY <1>1, <2>1, <2>2, NoViewIs DEF T4Type
  <2>4. t4'.pc = "list" /\ t4'.source = 1 /\ t4'.window = t4.window + 1
    BY <2>1
  <2>5. QED
    BY <1>1, <1>2, <2>3, <2>4 DEF Passed
<1>5. QED
  BY <1>3, <1>4

LEMMA TriesOn ==
  ASSUME DiffConstants, DiffInv, t4.pc # "done", t4.source = 1, t4' = Diff!NoBaseline
  PROVE  /\ t4' \in T4Type /\ t4'.pc = "list" /\ t4'.source = 2 /\ t4'.window = t4.window
         /\ \A i \in DOMAIN Windows : Passed(i)' <=> Passed(i)
<1>1. t4' = [t4 EXCEPT !.pc = "list", !.source = @ + 1, !.pair = Diff!NoView]
  BY SourcesAre DEF Diff!NoBaseline
<1>2. t4 \in T4Type
  BY T4Is
<1>3. PICK p \in {"list", "load", "done"}, win \in DOMAIN Windows, v \in Diff!Pairs :
        t4 = [pc |-> p, window |-> win, source |-> 1, pair |-> v]
  BY <1>2 DEF T4Type
<1>next. t4' = [pc |-> "list", window |-> win, source |-> 2, pair |-> Diff!NoView] /\ t4.window = win
  <2>1. t4.source + 1 = 2
    OBVIOUS
  <2>2. t4' = [t4 EXCEPT !.pc = "list", !.source = 2, !.pair = Diff!NoView]
    BY <1>1, <2>1
  <2>3. QED
    BY <1>3, <2>2
<1>4. t4' \in T4Type /\ t4'.pc = "list" /\ t4'.source = 2 /\ t4'.window = t4.window
  BY <1>3, <1>next, NoViewIs DEF T4Type
<1>5. QED
  BY <1>4, T4Is DEF Passed

\* What a step must leave as it is to be typed.
LEMMA DiffTypes ==
  ASSUME DiffConstants, DiffInv, t4' \in T4Type,
         archive' \in [Diff!Range(Diff!Sources) -> SUBSET (0 .. Now)], changes' \in 0 .. MaxChanges,
         views' \in [Diff!Range(Windows) -> Diff!Pairs],
         listed' \in [Diff!Range(Windows) -> [Diff!Range(Diff!Sources) -> SUBSET (0 .. Now)]],
         lost' \subseteq Diff!Range(Windows)
  PROVE  DiffTyped'
<1>1. t4'.pc \in {"list", "load", "done"} /\ t4'.window \in DOMAIN Windows
      /\ t4'.source \in {1, 2} /\ t4'.pair \in Diff!Pairs
  BY DEF T4Type
<1>2. t4'.window \in 1 .. Len(Windows) /\ t4'.source \in DOMAIN Diff!Sources
  BY <1>1, WindowIs, SourcesAre
<1>3. Diff!TypeOK'
  BY <1>1, <1>2 DEF Diff!TypeOK
<1>4. QED
  BY <1>3 DEF DiffTyped, T4Type

\* A source without a baseline, or that could not be read.
LEMMA LeftKeeps ==
  ASSUME DiffConstants, DiffInv, t4.pc # "done", t4' = Diff!NoBaseline,
         UNCHANGED <<archive, changes, views>>,
         listed' \in [Diff!Range(Windows) -> [Diff!Range(Diff!Sources) -> SUBSET (0 .. Now)]],
         lost \subseteq lost', lost' \subseteq Diff!Range(Windows),
         \A w \in Diff!Range(Windows) : w # Diff!Window => listed'[w] = listed[w],
         \A from \in Diff!Range(Diff!Sources) :
            from # Diff!Source => listed'[Diff!Window][from] = listed[Diff!Window][from],
         Diff!Window \in lost' \/ Refused(Diff!Window, listed'[Diff!Window][Diff!Source])
  PROVE  DiffInv'
<1>1. t4.source = 2 => t4' = Diff!NextWindow
  BY SourcesAre DEF Diff!NoBaseline
<1>2. t4.source \in {1, 2} /\ t4.window \in Nat
  BY T4Is
<1>3. /\ t4' \in T4Type /\ t4'.pc \in {"list", "done"} /\ t4'.pc # "load"
      /\ \A i \in DOMAIN Windows : Passed(i) => Passed(i)'
  <2>1. CASE t4.source = 1
    BY <2>1, TriesOn
  <2>2. CASE t4.source = 2
    BY <1>1, <2>2, GoesOn, T4Is DEF Passed
  <2>3. QED
    BY <1>2, <2>1, <2>2
<1>4. DiffTyped'
  <2>1. /\ archive \in [Diff!Range(Diff!Sources) -> SUBSET (0 .. Now)] /\ changes \in 0 .. MaxChanges
        /\ views \in [Diff!Range(Windows) -> Diff!Pairs]
    BY DEF DiffInv, DiffTyped, Diff!TypeOK
  <2>2. QED
    BY <1>3, <2>1, DiffTypes
<1>5. Compared'
  <2>1. ASSUME NEW w \in Diff!Range(Windows), views'[w] # Diff!NoView
        PROVE  Fits(w, views'[w], listed'[w][views'[w].tier])
    <3>1. w # Diff!Window /\ views'[w] = views[w]
      BY <2>1, T4Is
    <3>2. QED
      BY <2>1, <3>1 DEF DiffInv, Compared
  <2>2. QED
    BY <2>1 DEF Compared
<1>6. Ahead'
  BY <1>3 DEF Ahead, DiffInv
<1>7. Chosen'
  BY <1>3 DEF Chosen
<1>8. Behind'
  <2>1. ASSUME NEW i \in DOMAIN Windows, Passed(i)', Windows[i] \notin lost', views'[Windows[i]] = Diff!NoView,
               NEW from \in Diff!Range(Diff!Sources)
        PROVE  Refused(Windows[i], listed'[Windows[i]][from])
    <3>1. CASE Windows[i] # Diff!Window
      <4>1. i # t4.window
        BY <3>1, T4Is
      <4>2. Passed(i)
        <5>1. CASE t4.source = 1
          BY <2>1, <5>1, TriesOn
        <5>2. CASE t4.source = 2
          <6>1. i <= t4.window /\ i \in Nat
            BY <1>1, <2>1, <5>2, GoesOn, T4Is
          <6>2. QED
            BY <1>2, <4>1, <6>1 DEF Passed
        <5>3. QED
          BY <1>2, <5>1, <5>2
      <4>3. Windows[i] \in Diff!Range(Windows)
        BY WindowIs
      <4>4. listed'[Windows[i]] = listed[Windows[i]] /\ Windows[i] \notin lost /\ views[Windows[i]] = Diff!NoView
        BY <2>1, <3>1, <4>3
      <4>5. QED
        BY <4>2, <4>4 DEF DiffInv, Behind
    <3>2. CASE Windows[i] = Diff!Window
      <4>1. i = t4.window
        BY <3>2, T4Is
      <4>2. t4.source = 2
        <5>1. ~ Passed(i)
          BY <1>2, <4>1 DEF Passed
        <5>2. QED
          BY <1>2, <2>1, <5>1, TriesOn
      <4>3. Diff!Source = "t1" /\ from \in {"t3", "t1"}
        BY <4>2, T4Is, SourcesAre
      <4>4. Diff!Window \notin lost' /\ Diff!Window \notin lost
        BY <2>1, <3>2
      <4>5. CASE from = "t1"
        BY <3>2, <4>3, <4>4, <4>5
      <4>6. CASE from = "t3"
        <5>1. Refused(Diff!Window, listed[Diff!Window]["t3"])
          BY <4>2, <4>4 DEF DiffInv, Tried
        <5>2. listed'[Diff!Window]["t3"] = listed[Diff!Window]["t3"]
          BY <4>3, SourcesAre
        <5>3. QED
          BY <3>2, <4>6, <5>1, <5>2
      <4>7. QED
        BY <4>3, <4>5, <4>6
    <3>3. QED
      BY <3>1, <3>2
  <2>2. QED
    BY <2>1 DEF Behind
<1>9. Tried'
  <2>1. CASE t4.source = 1
    <3>1. Diff!Window' = Diff!Window
      BY <2>1, TriesOn DEF Diff!Window
    <3>2. Diff!Source = "t3"
      BY <2>1, T4Is
    <3>3. QED
      BY <3>1, <3>2 DEF Tried
  <2>2. CASE t4.source = 2
    <3>1. t4'.source = 1
      BY <1>1, <2>2, GoesOn
    <3>2. QED
      BY <3>1 DEF Tried
  <2>3. QED
    BY <1>2, <2>1, <2>2
<1>10. QED
  BY <1>4, <1>5, <1>6, <1>7, <1>8, <1>9 DEF DiffInv

LEMMA DiffTypedIs ==
  ASSUME DiffInv
  PROVE  /\ archive \in [Diff!Range(Diff!Sources) -> SUBSET (0 .. Now)] /\ changes \in 0 .. MaxChanges
         /\ views \in [Diff!Range(Windows) -> Diff!Pairs]
         /\ listed \in [Diff!Range(Windows) -> [Diff!Range(Diff!Sources) -> SUBSET (0 .. Now)]]
         /\ lost \subseteq Diff!Range(Windows)
BY DEF DiffInv, DiffTyped, Diff!TypeOK

LEMMA ReadFailsLeaves == ASSUME DiffConstants, DiffInv, Diff!ReadFails PROVE DiffInv'
<1>1. /\ t4.pc # "done" /\ t4' = Diff!NoBaseline /\ lost' = lost \cup {Diff!Window}
      /\ UNCHANGED <<archive, changes, views>> /\ listed' = listed
  BY DEF Diff!ReadFails
<1>2. lost \subseteq lost' /\ lost' \subseteq Diff!Range(Windows) /\ Diff!Window \in lost'
  BY <1>1, DiffTypedIs, T4Is
<1>3. /\ listed' \in [Diff!Range(Windows) -> [Diff!Range(Diff!Sources) -> SUBSET (0 .. Now)]]
      /\ \A w \in Diff!Range(Windows) : listed'[w] = listed[w]
      /\ \A from \in Diff!Range(Diff!Sources) : listed'[Diff!Window][from] = listed[Diff!Window][from]
  BY <1>1, DiffTypedIs
<1>4. QED
  BY <1>1, <1>2, <1>3, LeftKeeps

LEMMA ListKeeps == ASSUME DiffConstants, DiffInv, Diff!List PROVE DiffInv'
<1>1. PICK scans \in SUBSET (0 .. Now) : scans = archive[Diff!Source]
  BY DiffTypedIs, T4Is, SourcesAre
<1>2. /\ t4.pc = "list" /\ UNCHANGED <<archive, changes, views, lost>>
      /\ listed' = [listed EXCEPT ![Diff!Window][Diff!Source] = scans]
  BY <1>1 DEF Diff!List
<1>3. /\ Diff!Window \in Diff!Range(Windows) /\ Diff!Source \in Diff!Range(Diff!Sources)
      /\ t4.pc # "done"
  BY <1>2, T4Is, SourcesAre
<1>4. PICK row \in [Diff!Range(Diff!Sources) -> SUBSET (0 .. Now)] : row = listed[Diff!Window]
  BY <1>3, DiffTypedIs
<1>5. listed' = [listed EXCEPT ![Diff!Window] = [row EXCEPT ![Diff!Source] = scans]]
  BY <1>2, <1>4
<1>6. [row EXCEPT ![Diff!Source] = scans] \in [Diff!Range(Diff!Sources) -> SUBSET (0 .. Now)]
  BY <1>1, <1>4
<1>7. /\ listed' \in [Diff!Range(Windows) -> [Diff!Range(Diff!Sources) -> SUBSET (0 .. Now)]]
      /\ \A w \in Diff!Range(Windows) : w # Diff!Window => listed'[w] = listed[w]
      /\ listed'[Diff!Window] = [row EXCEPT ![Diff!Source] = scans]
  BY <1>3, <1>5, <1>6, DiffTypedIs
<1>8. /\ listed'[Diff!Window][Diff!Source] = scans
      /\ \A from \in Diff!Range(Diff!Sources) :
           from # Diff!Source => listed'[Diff!Window][from] = listed[Diff!Window][from]
  BY <1>3, <1>4, <1>7
<1>9. CASE Diff!Baseline(scans, Diff!Window) = {}
  <2>1. t4' = Diff!NoBaseline
    BY <1>1, <1>9 DEF Diff!List
  <2>2. Refused(Diff!Window, scans)
    BY <1>3, <1>9, NoBaselineIs
  <2>3. lost \subseteq lost' /\ lost' \subseteq Diff!Range(Windows)
    BY <1>2, DiffTypedIs
  <2>4. QED
    BY <1>2, <1>3, <1>7, <1>8, <2>1, <2>2, <2>3, LeftKeeps
<1>10. CASE Diff!Baseline(scans, Diff!Window) # {}
  <2>1. PICK x \in Diff!Baseline(scans, Diff!Window) :
          t4' = [t4 EXCEPT !.pc = "load",
                           !.pair = [tier |-> Diff!Source, latest |-> Diff!Latest(scans), baseline |-> x]]
    BY <1>1, <1>10 DEF Diff!List
  <2>2. PICK v : v = [tier |-> Diff!Source, latest |-> Diff!Latest(scans), baseline |-> x]
    OBVIOUS
  <2>3. v.tier = Diff!Source /\ v.latest = Diff!Latest(scans) /\ v.baseline = x
    BY <2>2
  <2>4. v.latest \in scans /\ x \in scans /\ Fits(Diff!Window, v, scans)
    BY <1>3, <2>3, BaselineIs
  <2>5. v \in Diff!Pairs
    BY <1>1, <1>3, <2>2, <2>3, <2>4 DEF Diff!Pairs
  <2>6. t4' = [t4 EXCEPT !.pc = "load", !.pair = v]
    BY <2>1, <2>2
  <2>7. t4' \in T4Type /\ t4'.pc = "load" /\ t4'.pair = v /\ t4'.window = t4.window /\ t4'.source = t4.source
    BY <2>5, <2>6, T4Is DEF T4Type
  <2>8. Diff!Window' = Diff!Window /\ Diff!Source' = Diff!Source
    BY <2>7 DEF Diff!Window, Diff!Source
  <2>9. DiffTyped'
    BY <1>2, <1>7, <2>7, DiffTypedIs, DiffTypes
  <2>10. Compared'
    <3>1. ASSUME NEW w \in Diff!Range(Windows), views'[w] # Diff!NoView
          PROVE  Fits(w, views'[w], listed'[w][views'[w].tier])
      <4>1. w # Diff!Window /\ views'[w] = views[w]
        BY <1>2, <1>3, <3>1, T4Is
      <4>2. QED
        BY <1>7, <3>1, <4>1 DEF DiffInv, Compared
    <3>2. QED
      BY <3>1 DEF Compared
  <2>11. \A i \in DOMAIN Windows : Passed(i)' <=> Passed(i)
    BY <1>2, <2>7 DEF Passed
  <2>12. Ahead'
    BY <1>2, <2>11 DEF Ahead, DiffInv
  <2>13. Chosen'
    BY <1>8, <2>3, <2>4, <2>7, <2>8 DEF Chosen
  <2>14. Behind'
    <3>1. ASSUME NEW i \in DOMAIN Windows, Passed(i)
          PROVE  Windows[i] # Diff!Window /\ Windows[i] \in Diff!Range(Windows)
      BY <1>2, <3>1, T4Is, WindowIs DEF Passed
    <3>2. QED
      BY <1>2, <1>7, <2>11, <3>1 DEF Behind, DiffInv
  <2>15. Tried'
    <3>1. ASSUME t4.source = 2, Diff!Window \notin lost
          PROVE  Refused(Diff!Window, listed'[Diff!Window]["t3"])
      <4>1. "t3" # Diff!Source /\ "t3" \in Diff!Range(Diff!Sources)
        BY <3>1, T4Is, SourcesAre
      <4>2. listed'[Diff!Window]["t3"] = listed[Diff!Window]["t3"]
        BY <1>8, <4>1
      <4>3. QED
        BY <1>3, <3>1, <4>2 DEF DiffInv, Tried
    <3>2. QED
      BY <1>2, <2>7, <2>8, <3>1 DEF Tried
  <2>16. QED
    BY <2>9, <2>10, <2>12, <2>13, <2>14, <2>15 DEF DiffInv
<1>11. QED
  BY <1>9, <1>10

LEMMA LoadKeeps == ASSUME DiffConstants, DiffInv, Diff!Load PROVE DiffInv'
<1>1. /\ t4.pc = "load" /\ t4' = Diff!NextWindow /\ UNCHANGED <<archive, changes, listed, lost>>
      /\ views' = [views EXCEPT ![Diff!Window] = t4.pair]
  BY DEF Diff!Load
<1>2. t4.pc # "done"
  BY <1>1
<1>3. /\ t4.pair \in Diff!Pairs /\ t4.pair.tier = Diff!Source
      /\ Fits(Diff!Window, t4.pair, listed[Diff!Window][Diff!Source])
  BY <1>1, T4Is DEF T4Type, DiffInv, Chosen
<1>4. t4.pair # Diff!NoView
  BY <1>3, T4Is, NoViewIs
<1>5. /\ views' \in [Diff!Range(Windows) -> Diff!Pairs] /\ views'[Diff!Window] = t4.pair
      /\ \A w \in Diff!Range(Windows) : w # Diff!Window => views'[w] = views[w]
  BY <1>1, <1>3, DiffTypedIs, T4Is
<1>6. /\ t4' \in T4Type /\ t4'.pc \in {"list", "done"} /\ t4'.source = 1
      /\ \A i \in DOMAIN Windows : Passed(i)' <=> i <= t4.window
  BY <1>1, <1>2, GoesOn
<1>7. DiffTyped'
  BY <1>1, <1>5, <1>6, DiffTypedIs, DiffTypes
<1>8. Compared'
  BY <1>1, <1>3, <1>5 DEF DiffInv, Compared
<1>9. \A i \in DOMAIN Windows : i # t4.window =>
        views'[Windows[i]] = views[Windows[i]] /\ (Passed(i)' <=> Passed(i))
  <2>1. ASSUME NEW i \in DOMAIN Windows, i # t4.window
        PROVE  views'[Windows[i]] = views[Windows[i]] /\ (Passed(i)' <=> Passed(i))
    <3>1. Windows[i] # Diff!Window /\ Windows[i] \in Diff!Range(Windows) /\ i \in Nat /\ t4.window \in Nat
      BY <2>1, T4Is, WindowIs
    <3>2. QED
      BY <1>2, <1>5, <1>6, <2>1, <3>1 DEF Passed
  <2>2. QED
    BY <2>1
<1>10. \A i \in DOMAIN Windows : i = t4.window => Passed(i)' /\ Windows[i] = Diff!Window
  BY <1>6, T4Is
<1>11. Ahead'
  BY <1>9, <1>10 DEF Ahead, DiffInv
<1>12. Behind'
  BY <1>1, <1>4, <1>5, <1>9, <1>10 DEF Behind, DiffInv
<1>13. Chosen' /\ Tried'
  BY <1>6 DEF Chosen, Tried
<1>14. QED
  BY <1>7, <1>8, <1>11, <1>12, <1>13 DEF DiffInv

LEMMA DiffBegins == ASSUME DiffConstants, Diff!Init PROVE DiffInv
<1>1. t4 = [pc |-> "list", window |-> 1, source |-> 1, pair |-> Diff!NoView]
  BY DEF Diff!Init, Diff!At
<1>2. t4 \in T4Type /\ t4.pc = "list" /\ t4.window = 1 /\ t4.source = 1
  BY <1>1, NoViewIs, WindowIs DEF T4Type
<1>3. \A w \in Diff!Range(Windows) : views[w] = Diff!NoView
  BY DEF Diff!Init, Diff!Empty
<1>4. archive \in [Diff!Range(Diff!Sources) -> SUBSET (0 .. Now)]
  <2>1. archive \in [Diff!Range(Diff!Sources) -> SUBSET (0 .. Now - 1)]
    BY DEF Diff!Init
  <2>2. 0 .. Now - 1 \subseteq 0 .. Now
    BY DEF DiffConstants
  <2>3. SUBSET (0 .. Now - 1) \subseteq SUBSET (0 .. Now)
    BY <2>2
  <2>4. QED
    BY <2>1, <2>3
<1>5. /\ changes \in 0 .. MaxChanges /\ views \in [Diff!Range(Windows) -> Diff!Pairs]
      /\ listed \in [Diff!Range(Windows) -> [Diff!Range(Diff!Sources) -> SUBSET (0 .. Now)]]
      /\ lost \subseteq Diff!Range(Windows)
  BY NoViewIs DEF Diff!Init, Diff!Empty, Diff!Unlisted, DiffConstants
<1>6. DiffTyped
  <2>1. t4.pc \in {"list", "load", "done"} /\ t4.pair \in Diff!Pairs
        /\ t4.window \in 1 .. Len(Windows) /\ t4.source \in DOMAIN Diff!Sources
    BY <1>2, WindowIs, SourcesAre DEF T4Type
  <2>2. QED
    BY <1>2, <1>4, <1>5, <2>1 DEF DiffTyped, Diff!TypeOK, T4Type
<1>7. \A i \in DOMAIN Windows : ~ Passed(i) /\ views[Windows[i]] = Diff!NoView
  BY <1>2, <1>3, WindowIs DEF Passed
<1>8. QED
  BY <1>2, <1>3, <1>6, <1>7 DEF DiffInv, Compared, Ahead, Chosen, Behind, Tried

LEMMA DiffDieKeeps == ASSUME DiffConstants, DiffInv, Diff!Die PROVE DiffInv'
<1>1. /\ t4' = [pc |-> "done", window |-> 1, source |-> 1, pair |-> Diff!NoView]
      /\ views' = Diff!Empty /\ listed' = Diff!Unlisted /\ lost' = Diff!Range(Windows)
      /\ UNCHANGED <<archive, changes>>
  BY DEF Diff!Die, Diff!Done, Diff!At
<1>2. t4' \in T4Type /\ t4'.pc = "done"
  BY <1>1, NoViewIs, WindowIs DEF T4Type
<1>3. /\ \A w \in Diff!Range(Windows) : views'[w] = Diff!NoView
      /\ views' \in [Diff!Range(Windows) -> Diff!Pairs]
      /\ listed' \in [Diff!Range(Windows) -> [Diff!Range(Diff!Sources) -> SUBSET (0 .. Now)]]
      /\ lost' \subseteq Diff!Range(Windows)
  BY <1>1, NoViewIs DEF Diff!Empty, Diff!Unlisted
<1>4. DiffTyped'
  BY <1>1, <1>2, <1>3, DiffTypedIs, DiffTypes
<1>5. \A i \in DOMAIN Windows : Passed(i)' /\ Windows[i] \in lost'
  BY <1>1, <1>2, WindowIs DEF Passed
<1>6. QED
  BY <1>2, <1>3, <1>4, <1>5 DEF DiffInv, Compared, Ahead, Chosen, Behind, Tried

\* The archive may move at any time: what was listed is what the run saw.
LEMMA ArchiveKeeps ==
  ASSUME DiffConstants, DiffInv, UNCHANGED <<t4, views, listed, lost>>,
         archive' \in [Diff!Range(Diff!Sources) -> SUBSET (0 .. Now)], changes' \in 0 .. MaxChanges
  PROVE  DiffInv'
<1>1. DiffTyped'
  BY T4Is, DiffTypedIs, DiffTypes
<1>2. Diff!Window' = Diff!Window /\ Diff!Source' = Diff!Source /\ \A i \in DOMAIN Windows : Passed(i)' <=> Passed(i)
  BY DEF Diff!Window, Diff!Source, Passed
<1>3. QED
  BY <1>1, <1>2 DEF DiffInv, Compared, Ahead, Chosen, Behind, Tried

LEMMA ArchivesKeep == ASSUME DiffConstants, DiffInv, Diff!Archive \/ Diff!Expire PROVE DiffInv'
<1>1. PICK from \in Diff!Range(Diff!Sources), S \in SUBSET (0 .. Now) : archive' = [archive EXCEPT ![from] = S]
  <2>1. CASE Diff!Archive
    <3>1. PICK from \in Diff!Range(Diff!Sources) : archive' = [archive EXCEPT ![from] = @ \cup {Now}]
      BY <2>1 DEF Diff!Archive
    <3>2. archive' = [archive EXCEPT ![from] = archive[from] \cup {Now}]
      BY <3>1, DiffTypedIs
    <3>3. archive[from] \cup {Now} \in SUBSET (0 .. Now)
      BY DiffTypedIs DEF DiffConstants
    <3>4. QED
      BY <3>2, <3>3
  <2>2. CASE Diff!Expire
    <3>1. PICK from \in Diff!Range(Diff!Sources) : \E x \in archive[from] : archive' = [archive EXCEPT ![from] = @ \ {x}]
      BY <2>2 DEF Diff!Expire
    <3>0. PICK x : archive' = [archive EXCEPT ![from] = @ \ {x}]
      BY <3>1
    <3>2. archive' = [archive EXCEPT ![from] = archive[from] \ {x}]
      BY <3>0, DiffTypedIs
    <3>3. archive[from] \ {x} \in SUBSET (0 .. Now)
      BY DiffTypedIs
    <3>4. QED
      BY <3>2, <3>3
  <2>3. QED
    BY <2>1, <2>2
<1>2. archive' \in [Diff!Range(Diff!Sources) -> SUBSET (0 .. Now)]
  BY <1>1, DiffTypedIs
<1>3. changes' \in 0 .. MaxChanges /\ UNCHANGED <<t4, views, listed, lost>>
  BY DiffTypedIs DEF Diff!Archive, Diff!Expire, DiffConstants
<1>4. QED
  BY <1>2, <1>3, ArchiveKeeps

LEMMA DiffKeeps == ASSUME DiffConstants, DiffInv, [Diff!Next]_(Diff!vars) PROVE DiffInv'
<1>1. CASE Diff!Archive \/ Diff!Expire
  BY <1>1, ArchivesKeep
<1>2. CASE Diff!List
  BY <1>2, ListKeeps
<1>3. CASE Diff!Load
  BY <1>3, LoadKeeps
<1>4. CASE Diff!ReadFails
  BY <1>4, ReadFailsLeaves
<1>5. CASE Diff!Die
  BY <1>5, DiffDieKeeps
<1>6. CASE UNCHANGED Diff!vars
  <2>1. UNCHANGED <<t4, views, listed, lost>> /\ archive' = archive /\ changes' = changes
    BY <1>6 DEF Diff!vars
  <2>2. QED
    BY <2>1, DiffTypedIs, ArchiveKeeps
<1>7. QED
  BY <1>1, <1>2, <1>3, <1>4, <1>5, <1>6 DEF Diff!Next

LEMMA DiffHolds == ASSUME DiffConstants, DiffInv PROVE Diff!BaselinesAreHonest
<1>1. Diff!TypeOK
  BY DEF DiffInv, DiffTyped
<1>2. Diff!IntervalFitsTheLabel
  BY DEF DiffInv, Compared, Fits, Diff!IntervalFitsTheLabel
<1>3. Diff!RefusedOnlyWithoutBaseline
  <2>1. ASSUME t4.pc = "done", NEW w \in Diff!Range(Windows) \ lost, views[w] = Diff!NoView,
               NEW from \in Diff!Range(Diff!Sources)
        PROVE  Refused(w, listed[w][from])
    <3>1. PICK i \in DOMAIN Windows : Windows[i] = w
      BY WindowIs
    <3>2. QED
      BY <2>1, <3>1 DEF DiffInv, Behind, Passed
  <2>2. QED
    BY <2>1 DEF Diff!RefusedOnlyWithoutBaseline, Refused
<1>4. QED
  BY <1>1, <1>2, <1>3 DEF Diff!BaselinesAreHonest

-----------------------------------------------------------------------------
(* ManifestUpgrade.                                                           *)

Agree(pair) == pair["manifest"].rev = pair["terraform"].rev

\* What an upgrade writes is what it has read with another revision.
Matched(original, target) ==
  /\ \A f \in Upgrade!Files : target[f].edits = original[f].edits
  /\ Agree(target)
  /\ Agree(original) \/ unguarded

Known(original, target) == \A f \in Upgrade!Files : files[f] \in {original[f], target[f]}

Writing == {"journal", "terraform", "manifest", "unlink", "sync"}
Undoing == {"undo terraform", "undo manifest", "undo journal"}

\* What the command that runs has done so far.
Reached ==
  /\ cmd.pc \in {"recover", "restore manifest", "restore terraform", "forget"} => journal.there
  /\ cmd.pc \in {"restore manifest", "restore terraform", "forget"} =>
       Known(journal.original, journal.target)
  /\ cmd.pc \in {"restore terraform", "forget"} => files["manifest"] = journal.original["manifest"]
  /\ cmd.pc = "forget" => files["terraform"] = journal.original["terraform"]
  /\ cmd.pc = "prepare" => ~ journal.there
  /\ cmd.pc \in Writing \cup Undoing => Matched(cmd.original, cmd.target)
  /\ cmd.pc \in {"journal", "sync"} => ~ journal.there
  /\ cmd.pc \in {"terraform", "manifest", "unlink"} => journal = Upgrade!OwnJournal
  /\ cmd.pc \in {"journal", "terraform"} => files = cmd.original
  /\ cmd.pc = "manifest" =>
       files["terraform"] = cmd.target["terraform"] /\ files["manifest"] = cmd.original["manifest"]
  /\ cmd.pc \in {"unlink", "sync"} => files = cmd.target
  /\ cmd.pc \in Undoing =>
       /\ Known(cmd.original, cmd.target)
       /\ journal \in {Upgrade!NoJournal, Upgrade!OwnJournal}
       /\ ~ journal.there => files = cmd.original \/ unguarded
  /\ cmd.pc = "undo manifest" /\ cmd.clean => files["terraform"] = cmd.original["terraform"]
  /\ cmd.pc = "undo journal" => files = cmd.original
  /\ cmd.pc # "undo manifest" => cmd.clean

UpgradeInv ==
  /\ Upgrade!TypeOK
  /\ \A f \in Upgrade!Files : files[f].edits <= edits
  /\ journal.there =>
       /\ Matched(journal.original, journal.target)
       /\ \A f \in Upgrade!Files : journal.original[f].edits <= edits
  /\ ~ journal.there => Agree(files) \/ unguarded
  /\ Upgrade!JournalKnowsTheFiles
  /\ Reached

LEMMA UpgradeBegins ==
  ASSUME UpgradeConstants
  PROVE  Upgrade!Init => UpgradeInv
<1>1. SUFFICES ASSUME Upgrade!Init PROVE UpgradeInv
  OBVIOUS
<1>2. PICK r \in Revisions : files = [f \in Upgrade!Files |-> [Upgrade!Blank EXCEPT !.rev = r]]
  BY <1>1 DEF Upgrade!Init
<1>3. Upgrade!Blank \in Upgrade!Content
  <2>1. Upgrade!Blank.rev \in Revisions
    BY DEF UpgradeConstants, Upgrade!Blank
  <2>2. QED
    BY <2>1 DEF UpgradeConstants, Upgrade!Blank, Upgrade!Content
<1>4. PICK b \in Upgrade!Content : b = Upgrade!Blank
  BY <1>3
<1>5. [b EXCEPT !.rev = r] \in Upgrade!Content
  BY DEF Upgrade!Content
<1>6. \A f \in Upgrade!Files : files[f] = [b EXCEPT !.rev = r]
  BY <1>2, <1>4
<1>7. files \in Upgrade!Pair
  BY <1>2, <1>4, <1>5 DEF Upgrade!Pair
<1>8. Upgrade!BlankPair \in Upgrade!Pair
  BY <1>3 DEF Upgrade!BlankPair, Upgrade!Pair
<1>9. cmd.pc = "none" /\ cmd.clean /\ ~ journal.there /\ edits = 0
  BY <1>1 DEF Upgrade!Init, Upgrade!NoCommand, Upgrade!NoJournal
<1>10. Upgrade!TypeOK
  <2>1. cmd \in [pc : Upgrade!Steps, rev : Revisions, original : Upgrade!Pair,
                 target : Upgrade!Pair, clean : BOOLEAN]
    BY <1>1, <1>3, <1>8 DEF Upgrade!Init, Upgrade!NoCommand, Upgrade!Steps, Upgrade!Content
  <2>2. journal \in Upgrade!Journals
    BY <1>1 DEF Upgrade!Init, Upgrade!Journals
  <2>3. edits \in 0 .. MaxEdits /\ faults \in 0 .. MaxFaults
    BY <1>1 DEF Upgrade!Init, UpgradeConstants
  <2>4. unguarded \in BOOLEAN
    BY <1>1, Zenon DEF Upgrade!Init
  <2>5. QED
    BY <1>7, <2>1, <2>2, <2>3, <2>4 DEF Upgrade!TypeOK
<1>11. \A f \in Upgrade!Files : files[f].edits = 0 /\ files[f].rev = r
  <2>1. b.edits = 0
    BY <1>4 DEF Upgrade!Blank
  <2>2. QED
    BY <1>6, <2>1 DEF Upgrade!Content
<1>12. Agree(files)
  BY <1>11 DEF Agree, Upgrade!Files
<1>13. Reached
  BY <1>9 DEF Reached, Writing, Undoing
<1>14. QED
  BY <1>9, <1>10, <1>11, <1>12, <1>13 DEF UpgradeInv, Upgrade!JournalKnowsTheFiles

LEMMA UpgradeTyped ==
  ASSUME UpgradeInv
  PROVE  /\ files \in Upgrade!Pair /\ cmd.original \in Upgrade!Pair /\ cmd.target \in Upgrade!Pair
         /\ journal.there =>
              /\ journal.original \in Upgrade!Pair /\ journal.target \in Upgrade!Pair
              /\ journal = [there |-> TRUE, original |-> journal.original, target |-> journal.target]
         /\ ~ journal.there => journal = Upgrade!NoJournal
         /\ cmd.rev \in Revisions /\ cmd.pc \in Upgrade!Steps
         /\ edits \in 0 .. MaxEdits /\ faults \in 0 .. MaxFaults
<1>1. journal \in Upgrade!Journals
  BY DEF UpgradeInv, Upgrade!TypeOK
<1>2. CASE journal = Upgrade!NoJournal
  BY <1>2 DEF Upgrade!NoJournal, UpgradeInv, Upgrade!TypeOK
<1>3. CASE journal \in [there : {TRUE}, original : Upgrade!Pair, target : Upgrade!Pair]
  BY <1>3 DEF UpgradeInv, Upgrade!TypeOK
<1>4. QED
  BY <1>1, <1>2, <1>3 DEF Upgrade!Journals

\* A command that ends, or goes on.
LEMMA CommandIs ==
  ASSUME UpgradeConstants, UpgradeInv
  PROVE  /\ Upgrade!End =>
              /\ cmd' \in [pc : Upgrade!Steps, rev : Revisions, original : Upgrade!Pair,
                           target : Upgrade!Pair, clean : BOOLEAN]
              /\ cmd'.pc = "none" /\ cmd'.clean
         /\ \A pc \in Upgrade!Steps : Upgrade!Goto(pc) =>
              /\ cmd' \in [pc : Upgrade!Steps, rev : Revisions, original : Upgrade!Pair,
                           target : Upgrade!Pair, clean : BOOLEAN]
              /\ cmd'.pc = pc /\ cmd'.rev = cmd.rev /\ cmd'.clean = cmd.clean
              /\ cmd'.original = cmd.original /\ cmd'.target = cmd.target
<1>1. cmd \in [pc : Upgrade!Steps, rev : Revisions, original : Upgrade!Pair,
               target : Upgrade!Pair, clean : BOOLEAN]
  BY DEF UpgradeInv, Upgrade!TypeOK
<1>2. Upgrade!Blank \in Upgrade!Content
  <2>1. Upgrade!Blank.rev \in Revisions
    BY DEF UpgradeConstants, Upgrade!Blank
  <2>2. QED
    BY <2>1 DEF UpgradeConstants, Upgrade!Blank, Upgrade!Content
<1>3. Upgrade!BlankPair \in Upgrade!Pair
  BY <1>2 DEF Upgrade!BlankPair, Upgrade!Pair
<1>4. Upgrade!Blank.rev \in Revisions
  BY DEF UpgradeConstants, Upgrade!Blank
<1>5. ASSUME Upgrade!End
      PROVE  /\ cmd' \in [pc : Upgrade!Steps, rev : Revisions, original : Upgrade!Pair,
                          target : Upgrade!Pair, clean : BOOLEAN]
             /\ cmd'.pc = "none" /\ cmd'.clean
  BY <1>3, <1>4, <1>5 DEF Upgrade!End, Upgrade!NoCommand, Upgrade!Steps
<1>6. ASSUME NEW pc \in Upgrade!Steps, Upgrade!Goto(pc)
      PROVE  /\ cmd' \in [pc : Upgrade!Steps, rev : Revisions, original : Upgrade!Pair,
                          target : Upgrade!Pair, clean : BOOLEAN]
             /\ cmd'.pc = pc /\ cmd'.rev = cmd.rev /\ cmd'.clean = cmd.clean
             /\ cmd'.original = cmd.original /\ cmd'.target = cmd.target
  BY <1>1, <1>6 DEF Upgrade!Goto
<1>7. QED
  BY <1>5, <1>6

LEMMA PutIs ==
  ASSUME UpgradeInv, NEW f \in Upgrade!Files, NEW content \in Upgrade!Content,
         Upgrade!Put(f, content)
  PROVE  /\ files' \in Upgrade!Pair /\ files'[f] = content
         /\ \A g \in Upgrade!Files : g # f => files'[g] = files[g]
<1>1. files \in Upgrade!Pair
  BY UpgradeTyped
<1>2. QED
  BY <1>1 DEF Upgrade!Put, Upgrade!Pair


UpgradeType ==
  [pc : Upgrade!Steps, rev : Revisions, original : Upgrade!Pair, target : Upgrade!Pair,
   clean : BOOLEAN]

\* A step of a command, which counts no edit.
LEMMA CommandKeeps ==
  ASSUME UpgradeConstants, UpgradeInv,
         edits' = edits, faults' \in 0 .. MaxFaults,
         unguarded' \in BOOLEAN, unguarded => unguarded',
         files' \in Upgrade!Pair, cmd' \in UpgradeType,
         \A f \in Upgrade!Files : files'[f].edits = files[f].edits,
         \/ journal' \in {journal, Upgrade!NoJournal}
         \/ /\ journal' = Upgrade!OwnJournal /\ Matched(cmd.original, cmd.target)
            /\ \A f \in Upgrade!Files : cmd.original[f].edits = files[f].edits,
         ~ journal'.there => Agree(files') \/ unguarded',
         Upgrade!JournalKnowsTheFiles', Reached'
  PROVE  UpgradeInv'
<1>1. journal' \in Upgrade!Journals
  <2>1. journal \in Upgrade!Journals /\ Upgrade!NoJournal \in Upgrade!Journals
    BY DEF UpgradeInv, Upgrade!TypeOK, Upgrade!Journals
  <2>2. cmd.original \in Upgrade!Pair /\ cmd.target \in Upgrade!Pair
    BY UpgradeTyped
  <2>3. Upgrade!OwnJournal \in [there : {TRUE}, original : Upgrade!Pair, target : Upgrade!Pair]
    BY <2>2 DEF Upgrade!OwnJournal
  <2>4. QED
    BY <2>1, <2>3 DEF Upgrade!Journals
<1>2. Upgrade!TypeOK'
  BY <1>1 DEF Upgrade!TypeOK, UpgradeInv, UpgradeType
<1>3. \A f \in Upgrade!Files : files'[f].edits <= edits'
  BY DEF UpgradeInv
<1>4. journal'.there =>
        /\ Matched(journal.original, journal.target)'
        /\ \A f \in Upgrade!Files : journal'.original[f].edits <= edits'
  <2>1. CASE journal' = journal
    BY <2>1 DEF UpgradeInv, Matched, Agree
  <2>2. CASE journal' = Upgrade!NoJournal
    BY <2>2 DEF Upgrade!NoJournal
  <2>3. CASE /\ journal' = Upgrade!OwnJournal /\ Matched(cmd.original, cmd.target)
             /\ \A f \in Upgrade!Files : cmd.original[f].edits = files[f].edits
    <3>1. journal'.original = cmd.original /\ journal'.target = cmd.target
      BY <2>3 DEF Upgrade!OwnJournal
    <3>2. QED
      BY <2>3, <3>1 DEF UpgradeInv, Matched, Agree
  <2>4. QED
    BY <2>1, <2>2, <2>3
<1>5. QED
  BY <1>2, <1>3, <1>4 DEF UpgradeInv, Agree

\* What is written is the file's original or its target: the edits stay.
LEMMA WriteIs ==
  ASSUME UpgradeInv, NEW f \in Upgrade!Files, NEW content \in Upgrade!Content,
         files' = files \/ Upgrade!Put(f, content), content.edits = files[f].edits
  PROVE  /\ files' \in Upgrade!Pair
         /\ \A g \in Upgrade!Files : files'[g].edits = files[g].edits
         /\ \A g \in Upgrade!Files : files'[g] = files[g] \/ (g = f /\ files'[g] = content)
<1>1. CASE files' = files
  BY <1>1, UpgradeTyped
<1>2. CASE Upgrade!Put(f, content)
  BY <1>2, PutIs
<1>3. QED
  BY <1>1, <1>2


\* The operator's own steps, and the beginning of a command.
LEMMA EditKeeps ==
  ASSUME UpgradeConstants, UpgradeInv, NEW f \in Upgrade!Files, Upgrade!Edit(f)
  PROVE  UpgradeInv' /\ Upgrade!EditsKept
<1>1. /\ cmd.pc = "none" /\ edits < MaxEdits /\ edits' = edits + 1 /\ edits \in Nat
      /\ UNCHANGED <<journal, cmd, faults, unguarded>>
  BY UpgradeTyped DEF Upgrade!Edit, UpgradeConstants
<1>2. PICK content : content = [files[f] EXCEPT !.edits = edits + 1, !.sealed = (f = "terraform")]
  OBVIOUS
<1>3. files' = [files EXCEPT ![f] = content]
  BY <1>2 DEF Upgrade!Edit
<1>4. files[f] \in Upgrade!Content /\ edits + 1 \in 0 .. MaxEdits
  BY <1>1, UpgradeTyped DEF Upgrade!Pair, UpgradeConstants
<1>5. content \in Upgrade!Content /\ content.edits = edits + 1 /\ content.rev = files[f].rev
  <2>1. (f = "terraform") \in BOOLEAN
    OBVIOUS
  <2>2. QED
    BY <1>2, <1>4, <2>1 DEF Upgrade!Content
<1>6. Upgrade!Put(f, content)
  BY <1>3 DEF Upgrade!Put
<1>7. /\ files' \in Upgrade!Pair /\ files'[f] = content
      /\ \A g \in Upgrade!Files : g # f => files'[g] = files[g]
  BY <1>5, <1>6, PutIs
<1>8. \A g \in Upgrade!Files : files[g].edits \in Nat /\ files[g].edits <= edits
  BY UpgradeTyped DEF UpgradeInv, Upgrade!Pair, Upgrade!Content
<1>9. \A g \in Upgrade!Files : files'[g].rev = files[g].rev
  BY <1>5, <1>7
<1>10. Upgrade!TypeOK'
  BY <1>1, <1>4, <1>7 DEF UpgradeInv, Upgrade!TypeOK
<1>11. \A g \in Upgrade!Files : files'[g].edits <= edits' /\ files'[g].edits >= files[g].edits
  BY <1>1, <1>5, <1>7, <1>8
<1>12. ~ journal'.there => Agree(files') \/ unguarded'
  BY <1>1, <1>9 DEF UpgradeInv, Agree, Upgrade!Files
<1>13. journal'.there =>
         /\ Matched(journal.original, journal.target)'
         /\ \A g \in Upgrade!Files : journal'.original[g].edits <= edits'
  <2>1. journal.there => \A g \in Upgrade!Files : journal.original[g].edits \in Nat
    BY UpgradeTyped DEF Upgrade!Pair, Upgrade!Content
  <2>2. QED
    BY <1>1, <2>1 DEF UpgradeInv, Matched, Agree
<1>14. Upgrade!JournalKnowsTheFiles'
  <2>1. journal.there => \A g \in Upgrade!Files : journal.original[g].edits \in Nat
    BY UpgradeTyped DEF Upgrade!Pair, Upgrade!Content
  <2>2. ASSUME journal.there PROVE files'[f].edits > journal.original[f].edits
    BY <1>1, <1>5, <1>7, <2>1, <2>2 DEF UpgradeInv
  <2>3. QED
    BY <1>1, <1>7, <2>2 DEF UpgradeInv, Upgrade!JournalKnowsTheFiles
<1>15. Reached'
  BY <1>1 DEF Reached, Writing, Undoing, UpgradeInv
<1>16. QED
  BY <1>10, <1>11, <1>12, <1>13, <1>14, <1>15 DEF UpgradeInv, Upgrade!EditsKept, Agree

LEMMA RegenerateKeeps ==
  ASSUME UpgradeConstants, UpgradeInv, Upgrade!Regenerate
  PROVE  UpgradeInv' /\ Upgrade!EditsKept
<1>1. /\ cmd.pc = "none" /\ ~ journal.there /\ UNCHANGED <<journal, cmd, edits, faults, unguarded>>
  BY DEF Upgrade!Regenerate
<1>2. PICK prune \in BOOLEAN :
        files' = [files EXCEPT !["manifest"].sealed = TRUE, !["manifest"].pruned = @ \/ prune]
  BY DEF Upgrade!Regenerate
<1>3. PICK p \in BOOLEAN : p = (files["manifest"].pruned \/ prune)
  OBVIOUS
<1>4. PICK content : content = [files["manifest"] EXCEPT !.sealed = TRUE, !.pruned = p]
  OBVIOUS
<1>5. files["manifest"] \in Upgrade!Content
  BY UpgradeTyped DEF Upgrade!Pair, Upgrade!Files
<1>6. /\ content \in Upgrade!Content /\ content.edits = files["manifest"].edits
      /\ content.rev = files["manifest"].rev
  BY <1>4, <1>5 DEF Upgrade!Content
<1>7. Upgrade!Put("manifest", content)
  BY <1>2, <1>3, <1>4, <1>5 DEF Upgrade!Put, Upgrade!Content
<1>8. /\ files' \in Upgrade!Pair /\ files'["manifest"] = content
      /\ files'["terraform"] = files["terraform"]
  BY <1>6, <1>7, PutIs DEF Upgrade!Files
<1>9. \A f \in Upgrade!Files : files'[f].edits = files[f].edits /\ files'[f].rev = files[f].rev
  BY <1>6, <1>8 DEF Upgrade!Files
<1>10. cmd' \in UpgradeType /\ faults' \in 0 .. MaxFaults /\ unguarded' \in BOOLEAN
  BY <1>1 DEF UpgradeInv, Upgrade!TypeOK, UpgradeType
<1>11. Agree(files') \/ unguarded'
  BY <1>1, <1>9 DEF UpgradeInv, Agree, Upgrade!Files
<1>12. Upgrade!JournalKnowsTheFiles' /\ Reached'
  BY <1>1 DEF Upgrade!JournalKnowsTheFiles, Reached, Writing, Undoing, UpgradeInv
<1>13. UpgradeInv'
  BY <1>1, <1>8, <1>9, <1>10, <1>11, <1>12, CommandKeeps
<1>14. \A f \in Upgrade!Files : files[f].edits \in Nat
  BY UpgradeTyped DEF Upgrade!Pair, Upgrade!Content
<1>15. QED
  BY <1>9, <1>13, <1>14 DEF Upgrade!EditsKept


LEMMA StartKeeps ==
  ASSUME UpgradeConstants, UpgradeInv, NEW r \in Revisions, Upgrade!Upgrade(r)
  PROVE  UpgradeInv'
<1>1. cmd.pc = "none" /\ UNCHANGED <<files, journal, edits, faults, unguarded>>
  BY DEF Upgrade!Upgrade
<1>2. PICK pc \in {"recover", "prepare"} :
        (pc = "recover" <=> journal.there) /\ cmd' = [Upgrade!NoCommand EXCEPT !.pc = pc, !.rev = r]
  BY DEF Upgrade!Upgrade
<1>3. Upgrade!BlankPair \in Upgrade!Pair
  BY CommandIs DEF Upgrade!Blank, UpgradeConstants, Upgrade!BlankPair, Upgrade!Pair, Upgrade!Content
<1>4. cmd' \in UpgradeType /\ cmd'.pc = pc /\ cmd'.clean
  BY <1>2, <1>3 DEF UpgradeType, Upgrade!NoCommand, Upgrade!Steps
<1>5. Reached'
  BY <1>1, <1>2, <1>4 DEF Reached, Writing, Undoing
<1>6. \A f \in Upgrade!Files : files'[f].edits = files[f].edits
  BY <1>1
<1>7. ~ journal'.there => Agree(files') \/ unguarded'
  BY <1>1 DEF UpgradeInv
<1>8. Upgrade!JournalKnowsTheFiles'
  BY <1>1 DEF UpgradeInv, Upgrade!JournalKnowsTheFiles
<1>9. files' \in Upgrade!Pair /\ faults' \in 0 .. MaxFaults /\ unguarded' \in BOOLEAN
  BY <1>1 DEF UpgradeInv, Upgrade!TypeOK
<1>10. QED
  BY <1>1, <1>4, <1>5, <1>6, <1>7, <1>8, <1>9, CommandKeeps

\* A command that stops where the files are known to its journal, or there is none.
LEMMA StopKeeps ==
  ASSUME UpgradeConstants, UpgradeInv, Upgrade!End,
         UNCHANGED <<edits, unguarded>>, faults' \in 0 .. MaxFaults,
         files' \in Upgrade!Pair, \A f \in Upgrade!Files : files'[f].edits = files[f].edits,
         journal' \in {journal, Upgrade!NoJournal},
         ~ journal'.there => Agree(files') \/ unguarded',
         Upgrade!JournalKnowsTheFiles'
  PROVE  UpgradeInv'
<1>1. cmd' \in UpgradeType /\ cmd'.pc = "none" /\ cmd'.clean
  BY CommandIs DEF UpgradeType
<1>2. Reached'
  BY <1>1 DEF Reached, Writing, Undoing
<1>3. unguarded' \in BOOLEAN
  BY DEF UpgradeInv, Upgrade!TypeOK
<1>4. QED
  BY <1>1, <1>2, <1>3, CommandKeeps

LEMMA FaultIs ==
  ASSUME UpgradeConstants, UpgradeInv, Upgrade!Fault \/ UNCHANGED faults
  PROVE  faults' \in 0 .. MaxFaults
BY UpgradeTyped DEF Upgrade!Fault, UpgradeConstants

LEMMA RecoverKeeps ==
  ASSUME UpgradeConstants, UpgradeInv, Upgrade!Recover
  PROVE  UpgradeInv'
<1>1. cmd.pc = "recover" /\ UNCHANGED <<files, journal, edits, faults, unguarded>>
  BY DEF Upgrade!Recover
<1>2. /\ files' \in Upgrade!Pair /\ faults' \in 0 .. MaxFaults /\ unguarded' \in BOOLEAN
      /\ \A f \in Upgrade!Files : files'[f].edits = files[f].edits
      /\ ~ journal'.there => Agree(files') \/ unguarded'
      /\ Upgrade!JournalKnowsTheFiles'
  BY <1>1 DEF UpgradeInv, Upgrade!TypeOK, Upgrade!JournalKnowsTheFiles
<1>3. CASE Upgrade!End
  BY <1>1, <1>2, <1>3, StopKeeps
<1>4. CASE Upgrade!Goto("restore manifest") /\ Known(journal.original, journal.target)
  <2>1. cmd' \in UpgradeType /\ cmd'.pc = "restore manifest" /\ cmd'.clean = cmd.clean
    BY <1>4, CommandIs DEF UpgradeType, Upgrade!Steps
  <2>2. journal.there /\ cmd.clean
    BY <1>1 DEF UpgradeInv, Reached
  <2>3. Reached'
    BY <1>1, <1>4, <2>1, <2>2 DEF Reached, Writing, Undoing, Known
  <2>4. QED
    BY <1>1, <1>2, <2>1, <2>3, CommandKeeps
<1>5. QED
  BY <1>3, <1>4 DEF Upgrade!Recover, Known

LEMMA RestoreKeeps ==
  ASSUME UpgradeConstants, UpgradeInv, Upgrade!RestoreManifest \/ Upgrade!RestoreTerraform
  PROVE  UpgradeInv' /\ \A f \in Upgrade!Files : files'[f].edits = files[f].edits
<1>1. PICK f \in Upgrade!Files :
        /\ cmd.pc = IF f = "manifest" THEN "restore manifest" ELSE "restore terraform"
        /\ \/ Upgrade!Written(f, journal.original[f],
                              IF f = "manifest" THEN "restore terraform" ELSE "forget")
           \/ Upgrade!WriteFails(f, journal.original[f]) /\ Upgrade!End /\ UNCHANGED unguarded
  BY DEF Upgrade!RestoreManifest, Upgrade!RestoreTerraform, Upgrade!Files
<1>2. /\ journal.there /\ Known(journal.original, journal.target)
      /\ Matched(journal.original, journal.target) /\ cmd.clean
      /\ f = "terraform" => files["manifest"] = journal.original["manifest"]
  BY <1>1 DEF UpgradeInv, Reached
<1>3. PICK content : content = journal.original[f]
  OBVIOUS
<1>4. content \in Upgrade!Content /\ content.edits = files[f].edits
  BY <1>2, <1>3, UpgradeTyped DEF Upgrade!Pair, Known, Matched
<1>5. /\ files' = files \/ Upgrade!Put(f, content)
      /\ UNCHANGED <<journal, edits, unguarded>> /\ (Upgrade!Fault \/ UNCHANGED faults)
  BY <1>1, <1>3 DEF Upgrade!Written, Upgrade!WriteFails
<1>6. /\ files' \in Upgrade!Pair
      /\ \A g \in Upgrade!Files : files'[g].edits = files[g].edits
      /\ \A g \in Upgrade!Files : files'[g] = files[g] \/ (g = f /\ files'[g] = content)
  BY <1>4, <1>5, WriteIs
<1>7. Known(journal.original, journal.target)'
  BY <1>2, <1>3, <1>5, <1>6 DEF Known
<1>8. /\ ~ journal'.there => Agree(files') \/ unguarded'
      /\ Upgrade!JournalKnowsTheFiles'
      /\ faults' \in 0 .. MaxFaults
  BY <1>2, <1>5, <1>7, FaultIs DEF Known, Upgrade!JournalKnowsTheFiles
<1>9. CASE Upgrade!End
  BY <1>5, <1>6, <1>8, <1>9, StopKeeps
<1>10. CASE Upgrade!Written(f, journal.original[f],
                            IF f = "manifest" THEN "restore terraform" ELSE "forget")
  <2>1. Upgrade!Put(f, content)
    BY <1>3, <1>10 DEF Upgrade!Written
  <2>2. files'[f] = content /\ \A g \in Upgrade!Files : g # f => files'[g] = files[g]
    BY <1>4, <2>1, PutIs
  <2>3. PICK pc \in {"restore terraform", "forget"} :
          (pc = "forget" <=> f = "terraform") /\ Upgrade!Goto(pc)
    BY <1>10 DEF Upgrade!Written, Upgrade!Files
  <2>4. cmd' \in UpgradeType /\ cmd'.pc = pc /\ cmd'.clean = cmd.clean
    BY <2>3, CommandIs DEF UpgradeType, Upgrade!Steps
  <2>5. Reached'
    BY <1>2, <1>3, <1>5, <1>7, <2>2, <2>3, <2>4 DEF Reached, Writing, Undoing, Upgrade!Files
  <2>6. unguarded' \in BOOLEAN
    BY <1>5 DEF UpgradeInv, Upgrade!TypeOK
  <2>7. QED
    BY <1>5, <1>6, <1>8, <2>4, <2>5, <2>6, CommandKeeps
<1>11. QED
  BY <1>1, <1>6, <1>9, <1>10

LEMMA ForgetKeeps ==
  ASSUME UpgradeConstants, UpgradeInv, Upgrade!Forget
  PROVE  UpgradeInv'
<1>1. /\ cmd.pc = "forget" /\ UNCHANGED <<files, edits, unguarded>>
      /\ journal' \in {journal, Upgrade!NoJournal} /\ (Upgrade!Fault \/ UNCHANGED faults)
      /\ \/ journal' = Upgrade!NoJournal /\ Upgrade!Goto("prepare")
         \/ Upgrade!End
  BY DEF Upgrade!Forget
<1>2. /\ journal.there /\ Matched(journal.original, journal.target) /\ cmd.clean
      /\ files["manifest"] = journal.original["manifest"]
      /\ files["terraform"] = journal.original["terraform"]
  BY <1>1 DEF UpgradeInv, Reached
<1>3. Agree(files') \/ unguarded'
  BY <1>1, <1>2 DEF Matched, Agree
<1>4. ~ Upgrade!NoJournal.there
  BY DEF Upgrade!NoJournal
<1>5. Upgrade!JournalKnowsTheFiles'
  BY <1>1, <1>4 DEF UpgradeInv, Upgrade!JournalKnowsTheFiles
<1>6. files' \in Upgrade!Pair /\ faults' \in 0 .. MaxFaults /\ unguarded' \in BOOLEAN
  BY <1>1, FaultIs DEF UpgradeInv, Upgrade!TypeOK
<1>7. \A f \in Upgrade!Files : files'[f].edits = files[f].edits
  BY <1>1
<1>8. CASE Upgrade!End
  BY <1>1, <1>3, <1>5, <1>6, <1>7, <1>8, StopKeeps
<1>9. CASE journal' = Upgrade!NoJournal /\ Upgrade!Goto("prepare")
  <2>1. cmd' \in UpgradeType /\ cmd'.pc = "prepare" /\ cmd'.clean = cmd.clean
    BY <1>9, CommandIs DEF UpgradeType, Upgrade!Steps
  <2>2. Reached'
    BY <1>2, <1>4, <1>9, <2>1 DEF Reached, Writing, Undoing
  <2>3. QED
    BY <1>1, <1>3, <1>5, <1>6, <1>7, <2>1, <2>2, CommandKeeps
<1>10. QED
  BY <1>1, <1>8, <1>9


LEMMA PrepareKeeps ==
  ASSUME UpgradeConstants, UpgradeInv, Upgrade!Prepare
  PROVE  UpgradeInv'
<1>1. cmd.pc = "prepare" /\ UNCHANGED <<files, journal, edits, faults, unguarded>>
  BY DEF Upgrade!Prepare
<1>2. ~ journal.there /\ cmd.clean /\ (Agree(files) \/ unguarded)
  BY <1>1 DEF UpgradeInv, Reached
<1>3. /\ files' \in Upgrade!Pair /\ faults' \in 0 .. MaxFaults /\ unguarded' \in BOOLEAN
      /\ \A f \in Upgrade!Files : files'[f].edits = files[f].edits
      /\ ~ journal'.there => Agree(files') \/ unguarded'
      /\ Upgrade!JournalKnowsTheFiles'
  BY <1>1, <1>2 DEF UpgradeInv, Upgrade!TypeOK, Upgrade!JournalKnowsTheFiles
<1>4. CASE Upgrade!End
  BY <1>1, <1>3, <1>4, StopKeeps
<1>5. CASE cmd' = [cmd EXCEPT !.pc = "journal", !.original = files,
                              !.target = [f \in Upgrade!Files |-> [files[f] EXCEPT !.rev = cmd.rev]]]
  <2>1. PICK target : target = [f \in Upgrade!Files |-> [files[f] EXCEPT !.rev = cmd.rev]]
    OBVIOUS
  <2>2. \A f \in Upgrade!Files :
          /\ target[f] \in Upgrade!Content
          /\ target[f].rev = cmd.rev /\ target[f].edits = files[f].edits
    BY <2>1, UpgradeTyped DEF Upgrade!Pair, Upgrade!Content
  <2>3. target \in Upgrade!Pair
    BY <2>1, <2>2 DEF Upgrade!Pair
  <2>4. cmd \in UpgradeType /\ files \in Upgrade!Pair
    BY UpgradeTyped DEF UpgradeInv, Upgrade!TypeOK, UpgradeType
  <2>5. cmd' = [cmd EXCEPT !.pc = "journal", !.original = files, !.target = target]
    BY <1>5, <2>1
  <2>6. /\ cmd' \in UpgradeType /\ cmd'.pc = "journal" /\ cmd'.original = files
        /\ cmd'.target = target /\ cmd'.clean = cmd.clean
    BY <2>3, <2>4, <2>5 DEF UpgradeType, Upgrade!Steps
  <2>7. Matched(cmd.original, cmd.target)'
    BY <1>1, <1>2, <2>2, <2>6 DEF Matched, Agree, Upgrade!Files
  <2>8. Reached'
    BY <1>1, <1>2, <2>6, <2>7 DEF Reached, Writing, Undoing
  <2>9. QED
    BY <1>1, <1>3, <2>6, <2>8, CommandKeeps
<1>6. QED
  BY <1>4, <1>5 DEF Upgrade!Prepare

\* What a command that writes holds in memory does not change.
LEMMA OwnIs ==
  ASSUME UpgradeInv, cmd.pc \in Writing \cup Undoing
  PROVE  /\ Matched(cmd.original, cmd.target)
         /\ cmd.pc # "undo manifest" => cmd.clean
         /\ Known(cmd.original, cmd.target)
         /\ \A f \in Upgrade!Files :
              /\ cmd.original[f] \in Upgrade!Content /\ cmd.target[f] \in Upgrade!Content
              /\ cmd.original[f].edits = files[f].edits /\ cmd.target[f].edits = files[f].edits
         /\ journal \in {Upgrade!NoJournal, Upgrade!OwnJournal}
<1>1. Matched(cmd.original, cmd.target) /\ (cmd.pc # "undo manifest" => cmd.clean)
  BY DEF UpgradeInv, Reached
<1>2. Known(cmd.original, cmd.target)
  BY DEF UpgradeInv, Reached, Known, Writing, Undoing, Upgrade!Files
<1>3. journal \in {Upgrade!NoJournal, Upgrade!OwnJournal}
  BY UpgradeTyped DEF UpgradeInv, Reached, Writing, Undoing
<1>4. QED
  BY <1>1, <1>2, <1>3, UpgradeTyped DEF Known, Matched, Upgrade!Pair

\* A command that goes on to a step of its own.
LEMMA OwnKeeps ==
  ASSUME UpgradeConstants, UpgradeInv, cmd.pc \in Writing \cup Undoing,
         cmd' \in UpgradeType, cmd'.original = cmd.original, cmd'.target = cmd.target,
         edits' = edits, Upgrade!Fault \/ UNCHANGED faults,
         unguarded' \in BOOLEAN, unguarded => unguarded',
         files' \in Upgrade!Pair, \A f \in Upgrade!Files : files'[f].edits = files[f].edits,
         Known(cmd.original, cmd.target)',
         journal' \in {Upgrade!NoJournal, Upgrade!OwnJournal},
         ~ journal'.there => Agree(files') \/ unguarded',
         Matched(cmd.original, cmd.target)' => Reached'
  PROVE  UpgradeInv'
<1>1. Matched(cmd.original, cmd.target)'
  BY OwnIs DEF Matched, Agree
<1>2. Upgrade!JournalKnowsTheFiles'
  BY DEF Known, Upgrade!JournalKnowsTheFiles, Upgrade!OwnJournal, Upgrade!NoJournal
<1>3. faults' \in 0 .. MaxFaults
  BY FaultIs
<1>4. QED
  BY <1>1, <1>2, <1>3, OwnIs, CommandKeeps

LEMMA WriteJournalKeeps ==
  ASSUME UpgradeConstants, UpgradeInv, Upgrade!WriteJournal
  PROVE  UpgradeInv'
<1>1. /\ cmd.pc = "journal" /\ UNCHANGED <<files, edits, unguarded>>
      /\ \/ journal' = Upgrade!OwnJournal /\ Upgrade!Goto("terraform") /\ UNCHANGED faults
         \/ /\ Upgrade!Fault /\ journal' \in {journal, Upgrade!OwnJournal}
            /\ Upgrade!Goto("undo terraform")
  BY DEF Upgrade!WriteJournal, Upgrade!Undo
<1>2. cmd.pc \in Writing
  BY <1>1 DEF Writing
<1>3. files = cmd.original /\ ~ journal.there /\ cmd.clean
  BY <1>1 DEF UpgradeInv, Reached
<1>4. /\ files' \in Upgrade!Pair /\ unguarded' \in BOOLEAN
      /\ \A f \in Upgrade!Files : files'[f].edits = files[f].edits
      /\ ~ journal'.there => Agree(files') \/ unguarded'
  BY <1>1, <1>3 DEF UpgradeInv, Upgrade!TypeOK
<1>5. PICK pc \in {"terraform", "undo terraform"} :
        Upgrade!Goto(pc) /\ (pc = "terraform" => journal' = Upgrade!OwnJournal)
  BY <1>1
<1>6. /\ cmd' \in UpgradeType /\ cmd'.pc = pc /\ cmd'.clean = cmd.clean
      /\ cmd'.original = cmd.original /\ cmd'.target = cmd.target
  BY <1>5, CommandIs DEF UpgradeType, Upgrade!Steps
<1>7. journal' \in {Upgrade!NoJournal, Upgrade!OwnJournal}
  BY <1>1, <1>2, OwnIs
<1>8. Upgrade!OwnJournal' = Upgrade!OwnJournal
  BY <1>6 DEF Upgrade!OwnJournal
<1>9. Known(cmd.original, cmd.target)'
  BY <1>1, <1>2, <1>6, OwnIs DEF Known
<1>10. Matched(cmd.original, cmd.target)' => Reached'
  BY <1>1, <1>3, <1>5, <1>6, <1>7, <1>8, <1>9 DEF Reached, Writing, Undoing
<1>11. QED
  BY <1>1, <1>2, <1>4, <1>6, <1>7, <1>9, <1>10, OwnKeeps

LEMMA WriteTargetsKeeps ==
  ASSUME UpgradeConstants, UpgradeInv, Upgrade!WriteTerraform \/ Upgrade!WriteManifest
  PROVE  UpgradeInv' /\ \A f \in Upgrade!Files : files'[f].edits = files[f].edits
<1>1. PICK f \in Upgrade!Files :
        /\ cmd.pc = f
        /\ \/ Upgrade!Written(f, cmd.target[f], IF f = "terraform" THEN "manifest" ELSE "unlink")
           \/ /\ Upgrade!WriteFails(f, cmd.target[f])
              /\ Upgrade!Goto("undo terraform") /\ UNCHANGED unguarded
  BY DEF Upgrade!WriteTerraform, Upgrade!WriteManifest, Upgrade!Files, Upgrade!Undo
<1>2. /\ journal = Upgrade!OwnJournal /\ cmd.clean /\ cmd.pc \in Writing
      /\ f = "terraform" => files = cmd.original
      /\ f = "manifest" => /\ files["terraform"] = cmd.target["terraform"]
                           /\ files["manifest"] = cmd.original["manifest"]
  BY <1>1 DEF UpgradeInv, Reached, Writing, Upgrade!Files
<1>3. PICK content : content = cmd.target[f]
  OBVIOUS
<1>4. content \in Upgrade!Content /\ content.edits = files[f].edits
  BY <1>2, <1>3, OwnIs
<1>5. /\ files' = files \/ Upgrade!Put(f, content)
      /\ UNCHANGED <<journal, edits, unguarded>> /\ (Upgrade!Fault \/ UNCHANGED faults)
  BY <1>1, <1>3 DEF Upgrade!Written, Upgrade!WriteFails
<1>6. /\ files' \in Upgrade!Pair
      /\ \A g \in Upgrade!Files : files'[g].edits = files[g].edits
      /\ \A g \in Upgrade!Files : files'[g] = files[g] \/ (g = f /\ files'[g] = content)
  BY <1>4, <1>5, WriteIs
<1>7. PICK pc \in {"manifest", "unlink", "undo terraform"} :
        /\ Upgrade!Goto(pc)
        /\ pc # "undo terraform" => Upgrade!Put(f, content)
        /\ pc = "manifest" => f = "terraform"
        /\ pc = "unlink" => f = "manifest"
  BY <1>1, <1>3 DEF Upgrade!Written, Upgrade!Files
<1>8. /\ cmd' \in UpgradeType /\ cmd'.pc = pc /\ cmd'.clean = cmd.clean
      /\ cmd'.original = cmd.original /\ cmd'.target = cmd.target
  BY <1>7, CommandIs DEF UpgradeType, Upgrade!Steps
<1>9. Known(cmd.original, cmd.target)'
  BY <1>2, <1>3, <1>6, <1>8, OwnIs DEF Known
<1>10. journal' = Upgrade!OwnJournal' /\ journal'.there /\ journal' = Upgrade!OwnJournal
  BY <1>2, <1>5, <1>8 DEF Upgrade!OwnJournal
<1>11. pc = "manifest" => /\ files'["terraform"] = cmd.target["terraform"]
                          /\ files'["manifest"] = cmd.original["manifest"]
  BY <1>2, <1>3, <1>4, <1>7, PutIs DEF Upgrade!Files
<1>12. pc = "unlink" => files' = cmd.target
  <2>1. ASSUME pc = "unlink" PROVE \A g \in Upgrade!Files : files'[g] = cmd.target[g]
    BY <1>2, <1>3, <1>4, <1>7, <2>1, PutIs DEF Upgrade!Files
  <2>2. QED
    BY <1>6, <2>1, UpgradeTyped DEF Upgrade!Pair
<1>13. Matched(cmd.original, cmd.target)' => Reached'
  BY <1>2, <1>7, <1>8, <1>9, <1>10, <1>11, <1>12 DEF Reached, Writing, Undoing
<1>14. unguarded' \in BOOLEAN
  BY <1>5 DEF UpgradeInv, Upgrade!TypeOK
<1>15. UpgradeInv'
  BY <1>2, <1>5, <1>6, <1>8, <1>9, <1>10, <1>13, <1>14, OwnKeeps
<1>16. QED
  BY <1>6, <1>15


LEMMA UnlinkKeeps ==
  ASSUME UpgradeConstants, UpgradeInv, Upgrade!Unlink
  PROVE  UpgradeInv'
<1>1. /\ cmd.pc = "unlink" /\ UNCHANGED <<files, edits, unguarded>>
      /\ \/ journal' = Upgrade!NoJournal /\ Upgrade!Goto("sync") /\ UNCHANGED faults
         \/ Upgrade!Fault /\ Upgrade!Goto("undo terraform") /\ UNCHANGED journal
  BY DEF Upgrade!Unlink, Upgrade!Undo
<1>2. /\ files = cmd.target /\ journal = Upgrade!OwnJournal /\ cmd.clean /\ cmd.pc \in Writing
  BY <1>1 DEF UpgradeInv, Reached, Writing
<1>3. PICK pc \in {"sync", "undo terraform"} :
        /\ Upgrade!Goto(pc)
        /\ pc = "sync" => journal' = Upgrade!NoJournal
        /\ pc # "sync" => journal' = Upgrade!OwnJournal
  BY <1>1, <1>2
<1>4. /\ cmd' \in UpgradeType /\ cmd'.pc = pc /\ cmd'.clean = cmd.clean
      /\ cmd'.original = cmd.original /\ cmd'.target = cmd.target
  BY <1>3, CommandIs DEF UpgradeType, Upgrade!Steps
<1>5. /\ Known(cmd.original, cmd.target)' /\ Agree(files')
      /\ \A f \in Upgrade!Files : files'[f].edits = files[f].edits
  BY <1>1, <1>2, <1>4, OwnIs DEF Known, Matched
<1>6. Upgrade!OwnJournal' = Upgrade!OwnJournal /\ Upgrade!OwnJournal.there /\ ~ Upgrade!NoJournal.there
  BY <1>4 DEF Upgrade!OwnJournal, Upgrade!NoJournal
<1>7. Matched(cmd.original, cmd.target)' => Reached'
  BY <1>1, <1>2, <1>3, <1>4, <1>5, <1>6 DEF Reached, Writing, Undoing
<1>8. files' \in Upgrade!Pair /\ unguarded' \in BOOLEAN
  BY <1>1 DEF UpgradeInv, Upgrade!TypeOK
<1>9. QED
  BY <1>1, <1>2, <1>3, <1>4, <1>5, <1>7, <1>8, OwnKeeps

LEMMA SyncKeeps ==
  ASSUME UpgradeConstants, UpgradeInv, Upgrade!Sync
  PROVE  UpgradeInv'
<1>1. /\ cmd.pc = "sync" /\ UNCHANGED <<files, journal, edits>>
      /\ \/ Upgrade!End /\ UNCHANGED <<faults, unguarded>>
         \/ Upgrade!Fault /\ Upgrade!Goto("undo terraform") /\ unguarded' = TRUE
  BY DEF Upgrade!Sync, Upgrade!Undo
<1>2. files = cmd.target /\ ~ journal.there /\ cmd.clean /\ cmd.pc \in Writing
  BY <1>1 DEF UpgradeInv, Reached, Writing
<1>3. /\ Agree(files') /\ Known(cmd.original, cmd.target)
      /\ \A f \in Upgrade!Files : files'[f].edits = files[f].edits
      /\ files' \in Upgrade!Pair /\ Upgrade!JournalKnowsTheFiles'
  BY <1>1, <1>2, OwnIs DEF Known, Matched, UpgradeInv, Upgrade!TypeOK, Upgrade!JournalKnowsTheFiles
<1>4. faults' \in 0 .. MaxFaults
  BY <1>1, FaultIs
<1>5. CASE Upgrade!End /\ UNCHANGED <<faults, unguarded>>
  BY <1>1, <1>3, <1>4, <1>5, StopKeeps
<1>6. CASE Upgrade!Fault /\ Upgrade!Goto("undo terraform") /\ unguarded' = TRUE
  <2>1. /\ cmd' \in UpgradeType /\ cmd'.pc = "undo terraform" /\ cmd'.clean = cmd.clean
        /\ cmd'.original = cmd.original /\ cmd'.target = cmd.target
    BY <1>6, CommandIs DEF UpgradeType, Upgrade!Steps
  <2>2. Known(cmd.original, cmd.target)'
    BY <1>1, <1>3, <2>1 DEF Known
  <2>3. journal' = Upgrade!NoJournal
    BY <1>1, <1>2, UpgradeTyped
  <2>4. unguarded' \in BOOLEAN
    BY <1>6, Zenon
  <2>5. Matched(cmd.original, cmd.target)' => Reached'
    BY <1>2, <1>6, <2>1, <2>2, <2>3 DEF Reached, Writing, Undoing
  <2>6. QED
    BY <1>1, <1>2, <1>3, <1>6, <2>1, <2>2, <2>3, <2>4, <2>5, OwnKeeps
<1>7. QED
  BY <1>1, <1>5, <1>6

\* Two pairs of files that agree in each file are the same.
LEMMA SamePair ==
  ASSUME NEW one \in Upgrade!Pair, NEW other \in Upgrade!Pair,
         \A g \in Upgrade!Files : one[g] = other[g]
  PROVE  one = other
BY DEF Upgrade!Pair

LEMMA UndoTerraformKeeps ==
  ASSUME UpgradeConstants, UpgradeInv, Upgrade!UndoTerraform
  PROVE  UpgradeInv' /\ \A f \in Upgrade!Files : files'[f].edits = files[f].edits
<1>1. /\ cmd.pc = "undo terraform"
      /\ \/ Upgrade!Written("terraform", cmd.original["terraform"], "undo manifest")
         \/ /\ Upgrade!WriteFails("terraform", cmd.original["terraform"])
            /\ cmd' = [cmd EXCEPT !.pc = "undo manifest", !.clean = FALSE]
            /\ UNCHANGED unguarded
  BY DEF Upgrade!UndoTerraform
<1>2. cmd.pc \in Undoing /\ cmd.clean /\ (~ journal.there => files = cmd.original \/ unguarded)
  BY <1>1 DEF UpgradeInv, Reached, Undoing
<1>3. PICK content : content = cmd.original["terraform"]
  OBVIOUS
<1>4. content \in Upgrade!Content /\ content.edits = files["terraform"].edits
  BY <1>2, <1>3, OwnIs DEF Upgrade!Files
<1>5. /\ files' = files \/ Upgrade!Put("terraform", content)
      /\ UNCHANGED <<journal, edits, unguarded>> /\ (Upgrade!Fault \/ UNCHANGED faults)
  BY <1>1, <1>3 DEF Upgrade!Written, Upgrade!WriteFails
<1>6. /\ files' \in Upgrade!Pair
      /\ \A g \in Upgrade!Files : files'[g].edits = files[g].edits
      /\ \A g \in Upgrade!Files :
           files'[g] = files[g] \/ (g = "terraform" /\ files'[g] = content)
  BY <1>4, <1>5, WriteIs DEF Upgrade!Files
<1>7. /\ cmd' \in UpgradeType /\ cmd'.pc = "undo manifest"
      /\ cmd'.original = cmd.original /\ cmd'.target = cmd.target
      /\ cmd'.clean => Upgrade!Put("terraform", content)
  <2>1. CASE Upgrade!Written("terraform", cmd.original["terraform"], "undo manifest")
    BY <1>3, <2>1, CommandIs DEF Upgrade!Written, UpgradeType, Upgrade!Steps
  <2>2. CASE cmd' = [cmd EXCEPT !.pc = "undo manifest", !.clean = FALSE]
    BY <2>2 DEF UpgradeType, Upgrade!Steps, UpgradeInv, Upgrade!TypeOK
  <2>3. QED
    BY <1>1, <2>1, <2>2
<1>8. Known(cmd.original, cmd.target)'
  BY <1>2, <1>3, <1>6, <1>7, OwnIs DEF Known
<1>9. ~ journal'.there => files' = cmd'.original \/ unguarded'
  <2>1. ASSUME files = cmd.original PROVE files' = cmd'.original
    <3>1. \A g \in Upgrade!Files : files'[g] = cmd.original[g]
      BY <1>3, <1>6, <2>1
    <3>2. QED
      BY <1>6, <1>7, <3>1, UpgradeTyped, SamePair
  <2>2. QED
    BY <1>2, <1>5, <2>1
<1>10. cmd'.clean => files'["terraform"] = cmd'.original["terraform"]
  BY <1>3, <1>4, <1>7, PutIs DEF Upgrade!Files
<1>11. /\ journal' \in {Upgrade!NoJournal, Upgrade!OwnJournal}
       /\ Upgrade!OwnJournal' = Upgrade!OwnJournal
  BY <1>2, <1>5, <1>7, OwnIs DEF Upgrade!OwnJournal
<1>12. Matched(cmd.original, cmd.target)' => Reached'
  BY <1>7, <1>8, <1>9, <1>10, <1>11 DEF Reached, Writing, Undoing
<1>13. ~ journal'.there => Agree(files') \/ unguarded'
  BY <1>2, <1>5, <1>7, <1>9, OwnIs DEF Matched, Agree
<1>14. unguarded' \in BOOLEAN
  BY <1>5 DEF UpgradeInv, Upgrade!TypeOK
<1>15. UpgradeInv'
  BY <1>2, <1>5, <1>6, <1>7, <1>8, <1>11, <1>12, <1>13, <1>14, OwnKeeps
<1>16. QED
  BY <1>6, <1>15

LEMMA UndoManifestKeeps ==
  ASSUME UpgradeConstants, UpgradeInv, Upgrade!UndoManifest
  PROVE  UpgradeInv' /\ \A f \in Upgrade!Files : files'[f].edits = files[f].edits
<1>1. /\ cmd.pc = "undo manifest"
      /\ \/ /\ Upgrade!Put("manifest", cmd.original["manifest"])
            /\ IF cmd.clean THEN Upgrade!Goto("undo journal") ELSE Upgrade!End
            /\ UNCHANGED <<journal, edits, faults, unguarded>>
         \/ /\ Upgrade!WriteFails("manifest", cmd.original["manifest"])
            /\ Upgrade!End /\ UNCHANGED unguarded
  BY DEF Upgrade!UndoManifest
<1>2. /\ cmd.pc \in Undoing /\ (~ journal.there => files = cmd.original \/ unguarded)
      /\ cmd.clean => files["terraform"] = cmd.original["terraform"]
  BY <1>1 DEF UpgradeInv, Reached, Undoing
<1>3. PICK content : content = cmd.original["manifest"]
  OBVIOUS
<1>4. content \in Upgrade!Content /\ content.edits = files["manifest"].edits
  BY <1>2, <1>3, OwnIs DEF Upgrade!Files
<1>5. /\ files' = files \/ Upgrade!Put("manifest", content)
      /\ UNCHANGED <<journal, edits, unguarded>> /\ (Upgrade!Fault \/ UNCHANGED faults)
  BY <1>1, <1>3 DEF Upgrade!WriteFails
<1>6. /\ files' \in Upgrade!Pair
      /\ \A g \in Upgrade!Files : files'[g].edits = files[g].edits
      /\ \A g \in Upgrade!Files :
           files'[g] = files[g] \/ (g = "manifest" /\ files'[g] = content)
  BY <1>4, <1>5, WriteIs DEF Upgrade!Files
<1>7. \A g \in Upgrade!Files : files'[g] \in {cmd.original[g], cmd.target[g]}
  BY <1>2, <1>3, <1>6, OwnIs DEF Known
<1>8. ~ journal'.there => files' = cmd.original \/ unguarded'
  <2>1. ASSUME files = cmd.original PROVE files' = cmd.original
    <3>1. \A g \in Upgrade!Files : files'[g] = cmd.original[g]
      BY <1>3, <1>6, <2>1
    <3>2. QED
      BY <1>6, <3>1, UpgradeTyped, SamePair
  <2>2. QED
    BY <1>2, <1>5, <2>1
<1>9. ~ journal'.there => Agree(files') \/ unguarded'
  BY <1>2, <1>5, <1>8, OwnIs DEF Matched, Agree
<1>10. unguarded' \in BOOLEAN /\ faults' \in 0 .. MaxFaults
  BY <1>5, FaultIs DEF UpgradeInv, Upgrade!TypeOK
<1>11. CASE Upgrade!End
  <2>1. journal' = journal /\ edits' = edits /\ unguarded' = unguarded
    BY <1>5
  <2>2. journal'.there => journal'.original = cmd.original /\ journal'.target = cmd.target
    <3>1. journal = Upgrade!NoJournal \/ journal = Upgrade!OwnJournal
      BY <1>2, OwnIs
    <3>2. CASE journal = Upgrade!NoJournal
      BY <2>1, <3>2 DEF Upgrade!NoJournal
    <3>3. CASE journal = Upgrade!OwnJournal
      BY <2>1, <3>3 DEF Upgrade!OwnJournal
    <3>4. QED
      BY <3>1, <3>2, <3>3
  <2>3. Upgrade!JournalKnowsTheFiles'
    BY <1>7, <2>2 DEF Upgrade!JournalKnowsTheFiles
  <2>4. QED
    BY <1>6, <1>9, <1>10, <1>11, <2>1, <2>3, StopKeeps
<1>12. CASE cmd.clean /\ Upgrade!Put("manifest", content) /\ Upgrade!Goto("undo journal")
  <2>1. /\ cmd' \in UpgradeType /\ cmd'.pc = "undo journal" /\ cmd'.clean = cmd.clean
        /\ cmd'.original = cmd.original /\ cmd'.target = cmd.target
    BY <1>12, CommandIs DEF UpgradeType, Upgrade!Steps
  <2>2. Known(cmd.original, cmd.target)'
    BY <1>7, <2>1 DEF Known
  <2>3. files' = cmd'.original
    <3>1. \A g \in Upgrade!Files : files'[g] = cmd.original[g]
      BY <1>2, <1>3, <1>4, <1>12, PutIs DEF Upgrade!Files
    <3>2. QED
      BY <1>6, <2>1, <3>1, UpgradeTyped, SamePair
  <2>4. /\ journal' \in {Upgrade!NoJournal, Upgrade!OwnJournal}
        /\ Upgrade!OwnJournal' = Upgrade!OwnJournal
    BY <1>2, <1>5, <2>1, OwnIs DEF Upgrade!OwnJournal
  <2>5. Matched(cmd.original, cmd.target)' => Reached'
    BY <1>12, <2>1, <2>2, <2>3, <2>4 DEF Reached, Writing, Undoing
  <2>6. UpgradeInv'
    BY <1>2, <1>5, <1>6, <1>9, <1>10, <2>1, <2>2, <2>4, <2>5, OwnKeeps
  <2>7. QED
    BY <1>6, <2>6
<1>13. QED
  BY <1>1, <1>3, <1>6, <1>11, <1>12

LEMMA UndoJournalKeeps ==
  ASSUME UpgradeConstants, UpgradeInv, Upgrade!UndoJournal
  PROVE  UpgradeInv'
<1>1. /\ cmd.pc = "undo journal" /\ UNCHANGED <<files, edits, unguarded>>
      /\ journal' \in {journal, Upgrade!NoJournal} /\ Upgrade!End
      /\ Upgrade!Fault \/ UNCHANGED faults
  BY DEF Upgrade!UndoJournal
<1>2. files = cmd.original /\ cmd.pc \in Undoing
  BY <1>1 DEF UpgradeInv, Reached, Undoing
<1>3. Agree(files') \/ unguarded'
  BY <1>1, <1>2, OwnIs DEF Matched, Agree
<1>4. Upgrade!JournalKnowsTheFiles'
  <2>1. CASE journal' = Upgrade!NoJournal
    BY <2>1 DEF Upgrade!NoJournal, Upgrade!JournalKnowsTheFiles
  <2>2. CASE journal' = journal
    <3>1. files' = files
      BY <1>1
    <3>2. QED
      BY <2>2, <3>1 DEF UpgradeInv, Upgrade!JournalKnowsTheFiles
  <2>3. QED
    BY <1>1, <2>1, <2>2
<1>5. /\ files' \in Upgrade!Pair /\ faults' \in 0 .. MaxFaults
      /\ \A f \in Upgrade!Files : files'[f].edits = files[f].edits
  BY <1>1, FaultIs DEF UpgradeInv, Upgrade!TypeOK
<1>6. QED
  BY <1>1, <1>3, <1>4, <1>5, StopKeeps

LEMMA UpgradeDieKeeps ==
  ASSUME UpgradeConstants, UpgradeInv, Upgrade!Die
  PROVE  UpgradeInv'
<1>1. Upgrade!Fault /\ Upgrade!End /\ UNCHANGED <<files, journal, edits, unguarded>>
  BY DEF Upgrade!Die
<1>2. /\ ~ journal'.there => Agree(files') \/ unguarded'
      /\ Upgrade!JournalKnowsTheFiles'
  BY <1>1 DEF UpgradeInv, Upgrade!JournalKnowsTheFiles
<1>3. /\ files' \in Upgrade!Pair /\ faults' \in 0 .. MaxFaults
      /\ \A f \in Upgrade!Files : files'[f].edits = files[f].edits
  BY <1>1, FaultIs DEF UpgradeInv, Upgrade!TypeOK
<1>4. QED
  BY <1>1, <1>2, <1>3, StopKeeps

LEMMA UpgradeKeeps ==
  ASSUME UpgradeConstants, UpgradeInv, [Upgrade!Next]_(Upgrade!vars)
  PROVE  UpgradeInv' /\ Upgrade!EditsKept
<1>1. \A f \in Upgrade!Files : files[f].edits \in Nat
  BY UpgradeTyped DEF Upgrade!Pair, Upgrade!Content
<1>2. (\A f \in Upgrade!Files : files'[f].edits = files[f].edits) => Upgrade!EditsKept
  BY <1>1 DEF Upgrade!EditsKept
<1>3. CASE UNCHANGED Upgrade!vars
  <2>1. UNCHANGED <<files, journal, cmd, edits, faults, unguarded>>
    BY <1>3 DEF Upgrade!vars
  <2>2. Upgrade!TypeOK' /\ Upgrade!JournalKnowsTheFiles'
    BY <2>1 DEF UpgradeInv, Upgrade!TypeOK, Upgrade!JournalKnowsTheFiles
  <2>3. Reached'
    BY <2>1 DEF UpgradeInv, Reached, Known, Matched, Agree, Upgrade!OwnJournal
  <2>4. (journal.there => Matched(journal.original, journal.target))'
    BY <2>1 DEF UpgradeInv, Matched, Agree
  <2>5. UpgradeInv'
    BY <2>1, <2>2, <2>3, <2>4 DEF UpgradeInv, Agree
  <2>6. QED
    BY <1>2, <2>1, <2>5
<1>4. ASSUME NEW r \in Revisions, Upgrade!Upgrade(r) PROVE UpgradeInv' /\ Upgrade!EditsKept
  BY <1>2, <1>4, StartKeeps DEF Upgrade!Upgrade
<1>5. CASE \/ Upgrade!Recover \/ Upgrade!Forget \/ Upgrade!Prepare \/ Upgrade!WriteJournal
           \/ Upgrade!Unlink \/ Upgrade!Sync \/ Upgrade!UndoJournal \/ Upgrade!Die
  <2>1. files' = files
    BY <1>5 DEF Upgrade!Recover, Upgrade!Forget, Upgrade!Prepare, Upgrade!WriteJournal,
       Upgrade!Unlink, Upgrade!Sync, Upgrade!UndoJournal, Upgrade!Die
  <2>2. QED
    BY <1>2, <1>5, <2>1, RecoverKeeps, ForgetKeeps, PrepareKeeps, WriteJournalKeeps, UnlinkKeeps,
       SyncKeeps, UndoJournalKeeps, UpgradeDieKeeps
<1>6. QED
  BY <1>2, <1>3, <1>4, <1>5, EditKeeps, RegenerateKeeps, RestoreKeeps, WriteTargetsKeeps,
     UndoTerraformKeeps, UndoManifestKeeps DEF Upgrade!Next

-----------------------------------------------------------------------------
(* AlertRules.                                                                *)

\* At most one of an alert's two uids has a rule of ours, whose title is the new
\* one unless it is from before; none is live and unrouted.
Sound(rules) ==
  /\ rules \in Rules!Listings
  /\ \A u \in Rules!Uids : Rules!Sane(rules[u])
  /\ \A a \in Alerts :
       /\ rules[<<a, "canonical">>].there => rules[<<a, "canonical">>].title = "new"
       /\ rules[<<a, "legacy">>].there => rules[<<a, "legacy">>].ours /\ a \in Renamed
       /\ ~ (rules[<<a, "legacy">>].there /\ rules[<<a, "canonical">>].there /\ rules[<<a, "canonical">>].ours)

\* The preflight found no rule of ours at any other uid.
Checked(rules) == Rules!Ours(rules) \subseteq {Rules!Uid(rules, a) : a \in Alerts}

Running == Rules!Modes \cup {"done"}
AlertType ==
  [mode : Running \cup {"none"}, receiver : Receivers \cup {Rules!Unrouted},
   seen : Rules!Listings, todo : SUBSET Alerts, failed : SUBSET Alerts]

\* Only the command that runs makes rules, at the uids that it writes to.
NoneBesides(rules, seen, mode) ==
  \A u \in Rules!Uids : rules[u].there /\ ~ seen[u].there =>
    mode # "migrate" /\ u = Rules!Uid(seen, u[1])

Kept(rules, seen) ==
  \A u \in Rules!Uids \ touched : seen[u].there =>
    rules[u].there /\ rules[u].paused = seen[u].paused /\ rules[u].receiver = seen[u].receiver

Active(u, receiver) == u \in touched \/ (live[u].there /\ ~ live[u].paused /\ live[u].receiver = receiver)

OldRule(seen, a) == {x \in Rules!Uids : x[1] = a /\ seen[x].there /\ seen[x].title = "old"}

AlertInv ==
  /\ Rules!TypeOK
  /\ cmd \in AlertType
  /\ Sound(live)
  /\ cmd.mode \in Running => Sound(cmd.seen) /\ NoneBesides(live, cmd.seen, cmd.mode)
  /\ cmd.mode \in Running \ {"migrate"} => Checked(cmd.seen)
  /\ cmd.mode \in {"activate", "done"} =>
       /\ cmd.receiver \in Receivers
       /\ \A a \in Alerts \ (cmd.todo \cup cmd.failed) : Active(Rules!Uid(cmd.seen, a), cmd.receiver)
  /\ cmd.mode \in {"none", "done"} => cmd.todo = {} /\ cmd.failed = {}
  /\ cmd.mode = "migrate" => \A a \in cmd.todo : OldRule(cmd.seen, a) # {}
  /\ cmd.mode \in {"publish", "migrate"} => Kept(live, cmd.seen)

LEMMA UidIs ==
  ASSUME NEW seen, NEW a \in Alerts
  PROVE  /\ Rules!Uid(seen, a) \in Rules!Uids /\ Rules!Uid(seen, a)[1] = a
         /\ Rules!Uid(seen, a) \in {<<a, "canonical">>, <<a, "legacy">>}
         /\ Rules!Uid(seen, a) = <<a, "legacy">> => a \in Renamed /\ seen[<<a, "legacy">>].there
BY DEF Rules!Uid, Rules!Uids

LEMMA UidsAre ==
  ASSUME NEW u \in Rules!Uids
  PROVE  u[1] \in Alerts /\ (u = <<u[1], "canonical">> \/ u = <<u[1], "legacy">>)
BY DEF Rules!Uids

LEMMA RuleIs ==
  ASSUME NEW rules \in Rules!Listings, NEW u \in Rules!Uids
  PROVE  /\ rules[u].there => rules[u] \in Rules!Rule
         /\ ~ rules[u].there => rules[u] = Rules!Absent
<1>1. rules[u] \in Rules!Rule \/ rules[u] = Rules!Absent
  BY DEF Rules!Listings
<1>2. CASE rules[u] \in Rules!Rule
  BY <1>2 DEF Rules!Rule
<1>3. CASE rules[u] = Rules!Absent
  BY <1>3 DEF Rules!Absent
<1>4. QED
  BY <1>1, <1>2, <1>3

\* A rule that is replaced leaves the others as they are.
LEMMA ReplacedIs ==
  ASSUME NEW rules \in Rules!Listings, NEW u \in Rules!Uids, NEW rule \in Rules!Rule \cup {Rules!Absent}
  PROVE  LET next == [rules EXCEPT ![u] = rule]
         IN  /\ next \in Rules!Listings /\ next[u] = rule
             /\ \A v \in Rules!Uids : v # u => next[v] = rules[v]
BY DEF Rules!Listings

LEMMA AlertsBegin ==
  ASSUME AlertConstants
  PROVE  Rules!Init => AlertInv
<1>1. SUFFICES ASSUME Rules!Init PROVE AlertInv
  OBVIOUS
<1>2. live \in Rules!Listings /\ \A u \in Rules!Uids : Rules!Sane(live[u])
  <2>1. live \in [Rules!Uids -> {r \in Rules!Rule : Rules!Sane(r)} \cup {Rules!Absent}]
    BY <1>1 DEF Rules!Init
  <2>2. Rules!Sane(Rules!Absent)
    BY DEF Rules!Sane, Rules!Absent
  <2>3. QED
    BY <2>1, <2>2 DEF Rules!Listings
<1>3. Sound(live)
  BY <1>1, <1>2 DEF Rules!Init, Sound
<1>4. Rules!NoListing \in Rules!Listings
  BY DEF Rules!NoListing, Rules!Listings
<1>5. cmd \in AlertType /\ cmd.mode = "none" /\ cmd.todo = {} /\ cmd.failed = {}
  BY <1>1, <1>4 DEF Rules!Init, Rules!NoCommand, AlertType
<1>6. touched \subseteq Rules!Uids /\ edits \in 0 .. MaxEdits /\ commands \in 0 .. MaxCommands
  BY <1>1 DEF Rules!Init, AlertConstants
<1>7. Rules!TypeOK
  BY <1>2, <1>5, <1>6 DEF Rules!TypeOK, AlertType, Running
<1>8. QED
  BY <1>3, <1>5, <1>7 DEF AlertInv, Running, Rules!Modes

\* People change a rule that is there, or delete it.
LEMMA PeopleKeep ==
  ASSUME AlertConstants, AlertInv, NEW u \in Rules!Uids, Rules!Edit(u) \/ Rules!Delete(u)
  PROVE  AlertInv' /\ Rules!LiveStateKept
<1>1. /\ live[u].there /\ edits < MaxEdits /\ edits' = edits + 1 /\ touched' = touched \cup {u}
      /\ UNCHANGED <<cmd, commands>>
  BY DEF Rules!Edit, Rules!Delete
<1>2. live \in Rules!Listings /\ Sound(live)
  BY DEF AlertInv, Sound
<1>3. live[u] \in Rules!Rule
  BY <1>1, <1>2, RuleIs
<1>4. PICK rule \in Rules!Rule \cup {Rules!Absent} :
        /\ live' = [live EXCEPT ![u] = rule]
        /\ Rules!Sane(rule)
        /\ rule.there => rule.ours = live[u].ours /\ rule.title = live[u].title
  <2>1. CASE Rules!Delete(u)
    <3>1. live' = [live EXCEPT ![u] = Rules!Absent]
      BY <2>1 DEF Rules!Delete
    <3>2. Rules!Sane(Rules!Absent) /\ ~ Rules!Absent.there
      BY DEF Rules!Sane, Rules!Absent
    <3>3. QED
      BY <3>1, <3>2
  <2>2. CASE Rules!Edit(u)
    <3>1. PICK p \in BOOLEAN, r \in Receivers \cup {Rules!Unrouted} :
            live' = [live EXCEPT ![u].paused = p, ![u].receiver = r]
      BY <2>2 DEF Rules!Edit
    <3>2. PICK rule : rule = [live[u] EXCEPT !.paused = p, !.receiver = r]
      OBVIOUS
    <3>3. rule \in Rules!Rule /\ rule.ours = live[u].ours /\ rule.title = live[u].title
      BY <1>3, <3>2 DEF Rules!Rule
    <3>4. live' = [live EXCEPT ![u] = rule]
      BY <1>2, <1>3, <3>1, <3>2 DEF Rules!Listings, Rules!Rule
    <3>5. live'[u] = rule /\ Rules!Sane(live'[u])
      BY <1>2, <2>2, <3>3, <3>4, ReplacedIs DEF Rules!Edit
    <3>6. QED
      BY <3>3, <3>4, <3>5
  <2>3. QED
    BY <2>1, <2>2
<1>5. /\ live' \in Rules!Listings /\ live'[u] = rule
      /\ \A v \in Rules!Uids : v # u => live'[v] = live[v]
  BY <1>2, <1>4 DEF Rules!Listings
<1>6. Sound(live')
  <2>1. \A v \in Rules!Uids : /\ Rules!Sane(live'[v])
                              /\ live'[v].there => live[v].there /\ live'[v].ours = live[v].ours
                                                   /\ live'[v].title = live[v].title
    BY <1>1, <1>2, <1>4, <1>5 DEF Sound
  <2>2. \A a \in Alerts : <<a, "canonical">> \in Rules!Uids /\ <<a, "legacy">> \in Rules!Uids
    BY DEF Rules!Uids
  <2>3. QED
    BY <1>2, <1>5, <2>1, <2>2 DEF Sound
<1>7. Rules!TypeOK'
  <2>1. edits' \in 0 .. MaxEdits
    BY <1>1 DEF AlertInv, Rules!TypeOK, AlertConstants
  <2>2. QED
    BY <1>1, <1>5, <2>1 DEF AlertInv, Rules!TypeOK
<1>8. cmd.mode \in Running => NoneBesides(live', cmd.seen, cmd.mode)
  BY <1>1, <1>5 DEF AlertInv, NoneBesides
<1>9. \A v, r : v \in Rules!Uids /\ Active(v, r) => v \in touched' \/ (live'[v].there /\ ~ live'[v].paused /\ live'[v].receiver = r)
  BY <1>1, <1>5 DEF Active
<1>10. cmd.mode \in {"activate", "done"} =>
         \A a \in Alerts \ (cmd.todo \cup cmd.failed) : Active(Rules!Uid(cmd.seen, a), cmd.receiver)'
  BY <1>1, <1>9, UidIs DEF AlertInv, Active
<1>11. cmd.mode \in {"publish", "migrate"} =>
         \A v \in Rules!Uids \ touched' : cmd.seen[v].there =>
           /\ live'[v].there /\ live'[v].paused = cmd.seen[v].paused
           /\ live'[v].receiver = cmd.seen[v].receiver
  BY <1>1, <1>5 DEF AlertInv, Kept
<1>12. AlertInv'
  BY <1>1, <1>6, <1>7, <1>8, <1>10, <1>11 DEF AlertInv, Kept, AlertType
<1>13. edits' # edits
  BY <1>1 DEF AlertInv, Rules!TypeOK
<1>14. QED
  BY <1>12, <1>13 DEF Rules!LiveStateKept

\* A command that ends, done or not.
LEMMA CommandEnds ==
  ASSUME AlertConstants, AlertInv, UNCHANGED <<touched, edits, commands>>,
         cmd' = Rules!NoCommand, Sound(live')
  PROVE  AlertInv'
<1>1. Rules!NoListing \in Rules!Listings
  BY DEF Rules!NoListing, Rules!Listings
<1>2. cmd' \in AlertType /\ cmd'.mode = "none" /\ cmd'.todo = {} /\ cmd'.failed = {}
  BY <1>1 DEF Rules!NoCommand, AlertType
<1>3. Rules!TypeOK'
  BY <1>2 DEF AlertInv, Rules!TypeOK, AlertType, Running, Sound
<1>4. QED
  BY <1>2, <1>3 DEF AlertInv, Running, Rules!Modes

\* A command begins: what it has listed is what is there.
LEMMA BeginKeeps ==
  ASSUME AlertConstants, AlertInv, Rules!Begin
  PROVE  AlertInv' /\ Rules!LiveStateKept
<1>1. /\ cmd.mode \in {"none", "done"} /\ commands < MaxCommands /\ commands' = commands + 1
      /\ touched' = {} /\ UNCHANGED <<live, edits>>
  BY DEF Rules!Begin
<1>2. commands' \in 0 .. MaxCommands
  BY <1>1 DEF AlertInv, Rules!TypeOK, AlertConstants
<1>3. PICK mode \in Rules!Modes : \E r \in Rules!Routings(mode) :
        \/ cmd' = Rules!NoCommand
        \/ /\ mode # "migrate" => Rules!Preflight
           /\ cmd' = [mode |-> mode, receiver |-> r, seen |-> live, failed |-> {},
                      todo |-> IF mode = "migrate" THEN Rules!Renames ELSE Alerts]
  BY DEF Rules!Begin
<1>4. Sound(live) /\ live \in Rules!Listings
  BY DEF AlertInv, Sound
<1>5. Rules!LiveStateKept
  BY <1>1 DEF Rules!LiveStateKept
<1>6. CASE cmd' = Rules!NoCommand
  <2>1. Rules!NoListing \in Rules!Listings
    BY DEF Rules!NoListing, Rules!Listings
  <2>2. cmd' \in AlertType /\ cmd'.mode = "none" /\ cmd'.todo = {} /\ cmd'.failed = {}
    BY <1>6, <2>1 DEF Rules!NoCommand, AlertType
  <2>3. Rules!TypeOK'
    BY <1>1, <1>2, <1>4, <2>2 DEF AlertInv, Rules!TypeOK, AlertType, Running
  <2>4. QED
    BY <1>1, <1>4, <1>5, <2>2, <2>3 DEF AlertInv, Running, Rules!Modes
<1>7. ASSUME NEW r \in Rules!Routings(mode),
             mode # "migrate" => Rules!Preflight,
             cmd' = [mode |-> mode, receiver |-> r, seen |-> live, failed |-> {},
                     todo |-> IF mode = "migrate" THEN Rules!Renames ELSE Alerts]
      PROVE  AlertInv'
  <2>1. PICK todo \in SUBSET Alerts :
          /\ todo = IF mode = "migrate" THEN Rules!Renames ELSE Alerts
          /\ mode = "migrate" => \A a \in todo : OldRule(live, a) # {}
    <3>1. CASE mode = "migrate"
      <4>1. \A a \in Rules!Renames : a \in Renamed /\ Rules!Titled(a, "old") # {}
        BY DEF Rules!Renames
      <4>2. \A a \in Rules!Renames : a \in Alerts /\ OldRule(live, a) # {}
        BY <4>1, UidsAre DEF Rules!Titled, Rules!Ours, OldRule
      <4>3. QED
        BY <3>1, <4>2
    <3>2. CASE mode # "migrate"
      BY <3>2
    <3>3. QED
      BY <3>1, <3>2
  <2>2. r \in Receivers \cup {Rules!Unrouted} /\ (mode = "activate" => r \in Receivers)
    <3>1. CASE mode = "activate"
      BY <1>7, <3>1 DEF Rules!Routings
    <3>2. CASE mode = "publish"
      BY <1>7, <3>2 DEF Rules!Routings
    <3>3. CASE mode = "deactivate" \/ mode = "migrate"
      BY <1>7, <3>3 DEF Rules!Routings
    <3>4. QED
      BY <3>1, <3>2, <3>3 DEF Rules!Modes
  <2>3. /\ cmd'.mode = mode /\ cmd'.receiver = r /\ cmd'.seen = live /\ cmd'.failed = {}
        /\ cmd'.todo = todo /\ cmd' \in AlertType
    BY <1>4, <1>7, <2>1, <2>2 DEF AlertType, Running
  <2>4. Rules!TypeOK'
    BY <1>1, <1>2, <1>4, <2>3 DEF AlertInv, Rules!TypeOK, AlertType, Running
  <2>5. NoneBesides(live', live, mode) /\ Kept(live, live)'
    BY <1>1 DEF NoneBesides, Kept
  <2>6. mode # "migrate" => Checked(live) /\ todo = Alerts
    BY <1>7, <2>1 DEF Rules!Preflight, Checked
  <2>7. mode \notin {"none", "done"}
    BY DEF Rules!Modes
  <2>8. QED
    BY <1>1, <1>4, <2>1, <2>2, <2>3, <2>4, <2>5, <2>6, <2>7 DEF AlertInv, Kept
<1>8. QED
  BY <1>3, <1>5, <1>6, <1>7

\* What is sent: a rule of ours with its new title, under its alert's uid.
LEMMA SendingIs ==
  ASSUME AlertConstants, AlertInv, NEW a \in cmd.todo, Rules!Sending(a)
  PROVE  \E u \in Rules!Uids, rule \in Rules!Rule :
           /\ u[1] = a /\ live' = [live EXCEPT ![u] = rule]
           /\ rule.there /\ rule.ours /\ rule.title = "new" /\ Rules!Sane(rule)
           /\ cmd.mode # "migrate" => u = Rules!Uid(cmd.seen, a)
           /\ cmd.mode = "activate" => ~ rule.paused /\ rule.receiver = cmd.receiver
           /\ cmd.mode = "migrate" => live[u].there
           /\ live[u].there = cmd.seen[u].there
           /\ cmd.mode \in {"publish", "migrate"} /\ live[u].there =>
                rule.paused = cmd.seen[u].paused /\ rule.receiver = cmd.seen[u].receiver
           /\ u = <<a, "legacy">> => live[u].there
           /\ u = <<a, "canonical">> => ~ live[<<a, "legacy">>].there
<1>1. /\ a \in Alerts /\ cmd.mode \in Rules!Modes /\ Sound(cmd.seen) /\ Sound(live)
      /\ NoneBesides(live, cmd.seen, cmd.mode) /\ cmd \in AlertType
      /\ cmd.mode # "migrate" => Checked(cmd.seen)
      /\ cmd.mode = "migrate" => OldRule(cmd.seen, a) # {}
      /\ cmd.mode = "activate" => cmd.receiver \in Receivers
  BY DEF AlertInv, AlertType, Running
<1>2. PICK seen : seen = cmd.seen
  OBVIOUS
<1>3. seen \in Rules!Listings /\ <<a, "canonical">> \in Rules!Uids /\ <<a, "legacy">> \in Rules!Uids
  BY <1>1, <1>2 DEF AlertType, Rules!Uids
<1>4. CASE cmd.mode = "migrate"
  <2>1. PICK u : u = CHOOSE x \in Rules!Uids : x[1] = a /\ cmd.seen[x].there /\ cmd.seen[x].title = "old"
    OBVIOUS
  <2>2. u \in Rules!Uids /\ u[1] = a /\ seen[u].there /\ seen[u].title = "old"
    BY <1>1, <1>2, <1>4, <2>1 DEF OldRule
  <2>3. u = <<a, "legacy">>
    BY <1>1, <1>2, <2>2, UidsAre DEF Sound
  <2>4. seen[u] \in Rules!Rule /\ seen[u].ours /\ Rules!Sane(seen[u])
    BY <1>1, <1>2, <1>3, <2>2, <2>3, RuleIs DEF Sound
  <2>5. PICK rule : rule = [seen[u] EXCEPT !.title = "new"]
    OBVIOUS
  <2>6. /\ rule \in Rules!Rule /\ rule.there /\ rule.ours /\ rule.title = "new"
        /\ rule.paused = seen[u].paused /\ rule.receiver = seen[u].receiver
    BY <2>2, <2>4, <2>5 DEF Rules!Rule
  <2>7. live[u].there = TRUE /\ live' = [live EXCEPT ![u] = rule]
    BY <1>2, <1>4, <2>1, <2>5 DEF Rules!Sending, Rules!Sent
  <2>8. Rules!Sane(rule)
    BY <2>2, <2>4, <2>6 DEF Rules!Sane
  <2>9. live[u].there = seen[u].there
    BY <2>2, <2>4, <2>7 DEF Rules!Rule
  <2>10. u # <<a, "canonical">>
    BY <2>3
  <2>11. QED
    BY <1>2, <1>4, <2>2, <2>6, <2>7, <2>8, <2>9, <2>10
<1>5. CASE cmd.mode # "migrate"
  <2>1. PICK u : u = Rules!Uid(seen, a)
    OBVIOUS
  <2>2. u \in Rules!Uids /\ u[1] = a
    BY <1>1, <2>1, UidIs
  <2>3. PICK rule : rule = Rules!Built(a, seen[u])
    OBVIOUS
  <2>4. live[u].there = seen[u].there /\ live' = [live EXCEPT ![u] = rule]
    BY <1>2, <1>5, <2>1, <2>3 DEF Rules!Sending, Rules!Sent
  <2>5. seen[u].there => seen[u] \in Rules!Rule /\ Rules!Sane(seen[u])
    BY <1>1, <1>2, <1>3, <2>2, RuleIs DEF Sound
  <2>6. /\ rule \in Rules!Rule /\ rule.there /\ rule.ours /\ rule.title = "new" /\ Rules!Sane(rule)
        /\ cmd.mode = "activate" => ~ rule.paused /\ rule.receiver = cmd.receiver
        /\ cmd.mode = "publish" /\ seen[u].there =>
             rule.paused = seen[u].paused /\ rule.receiver = seen[u].receiver
    <3>1. CASE cmd.mode = "publish" /\ seen[u].there
      <4>1. rule = [there |-> TRUE, ours |-> TRUE, title |-> "new", paused |-> seen[u].paused,
                    receiver |-> seen[u].receiver]
        BY <2>3, <3>1 DEF Rules!Built
      <4>2. QED
        BY <2>5, <3>1, <4>1 DEF Rules!Rule, Rules!Sane
    <3>2. CASE ~ (cmd.mode = "publish" /\ seen[u].there)
      <4>1. rule = [there |-> TRUE, ours |-> TRUE, title |-> "new", paused |-> cmd.mode # "activate",
                    receiver |-> cmd.receiver]
        BY <2>3, <3>2 DEF Rules!Built
      <4>2. PICK p \in BOOLEAN : p = (cmd.mode # "activate")
        OBVIOUS
      <4>3. rule = [there |-> TRUE, ours |-> TRUE, title |-> "new", paused |-> p,
                    receiver |-> cmd.receiver]
        BY <4>1, <4>2
      <4>4. cmd.receiver \in Receivers \cup {Rules!Unrouted}
        BY <1>1 DEF AlertType
      <4>5. /\ rule \in Rules!Rule /\ rule.there /\ rule.ours /\ rule.title = "new"
            /\ rule.paused = p /\ rule.receiver = cmd.receiver
        BY <4>3, <4>4 DEF Rules!Rule
      <4>6. Rules!Sane(rule)
        BY <1>1, <4>2, <4>5 DEF Rules!Sane, AlertConstants
      <4>7. QED
        BY <3>2, <4>2, <4>5, <4>6
    <3>3. QED
      BY <3>1, <3>2
  <2>7. u = <<a, "legacy">> => live[u].there
    BY <2>1, <2>4, <1>1, UidIs
  <2>8. u = <<a, "canonical">> => ~ live[<<a, "legacy">>].there
    <3>1. ASSUME u = <<a, "canonical">> PROVE ~ seen[<<a, "legacy">>].there
      <4>1. <<a, "legacy">> \notin {Rules!Uid(seen, b) : b \in Alerts}
        <5>1. ASSUME NEW b \in Alerts, Rules!Uid(seen, b) = <<a, "legacy">> PROVE FALSE
          <6>1. b = a
            <7>1. Rules!Uid(seen, b)[1] = b /\ <<a, "legacy">>[1] = a
              BY UidIs
            <7>2. QED
              BY <5>1, <7>1
          <6>2. <<a, "canonical">> = <<a, "legacy">>
            BY <2>1, <3>1, <5>1, <6>1
          <6>3. QED
            BY <6>2
        <5>2. QED
          BY <5>1
      <4>2. <<a, "legacy">> \notin Rules!Ours(seen)
        BY <1>1, <1>2, <1>5, <4>1 DEF Checked
      <4>3. QED
        BY <1>1, <1>2, <1>3, <4>2 DEF Rules!Ours, Sound
    <3>2. ASSUME u = <<a, "canonical">>, live[<<a, "legacy">>].there PROVE FALSE
      <4>1. ~ seen[<<a, "legacy">>].there
        BY <3>1, <3>2
      <4>2. <<a, "legacy">> = Rules!Uid(seen, <<a, "legacy">>[1])
        BY <1>1, <1>2, <1>3, <3>2, <4>1 DEF NoneBesides
      <4>3. <<a, "legacy">> = <<a, "canonical">>
        BY <2>1, <3>2, <4>2
      <4>4. QED
        BY <4>3
    <3>3. QED
      BY <3>2
  <2>9. QED
    BY <1>2, <1>5, <2>1, <2>2, <2>4, <2>6, <2>7, <2>8
<1>6. QED
  BY <1>4, <1>5

\* A rule is sent, and whatever the answer, the rules are as sound as before.
LEMMA SendingKeeps ==
  ASSUME AlertConstants, AlertInv, NEW a \in cmd.todo, Rules!Sending(a), UNCHANGED touched
  PROVE  /\ Sound(live')
         /\ NoneBesides(live', cmd.seen, cmd.mode)
         /\ cmd.mode = "activate" =>
              \A b \in Alerts : b = a \/ Active(Rules!Uid(cmd.seen, b), cmd.receiver) =>
                LET u == Rules!Uid(cmd.seen, b)
                IN  u \in touched \/ (live'[u].there /\ ~ live'[u].paused /\ live'[u].receiver = cmd.receiver)
         /\ cmd.mode \in {"publish", "migrate"} => Kept(live', cmd.seen)
         /\ Rules!LiveStateKept
<1>1. PICK u \in Rules!Uids, rule \in Rules!Rule :
           /\ u[1] = a /\ live' = [live EXCEPT ![u] = rule]
           /\ rule.there /\ rule.ours /\ rule.title = "new" /\ Rules!Sane(rule)
           /\ cmd.mode # "migrate" => u = Rules!Uid(cmd.seen, a)
           /\ cmd.mode = "activate" => ~ rule.paused /\ rule.receiver = cmd.receiver
           /\ cmd.mode = "migrate" => live[u].there
           /\ live[u].there = cmd.seen[u].there
           /\ cmd.mode \in {"publish", "migrate"} /\ live[u].there =>
                rule.paused = cmd.seen[u].paused /\ rule.receiver = cmd.seen[u].receiver
           /\ u = <<a, "legacy">> => live[u].there
           /\ u = <<a, "canonical">> => ~ live[<<a, "legacy">>].there
  BY SendingIs
<1>2. /\ a \in Alerts /\ cmd.mode \in Rules!Modes /\ Sound(live) /\ live \in Rules!Listings
      /\ NoneBesides(live, cmd.seen, cmd.mode)
      /\ cmd.mode \in {"publish", "migrate"} => Kept(live, cmd.seen)
  BY DEF AlertInv, AlertType, Running, Sound
<1>3. /\ live' \in Rules!Listings /\ live'[u] = rule
      /\ \A v \in Rules!Uids : v # u => live'[v] = live[v]
  BY <1>1, <1>2 DEF Rules!Listings
<1>4. Sound(live')
  <2>1. \A v \in Rules!Uids : Rules!Sane(live'[v])
    BY <1>1, <1>2, <1>3 DEF Sound
  <2>2. ASSUME NEW b \in Alerts
        PROVE  LET canonical == live'[<<b, "canonical">>] legacy == live'[<<b, "legacy">>]
               IN  /\ canonical.there => canonical.title = "new"
                   /\ legacy.there => legacy.ours /\ b \in Renamed
                   /\ ~ (legacy.there /\ canonical.there /\ canonical.ours)
    <3>1. /\ <<b, "canonical">> \in Rules!Uids /\ <<b, "legacy">> \in Rules!Uids
          /\ <<b, "canonical">> # <<b, "legacy">>
      BY DEF Rules!Uids
    <3>2. CASE b # a
      <4>1. <<b, "canonical">> # u /\ <<b, "legacy">> # u
        BY <1>1, <3>2
      <4>2. QED
        BY <1>2, <1>3, <3>1, <4>1 DEF Sound
    <3>3. CASE b = a /\ u = <<a, "canonical">>
      <4>1. ~ live'[<<b, "legacy">>].there
        BY <1>1, <1>3, <3>1, <3>3
      <4>2. QED
        BY <1>1, <1>3, <3>3, <4>1
    <3>4. CASE b = a /\ u = <<a, "legacy">>
      <4>1. live'[<<b, "canonical">>] = live[<<b, "canonical">>] /\ live[<<b, "legacy">>].there
        BY <1>1, <1>3, <3>1, <3>4
      <4>2. QED
        BY <1>1, <1>2, <1>3, <3>4, <4>1 DEF Sound
    <3>5. QED
      BY <1>1, <3>2, <3>3, <3>4, UidsAre
  <2>3. QED
    BY <1>3, <2>1, <2>2 DEF Sound
<1>5. NoneBesides(live', cmd.seen, cmd.mode)
  BY <1>1, <1>2, <1>3 DEF NoneBesides
<1>6. ASSUME cmd.mode = "activate", NEW b \in Alerts,
             b = a \/ Active(Rules!Uid(cmd.seen, b), cmd.receiver)
      PROVE  LET v == Rules!Uid(cmd.seen, b)
             IN  v \in touched \/ (live'[v].there /\ ~ live'[v].paused /\ live'[v].receiver = cmd.receiver)
  <2>1. Rules!Uid(cmd.seen, b) \in Rules!Uids
    BY UidIs
  <2>2. CASE Rules!Uid(cmd.seen, b) = u
    BY <1>1, <1>3, <1>6, <2>2
  <2>3. CASE Rules!Uid(cmd.seen, b) # u
    BY <1>1, <1>3, <1>6, <2>1, <2>3 DEF Active
  <2>4. QED
    BY <2>2, <2>3
<1>7. cmd.mode \in {"publish", "migrate"} => Kept(live', cmd.seen)
  BY <1>1, <1>2, <1>3 DEF Kept
<1>8. Rules!LiveStateKept
  <2>1. ASSUME cmd.mode \in {"publish", "migrate"}, NEW v \in Rules!Uids, live[v].there
        PROVE  /\ live'[v].there
               /\ \/ Rules!LiveState(live'[v]) = Rules!LiveState(live[v])
                  \/ /\ v \in touched /\ cmd.seen[v].there
                     /\ Rules!LiveState(live'[v]) = Rules!LiveState(cmd.seen[v])
    <3>1. CASE v = u
      <4>1. live'[v].there /\ cmd.seen[v].there
            /\ live'[v].paused = cmd.seen[v].paused /\ live'[v].receiver = cmd.seen[v].receiver
        BY <1>1, <1>3, <2>1, <3>1
      <4>2. v \notin touched =>
              live[v].paused = cmd.seen[v].paused /\ live[v].receiver = cmd.seen[v].receiver
        BY <1>2, <2>1, <4>1 DEF Kept
      <4>3. QED
        BY <4>1, <4>2 DEF Rules!LiveState
    <3>2. CASE v # u
      BY <1>3, <2>1, <3>2
    <3>3. QED
      BY <3>1, <3>2
  <2>2. ASSUME NEW v \in Rules!Uids, cmd.seen[v].there, ~ live[v].there PROVE ~ live'[v].there
    BY <1>1, <1>3, <2>2
  <2>3. QED
    BY <2>1, <2>2 DEF Rules!LiveStateKept
<1>9. QED
  BY <1>4, <1>5, <1>6, <1>7, <1>8

\* A command goes on, or ends: the one that goes on has one alert fewer to do.
LEMMA AlertWriteKeeps ==
  ASSUME AlertConstants, AlertInv, NEW a \in Alerts, Rules!Write(a) \/ Rules!WriteFails(a)
  PROVE  AlertInv' /\ Rules!LiveStateKept
<1>1. PICK missed \in SUBSET Alerts :
        /\ a \in cmd.todo /\ (Rules!Sending(a) \/ (UNCHANGED live /\ a \in missed))
        /\ cmd.failed \subseteq missed
        /\ cmd' = [cmd EXCEPT !.todo = @ \ {a}, !.failed = missed]
        /\ UNCHANGED <<touched, edits, commands>>
  <2>1. cmd \in AlertType
    BY DEF AlertInv
  <2>2. CASE Rules!Write(a)
    <3>1. cmd' = [cmd EXCEPT !.todo = @ \ {a}, !.failed = cmd.failed]
      BY <2>1, <2>2 DEF Rules!Write, AlertType
    <3>2. cmd.failed \in SUBSET Alerts
      BY <2>1 DEF AlertType
    <3>3. QED
      BY <2>2, <3>1, <3>2 DEF Rules!Write
  <2>3. CASE Rules!WriteFails(a)
    <3>1. cmd' = [cmd EXCEPT !.todo = @ \ {a}, !.failed = cmd.failed \cup {a}]
      BY <2>1, <2>3 DEF Rules!WriteFails, AlertType
    <3>2. cmd.failed \cup {a} \in SUBSET Alerts
      BY <2>1 DEF AlertType
    <3>3. Rules!Sending(a) \/ UNCHANGED live
      BY <2>3 DEF Rules!WriteFails
    <3>4. QED
      BY <2>3, <3>1, <3>2, <3>3 DEF Rules!WriteFails
  <2>4. QED
    BY <2>2, <2>3
<1>2. /\ cmd' \in AlertType /\ cmd'.mode = cmd.mode /\ cmd'.receiver = cmd.receiver
      /\ cmd'.seen = cmd.seen /\ cmd'.todo = cmd.todo \ {a} /\ cmd'.failed = missed
  BY <1>1 DEF AlertInv, AlertType
<1>3. cmd.mode \in Rules!Modes
  BY <1>1 DEF AlertInv, AlertType, Running
<1>4. /\ Sound(live') /\ NoneBesides(live', cmd.seen, cmd.mode) /\ Rules!LiveStateKept
      /\ cmd.mode \in {"publish", "migrate"} => Kept(live', cmd.seen)
  <2>1. CASE Rules!Sending(a)
    BY <1>1, <2>1, SendingKeeps
  <2>2. CASE UNCHANGED live
    BY <1>3, <2>2 DEF AlertInv, Running, Rules!LiveStateKept
  <2>3. QED
    BY <1>1, <2>1, <2>2
<1>5. ASSUME cmd.mode = "activate", NEW b \in Alerts \ (cmd'.todo \cup cmd'.failed)
      PROVE  LET v == Rules!Uid(cmd.seen, b)
             IN  v \in touched \/ (live'[v].there /\ ~ live'[v].paused /\ live'[v].receiver = cmd.receiver)
  <2>1. b = a \/ Active(Rules!Uid(cmd.seen, b), cmd.receiver)
    BY <1>1, <1>2, <1>5 DEF AlertInv
  <2>2. CASE Rules!Sending(a)
    BY <1>1, <1>5, <2>1, <2>2, SendingKeeps
  <2>3. CASE UNCHANGED live /\ a \in missed
    BY <1>2, <1>5, <2>1, <2>3 DEF Active
  <2>4. QED
    BY <1>1, <2>2, <2>3
<1>6. Rules!TypeOK'
  <2>1. live' \in Rules!Listings
    BY <1>4 DEF Sound
  <2>2. QED
    BY <1>1, <1>2, <2>1 DEF AlertInv, Rules!TypeOK, AlertType, Running
<1>7. (cmd.mode = "activate" => cmd.receiver \in Receivers)
      /\ (cmd.mode # "migrate" => Checked(cmd.seen)) /\ Sound(cmd.seen)
      /\ (cmd.mode = "migrate" => \A b \in cmd.todo : OldRule(cmd.seen, b) # {})
  BY <1>3 DEF AlertInv, Running
<1>8. cmd.mode \notin {"none", "done"}
  BY <1>3 DEF Rules!Modes
<1>9. (cmd.mode \in {"publish", "migrate"} => Kept(live, cmd.seen))'
  BY <1>1, <1>2, <1>4 DEF Kept
<1>10. QED
  BY <1>1, <1>2, <1>4, <1>5, <1>6, <1>7, <1>8, <1>9 DEF AlertInv, Active

LEMMA DieOrFinishKeeps ==
  ASSUME AlertConstants, AlertInv, Rules!Die \/ Rules!Finish
  PROVE  AlertInv' /\ Rules!LiveStateKept
<1>1. CASE Rules!Die
  <2>1. /\ cmd' = Rules!NoCommand /\ UNCHANGED <<touched, edits, commands>>
        /\ (\E a \in cmd.todo : Rules!Sending(a)) \/ UNCHANGED live
    BY <1>1 DEF Rules!Die
  <2>2. Sound(live') /\ Rules!LiveStateKept
    <3>1. ASSUME NEW a \in cmd.todo, Rules!Sending(a) PROVE Sound(live') /\ Rules!LiveStateKept
      BY <2>1, <3>1, SendingKeeps
    <3>2. CASE UNCHANGED live
      BY <3>2 DEF AlertInv, Rules!LiveStateKept
    <3>3. QED
      BY <2>1, <3>1, <3>2
  <2>3. QED
    BY <2>1, <2>2, CommandEnds
<1>2. CASE Rules!Finish
  <2>1. /\ cmd.mode \in Rules!Modes /\ cmd.todo = {} /\ UNCHANGED <<live, touched, edits, commands>>
        /\ \/ cmd' = Rules!NoCommand
           \/ cmd.failed = {} /\ cmd.mode = "activate" /\ cmd' = [cmd EXCEPT !.mode = "done"]
    BY <1>2 DEF Rules!Finish
  <2>2. Rules!LiveStateKept
    BY <2>1 DEF Rules!LiveStateKept
  <2>3. CASE cmd' = Rules!NoCommand
    <3>1. Sound(live')
      BY <2>1 DEF AlertInv
    <3>2. QED
      BY <2>1, <2>2, <2>3, <3>1, CommandEnds
  <2>4. CASE cmd.failed = {} /\ cmd.mode = "activate" /\ cmd' = [cmd EXCEPT !.mode = "done"]
    <3>1. /\ cmd' \in AlertType /\ cmd'.mode = "done" /\ cmd'.receiver = cmd.receiver
          /\ cmd'.seen = cmd.seen /\ cmd'.todo = {} /\ cmd'.failed = {}
      BY <2>1, <2>4 DEF AlertInv, AlertType, Running
    <3>2. Rules!TypeOK'
      BY <2>1, <3>1 DEF AlertInv, Rules!TypeOK, AlertType, Running
    <3>3. /\ Sound(live) /\ Sound(cmd.seen) /\ Checked(cmd.seen) /\ cmd.receiver \in Receivers
          /\ NoneBesides(live, cmd.seen, "done")
          /\ \A a \in Alerts : Active(Rules!Uid(cmd.seen, a), cmd.receiver)
      BY <2>1, <2>4 DEF AlertInv, Running, NoneBesides
    <3>4. AlertInv'
      BY <2>1, <3>1, <3>2, <3>3 DEF AlertInv, Active, NoneBesides
    <3>5. QED
      BY <2>2, <3>4
  <2>5. QED
    BY <2>1, <2>3, <2>4
<1>3. QED
  BY <1>1, <1>2

LEMMA AlertsKeep ==
  ASSUME AlertConstants, AlertInv, [Rules!Next]_(Rules!vars)
  PROVE  AlertInv' /\ Rules!LiveStateKept
<1>1. CASE UNCHANGED Rules!vars
  <2>1. UNCHANGED <<live, cmd, touched, edits, commands>>
    BY <1>1 DEF Rules!vars
  <2>2. Rules!TypeOK'
    BY <2>1 DEF AlertInv, Rules!TypeOK
  <2>3. \A u, r : Active(u, r)' = Active(u, r)
    BY <2>1 DEF Active
  <2>4. AlertInv'
    BY <2>1, <2>2, <2>3 DEF AlertInv, Kept, Active
  <2>5. QED
    BY <2>1, <2>4 DEF Rules!LiveStateKept
<1>2. QED
  BY <1>1, PeopleKeep, BeginKeeps, AlertWriteKeeps, DieOrFinishKeeps DEF Rules!Next

LEMMA AlertsHold ==
  ASSUME AlertInv PROVE Rules!AlertsStayRouted
<1>1. Rules!TypeOK /\ Sound(live)
  BY DEF AlertInv
<1>2. Rules!LiveRulesAreRouted
  BY <1>1 DEF Sound, Rules!LiveRulesAreRouted, Rules!Ours
<1>3. ASSUME NEW u \in Rules!Ours(live), NEW v \in Rules!Ours(live), u[1] = v[1] PROVE u = v
  <2>1. PICK a \in Alerts : a = u[1]
    BY UidsAre DEF Rules!Ours
  <2>2. /\ u = <<a, "canonical">> \/ u = <<a, "legacy">>
        /\ v = <<a, "canonical">> \/ v = <<a, "legacy">>
    BY <1>3, <2>1, UidsAre DEF Rules!Ours
  <2>3. /\ live[u].there /\ live[u].ours /\ live[v].there /\ live[v].ours
    BY DEF Rules!Ours
  <2>4. ~ ({u, v} = {<<a, "canonical">>, <<a, "legacy">>})
    BY <1>1, <2>3 DEF Sound
  <2>5. QED
    BY <2>2, <2>4
<1>4. Rules!ActivationIsComplete
  BY DEF AlertInv, Active, Rules!ActivationIsComplete
<1>5. Rules!OneRulePerAlert
  BY <1>3 DEF Rules!OneRulePerAlert
<1>6. QED
  BY <1>1, <1>2, <1>4, <1>5 DEF Rules!AlertsStayRouted

-----------------------------------------------------------------------------
(* DashboardPublish.                                                          *)

Stored ==
  [there : BOOLEAN, by : Commands \cup {"people", "nobody"}, build : Dash!Builds \cup {"other", "none"},
   saved : {Dash!Kept} \cup Dash!Altered, known : SUBSET Commands]
Progress ==
  [pc : {"resolve", "get", "put", "post", "read", "done", "died"}, at : 1 .. Len(Names) + 1,
   ok : SUBSET Dash!Published, rc : 0 .. 2]

Before(n) == {Names[i] : i \in 1 .. n - 1}

\* A command has published all of what it has been at, or knows that it has failed.
Honest(k) ==
  /\ k \in Progress
  /\ k.pc = "resolve" => k.at = 1 /\ k.rc = 0
  /\ k.pc \in {"get", "put", "post", "read"} => k.at \in DOMAIN Names /\ k.rc # 2
  /\ k.pc = "done" => k.rc = 2 \/ k.at = Len(Names) + 1
  /\ k.ok \subseteq Before(k.at)
  /\ k.rc = 0 => k.ok = Before(k.at)
  /\ k.rc = 1 => \E i \in 1 .. k.at - 1 : Names[i] \notin k.ok

Intact(d, c) ==
  d.by = c => /\ d.build = Build[c]
              /\ \A p \in Dash!Exactly : d.saved[p] = "kept"
              /\ \A p \in Dash!AtLeast : d.saved[p] # "dropped"

DashInv ==
  /\ stack \in [Dash!Published -> Stored]
  /\ \A d \in Dash!Published : ~ stack[d].there => stack[d] = Dash!Absent
  /\ cmd \in [Commands -> Progress]
  /\ \A c \in Commands : Honest(cmd[c]) /\ \A d \in cmd[c].ok : Intact(stack[d], c)
  /\ edits \in 0 .. MaxEdits /\ faults \in 0 .. MaxFailures

LEMMA NamesAre ==
  ASSUME DashConstants
  PROVE  Len(Names) \in Nat \ {0} /\ DOMAIN Names = 1 .. Len(Names)
BY DEF DashConstants

LEMMA DashboardIs ==
  ASSUME NEW by \in Commands \cup {"people", "nobody"}, NEW build \in Dash!Builds \cup {"other", "none"},
         NEW saved \in {Dash!Kept} \cup Dash!Altered
  PROVE  LET d == Dash!Dashboard(by, build, saved)
         IN  d \in Stored /\ d.there /\ d.by = by /\ d.build = build /\ d.saved = saved /\ d.known = {}
BY DEF Dash!Dashboard, Stored

LEMMA AbsentIs == Dash!Absent \in Stored /\ ~ Dash!Absent.there /\ Dash!Absent.by = "nobody"
<1>1. PICK d \in Stored : d = Dash!Dashboard("nobody", "none", Dash!Kept) /\ d.by = "nobody"
  BY DashboardIs
<1>2. Dash!Absent = [d EXCEPT !.there = FALSE]
  BY <1>1 DEF Dash!Absent
<1>3. QED
  BY <1>1, <1>2 DEF Stored

LEMMA DashBegins ==
  ASSUME DashConstants
  PROVE  Dash!Init => DashInv
<1>1. SUFFICES ASSUME Dash!Init PROVE DashInv
  OBVIOUS
<1>2. PICK d \in Stored : d = Dash!Dashboard("people", "other", Dash!Kept) /\ d.there
  BY DashboardIs
<1>3. /\ stack \in [Dash!Published -> Stored]
      /\ \A n \in Dash!Published : ~ stack[n].there => stack[n] = Dash!Absent
  BY <1>1, <1>2, AbsentIs DEF Dash!Init
<1>4. Dash!Ready \in Progress /\ Honest(Dash!Ready) /\ Dash!Ready.ok = {}
  BY NamesAre DEF Dash!Ready, Progress, Honest, Before
<1>5. /\ cmd \in [Commands -> Progress] /\ \A c \in Commands : cmd[c] = Dash!Ready
      /\ edits = 0 /\ faults = 0
  BY <1>1, <1>4 DEF Dash!Init
<1>6. QED
  BY <1>3, <1>4, <1>5 DEF DashInv, DashConstants

\* A command goes on with the dashboard, or to the next one.
LEMMA GotoIs ==
  ASSUME DashConstants, DashInv, NEW c \in Commands,
         NEW pc \in {"get", "put", "post", "read", "died"}, Dash!Goto(c, pc),
         pc # "died" => cmd[c].at \in DOMAIN Names /\ cmd[c].rc # 2
  PROVE  /\ cmd' \in [Commands -> Progress] /\ Honest(cmd'[c]) /\ cmd'[c].ok = cmd[c].ok
         /\ \A b \in Commands : b # c => cmd'[b] = cmd[b]
<1>1. PICK k : k = cmd[c]
  OBVIOUS
<1>2. PICK next : next = [k EXCEPT !.pc = pc]
  OBVIOUS
<1>3. cmd' = [cmd EXCEPT ![c] = next]
  BY <1>1, <1>2 DEF Dash!Goto, Dash!Become
<1>4. k \in Progress /\ Honest(k)
  BY <1>1 DEF DashInv
<1>5. /\ next \in Progress /\ next.pc = pc /\ next.at = k.at /\ next.rc = k.rc /\ next.ok = k.ok
  BY <1>2, <1>4 DEF Progress
<1>6. Honest(next)
  BY <1>1, <1>4, <1>5 DEF Honest
<1>7. QED
  BY <1>1, <1>3, <1>5, <1>6 DEF DashInv

LEMMA FailedIs ==
  ASSUME DashConstants, DashInv, NEW c \in Commands, Dash!Failed(c),
         cmd[c].at \in DOMAIN Names, cmd[c].rc # 2
  PROVE  /\ cmd' \in [Commands -> Progress] /\ Honest(cmd'[c]) /\ cmd'[c].ok = cmd[c].ok
         /\ \A b \in Commands : b # c => cmd'[b] = cmd[b]
<1>1. PICK k : k = cmd[c]
  OBVIOUS
<1>2. k \in Progress /\ Honest(k)
  BY <1>1 DEF DashInv
<1>3. PICK worse : worse = [k EXCEPT !.rc = 1]
  OBVIOUS
<1>4. worse \in Progress /\ worse.at = k.at /\ worse.ok = k.ok /\ worse.rc = 1
  BY <1>2, <1>3 DEF Progress
<1>5. PICK next : next = [worse EXCEPT !.at = @ + 1, !.pc = IF worse.at = Len(Names) THEN "done" ELSE "get"]
  OBVIOUS
<1>6. cmd' = [cmd EXCEPT ![c] = next]
  BY <1>1, <1>3, <1>5 DEF Dash!Failed, Dash!Proceed, Dash!Become
<1>7. /\ next \in Progress /\ next.at = k.at + 1 /\ next.ok = k.ok /\ next.rc = 1
      /\ next.pc \in {"done", "get"} /\ (next.pc = "done" <=> k.at = Len(Names))
  <2>1. PICK pc : pc = IF k.at = Len(Names) THEN "done" ELSE "get"
    OBVIOUS
  <2>2. next = [worse EXCEPT !.at = @ + 1, !.pc = pc]
    BY <1>4, <1>5, <2>1
  <2>3. pc \in {"done", "get"} /\ (pc = "done" <=> k.at = Len(Names))
    BY <2>1
  <2>4. k.at + 1 \in 1 .. Len(Names) + 1
    BY <1>1, NamesAre
  <2>5. QED
    BY <1>4, <2>2, <2>3, <2>4 DEF Progress
<1>8. k.ok \subseteq Before(next.at) /\ Names[k.at] \notin k.ok
  <2>1. k.at \in 1 .. Len(Names)
    BY <1>1, NamesAre
  <2>2. \A i \in 1 .. k.at - 1 : i \in DOMAIN Names /\ i # k.at
    BY <2>1, NamesAre
  <2>3. Names[k.at] \notin Before(k.at)
    BY <2>1, <2>2, NamesAre DEF Before, DashConstants
  <2>4. Before(k.at) \subseteq Before(next.at)
    BY <1>7, <2>1 DEF Before
  <2>5. QED
    BY <1>2, <2>3, <2>4 DEF Honest
<1>9. Honest(next)
  <2>1. k.at \in 1 .. Len(Names) /\ k.at \in 1 .. next.at - 1
    BY <1>1, <1>7, NamesAre
  <2>2. next.pc = "get" => next.at \in DOMAIN Names
    BY <1>7, <2>1, NamesAre
  <2>3. QED
    BY <1>7, <1>8, <2>1, <2>2 DEF Honest
<1>10. QED
  BY <1>1, <1>6, <1>7, <1>9 DEF DashInv

LEMMA SucceededIs ==
  ASSUME DashConstants, DashInv, NEW c \in Commands, Dash!Succeeded(c),
         cmd[c].at \in DOMAIN Names, cmd[c].rc # 2
  PROVE  /\ cmd' \in [Commands -> Progress] /\ Honest(cmd'[c])
         /\ cmd'[c].ok = cmd[c].ok \cup {Dash!Name(c)}
         /\ \A b \in Commands : b # c => cmd'[b] = cmd[b]
<1>1. PICK k : k = cmd[c]
  OBVIOUS
<1>2. k \in Progress /\ Honest(k)
  BY <1>1 DEF DashInv
<1>3. PICK better : better = [k EXCEPT !.ok = k.ok \cup {Names[k.at]}]
  OBVIOUS
<1>4. /\ better \in Progress /\ better.at = k.at /\ better.rc = k.rc
      /\ better.ok = k.ok \cup {Names[k.at]}
  <2>1. Names[k.at] \in Dash!Published
    BY <1>1 DEF Dash!Published
  <2>2. QED
    BY <1>2, <1>3, <2>1 DEF Progress
<1>5. PICK next : next = [better EXCEPT !.at = @ + 1,
                                        !.pc = IF better.at = Len(Names) THEN "done" ELSE "get"]
  OBVIOUS
<1>6. cmd' = [cmd EXCEPT ![c] = next]
  <2>1. [cmd[c] EXCEPT !.ok = @ \cup {Dash!Name(c)}] = better
    BY <1>1, <1>2, <1>3 DEF Dash!Name, Progress
  <2>2. QED
    BY <1>5, <2>1 DEF Dash!Succeeded, Dash!Proceed, Dash!Become
<1>7. /\ next \in Progress /\ next.at = k.at + 1 /\ next.ok = k.ok \cup {Names[k.at]}
      /\ next.rc = k.rc
      /\ next.pc \in {"done", "get"} /\ (next.pc = "done" <=> k.at = Len(Names))
  <2>1. PICK pc : pc = IF k.at = Len(Names) THEN "done" ELSE "get"
    OBVIOUS
  <2>2. next = [better EXCEPT !.at = @ + 1, !.pc = pc]
    BY <1>4, <1>5, <2>1
  <2>3. pc \in {"done", "get"} /\ (pc = "done" <=> k.at = Len(Names))
    BY <2>1
  <2>4. k.at + 1 \in 1 .. Len(Names) + 1
    BY <1>1, NamesAre
  <2>5. QED
    BY <1>4, <2>2, <2>3, <2>4 DEF Progress
<1>8. k.at \in 1 .. Len(Names)
  BY <1>1, NamesAre
<1>9. Before(next.at) = Before(k.at) \cup {Names[k.at]}
  <2>1. \A i : i \in 1 .. next.at - 1 <=> i \in 1 .. k.at - 1 \/ i = k.at
    BY <1>7, <1>8, NamesAre
  <2>2. QED
    BY <2>1 DEF Before
<1>10. next.rc = 1 => \E i \in 1 .. next.at - 1 : Names[i] \notin next.ok
  <2>1. ASSUME k.rc = 1 PROVE \E i \in 1 .. next.at - 1 : Names[i] \notin next.ok
    <3>1. PICK i \in 1 .. k.at - 1 : Names[i] \notin k.ok
      BY <1>2, <2>1 DEF Honest
    <3>2. i \in DOMAIN Names /\ i # k.at /\ i \in 1 .. next.at - 1
      BY <1>7, <1>8, NamesAre
    <3>3. Names[i] # Names[k.at]
      BY <1>8, <3>2, NamesAre DEF DashConstants
    <3>4. QED
      BY <1>7, <3>1, <3>2, <3>3
  <2>2. QED
    BY <1>7, <2>1
<1>11. next.pc = "get" => next.at \in DOMAIN Names
  BY <1>7, <1>8, NamesAre
<1>12. Honest(next)
  BY <1>1, <1>2, <1>7, <1>9, <1>10, <1>11 DEF Honest
<1>13. cmd'[c] = next /\ cmd' \in [Commands -> Progress] /\ \A b \in Commands : b # c => cmd'[b] = cmd[b]
  BY <1>6, <1>7 DEF DashInv
<1>14. QED
  BY <1>1, <1>7, <1>12, <1>13 DEF Dash!Name

\* What a command has called published is not what it writes now.
LEMMA NameIs ==
  ASSUME DashConstants, DashInv, NEW c \in Commands, cmd[c].at \in DOMAIN Names
  PROVE  Dash!Name(c) \in Dash!Published /\ Dash!Name(c) \notin cmd[c].ok
<1>1. PICK k : k = cmd[c] /\ Honest(k)
  BY DEF DashInv
<1>2. \A i \in 1 .. k.at - 1 : i \in DOMAIN Names /\ i # k.at
  BY <1>1, NamesAre
<1>3. Names[k.at] \notin Before(k.at)
  BY <1>1, <1>2, NamesAre DEF Before, DashConstants
<1>4. QED
  BY <1>1, <1>3 DEF Honest, Dash!Name, Dash!Published

\* One command has moved, and the dashboards that it has published are as they were.
LEMMA MoveKeeps ==
  ASSUME DashInv, NEW c \in Commands,
         cmd' \in [Commands -> Progress], Honest(cmd'[c]),
         \A b \in Commands : b # c => cmd'[b] = cmd[b],
         stack' \in [Dash!Published -> Stored],
         \A d \in Dash!Published : ~ stack'[d].there => stack'[d] = Dash!Absent,
         \A b \in Commands : \A d \in cmd'[b].ok : Intact(stack'[d], b),
         edits' = edits, faults' \in 0 .. MaxFailures
  PROVE  DashInv'
<1>1. \A b \in Commands : Honest(cmd'[b])
  BY DEF DashInv
<1>2. QED
  BY <1>1 DEF DashInv, Intact

LEMMA TroubleIs ==
  ASSUME DashConstants, DashInv, Dash!Trouble \/ UNCHANGED faults
  PROVE  faults' \in 0 .. MaxFailures
BY DEF DashInv, DashConstants, Dash!Trouble

LEMMA ResolveKeeps ==
  ASSUME DashConstants, DashInv, NEW c \in Commands, Dash!Resolve(c)
  PROVE  DashInv' /\ Dash!NothingUnreadIsReplaced
<1>1. cmd[c].pc = "resolve" /\ UNCHANGED <<stack, edits>> /\ (Dash!Trouble \/ UNCHANGED faults)
  BY DEF Dash!Resolve
<1>2. cmd[c].at = 1 /\ cmd[c].rc = 0 /\ cmd[c] \in Progress /\ Honest(cmd[c])
  BY <1>1 DEF DashInv, Honest
<1>3. /\ cmd' \in [Commands -> Progress] /\ Honest(cmd'[c]) /\ cmd'[c].ok = cmd[c].ok
      /\ \A b \in Commands : b # c => cmd'[b] = cmd[b]
  <2>1. CASE Dash!Goto(c, "get")
    BY <1>2, <2>1, NamesAre, GotoIs
  <2>2. CASE Dash!Become(c, [cmd[c] EXCEPT !.pc = "done", !.rc = 2])
    <3>1. PICK k : k = cmd[c]
      OBVIOUS
    <3>2. PICK next : next = [k EXCEPT !.pc = "done", !.rc = 2]
      OBVIOUS
    <3>3. next \in Progress /\ next.pc = "done" /\ next.rc = 2 /\ next.at = k.at /\ next.ok = k.ok
      <4>1. k \in Progress
        BY <1>2, <3>1
      <4>2. PICK mid \in Progress : mid = [k EXCEPT !.pc = "done"]
        BY <4>1 DEF Progress
      <4>3. next = [mid EXCEPT !.rc = 2] /\ mid.pc = "done" /\ mid.at = k.at /\ mid.ok = k.ok
        BY <3>2, <4>1, <4>2 DEF Progress
      <4>4. 2 \in 0 .. 2
        OBVIOUS
      <4>5. QED
        BY <4>2, <4>3, <4>4 DEF Progress
    <3>4. Honest(next)
      BY <1>2, <3>1, <3>3 DEF Honest
    <3>5. cmd' = [cmd EXCEPT ![c] = next]
      BY <2>2, <3>1, <3>2 DEF Dash!Become
    <3>6. QED
      BY <3>1, <3>3, <3>4, <3>5 DEF DashInv
  <2>3. QED
    BY <2>1, <2>2 DEF Dash!Resolve
<1>4. faults' \in 0 .. MaxFailures
  BY <1>1, TroubleIs
<1>5. \A b \in Commands : \A d \in cmd'[b].ok : Intact(stack'[d], b)
  BY <1>1, <1>3 DEF DashInv
<1>6. DashInv'
  BY <1>1, <1>3, <1>4, <1>5, MoveKeeps DEF DashInv
<1>7. QED
  BY <1>1, <1>6 DEF Dash!NothingUnreadIsReplaced

LEMMA GetKeeps ==
  ASSUME DashConstants, DashInv, NEW c \in Commands, Dash!Get(c)
  PROVE  DashInv' /\ Dash!NothingUnreadIsReplaced
<1>1. cmd[c].pc = "get" /\ UNCHANGED edits /\ (Dash!Trouble \/ UNCHANGED faults)
  BY DEF Dash!Get
<1>2. cmd[c].at \in DOMAIN Names /\ cmd[c].rc # 2
  BY <1>1 DEF DashInv, Honest
<1>3. PICK n \in Dash!Published : n = Dash!Name(c)
  BY <1>2, NameIs
<1>4. /\ cmd' \in [Commands -> Progress] /\ Honest(cmd'[c]) /\ cmd'[c].ok = cmd[c].ok
      /\ \A b \in Commands : b # c => cmd'[b] = cmd[b]
  <2>1. Dash!Goto(c, "put") \/ Dash!Goto(c, "post") \/ Dash!Goto(c, "died")
    BY DEF Dash!Get, Dash!Dies
  <2>2. QED
    BY <1>2, <2>1, GotoIs
<1>5. PICK read \in Stored :
        /\ stack' = stack \/ (stack[n].there /\ stack' = [stack EXCEPT ![n] = read])
        /\ read = [stack[n] EXCEPT !.known = @ \cup {c}]
        /\ read.there = stack[n].there /\ read.by = stack[n].by /\ read.build = stack[n].build
        /\ read.saved = stack[n].saved /\ c \in read.known
  <2>1. PICK d \in Stored : d = stack[n]
    BY DEF DashInv
  <2>2. PICK read : read = [d EXCEPT !.known = d.known \cup {c}]
    OBVIOUS
  <2>3. /\ read \in Stored /\ read.there = d.there /\ read.by = d.by /\ read.build = d.build
        /\ read.saved = d.saved /\ read.known = d.known \cup {c}
    BY <2>2 DEF Stored
  <2>4. read = [stack[n] EXCEPT !.known = @ \cup {c}]
    BY <2>1, <2>2 DEF Stored
  <2>5. stack' = stack \/ (stack[n].there /\ stack' = [stack EXCEPT ![n] = read])
    BY <1>3, <2>1, <2>2 DEF Dash!Get, DashInv, Stored
  <2>6. QED
    BY <2>1, <2>3, <2>4, <2>5
<1>6. /\ stack' \in [Dash!Published -> Stored]
      /\ \A d \in Dash!Published :
           /\ stack'[d] = stack[d] \/ (d = n /\ stack[d].there /\ stack'[d] = read)
  BY <1>5 DEF DashInv
<1>7. \A b \in Commands : \A d \in cmd'[b].ok : d \in Dash!Published /\ Intact(stack[d], b)
  BY <1>4 DEF DashInv, Progress
<1>8. \A b \in Commands : \A d \in cmd'[b].ok : Intact(stack'[d], b)
  <2>1. \A b \in Commands : Intact(stack[n], b) => Intact(read, b)
    BY <1>5 DEF Intact
  <2>2. QED
    BY <1>6, <1>7, <2>1
<1>9. \A d \in Dash!Published : ~ stack'[d].there => stack'[d] = Dash!Absent
  BY <1>5, <1>6 DEF DashInv
<1>10. faults' \in 0 .. MaxFailures
  BY <1>1, TroubleIs
<1>11. DashInv'
  BY <1>1, <1>4, <1>6, <1>8, <1>9, <1>10, MoveKeeps
<1>12. Dash!NothingUnreadIsReplaced
  BY <1>4, <1>5, <1>6 DEF Dash!NothingUnreadIsReplaced
<1>13. QED
  BY <1>11, <1>12

\* A dashboard is written where its version was read, or where there is none.
LEMMA DashWriteKeeps ==
  ASSUME DashConstants, DashInv, NEW c \in Commands, Dash!Put(c) \/ Dash!Post(c)
  PROVE  DashInv' /\ Dash!NothingUnreadIsReplaced
<1>1. cmd[c].pc \in {"put", "post"} /\ UNCHANGED edits /\ (Dash!Trouble \/ UNCHANGED faults)
  BY DEF Dash!Put, Dash!Post, Dash!Write, Dash!Accepted, Dash!Refused
<1>2. cmd[c].at \in DOMAIN Names /\ cmd[c].rc # 2
  BY <1>1 DEF DashInv, Honest
<1>3. PICK n \in Dash!Published : n = Dash!Name(c) /\ n \notin cmd[c].ok
  BY <1>2, NameIs
<1>4. /\ cmd' \in [Commands -> Progress] /\ Honest(cmd'[c]) /\ cmd'[c].ok = cmd[c].ok
      /\ \A b \in Commands : b # c => cmd'[b] = cmd[b]
  <2>1. Dash!Goto(c, "read") \/ Dash!Goto(c, "died") \/ Dash!Failed(c)
    BY DEF Dash!Put, Dash!Post, Dash!Write, Dash!Accepted, Dash!Refused, Dash!Dies
  <2>2. QED
    BY <1>2, <2>1, GotoIs, FailedIs
<1>5. \/ stack' = stack
      \/ /\ stack[n].there => c \in stack[n].known
         /\ \E saved \in {Dash!Kept} \cup Dash!Altered : Dash!Stores(c, saved)
  BY <1>3 DEF Dash!Put, Dash!Post, Dash!Write, Dash!Accepted, Dash!Refused, Dash!Replaceable
<1>6. PICK written \in Stored :
        /\ written.there
        /\ \/ stack' = stack
           \/ /\ stack[n].there => c \in stack[n].known
              /\ written.by = c /\ stack' = [stack EXCEPT ![n] = written]
  <2>1. ASSUME NEW saved \in {Dash!Kept} \cup Dash!Altered
        PROVE  LET d == Dash!Dashboard(c, Build[c], saved)
               IN  d \in Stored /\ d.there /\ d.by = c
    <3>1. Build[c] \in Dash!Builds
      BY DEF Dash!Builds
    <3>2. QED
      BY <3>1, DashboardIs
  <2>2. \A saved \in {Dash!Kept} \cup Dash!Altered : Dash!Stores(c, saved) =>
           stack' = [stack EXCEPT ![n] = Dash!Dashboard(c, Build[c], saved)]
    BY <1>3 DEF Dash!Stores
  <2>3. QED
    BY <1>5, <2>1, <2>2
<1>7. /\ stack' \in [Dash!Published -> Stored]
      /\ \A d \in Dash!Published :
           \/ stack'[d] = stack[d]
           \/ /\ d = n /\ stack'[d] = written /\ written.by = c
              /\ stack[d].there => c \in stack[d].known
  BY <1>6 DEF DashInv
<1>8. \A b \in Commands : \A d \in cmd'[b].ok :
        d \in Dash!Published /\ Intact(stack[d], b) /\ (b = c => d # n)
  BY <1>3, <1>4 DEF DashInv, Progress
<1>9. \A b \in Commands : \A d \in cmd'[b].ok : Intact(stack'[d], b)
  BY <1>7, <1>8 DEF Intact
<1>10. \A d \in Dash!Published : ~ stack'[d].there => stack'[d] = Dash!Absent
  BY <1>6, <1>7 DEF DashInv
<1>11. faults' \in 0 .. MaxFailures
  BY <1>1, TroubleIs
<1>12. DashInv'
  BY <1>1, <1>4, <1>7, <1>9, <1>10, <1>11, MoveKeeps
<1>13. Dash!NothingUnreadIsReplaced
  BY <1>4, <1>7 DEF Dash!NothingUnreadIsReplaced
<1>14. QED
  BY <1>12, <1>13

LEMMA ReadBackKeeps ==
  ASSUME DashConstants, DashInv, NEW c \in Commands, Dash!ReadBack(c)
  PROVE  DashInv' /\ Dash!NothingUnreadIsReplaced
<1>1. cmd[c].pc = "read" /\ UNCHANGED <<stack, edits>> /\ (Dash!Trouble \/ UNCHANGED faults)
  BY DEF Dash!ReadBack
<1>2. cmd[c].at \in DOMAIN Names /\ cmd[c].rc # 2
  BY <1>1 DEF DashInv, Honest
<1>3. \/ Dash!Accepts(c, stack[Dash!Name(c)]) /\ Dash!Succeeded(c)
      \/ Dash!Failed(c) \/ Dash!Goto(c, "died")
  BY DEF Dash!ReadBack, Dash!Dies
<1>4. /\ cmd' \in [Commands -> Progress] /\ Honest(cmd'[c])
      /\ \A b \in Commands : b # c => cmd'[b] = cmd[b]
      /\ \A d \in cmd'[c].ok : d \in cmd[c].ok \/ Intact(stack[d], c)
  <2>1. CASE Dash!Accepts(c, stack[Dash!Name(c)]) /\ Dash!Succeeded(c)
    <3>1. Intact(stack[Dash!Name(c)], c)
      BY <2>1 DEF Dash!Accepts, Intact
    <3>2. QED
      BY <1>2, <2>1, <3>1, SucceededIs
  <2>2. CASE Dash!Failed(c) \/ Dash!Goto(c, "died")
    BY <1>2, <2>2, FailedIs, GotoIs
  <2>3. QED
    BY <1>3, <2>1, <2>2
<1>5. \A b \in Commands : \A d \in cmd'[b].ok : Intact(stack'[d], b)
  BY <1>1, <1>4 DEF DashInv
<1>6. faults' \in 0 .. MaxFailures
  BY <1>1, TroubleIs
<1>7. DashInv'
  BY <1>1, <1>4, <1>5, <1>6, MoveKeeps DEF DashInv
<1>8. QED
  BY <1>1, <1>7 DEF Dash!NothingUnreadIsReplaced

LEMMA DashEditKeeps ==
  ASSUME DashConstants, DashInv, Dash!Edit
  PROVE  DashInv' /\ Dash!NothingUnreadIsReplaced
<1>1. edits < MaxEdits /\ edits' = edits + 1 /\ UNCHANGED <<cmd, faults>>
  BY DEF Dash!Edit
<1>2. PICK n \in Dash!Published, build \in Dash!Builds \cup {"other"} :
        stack' = [stack EXCEPT ![n] = Dash!Dashboard("people", build, Dash!Kept)]
  BY DEF Dash!Edit
<1>3. PICK d \in Stored : d = Dash!Dashboard("people", build, Dash!Kept) /\ d.there /\ d.by = "people"
  BY DashboardIs
<1>4. /\ stack' \in [Dash!Published -> Stored]
      /\ \A m \in Dash!Published : stack'[m] = stack[m] \/ stack'[m] = d
  BY <1>2, <1>3 DEF DashInv
<1>5. \A b \in Commands : \A m \in cmd'[b].ok : Intact(stack'[m], b)
  <2>1. \A b \in Commands : Intact(d, b)
    BY <1>3 DEF Intact, DashConstants
  <2>2. \A b \in Commands : \A m \in cmd'[b].ok : m \in Dash!Published /\ Intact(stack[m], b)
    BY <1>1 DEF DashInv, Progress
  <2>3. QED
    BY <1>4, <2>1, <2>2
<1>6. edits' \in 0 .. MaxEdits
  BY <1>1 DEF DashInv, DashConstants
<1>7. \A m \in Dash!Published : ~ stack'[m].there => stack'[m] = Dash!Absent
  BY <1>3, <1>4 DEF DashInv
<1>8. DashInv'
  BY <1>1, <1>4, <1>5, <1>6, <1>7 DEF DashInv, Intact
<1>9. QED
  BY <1>1, <1>8 DEF Dash!NothingUnreadIsReplaced

LEMMA DashKeeps ==
  ASSUME DashConstants, DashInv, [Dash!Next]_(Dash!vars)
  PROVE  DashInv' /\ Dash!NothingUnreadIsReplaced
<1>1. CASE UNCHANGED Dash!vars
  <2>1. UNCHANGED <<stack, cmd, edits, faults>>
    BY <1>1 DEF Dash!vars
  <2>2. QED
    BY <2>1 DEF DashInv, Intact, Dash!NothingUnreadIsReplaced
<1>2. ASSUME NEW c \in Commands, Dash!Command(c) PROVE DashInv' /\ Dash!NothingUnreadIsReplaced
  BY <1>2, ResolveKeeps, GetKeeps, DashWriteKeeps, ReadBackKeeps DEF Dash!Command
<1>3. QED
  BY <1>1, <1>2, DashEditKeeps DEF Dash!Next

LEMMA DashHolds ==
  ASSUME DashConstants, DashInv PROVE Dash!DashboardsAreIntact
<1>1. Dash!TypeOK
  BY DEF DashInv, Dash!TypeOK, Stored, Progress
<1>2. Dash!PublishedIsIntact
  BY DEF DashInv, Intact, Dash!PublishedIsIntact
<1>3. ASSUME NEW c \in Commands, cmd[c].pc = "done"
      PROVE  /\ cmd[c].rc = 0 => cmd[c].ok = Dash!Published
             /\ cmd[c].rc = 1 => cmd[c].ok # Dash!Published /\ cmd[c].at > Len(Names)
  <2>1. PICK k : k = cmd[c] /\ Honest(k)
    BY DEF DashInv
  <2>2. k.rc # 2 => k.at = Len(Names) + 1 /\ k.at - 1 = Len(Names)
    BY <1>3, <2>1, NamesAre DEF Honest
  <2>3. k.rc # 2 => Before(k.at) = Dash!Published
    BY <2>2, NamesAre DEF Before, Dash!Published
  <2>4. ASSUME k.rc = 1 PROVE k.ok # Dash!Published
    <3>1. PICK i \in 1 .. k.at - 1 : Names[i] \notin k.ok
      BY <2>1, <2>4 DEF Honest
    <3>2. Names[i] \in Dash!Published
      BY <2>2, <2>4, <3>1, NamesAre DEF Dash!Published
    <3>3. QED
      BY <3>1, <3>2
  <2>5. QED
    BY <2>1, <2>2, <2>3, <2>4, NamesAre DEF Honest
<1>4. QED
  BY <1>1, <1>2, <1>3 DEF Dash!DashboardsAreIntact, Dash!SuccessIsComplete

-----------------------------------------------------------------------------
(* Listing.                                                                   *)

\* What the reader has, what there is, and how many rows were on the pages before this one.
Has == List!Range(list.seen)
There == List!All(rows)
Earlier == (list.page - 1) * PageSize
\* What the inventory counted and the reader is not shown.
Concealed == IF reader = "dashboards" THEN hidden ELSE 0
Counting == list.total # List!NoTotal

ListTyped ==
  /\ reader \in List!Sources /\ hidden \in 0 .. PageSize /\ signing \subseteq Id
  /\ rows \in [List!Places -> Seq(Id)] /\ \A p \in List!Places : List!IsInjective(rows[p])
  /\ list \in [pc : {"coverage", "page", "done"}, place : List!Places, page : Nat \ {0},
               seen : Seq(List!Places \X Id), total : -1 .. Cardinality(Id) + PageSize,
               followed : SUBSET (Nat \ {0}), matches : SUBSET (Id \X BOOLEAN)]
  /\ result \in [state : {"pending", "unavailable", "available"}, count : Nat]
  /\ happened \in [came : BOOLEAN, went : BOOLEAN, moved : BOOLEAN, changes : 0 .. MaxMoves,
                   stayed : SUBSET (List!Places \X Id), sizes : SUBSET (0 .. Cardinality(Id))]

\* Only the continued readers go from place to place, and of two kinds whoever reads is shown all rows.
ListPlaces ==
  /\ reader \notin List!Continued =>
       list.place = 1 /\ \A p \in List!Places : p # 1 => rows[p] = <<>>
  /\ reader \in List!Continued \/ (reader = "panels" /\ list.pc = "page") => hidden = 0
  /\ list.pc = "coverage" => reader = "panels" /\ list = List!Start
  /\ list.pc # "done" => result = List!Pending

\* What stayed is there, and all that is there stayed as long as nothing has happened.
ListStays ==
  /\ happened.stayed \subseteq There
  /\ List!Undisturbed => happened.stayed = There
  /\ Len(rows[1]) \in happened.sizes

\* As long as nothing went, what the reader has is there; as long as nothing came, there is not more
\* than it counted beside what it has.
ListCounted ==
  (list.pc = "page" /\ reader \notin List!Continued) =>
    /\ reader \in List!Counted => (Counting <=> list.page > 1) /\ (~ Counting => list.seen = <<>>)
    /\ reader = "dashboards" => Counting
    /\ reader \in {"accounts", "dashboards"} => Len(list.seen) = Earlier
    /\ ~ happened.went => Has \subseteq There
    /\ Counting /\ ~ happened.came => Cardinality(Has \cup There) + Concealed <= list.total

\* Nobody asks whether an account comes twice: what has been read is the beginning of the list as
\* long as it is as long as it was counted, which after a change it is not.
ListInOrder ==
  (list.pc = "page" /\ reader = "accounts" /\ Counting /\ ~ happened.moved /\ ~ List!Replaced) =>
    /\ ~ happened.went => Len(rows[1]) >= list.total
    /\ Len(rows[1]) = list.total =>
         \A i \in DOMAIN list.seen : i \in DOMAIN rows[1] /\ list.seen[i] = <<1, rows[1][i]>>

\* Whether the policies that were read sign.
Asked == {<<r[2], r[2] \in signing>> : r \in Has}

\* A row is in a place to come, or on a page to come.
ToCome(r) ==
  \/ r[1] > list.place
  \/ /\ r[1] = list.place
     /\ \E i \in DOMAIN rows[list.place] : i > Earlier /\ r[2] = rows[list.place][i]

\* What stayed has been read or is ahead.
ListFollowed ==
  (list.pc = "page" /\ reader \in List!Continued) =>
    /\ ~ happened.went /\ ~ happened.moved => \A r \in happened.stayed : r \in Has \/ ToCome(r)
    /\ ~ happened.went => Has \subseteq There
    /\ List!Undisturbed => list.matches = Asked

ListUnique == list.pc = "page" /\ reader # "accounts" => List!IsInjective(list.seen)

ListTold ==
  /\ List!CountWasTrue /\ List!HiddenRowsAreNoticed /\ List!NothingThatStayedIsMissed
  /\ List!NoRowTwice /\ List!NetworksAreCounted

ListInv ==
  /\ ListTyped /\ ListPlaces /\ ListStays /\ ListCounted /\ ListInOrder /\ ListFollowed
  /\ ListUnique /\ ListTold

LEMMA ListCardinality == ASSUME NEW S PROVE List!Cardinality(S) = Cardinality(S)
BY DEF List!Cardinality, Cardinality

\* There are finitely many rows, and as many as one on a page.
LEMMA PageSizeIs == Cardinality(Id) \in Nat /\ PageSize \in Nat \ {0}
<1>1. IsFiniteSet(Id) /\ PageSize \in 1 .. Cardinality(Id)
  BY ListAssumption DEF ListConstants
<1>2. Cardinality(Id) \in Nat
  BY <1>1, FS_CardinalityType
<1>3. QED
  BY <1>1, <1>2

LEMMA RangeIs ==
  ASSUME NEW S, NEW s \in Seq(S)
  PROVE  /\ DOMAIN s = 1 .. Len(s) /\ Len(s) \in Nat
         /\ List!Range(s) = {s[i] : i \in 1 .. Len(s)} /\ List!Range(s) \subseteq S
BY DEF List!Range

\* A sequence has no more elements than its length, and as many if none comes twice.
LEMMA SizeIs ==
  ASSUME NEW S, NEW s \in Seq(S)
  PROVE  /\ IsFiniteSet(List!Range(s)) /\ Cardinality(List!Range(s)) \in Nat
         /\ Len(s) \in Nat /\ Cardinality(List!Range(s)) <= Len(s)
         /\ List!IsInjective(s) => Cardinality(List!Range(s)) = Len(s)
<1>1. DOMAIN s = 1 .. Len(s) /\ Len(s) \in Nat
  BY RangeIs
<1> DEFINE n == Len(s)
           D == 1 .. n
           T == List!Range(s)
<1>2. s \in Surjection(D, T)
  BY <1>1 DEF Surjection, List!Range
<1>3. IsFiniteSet(D) /\ Cardinality(D) = n
  <2>1. 1 \in Int /\ n \in Int
    BY <1>1
  <2> HIDE DEF n
  <2>2. IsFiniteSet(1 .. n) /\ Cardinality(1 .. n) = IF 1 > n THEN 0 ELSE n - 1 + 1
    BY <2>1, FS_Interval
  <2>3. QED
    BY <1>1, <2>2 DEF n
<1>4. List!IsInjective(s) => s \in Injection(D, T)
  BY <1>1, <1>2 DEF Injection, Surjection, List!IsInjective, IsInjective
<1> HIDE DEF D, T
<1>5. IsFiniteSet(T) /\ Cardinality(T) <= n /\ (s \in Injection(D, T) => Cardinality(T) = n)
  BY <1>2, <1>3, FS_Surjection
<1>6. Cardinality(T) \in Nat
  BY <1>5, FS_CardinalityType
<1>7. QED
  BY <1>1, <1>4, <1>5, <1>6 DEF T

LEMMA InsertIs ==
  ASSUME NEW S, NEW s \in Seq(S), NEW e \in S, NEW i \in 1 .. Len(s) + 1,
         NEW u, u = List!InsertAt(s, i, e)
  PROVE  /\ u \in Seq(S) /\ Len(u) = Len(s) + 1
         /\ u[i] = e /\ \A k \in 1 .. i - 1 : u[k] = s[k]
         /\ \A k \in i .. Len(s) : u[k + 1] = s[k]
<1> DEFINE a == SubSeq(s, 1, i - 1)
           b == SubSeq(s, i, Len(s))
           ae == a \o <<e>>
<1>0. Len(s) \in Nat /\ i \in Int /\ i - 1 \in Int /\ 1 \in Int /\ Len(s) \in Int
  OBVIOUS
<1>1. a \in Seq(S) /\ Len(a) = i - 1 /\ \A k \in 1 .. i - 1 : a[k] = s[k]
  BY <1>0, SubSeqProperties
<1>2. b \in Seq(S) /\ Len(b) = Len(s) - i + 1 /\ \A k \in 1 .. Len(s) - i + 1 : b[k] = s[i + k - 1]
  BY <1>0, SubSeqProperties
<1>3. <<e>> \in Seq(S) /\ Len(<<e>>) = 1 /\ <<e>>[1] = e
  OBVIOUS
<1> HIDE DEF a, b
<1>4. ae \in Seq(S) /\ Len(ae) = i /\ \A k \in 1 .. i : ae[k] = IF k < i THEN a[k] ELSE e
  BY <1>0, <1>1, <1>3, ConcatProperties
<1> HIDE DEF ae
<1>5. /\ ae \o b \in Seq(S) /\ Len(ae \o b) = Len(s) + 1
      /\ \A k \in 1 .. Len(s) + 1 : (ae \o b)[k] = IF k <= i THEN ae[k] ELSE b[k - i]
  <2>1. /\ ae \o b \in Seq(S) /\ Len(ae \o b) = Len(ae) + Len(b)
        /\ \A k \in 1 .. Len(ae) + Len(b) : (ae \o b)[k] = IF k <= Len(ae) THEN ae[k] ELSE b[k - Len(ae)]
    BY <1>2, <1>4, ConcatProperties
  <2>2. Len(ae) = i /\ Len(ae) + Len(b) = Len(s) + 1
    BY <1>0, <1>2, <1>4
  <2>3. QED
    BY <2>1, <2>2
<1>6. u = ae \o b
  BY DEF List!InsertAt, ae, a, b
<1>7. \A k \in 1 .. Len(s) + 1 : (ae \o b)[k] = IF k < i THEN s[k] ELSE IF k = i THEN e ELSE s[k - 1]
  BY <1>0, <1>1, <1>2, <1>4, <1>5
<1>8. u \in Seq(S) /\ Len(u) = Len(s) + 1
      /\ \A k \in 1 .. Len(s) + 1 : u[k] = IF k < i THEN s[k] ELSE IF k = i THEN e ELSE s[k - 1]
  BY <1>5, <1>6, <1>7
<1>9. u[i] = e
  BY <1>0, <1>8
<1>10. ASSUME NEW k \in 1 .. i - 1 PROVE u[k] = s[k]
  BY <1>0, <1>8
<1>11. ASSUME NEW k \in i .. Len(s) PROVE u[k + 1] = s[k]
  <2>1. k + 1 \in 1 .. Len(s) + 1 /\ k + 1 > i /\ k + 1 - 1 = k
    BY <1>0
  <2>2. QED
    BY <1>0, <1>8, <2>1
<1>12. QED
  BY <1>8, <1>9, <1>10, <1>11

LEMMA RemoveIs ==
  ASSUME NEW S, NEW s \in Seq(S), NEW i \in 1 .. Len(s),
         NEW u, u = List!RemoveAt(s, i)
  PROVE  /\ u \in Seq(S) /\ Len(u) = Len(s) - 1
         /\ \A k \in 1 .. Len(s) - 1 : u[k] = IF k < i THEN s[k] ELSE s[k + 1]
<1> DEFINE a == SubSeq(s, 1, i - 1)
           b == SubSeq(s, i + 1, Len(s))
<1>0. Len(s) \in Nat /\ i \in Int /\ i - 1 \in Int /\ i + 1 \in Int /\ 1 \in Int /\ Len(s) \in Int
  OBVIOUS
<1>1. a \in Seq(S) /\ Len(a) = i - 1 /\ \A k \in 1 .. i - 1 : a[k] = s[k]
  BY <1>0, SubSeqProperties
<1>2. b \in Seq(S) /\ Len(b) = Len(s) - i /\ \A k \in 1 .. Len(s) - i : b[k] = s[i + k]
  BY <1>0, SubSeqProperties
<1> HIDE DEF a, b
<1>3. /\ a \o b \in Seq(S) /\ Len(a \o b) = Len(s) - 1
      /\ \A k \in 1 .. Len(s) - 1 : (a \o b)[k] = IF k <= i - 1 THEN a[k] ELSE b[k - (i - 1)]
  <2>1. /\ a \o b \in Seq(S) /\ Len(a \o b) = Len(a) + Len(b)
        /\ \A k \in 1 .. Len(a) + Len(b) : (a \o b)[k] = IF k <= Len(a) THEN a[k] ELSE b[k - Len(a)]
    BY <1>1, <1>2, ConcatProperties
  <2>2. Len(a) = i - 1 /\ Len(a) + Len(b) = Len(s) - 1
    BY <1>0, <1>1, <1>2
  <2>3. QED
    BY <2>1, <2>2
<1>4. u = a \o b
  BY DEF List!RemoveAt, a, b
<1>5. \A k \in 1 .. Len(s) - 1 : (a \o b)[k] = IF k < i THEN s[k] ELSE s[k + 1]
  <2> SUFFICES ASSUME NEW k \in 1 .. Len(s) - 1
               PROVE  (a \o b)[k] = IF k < i THEN s[k] ELSE s[k + 1]
    OBVIOUS
  <2>1. CASE k < i
    BY <1>0, <1>1, <1>3, <2>1
  <2>2. CASE k >= i
    <3>1. (a \o b)[k] = b[k - (i - 1)] /\ k - (i - 1) \in 1 .. Len(s) - i
      BY <1>0, <1>3, <2>2
    <3>2. b[k - (i - 1)] = s[i + (k - (i - 1))] /\ i + (k - (i - 1)) = k + 1
      BY <1>0, <1>2, <3>1
    <3>3. QED
      BY <2>2, <3>1, <3>2
  <2>3. k < i \/ k >= i
    BY <1>0
  <2>4. QED
    BY <2>1, <2>2, <2>3
<1>6. QED
  BY <1>3, <1>4, <1>5

\* A row that is put into a list pushes others back, and none is lost.
LEMMA InsertKeeps ==
  ASSUME NEW S, NEW s \in Seq(S), NEW e \in S, NEW i \in 1 .. Len(s) + 1,
         NEW u, u = List!InsertAt(s, i, e)
  PROVE  /\ List!Range(u) = List!Range(s) \cup {e}
         /\ \A k \in 1 .. Len(s) : \E j \in 1 .. Len(u) : j >= k /\ u[j] = s[k]
         /\ List!IsInjective(s) /\ e \notin List!Range(s) => List!IsInjective(u)
<1>1. /\ u \in Seq(S) /\ Len(u) = Len(s) + 1 /\ Len(s) \in Nat
      /\ DOMAIN u = 1 .. Len(s) + 1 /\ DOMAIN s = 1 .. Len(s)
      /\ u[i] = e /\ (\A k \in 1 .. i - 1 : u[k] = s[k])
      /\ \A k \in i .. Len(s) : u[k + 1] = s[k]
  <2>1. u \in Seq(S) /\ Len(u) = Len(s) + 1
    BY InsertIs
  <2>2. u[i] = e /\ \A k \in 1 .. i - 1 : u[k] = s[k]
    BY InsertIs
  <2>3. \A k \in i .. Len(s) : u[k + 1] = s[k]
    BY InsertIs
  <2>4. Len(s) \in Nat /\ DOMAIN s = 1 .. Len(s) /\ DOMAIN u = 1 .. Len(s) + 1
    BY <2>1, RangeIs
  <2>5. QED
    BY <2>1, <2>2, <2>3, <2>4
<1>2. \A k \in 1 .. Len(s) : \E j \in 1 .. Len(u) : j >= k /\ u[j] = s[k]
  <2> TAKE k \in 1 .. Len(s)
  <2>1. CASE k < i
    BY <1>1, <2>1
  <2>2. CASE k >= i
    <3>1. k + 1 \in 1 .. Len(u) /\ k + 1 >= k /\ u[k + 1] = s[k]
      BY <1>1, <2>2
    <3>2. QED
      BY <3>1
  <2>3. QED
    BY <2>1, <2>2
<1>3. u[i] = e /\ i \in DOMAIN u
  BY <1>1
<1>4. \A k \in DOMAIN u : u[k] = e \/ \E j \in DOMAIN s : u[k] = s[j]
  <2> TAKE k \in DOMAIN u
  <2>1. k < i => k \in DOMAIN s /\ u[k] = s[k]
    BY <1>1
  <2>2. k > i => k - 1 \in DOMAIN s /\ u[k] = s[k - 1]
    BY <1>1
  <2>3. QED
    BY <1>1, <2>1, <2>2
<1>5. List!Range(u) = List!Range(s) \cup {e}
  <2>1. \A k \in DOMAIN s : \E j \in DOMAIN u : u[j] = s[k]
    BY <1>1, <1>2
  <2>2. QED
    BY <1>3, <1>4, <2>1 DEF List!Range
<1>6. ASSUME List!IsInjective(s), e \notin List!Range(s) PROVE List!IsInjective(u)
  <2>1. \A j, k \in DOMAIN s : s[j] = s[k] => j = k
    BY <1>6 DEF List!IsInjective
  <2>2. \A k \in DOMAIN s : s[k] # e
    BY <1>6 DEF List!Range
  <2>3. ASSUME NEW j \in DOMAIN u, NEW k \in DOMAIN u, u[j] = u[k] PROVE j = k
    <3>1. ASSUME NEW l \in DOMAIN u
          PROVE  \/ l < i /\ l \in DOMAIN s /\ u[l] = s[l]
                 \/ l = i /\ u[l] = e
                 \/ l > i /\ l - 1 \in DOMAIN s /\ u[l] = s[l - 1]
      <4>1. l > i => l - 1 \in i .. Len(s) /\ l = (l - 1) + 1
        BY <1>1
      <4>2. l > i => u[l] = s[l - 1]
        BY <1>1, <4>1
      <4>3. QED
        BY <1>1, <4>1, <4>2
    <3>2. QED
      BY <1>1, <2>1, <2>2, <2>3, <3>1
  <2>4. QED
    BY <2>3 DEF List!IsInjective
<1>7. QED
  BY <1>2, <1>5, <1>6

LEMMA RemoveKeeps ==
  ASSUME NEW S, NEW s \in Seq(S), NEW i \in 1 .. Len(s), List!IsInjective(s),
         NEW u, u = List!RemoveAt(s, i)
  PROVE  List!Range(u) = List!Range(s) \ {s[i]} /\ List!IsInjective(u)
<1>1. /\ u \in Seq(S) /\ Len(u) = Len(s) - 1 /\ Len(s) \in Nat
      /\ DOMAIN u = 1 .. Len(s) - 1 /\ DOMAIN s = 1 .. Len(s)
      /\ \A k \in 1 .. Len(s) - 1 : u[k] = IF k < i THEN s[k] ELSE s[k + 1]
  <2>1. u \in Seq(S) /\ Len(u) = Len(s) - 1
    BY RemoveIs
  <2>2. \A k \in 1 .. Len(s) - 1 : u[k] = IF k < i THEN s[k] ELSE s[k + 1]
    BY RemoveIs
  <2>3. DOMAIN u = 1 .. Len(u) /\ DOMAIN s = 1 .. Len(s) /\ Len(s) \in Nat
    BY <2>1, RangeIs
  <2>4. QED
    BY <2>1, <2>2, <2>3
<1>2. \A j, k \in DOMAIN s : s[j] = s[k] => j = k
  BY DEF List!IsInjective
<1>3. \A k \in DOMAIN u : \E j \in DOMAIN s : j # i /\ u[k] = s[j]
  BY <1>1
<1>4. \A k \in DOMAIN s : k # i => \E j \in DOMAIN u : u[j] = s[k]
  <2> SUFFICES ASSUME NEW k \in DOMAIN s, k # i PROVE \E j \in DOMAIN u : u[j] = s[k]
    OBVIOUS
  <2>1. CASE k < i
    BY <1>1, <2>1
  <2>2. CASE k > i
    <3>1. k - 1 \in DOMAIN u /\ u[k - 1] = s[k]
      BY <1>1, <2>2
    <3>2. QED
      BY <3>1
  <2>3. QED
    BY <1>1, <2>1, <2>2
<1>5. List!Range(u) = List!Range(s) \ {s[i]}
  BY <1>1, <1>2, <1>3, <1>4 DEF List!Range
<1>6. ASSUME NEW j \in DOMAIN u, NEW k \in DOMAIN u, u[j] = u[k] PROVE j = k
  <2> DEFINE J == IF j < i THEN j ELSE j + 1
             K == IF k < i THEN k ELSE k + 1
  <2>1. u[j] = s[J] /\ u[k] = s[K] /\ J \in DOMAIN s /\ K \in DOMAIN s
    BY <1>1
  <2>2. J = K
    BY <1>2, <1>6, <2>1
  <2>3. QED
    BY <1>1, <2>2
<1>7. QED
  BY <1>5, <1>6 DEF List!IsInjective

LEMMA PlacesAre == 1 \in List!Places /\ Len(Regions) \in Nat \ {0}
BY ListAssumption DEF ListConstants, List!Places

\* A row is there when it is in the list of its place.
LEMMA AllIs ==
  ASSUME NEW lists, lists \in [List!Places -> Seq(Id)]
  PROVE  /\ List!All(lists) \subseteq List!Places \X Id
         /\ \A p \in List!Places, x \in Id :
              <<p, x>> \in List!All(lists) <=> x \in List!Range(lists[p])
<1>1. \A p \in List!Places : lists[p] \in Seq(Id)
  OBVIOUS
<1>2. \A p \in List!Places : \A i \in DOMAIN lists[p] : lists[p][i] \in Id
  BY <1>1
<1>3. \A r \in List!All(lists) : \E p \in List!Places : \E i \in DOMAIN lists[p] : r = <<p, lists[p][i]>>
  BY DEF List!All
<1>4. \A p \in List!Places : \A i \in DOMAIN lists[p] : <<p, lists[p][i]>> \in List!All(lists)
  BY DEF List!All
<1>5. List!All(lists) \subseteq List!Places \X Id
  BY <1>2, <1>3
<1>6. ASSUME NEW p \in List!Places, NEW x \in Id
      PROVE  <<p, x>> \in List!All(lists) <=> x \in List!Range(lists[p])
  <2>1. x \in List!Range(lists[p]) <=> \E i \in DOMAIN lists[p] : x = lists[p][i]
    BY DEF List!Range
  <2>2. QED
    BY <1>3, <1>4, <2>1
<1>7. QED
  BY <1>5, <1>6

\* The rows of the only place are as many as its list is long.
LEMMA RowsAreCounted ==
  ASSUME rows \in [List!Places -> Seq(Id)], List!IsInjective(rows[1]),
         \A p \in List!Places : p # 1 => rows[p] = <<>>
  PROVE  IsFiniteSet(There) /\ Cardinality(There) = Len(rows[1])
<1> DEFINE S == List!Places \X Id
           t == [i \in 1 .. Len(rows[1]) |-> <<1, rows[1][i]>>]
<1>1. rows[1] \in Seq(Id) /\ 1 \in List!Places
  BY PlacesAre
<1>2. DOMAIN rows[1] = 1 .. Len(rows[1]) /\ Len(rows[1]) \in Nat
  BY <1>1, RangeIs
<1>3. t \in Seq(S) /\ Len(t) = Len(rows[1]) /\ DOMAIN t = 1 .. Len(rows[1])
  BY <1>1, <1>2
<1>4. List!IsInjective(t)
  BY <1>2, <1>3 DEF List!IsInjective
<1>5. List!Range(t) = There
  <2>1. \A r \in There : \E p \in List!Places : \E i \in DOMAIN rows[p] : r = <<p, rows[p][i]>>
    BY DEF List!All, There
  <2>2. \A p \in List!Places : p # 1 => DOMAIN rows[p] = {}
    OBVIOUS
  <2>3. \A r \in There : \E i \in 1 .. Len(rows[1]) : r = <<1, rows[1][i]>>
    BY <1>2, <2>1, <2>2
  <2>4. \A i \in 1 .. Len(rows[1]) : <<1, rows[1][i]>> \in There
    BY <1>1, <1>2 DEF List!All, There
  <2>5. List!Range(t) = {t[i] : i \in 1 .. Len(rows[1])}
    BY <1>3 DEF List!Range
  <2>6. List!Range(t) = {<<1, rows[1][i]>> : i \in 1 .. Len(rows[1])}
    BY <2>5
  <2>7. QED
    BY <2>3, <2>4, <2>6, Zenon
<1> HIDE DEF t, S
<1>6. IsFiniteSet(List!Range(t)) /\ Cardinality(List!Range(t)) = Len(t)
  BY <1>3, <1>4, SizeIs
<1>7. QED
  BY <1>3, <1>5, <1>6

\* A list in which no row comes twice is no longer than there are rows.
LEMMA RowsAreFew ==
  ASSUME NEW s \in Seq(Id), List!IsInjective(s)
  PROVE  Len(s) \in 0 .. Cardinality(Id) /\ Cardinality(Id) \in Nat
<1>1. IsFiniteSet(Id)
  BY ListAssumption DEF ListConstants
<1>2. Cardinality(Id) \in Nat
  BY <1>1, FS_CardinalityType
<1>3. List!Range(s) \in SUBSET Id
  BY RangeIs
<1>4. Cardinality(List!Range(s)) <= Cardinality(Id)
  BY <1>1, <1>3, FS_Subset
<1>5. Len(s) \in Nat /\ Cardinality(List!Range(s)) = Len(s)
  BY SizeIs
<1>6. QED
  BY <1>2, <1>4, <1>5

LEMMA LesserIs ==
  ASSUME NEW a \in Int, NEW b \in Int
  PROVE  List!Min({a, b}) = IF a <= b THEN a ELSE b
<1>1. \A c : (c \in {a, b} /\ \A y \in {a, b} : c <= y) <=> c = IF a <= b THEN a ELSE b
  OBVIOUS
<1>2. QED
  BY <1>1 DEF List!Min

\* A batch is the rows of its page, in order.
LEMMA BatchIs ==
  ASSUME ListTyped
  PROVE  LET shown == rows[list.place] IN
         /\ List!Shown = shown /\ shown \in Seq(Id) /\ Len(shown) \in Nat
         /\ Earlier \in Nat /\ list.page * PageSize = Earlier + PageSize /\ PageSize \in Nat \ {0}
         /\ List!Batch \in Seq(Id)
         /\ Len(List!Batch) = IF Earlier + PageSize <= Len(shown) THEN PageSize
                              ELSE IF Earlier <= Len(shown) THEN Len(shown) - Earlier ELSE 0
         /\ \A k \in 1 .. Len(List!Batch) : Earlier + k \in 1 .. Len(shown)
                                            /\ List!Batch[k] = shown[Earlier + k]
<1> DEFINE shown == rows[list.place]
           n == Len(shown)
           page == list.page
           last == List!Min({page * PageSize, n})
<1>1. /\ List!Shown = shown /\ shown \in Seq(Id) /\ n \in Nat
      /\ page \in Nat \ {0}
  BY DEF List!Shown, ListTyped
<1>2. PageSize \in Nat \ {0}
  <2>1. IsFiniteSet(Id) /\ PageSize \in 1 .. Cardinality(Id)
    BY ListAssumption DEF ListConstants
  <2>2. Cardinality(Id) \in Nat
    BY <2>1, FS_CardinalityType
  <2>3. QED
    BY <2>1, <2>2
<1> HIDE DEF page
<1>3. (page - 1) * PageSize \in Nat /\ page * PageSize = (page - 1) * PageSize + PageSize
  <2>1. PICK q \in Nat : page = q + 1
    <3>1. page - 1 \in Nat /\ page = (page - 1) + 1
      BY <1>1
    <3>2. QED
      BY <3>1
  <2>2. (q + 1) * PageSize = q * PageSize + PageSize /\ q * PageSize \in Nat
    BY <1>2
  <2>3. page - 1 = q
    BY <2>1
  <2>4. QED
    BY <2>1, <2>2, <2>3
<1>4. Earlier = (page - 1) * PageSize
  BY DEF Earlier, page
<1>5. last = IF page * PageSize <= n THEN page * PageSize ELSE n
  <2>1. page * PageSize \in Int /\ n \in Int
    BY <1>1, <1>2, <1>3
  <2> HIDE DEF n
  <2>2. QED
    BY <2>1, LesserIs
<1>6. List!Batch = SubSeq(shown, Earlier + 1, last)
  BY <1>1, <1>4 DEF List!Batch, page
<1> HIDE DEF last
<1>7. last = IF Earlier + PageSize <= n THEN Earlier + PageSize ELSE n
  BY <1>3, <1>4, <1>5
<1>8. Earlier \in Nat /\ Earlier + 1 \in Int /\ last \in Int /\ last <= n
  BY <1>1, <1>2, <1>3, <1>4, <1>7
<1> HIDE DEF shown
<1>9. \A i \in Earlier + 1 .. last : shown[i] \in Id
  <2>1. \A i \in 1 .. n : shown[i] \in Id
    BY <1>1
  <2>2. \A i \in Earlier + 1 .. last : i \in 1 .. n
    BY <1>1, <1>8
  <2>3. QED
    BY <2>1, <2>2
<1>10. /\ SubSeq(shown, Earlier + 1, last) \in Seq(Id)
       /\ Len(SubSeq(shown, Earlier + 1, last)) =
            IF Earlier + 1 <= last THEN last - (Earlier + 1) + 1 ELSE 0
       /\ \A i \in 1 .. last - (Earlier + 1) + 1 :
            SubSeq(shown, Earlier + 1, last)[i] = shown[Earlier + 1 + i - 1]
  <2> DEFINE m == Earlier + 1
  <2>1. m \in Int
    BY <1>8
  <2>2. \A i \in m .. last : shown[i] \in Id
    BY <1>9
  <2> HIDE DEF m
  <2>3. /\ SubSeq(shown, m, last) \in Seq(Id)
        /\ Len(SubSeq(shown, m, last)) = IF m <= last THEN last - m + 1 ELSE 0
        /\ \A i \in 1 .. last - m + 1 : SubSeq(shown, m, last)[i] = shown[m + i - 1]
    BY <1>8, <2>1, <2>2, SubSeqProperties
  <2>4. QED
    BY <2>3 DEF m
<1>11. Len(List!Batch) = IF Earlier + PageSize <= n THEN PageSize
                         ELSE IF Earlier <= n THEN n - Earlier ELSE 0
  BY <1>1, <1>2, <1>6, <1>7, <1>8, <1>10
<1>12. ASSUME NEW k \in 1 .. Len(List!Batch)
       PROVE  Earlier + k \in 1 .. n /\ List!Batch[k] = shown[Earlier + k]
  <2>1. k \in 1 .. last - (Earlier + 1) + 1 /\ Earlier + k <= n
    BY <1>1, <1>2, <1>7, <1>8, <1>11
  <2>2. List!Batch[k] = shown[Earlier + 1 + k - 1] /\ Earlier + 1 + k - 1 = Earlier + k
    BY <1>6, <1>8, <1>10, <2>1
  <2>3. Earlier + k \in 1 .. n
    BY <1>1, <1>8, <2>1
  <2>4. QED
    BY <2>2, <2>3
<1>13. List!Batch \in Seq(Id)
  BY <1>6, <1>10
<1>14. page * PageSize = Earlier + PageSize
  BY <1>3, <1>4
<1>15. QED
  BY <1>1, <1>2, <1>8, <1>11, <1>12, <1>13, <1>14 DEF shown, page

\* The rows of a batch are there, and they are all on its page.
LEMMA BatchHas ==
  ASSUME ListTyped
  PROVE  /\ List!Range(List!Batch) \subseteq List!Range(rows[list.place])
         /\ \A i \in DOMAIN rows[list.place] :
              i > Earlier /\ i <= list.page * PageSize =>
                rows[list.place][i] \in List!Range(List!Batch)
<1> DEFINE shown == rows[list.place]
           n == Len(shown)
<1>1. /\ shown \in Seq(Id) /\ n \in Nat
      /\ Earlier \in Nat /\ list.page * PageSize = Earlier + PageSize /\ PageSize \in Nat \ {0}
      /\ List!Batch \in Seq(Id)
      /\ Len(List!Batch) = IF Earlier + PageSize <= n THEN PageSize
                              ELSE IF Earlier <= n THEN n - Earlier ELSE 0
      /\ \A k \in 1 .. Len(List!Batch) : Earlier + k \in 1 .. n
                                            /\ List!Batch[k] = shown[Earlier + k]
  BY BatchIs
<1>2. DOMAIN shown = 1 .. n /\ DOMAIN List!Batch = 1 .. Len(List!Batch)
  BY <1>1
<1> HIDE DEF shown
<1>3. List!Range(List!Batch) \subseteq List!Range(shown)
  <2>1. \A k \in DOMAIN List!Batch : Earlier + k \in DOMAIN shown /\ List!Batch[k] = shown[Earlier + k]
    BY <1>1, <1>2
  <2>2. QED
    BY <2>1, Zenon DEF List!Range
<1>4. ASSUME NEW i \in DOMAIN shown, i > Earlier, i <= list.page * PageSize
      PROVE  shown[i] \in List!Range(List!Batch)
  <2> DEFINE last == list.page * PageSize
             b == Len(List!Batch)
  <2>1. /\ i \in 1 .. n /\ n \in Nat /\ Earlier \in Nat /\ PageSize \in Nat /\ last = Earlier + PageSize
        /\ i > Earlier /\ i <= last
        /\ b = IF Earlier + PageSize <= n THEN PageSize ELSE IF Earlier <= n THEN n - Earlier ELSE 0
    <3>1. i \in 1 .. n /\ i > Earlier /\ i <= last
      BY <1>2, <1>4
    <3>2. n \in Nat /\ Earlier \in Nat /\ PageSize \in Nat /\ last = Earlier + PageSize
      BY <1>1
    <3>3. b = IF Earlier + PageSize <= n THEN PageSize ELSE IF Earlier <= n THEN n - Earlier ELSE 0
      BY <1>1
    <3>4. QED
      BY <3>1, <3>2, <3>3, Zenon
  <2> HIDE DEF last, b, n
  <2>2. i - Earlier \in 1 .. b /\ Earlier + (i - Earlier) = i
    BY <2>1
  <2>3. i - Earlier \in 1 .. Len(List!Batch)
    BY <2>2 DEF b
  <2>4. List!Batch[i - Earlier] = shown[i]
    BY <1>1, <2>2, <2>3
  <2>5. QED
    BY <1>2, <2>3, <2>4 DEF List!Range
<1>5. QED
  BY <1>3, <1>4 DEF shown

\* What the reader has after a batch.
LEMMA TakenIs ==
  ASSUME ListTyped, NEW batch \in Seq(Id)
  PROVE  /\ List!Taken(batch) \in Seq(List!Places \X Id)
         /\ Len(List!Taken(batch)) = Len(list.seen) + Len(batch)
         /\ \A i \in 1 .. Len(list.seen) : List!Taken(batch)[i] = list.seen[i]
         /\ \A k \in 1 .. Len(batch) :
              List!Taken(batch)[Len(list.seen) + k] = <<list.place, batch[k]>>
<1> DEFINE S == List!Places \X Id
           b == [i \in DOMAIN batch |-> <<list.place, batch[i]>>]
           seen == list.seen
<1>1. seen \in Seq(S) /\ list.place \in List!Places /\ Len(seen) \in Nat
  BY DEF ListTyped
<1>2. DOMAIN batch = 1 .. Len(batch) /\ Len(batch) \in Nat
  OBVIOUS
<1>3. b \in Seq(S) /\ Len(b) = Len(batch) /\ \A k \in 1 .. Len(batch) : b[k] = <<list.place, batch[k]>>
  BY <1>1, <1>2
<1>4. List!Taken(batch) = seen \o b
  BY DEF List!Taken
<1> HIDE DEF S, b, seen
<1>5. /\ seen \o b \in Seq(S) /\ Len(seen \o b) = Len(seen) + Len(b)
      /\ \A i \in 1 .. Len(seen) + Len(b) :
           (seen \o b)[i] = IF i <= Len(seen) THEN seen[i] ELSE b[i - Len(seen)]
  BY <1>1, <1>3, ConcatProperties
<1>6. ASSUME NEW i \in 1 .. Len(seen) PROVE (seen \o b)[i] = seen[i]
  <2>1. i \in 1 .. Len(seen) + Len(b) /\ i <= Len(seen)
    BY <1>1, <1>2, <1>3
  <2>2. QED
    BY <1>5, <2>1
<1>7. ASSUME NEW k \in 1 .. Len(batch) PROVE (seen \o b)[Len(seen) + k] = <<list.place, batch[k]>>
  <2>1. Len(seen) + k \in 1 .. Len(seen) + Len(b) /\ ~ (Len(seen) + k <= Len(seen))
        /\ Len(seen) + k - Len(seen) = k
    BY <1>1, <1>2, <1>3
  <2>2. QED
    BY <1>3, <1>5, <2>1
<1>8. QED
  BY <1>3, <1>4, <1>5, <1>6, <1>7 DEF S, seen

LEMMA TakenHas ==
  ASSUME ListTyped, NEW batch \in Seq(Id)
  PROVE  /\ List!Range(List!Taken(batch)) =
              Has \cup {<<list.place, x>> : x \in List!Range(batch)}
         /\ ~ List!Repeated(batch) /\ List!IsInjective(list.seen) =>
              List!IsInjective(List!Taken(batch))
<1> DEFINE seen == list.seen
           t == List!Taken(batch)
           n == Len(seen)
<1>1. /\ t \in Seq(List!Places \X Id) /\ Len(t) = n + Len(batch)
      /\ \A i \in 1 .. n : t[i] = seen[i]
      /\ \A k \in 1 .. Len(batch) : t[n + k] = <<list.place, batch[k]>>
  BY TakenIs
<1>2. seen \in Seq(List!Places \X Id)
  BY DEF ListTyped
<1>3. /\ DOMAIN t = 1 .. n + Len(batch) /\ DOMAIN seen = 1 .. n /\ n \in Nat
      /\ DOMAIN batch = 1 .. Len(batch) /\ Len(batch) \in Nat
  BY <1>1, <1>2
<1> HIDE DEF t, seen, n
<1>4. ASSUME NEW i \in DOMAIN t
      PROVE  \/ i \in DOMAIN seen /\ t[i] = seen[i]
             \/ i - n \in DOMAIN batch /\ t[i] = <<list.place, batch[i - n]>>
  <2>1. CASE i <= n
    BY <1>1, <1>3, <2>1
  <2>2. CASE i > n
    <3>1. i - n \in 1 .. Len(batch) /\ n + (i - n) = i
      BY <1>3, <2>2
    <3>2. t[n + (i - n)] = <<list.place, batch[i - n]>>
      BY <1>1, <3>1
    <3>3. QED
      BY <1>3, <3>1, <3>2
  <2>3. QED
    BY <1>3, <2>1, <2>2
<1>5. (\A i \in DOMAIN seen : i \in DOMAIN t /\ t[i] = seen[i])
      /\ \A k \in DOMAIN batch : n + k \in DOMAIN t /\ t[n + k] = <<list.place, batch[k]>>
  BY <1>1, <1>3
<1>6. List!Range(t) = List!Range(seen) \cup {<<list.place, x>> : x \in List!Range(batch)}
  BY <1>4, <1>5 DEF List!Range
<1>7. ASSUME ~ List!Repeated(batch), List!IsInjective(seen) PROVE List!IsInjective(t)
  <2>1. \A i, j \in DOMAIN seen : seen[i] = seen[j] => i = j
    BY <1>7 DEF List!IsInjective
  <2>2. \A k \in DOMAIN batch : \A i \in DOMAIN seen : seen[i] # <<list.place, batch[k]>>
    BY <1>7 DEF List!Repeated, List!Range, seen
  <2>3. \A k \in DOMAIN batch : \A j \in 1 .. k - 1 : batch[k] # batch[j]
    BY <1>7 DEF List!Repeated
  <2>4. ASSUME NEW j \in DOMAIN batch, NEW k \in DOMAIN batch, batch[j] = batch[k] PROVE j = k
    <3>1. j < k => j \in 1 .. k - 1
      BY <1>3
    <3>2. k < j => k \in 1 .. j - 1
      BY <1>3
    <3>3. QED
      BY <1>3, <2>3, <2>4, <3>1, <3>2
  <2>5. ASSUME NEW i \in DOMAIN t, NEW j \in DOMAIN t, t[i] = t[j] PROVE i = j
    <3>1. i \in DOMAIN seen \/ i - n \in DOMAIN batch
      BY <1>4
    <3>2. CASE i \in DOMAIN seen /\ t[i] = seen[i] /\ j \in DOMAIN seen /\ t[j] = seen[j]
      BY <2>1, <2>5, <3>2
    <3>3. CASE /\ i - n \in DOMAIN batch /\ t[i] = <<list.place, batch[i - n]>>
               /\ j - n \in DOMAIN batch /\ t[j] = <<list.place, batch[j - n]>>
      <4>1. <<list.place, batch[i - n]>> = <<list.place, batch[j - n]>>
        BY <2>5, <3>3, Zenon
      <4>2. batch[i - n] = batch[j - n]
        BY <4>1
      <4>3. i - n = j - n
        BY <2>4, <3>3, <4>2
      <4>4. QED
        BY <1>3, <4>3
    <3>4. CASE /\ i \in DOMAIN seen /\ t[i] = seen[i]
               /\ j - n \in DOMAIN batch /\ t[j] = <<list.place, batch[j - n]>>
      BY <2>2, <2>5, <3>4
    <3>5. CASE /\ j \in DOMAIN seen /\ t[j] = seen[j]
               /\ i - n \in DOMAIN batch /\ t[i] = <<list.place, batch[i - n]>>
      BY <2>2, <2>5, <3>5
    <3>6. QED
      BY <1>4, <3>2, <3>3, <3>4, <3>5
  <2>6. QED
    BY <2>5 DEF List!IsInjective
<1>8. QED
  BY <1>6, <1>7 DEF seen, t, Has

\* The elements of a set in some order, each once.
LEMMA OrderIs ==
  ASSUME NEW S, IsFiniteSet(S)
  PROVE  /\ List!SetToSeq(S) \in Seq(S) /\ List!IsInjective(List!SetToSeq(S))
         /\ List!Range(List!SetToSeq(S)) = S
<1> DEFINE n == Cardinality(S)
           s == List!SetToSeq(S)
<1>1. n \in Nat /\ ExistsBijection(1 .. n, S)
  BY FS_CardinalityType
<1>2. \E f \in [1 .. n -> S] : List!IsInjective(f)
  BY <1>1 DEF ExistsBijection, Bijection, Injection, IsInjective, List!IsInjective
<1>3. List!Cardinality(S) = n
  BY ListCardinality
<1>4. s \in [1 .. n -> S] /\ List!IsInjective(s)
  BY <1>2, <1>3 DEF List!SetToSeq
<1> HIDE DEF s, n
<1>5. s \in Seq(S) /\ Len(s) = n
  BY <1>1, <1>4
<1>6. List!Range(s) \in SUBSET S
  BY <1>5, RangeIs
<1>7. Cardinality(List!Range(s)) = n
  BY <1>4, <1>5, SizeIs
<1>8. List!Range(s) = S
  BY <1>6, <1>7, FS_Subset DEF n
<1>9. QED
  BY <1>4, <1>5, <1>8 DEF s

\* What is left of the policies of a page.
LEMMA FreshIs ==
  ASSUME ListTyped
  PROVE  /\ List!Fresh \in Seq(Id) /\ ~ List!Repeated(List!Fresh)
         /\ \A x \in Id : x \in List!Range(List!Fresh) <=>
              x \in List!Range(List!Batch) /\ <<list.place, x>> \notin Has
<1> DEFINE S == {x \in List!Range(List!Batch) : <<list.place, x>> \notin List!Range(list.seen)}
           s == List!SetToSeq(S)
<1>1. List!Batch \in Seq(Id)
  BY BatchIs
<1>2. List!Range(List!Batch) \subseteq Id /\ IsFiniteSet(List!Range(List!Batch))
  BY <1>1, RangeIs, SizeIs
<1>3. S \in SUBSET List!Range(List!Batch) /\ S \subseteq Id
  BY <1>2
<1>4. IsFiniteSet(S)
  <2> HIDE DEF S
  <2>1. QED
    BY <1>2, <1>3, FS_Subset
<1>5. List!Fresh = s
  BY DEF List!Fresh
<1> HIDE DEF s
<1>6. s \in Seq(S) /\ List!IsInjective(s) /\ List!Range(s) = S
  <2> HIDE DEF S
  <2>1. QED
    BY <1>4, OrderIs DEF s
<1>7. \A x \in S : <<list.place, x>> \notin List!Range(list.seen)
  OBVIOUS
<1>8. \A x \in Id : x \in S <=> x \in List!Range(List!Batch) /\ <<list.place, x>> \notin Has
  BY DEF Has
<1> HIDE DEF S
<1>9. s \in Seq(Id)
  BY <1>3, <1>6
<1>10. DOMAIN s = 1 .. Len(s) /\ Len(s) \in Nat /\ \A i \in DOMAIN s : s[i] \in S
  BY <1>6
<1>11. \A i, j \in DOMAIN s : s[i] = s[j] => i = j
  BY <1>6 DEF List!IsInjective
<1>12. ~ List!Repeated(s)
  <2> SUFFICES ASSUME NEW i \in DOMAIN s
               PROVE  /\ <<list.place, s[i]>> \notin List!Range(list.seen)
                      /\ \A j \in 1 .. i - 1 : s[i] # s[j]
    BY DEF List!Repeated
  <2>1. <<list.place, s[i]>> \notin List!Range(list.seen)
    BY <1>7, <1>10
  <2>2. ASSUME NEW j \in 1 .. i - 1 PROVE s[i] # s[j]
    <3>1. j \in DOMAIN s /\ j # i
      BY <1>10
    <3>2. QED
      BY <1>11, <3>1
  <2>3. QED
    BY <2>1, <2>2
<1>13. QED
  BY <1>5, <1>6, <1>8, <1>9, <1>12

\* A list is told to nobody before it is done.
LEMMA NothingTold == ASSUME result = List!Pending PROVE ListTold
BY DEF ListTold, List!CountWasTrue, List!HiddenRowsAreNoticed, List!NothingThatStayedIsMissed,
       List!NoRowTwice, List!NetworksAreCounted, List!Told, List!Pending

LEMMA NothingToldYet == ASSUME result' = List!Pending PROVE ListTold'
BY DEF ListTold, List!CountWasTrue, List!HiddenRowsAreNoticed, List!NothingThatStayedIsMissed,
       List!NoRowTwice, List!NetworksAreCounted, List!Told, List!Pending

LEMMA ListBegins == ASSUME List!Init PROVE ListInv
<1>1. PICK n \in 0 .. List!Cardinality(Id), m \in IF reader \in List!Continued THEN 0 .. PageSize ELSE {0} :
        rows = [p \in List!Places |-> [i \in 1 .. IF p = 1 THEN n ELSE m |-> i]]
  BY DEF List!Init
<1>2. IsFiniteSet(Id) /\ Id = 1 .. Cardinality(Id) /\ PageSize \in 1 .. Cardinality(Id)
      /\ {1, 2} \subseteq Id /\ MaxMoves \in Nat
  BY ListAssumption DEF ListConstants
<1>3. Cardinality(Id) \in Nat /\ List!Cardinality(Id) = Cardinality(Id)
  BY <1>2, FS_CardinalityType, ListCardinality
<1>4. n \in 0 .. Cardinality(Id) /\ m \in 0 .. Cardinality(Id)
  BY <1>1, <1>2, <1>3
<1> HIDE <1>2
<1>5. \A k \in 0 .. Cardinality(Id) :
        /\ [i \in 1 .. k |-> i] \in Seq(Id) /\ Len([i \in 1 .. k |-> i]) = k
        /\ List!IsInjective([i \in 1 .. k |-> i])
  <2> TAKE k \in 0 .. Cardinality(Id)
  <2>1. \A i \in 1 .. k : i \in Id
    <3>1. \A i \in 1 .. k : i \in 1 .. Cardinality(Id)
      BY <1>3
    <3>2. QED
      BY <1>2, <3>1
  <2>2. QED
    BY <1>3, <2>1 DEF List!IsInjective
<1>6. rows \in [List!Places -> Seq(Id)] /\ \A p \in List!Places : List!IsInjective(rows[p])
  BY <1>1, <1>4, <1>5
<1>7. /\ reader \in List!Sources /\ hidden \in 0 .. PageSize
      /\ (reader \in List!Continued => hidden = 0) /\ PageSize \in Nat
      /\ signing \subseteq Id /\ result = List!Pending /\ happened = List!Quiet(rows)
      /\ list = [List!Start EXCEPT !.pc = IF reader = "panels" THEN "coverage" ELSE "page",
                                   !.total = IF reader = "dashboards" THEN Len(rows[1]) + hidden ELSE List!NoTotal]
  <2>1. hidden \in 0 .. PageSize /\ (reader \in List!Continued => hidden = 0) /\ PageSize \in Nat
    <3>2. PageSize \in Nat
      BY PageSizeIs
    <3>3. hidden \in IF reader \in List!Continued THEN {0} ELSE 0 .. PageSize
      BY DEF List!Init
    <3>4. QED
      BY <3>2, <3>3
  <2>2. signing \subseteq Id
    BY <1>2 DEF List!Init
  <2>3. QED
    BY <2>1, <2>2 DEF List!Init
<1>8. reader \notin List!Continued => \A p \in List!Places : p # 1 => rows[p] = <<>>
  <2>1. reader \notin List!Continued => m = 0
    BY <1>1
  <2>2. [i \in 1 .. 0 |-> i] = <<>>
    OBVIOUS
  <2>3. QED
    BY <1>1, <2>1, <2>2
<1>9. Len(rows[1]) \in 0 .. Cardinality(Id) /\ rows[1] \in Seq(Id) /\ Len(rows[1]) = n
  BY <1>1, <1>4, <1>5, PlacesAre
<1>10. /\ list.pc = IF reader = "panels" THEN "coverage" ELSE "page"
       /\ list.place = 1 /\ list.page = 1 /\ list.seen = <<>> /\ list.followed = {} /\ list.matches = {}
       /\ list.total = IF reader = "dashboards" THEN Len(rows[1]) + hidden ELSE -1
       /\ DOMAIN list = {"pc", "place", "page", "seen", "total", "followed", "matches"}
       /\ Has = {} /\ Earlier = 0 /\ List!NoTotal = -1
  <2>1. (1 - 1) * PageSize = 0
    BY <1>2
  <2>2. List!Range(<<>>) = {}
    BY DEF List!Range
  <2>3. QED
    BY <1>7, <2>1, <2>2 DEF List!Start, List!NoTotal, Has, Earlier
<1>11. There \subseteq List!Places \X Id
  BY <1>6, AllIs DEF There
<1>12. /\ happened \in [came : BOOLEAN, went : BOOLEAN, moved : BOOLEAN, changes : 0 .. MaxMoves,
                        stayed : SUBSET (List!Places \X Id), sizes : SUBSET (0 .. Cardinality(Id))]
       /\ happened.stayed = There /\ happened.sizes = {Len(rows[1])}
  BY <1>2, <1>7, <1>9, <1>11 DEF List!Quiet, There
<1>13. ListTyped
  <2>1. list \in [pc : {"coverage", "page", "done"}, place : List!Places, page : Nat \ {0},
                  seen : Seq(List!Places \X Id), total : -1 .. Cardinality(Id) + PageSize,
                  followed : SUBSET (Nat \ {0}), matches : SUBSET (Id \X BOOLEAN)]
    <3>1. list.total \in -1 .. Cardinality(Id) + PageSize
      BY <1>3, <1>7, <1>9, <1>10
    <3>2. list.pc \in {"coverage", "page", "done"} /\ list.seen \in Seq(List!Places \X Id)
      BY <1>10
    <3>3. list = [pc |-> list.pc, place |-> 1, page |-> 1, seen |-> list.seen, total |-> list.total,
                  followed |-> {}, matches |-> {}]
      BY <1>7 DEF List!Start
    <3>4. 1 \in Nat \ {0} /\ {} \in SUBSET (Nat \ {0}) /\ {} \in SUBSET (Id \X BOOLEAN)
      OBVIOUS
    <3> HIDE <1>7, <1>10
    <3>5. QED
      BY <3>1, <3>2, <3>3, <3>4, PlacesAre
  <2>2. QED
    BY <1>6, <1>7, <1>12, <2>1 DEF ListTyped, List!Pending
<1>14. ListPlaces
  <2>1. ASSUME reader = "panels" PROVE list = List!Start
    <3>1. list = [List!Start EXCEPT !.pc = "coverage", !.total = List!NoTotal]
      BY <1>7, <2>1
    <3>2. List!Start.pc = "coverage" /\ List!Start.total = List!NoTotal
      BY DEF List!Start
    <3>3. DOMAIN List!Start = {"pc", "place", "page", "seen", "total", "followed", "matches"}
          /\ List!Start = [f \in DOMAIN List!Start |-> List!Start[f]]
      BY DEF List!Start
    <3>4. QED
      BY <3>1, <3>2, <3>3
  <2>2. QED
    BY <1>7, <1>8, <1>10, <2>1 DEF ListPlaces
<1>15. ListStays
  BY <1>12 DEF ListStays
<1>16. reader = "dashboards" =>
         Cardinality(Has \cup There) + Concealed <= list.total /\ list.total # -1
  <2>1. reader = "dashboards" => Cardinality(There) = Len(rows[1])
    BY <1>6, <1>8, RowsAreCounted, PlacesAre DEF List!Continued
  <2>2. Has \cup There = There
    BY <1>10
  <2>3. reader = "dashboards" => Cardinality(Has \cup There) = Len(rows[1])
    BY <2>1, <2>2, Zenon
  <2>4. reader = "dashboards" => list.total = Len(rows[1]) + hidden /\ Concealed = hidden
    BY <1>10 DEF Concealed
  <2>5. Len(rows[1]) \in Nat /\ hidden \in Nat
    BY <1>7, <1>9
  <2>6. QED
    BY <2>3, <2>4, <2>5
<1>17. ListCounted
  BY <1>9, <1>10, <1>16 DEF ListCounted, Counting, List!Counted, List!Continued, List!Sources
<1>18. ListInOrder
  BY <1>10 DEF ListInOrder, Counting
<1>19. ListFollowed
  <2>1. ASSUME NEW r \in There
        PROVE  r[1] > 1 \/ (r[1] = 1 /\ \E i \in DOMAIN rows[1] : i > 0 /\ r[2] = rows[1][i])
    <3>1. r \in List!Places \X Id /\ r = <<r[1], r[2]>> /\ r[1] \in 1 .. Len(Regions)
      BY <1>11 DEF List!Places
    <3>2. r[1] = 1 => r[2] \in List!Range(rows[1])
      BY <1>6, <3>1, AllIs DEF There
    <3>3. \A i \in DOMAIN rows[1] : i > 0
      BY <1>9
    <3>4. QED
      BY <3>1, <3>2, <3>3, PlacesAre DEF List!Range
  <2>2. QED
    BY <1>10, <1>12, <2>1 DEF ListFollowed, ToCome, Asked
<1>20. ListUnique
  BY <1>10 DEF ListUnique, List!IsInjective
<1>21. ListTold
  BY <1>7, NothingTold
<1>22. QED
  BY <1>13, <1>14, <1>15, <1>17, <1>18, <1>19, <1>20, <1>21 DEF ListInv

\* A list is another, after which the invariant holds if it has changed as it is called.
LEMMA ChangeKeeps ==
  ASSUME ListInv, NEW p \in List!Places, NEW u \in Seq(Id), List!IsInjective(u),
         NEW name \in {"came", "went", "moved"}, List!Change(p, u, name), signing' \subseteq Id,
         reader \notin List!Continued => p = 1,
         name = "came" =>
           /\ List!Range(rows[p]) \subseteq List!Range(u) /\ Len(u) = Len(rows[p]) + 1
           /\ \A k \in 1 .. Len(rows[p]) : \E j \in 1 .. Len(u) : j >= k /\ u[j] = rows[p][k],
         name = "went" => List!Range(u) \subseteq List!Range(rows[p]) /\ Len(u) = Len(rows[p]) - 1,
         name = "moved" => List!Range(u) = List!Range(rows[p]) /\ Len(u) = Len(rows[p])
  PROVE  ListInv'
<1>0. /\ ListTyped /\ ListPlaces /\ ListStays /\ ListCounted /\ ListInOrder /\ ListFollowed
      /\ ListUnique /\ ListTold
  BY DEF ListInv
<1>1. /\ rows' = [rows EXCEPT ![p] = u] /\ list.pc # "done" /\ happened.changes < MaxMoves
      /\ happened' = [happened EXCEPT
           ![name] = TRUE, !.changes = @ + 1,
           !.stayed = @ \cap There', !.sizes = @ \cup {Len(rows'[1])}]
      /\ reader' = reader /\ hidden' = hidden /\ list' = list /\ result' = result
  BY DEF List!Change, There
<1>2. /\ rows \in [List!Places -> Seq(Id)] /\ \A q \in List!Places : List!IsInjective(rows[q])
      /\ rows' \in [List!Places -> Seq(Id)] /\ \A q \in List!Places : List!IsInjective(rows'[q])
      /\ \A q \in List!Places : rows'[q] = IF q = p THEN u ELSE rows[q]
  <2>1. rows \in [List!Places -> Seq(Id)] /\ \A q \in List!Places : List!IsInjective(rows[q])
    BY <1>0 DEF ListTyped
  <2>2. QED
    BY <1>1, <2>1
<1>3. 1 \in List!Places /\ MaxMoves \in Nat
  BY PlacesAre, ListAssumption DEF ListConstants
<1>4. /\ happened \in [came : BOOLEAN, went : BOOLEAN, moved : BOOLEAN, changes : 0 .. MaxMoves,
                       stayed : SUBSET (List!Places \X Id), sizes : SUBSET (0 .. Cardinality(Id))]
  BY <1>0 DEF ListTyped
<1>5. /\ happened'.came = (IF name = "came" THEN TRUE ELSE happened.came)
      /\ happened'.went = (IF name = "went" THEN TRUE ELSE happened.went)
      /\ happened'.moved = (IF name = "moved" THEN TRUE ELSE happened.moved)
      /\ happened'.changes = happened.changes + 1
      /\ happened'.stayed = happened.stayed \cap There'
      /\ happened'.sizes = happened.sizes \cup {Len(rows'[1])}
  BY <1>1, <1>4
<1>6. /\ name = "came" => happened'.came
      /\ name = "went" => happened'.went
      /\ name = "moved" => happened'.moved
      /\ happened.came => happened'.came
      /\ happened.went => happened'.went
      /\ happened.moved => happened'.moved
  BY <1>5
<1>7. /\ There \subseteq List!Places \X Id /\ There' \subseteq List!Places \X Id
      /\ \A q \in List!Places, x \in Id : <<q, x>> \in There <=> x \in List!Range(rows[q])
      /\ \A q \in List!Places, x \in Id : <<q, x>> \in There' <=> x \in List!Range(rows'[q])
  BY <1>2, AllIs DEF There
<1>8. (name # "went" => There \subseteq There') /\ (name = "went" => There' \subseteq There)
  <2>1. name # "went" => \A q \in List!Places : List!Range(rows[q]) \subseteq List!Range(rows'[q])
    BY <1>2
  <2>2. name = "went" => \A q \in List!Places : List!Range(rows'[q]) \subseteq List!Range(rows[q])
    BY <1>2
  <2>3. \A r \in There \cup There' :
          r[1] \in List!Places /\ r[2] \in Id /\ r = <<r[1], r[2]>>
    BY <1>7
  <2>4. ASSUME name # "went", NEW r \in There PROVE r \in There'
    <3>1. r[1] \in List!Places /\ r[2] \in Id /\ r = <<r[1], r[2]>> /\ <<r[1], r[2]>> \in There
      BY <2>3
    <3>2. r[2] \in List!Range(rows'[r[1]])
      BY <1>7, <2>1, <2>4, <3>1
    <3>3. QED
      BY <1>7, <3>1, <3>2
  <2>5. ASSUME name = "went", NEW r \in There' PROVE r \in There
    <3>1. r[1] \in List!Places /\ r[2] \in Id /\ r = <<r[1], r[2]>> /\ <<r[1], r[2]>> \in There'
      BY <2>3
    <3>2. r[2] \in List!Range(rows[r[1]])
      BY <1>7, <2>2, <2>5, <3>1
    <3>3. QED
      BY <1>7, <3>1, <3>2
  <2>6. QED
    BY <2>4, <2>5
<1>9. Has' = Has /\ Earlier' = Earlier /\ (Counting' <=> Counting)
  BY <1>1 DEF Has, Earlier, Counting
<1>same. reader' = reader /\ list' = list
  BY <1>1
<1>22. Concealed' = Concealed
  BY <1>1 DEF Concealed
<1>10. Len(rows'[1]) \in 0 .. Cardinality(Id) /\ Len(rows[1]) \in Nat
  <2>1. rows'[1] \in Seq(Id) /\ List!IsInjective(rows'[1]) /\ rows[1] \in Seq(Id)
    BY <1>2, <1>3
  <2>2. QED
    BY <2>1, RowsAreFew
<1>11. ListTyped'
  <2>1. happened' \in [came : BOOLEAN, went : BOOLEAN, moved : BOOLEAN, changes : 0 .. MaxMoves,
                       stayed : SUBSET (List!Places \X Id), sizes : SUBSET (0 .. Cardinality(Id))]
    <3>1. happened.changes + 1 \in 0 .. MaxMoves
      <4>1. happened.changes < MaxMoves
        BY <1>1
      <4>2. happened.changes \in 0 .. MaxMoves
        BY <1>4
      <4>3. QED
        BY <1>3, <4>1, <4>2
    <3>2. happened.stayed \cap There' \in SUBSET (List!Places \X Id)
          /\ happened.sizes \cup {Len(rows'[1])} \in SUBSET (0 .. Cardinality(Id))
      BY <1>4, <1>10
    <3>3. QED
      BY <1>1, <1>4, <3>1, <3>2
  <2>2. QED
    BY <1>0, <1>1, <1>2, <2>1 DEF ListTyped
<1>12. ListPlaces'
  BY <1>0, <1>1, <1>2 DEF ListPlaces
<1>13. ListStays'
  <2>1. happened'.stayed \subseteq There' /\ Len(rows'[1]) \in happened'.sizes
    BY <1>5
  <2>2. ~ (~ happened'.came /\ ~ happened'.went /\ ~ happened'.moved)
    BY <1>6
  <2>3. QED
    BY <2>1, <2>2 DEF ListStays, List!Undisturbed
<1>14. ASSUME list.pc = "page", reader \notin List!Continued, Counting
       PROVE  ~ happened'.came => Cardinality(Has \cup There') + Concealed <= list.total
  <2>1. CASE name = "came"
    BY <1>6, <2>1
  <2>2. CASE name # "came"
    <3>1. There' \subseteq There
      <4>1. name = "moved" => \A q \in List!Places : List!Range(rows'[q]) = List!Range(rows[q])
        BY <1>2
      <4>2. QED
        BY <1>7, <1>8, <2>2, <4>1
    <3>2. ~ happened.came => Cardinality(Has \cup There) + Concealed <= list.total
      BY <1>0, <1>14 DEF ListCounted
    <3>3. IsFiniteSet(Has \cup There)
      <4>1. IsFiniteSet(There)
        BY <1>0, <1>2, <1>3, <1>14, RowsAreCounted DEF ListPlaces
      <4>2. IsFiniteSet(Has)
        BY <1>0, SizeIs DEF Has, ListTyped
      <4>3. QED
        BY <4>1, <4>2, FS_Union
    <3>4. Has \cup There' \in SUBSET (Has \cup There)
      BY <3>1
    <3>5. Cardinality(Has \cup There') <= Cardinality(Has \cup There)
          /\ IsFiniteSet(Has \cup There')
      BY <3>3, <3>4, FS_Subset
    <3>6. Cardinality(Has \cup There') \in Nat /\ Cardinality(Has \cup There) \in Nat
      BY <3>3, <3>5, FS_CardinalityType
    <3>7. list.total \in Int /\ Concealed \in Int
      BY <1>0 DEF ListTyped, Concealed
    <3>8. QED
      BY <1>6, <3>2, <3>5, <3>6, <3>7
  <2>3. QED
    BY <2>1, <2>2
<1>15. /\ list.total \in Int
       /\ reader \notin List!Continued =>
            /\ name = "came" => Len(rows'[1]) = Len(rows[1]) + 1
            /\ name = "went" => Len(rows'[1]) = Len(rows[1]) - 1
            /\ name = "moved" => Len(rows'[1]) = Len(rows[1])
  BY <1>0, <1>2, <1>3 DEF ListTyped
<1>16. ListCounted'
  <2> SUFFICES ASSUME list.pc = "page", reader \notin List!Continued
               PROVE  /\ reader \in List!Counted =>
                           (Counting <=> list.page > 1) /\ (~ Counting => list.seen = <<>>)
                      /\ reader = "dashboards" => Counting
                      /\ reader \in {"accounts", "dashboards"} => Len(list.seen) = Earlier
                      /\ ~ happened'.went => Has \subseteq There'
                      /\ Counting /\ ~ happened'.came =>
                           Cardinality(Has \cup There') + Concealed <= list.total
    BY <1>1, <1>9, <1>22 DEF ListCounted
  <2>1. /\ reader \in List!Counted =>
             (Counting <=> list.page > 1) /\ (~ Counting => list.seen = <<>>)
        /\ reader = "dashboards" => Counting
        /\ reader \in {"accounts", "dashboards"} => Len(list.seen) = Earlier
        /\ ~ happened.went => Has \subseteq There
    BY <1>0 DEF ListCounted
  <2>2. ~ happened'.went => ~ happened.went /\ name # "went"
    BY <1>6
  <2>3. QED
    BY <1>8, <1>14, <2>1, <2>2
<1>17. ListInOrder'
  <2> SUFFICES ASSUME list.pc = "page", reader = "accounts", Counting, ~ happened'.moved,
                      ~ (happened'.came /\ happened'.went)
               PROVE  /\ ~ happened'.went => Len(rows'[1]) >= list.total
                      /\ Len(rows'[1]) # list.total
    BY <1>1, <1>9 DEF ListInOrder, List!Replaced
  <2>1. ~ happened.moved /\ ~ (happened.came /\ happened.went) /\ name # "moved"
    BY <1>6
  <2>2. ~ happened.went => Len(rows[1]) >= list.total
    BY <1>0, <2>1 DEF ListInOrder, List!Replaced
  <2>3. reader \notin List!Continued
    BY DEF List!Continued
  <2>4. CASE name = "came"
    <3>1. ~ happened'.went /\ ~ happened.went
      BY <1>6, <2>4
    <3>2. QED
      BY <1>10, <1>15, <2>2, <2>3, <2>4, <3>1
  <2>5. CASE name = "went"
    <3>1. ~ happened.came /\ happened'.went
      BY <1>6, <2>5
    <3>2. IsFiniteSet(There) /\ Cardinality(There) = Len(rows[1])
      BY <1>0, <1>2, <1>3, <2>3, RowsAreCounted DEF ListPlaces
    <3>3. IsFiniteSet(Has)
      BY <1>0, SizeIs DEF Has, ListTyped
    <3>4. IsFiniteSet(Has \cup There)
      BY <3>2, <3>3, FS_Union
    <3>5. There \in SUBSET (Has \cup There) /\ Cardinality(Has \cup There) \in Nat
      BY <3>4, FS_CardinalityType
    <3>6. Cardinality(Has \cup There) <= list.total
      <4>1. Cardinality(Has \cup There) + Concealed <= list.total
        BY <1>0, <2>3, <3>1 DEF ListCounted
      <4>2. Concealed = 0
        BY DEF Concealed
      <4>3. QED
        BY <3>5, <4>1, <4>2
    <3>7. Cardinality(There) <= Cardinality(Has \cup There)
      BY <3>4, <3>5, FS_Subset
    <3>8. QED
      BY <1>10, <1>15, <2>3, <2>5, <3>1, <3>2, <3>5, <3>6, <3>7
  <2>6. QED
    BY <2>1, <2>4, <2>5
<1>18. ListFollowed'
  <2> SUFFICES ASSUME list.pc = "page", reader \in List!Continued
               PROVE  /\ ~ happened'.went /\ ~ happened'.moved =>
                           \A r \in happened'.stayed : r \in Has \/ ToCome(r)'
                      /\ ~ happened'.went => Has \subseteq There'
                      /\ happened'.came \/ happened'.went \/ happened'.moved
    BY <1>9, <1>same DEF ListFollowed, List!Undisturbed
  <2>1. happened'.came \/ happened'.went \/ happened'.moved
    BY <1>6
  <2>2. ~ happened'.went => Has \subseteq There'
    BY <1>0, <1>6, <1>8 DEF ListFollowed
  <2>3. ASSUME ~ happened'.went, ~ happened'.moved, NEW r \in happened'.stayed
        PROVE  r \in Has \/ ToCome(r)'
    <3>1. ~ happened.went /\ ~ happened.moved /\ name = "came" /\ r \in happened.stayed
      BY <1>5, <1>6, <2>3
    <3>2. \/ r \in Has
          \/ r[1] > list.place
          \/ /\ r[1] = list.place
             /\ \E i \in DOMAIN rows[list.place] : i > Earlier /\ r[2] = rows[list.place][i]
      BY <1>0, <3>1 DEF ListFollowed, ToCome
    <3>3. ASSUME NEW i \in DOMAIN rows[list.place], i > Earlier, r[2] = rows[list.place][i]
          PROVE  \E j \in DOMAIN rows'[list.place] : j > Earlier /\ r[2] = rows'[list.place][j]
      <4>1. list.place \in List!Places /\ list.page \in Nat /\ PageSize \in Int
        <5>1. PageSize \in 1 .. Cardinality(Id)
          BY ListAssumption DEF ListConstants
        <5>2. QED
          BY <1>0, <5>1 DEF ListTyped
      <4>2. rows[list.place] \in Seq(Id) /\ rows'[list.place] \in Seq(Id)
        BY <1>2, <4>1
      <4>3. CASE list.place # p
        <5>1. rows'[list.place] = rows[list.place]
          BY <1>2, <4>1, <4>3
        <5>2. QED
          BY <3>3, <5>1
      <4>4. CASE list.place = p
        <5>1. i \in 1 .. Len(rows[p])
          BY <3>3, <4>2, <4>4
        <5>2. PICK j \in 1 .. Len(u) : j >= i /\ u[j] = rows[p][i]
          BY <3>1, <5>1
        <5>3. rows'[p] = u /\ DOMAIN u = 1 .. Len(u)
          BY <1>2
        <5>4. Earlier \in Int
          BY <4>1 DEF Earlier
        <5>5. j > Earlier
          BY <3>3, <5>1, <5>2, <5>4
        <5>6. QED
          <6>1. rows'[list.place] = u /\ r[2] = u[j] /\ j \in DOMAIN u
            BY <3>3, <4>4, <5>2, <5>3
          <6>2. QED
            BY <5>5, <6>1
      <4>5. QED
        BY <4>3, <4>4
    <3>4. QED
      BY <1>9, <1>same, <3>2, <3>3 DEF ToCome
  <2>4. QED
    BY <2>1, <2>2, <2>3
<1>19. ListUnique'
  BY <1>0, <1>1 DEF ListUnique
<1>20. ListTold'
  <2>1. result' = List!Pending
    BY <1>0, <1>1 DEF ListPlaces
  <2>2. QED
    BY <2>1, NothingToldYet
<1>21. QED
  BY <1>11, <1>12, <1>13, <1>16, <1>17, <1>18, <1>19, <1>20 DEF ListInv

LEMMA AddKeeps == ASSUME ListInv, List!Add PROVE ListInv'
<1>1. PICK p \in List!Places : \E x \in Id \ List!Range(rows[p]), i \in 1 .. Len(rows[p]) + 1 :
        /\ reader \notin List!Continued => p = 1
        /\ List!Change(p, List!InsertAt(rows[p], i, x), "came") /\ UNCHANGED signing
  BY DEF List!Add
<1>2. PICK x \in Id \ List!Range(rows[p]), i \in 1 .. Len(rows[p]) + 1 :
        /\ reader \notin List!Continued => p = 1
        /\ List!Change(p, List!InsertAt(rows[p], i, x), "came") /\ UNCHANGED signing
  BY <1>1
<1>3. rows[p] \in Seq(Id) /\ List!IsInjective(rows[p]) /\ signing \subseteq Id
  BY DEF ListInv, ListTyped
<1> DEFINE u == List!InsertAt(rows[p], i, x)
<1> HIDE DEF u
<1>4. u = List!InsertAt(rows[p], i, x)
  BY DEF u
<1>5. u \in Seq(Id) /\ Len(u) = Len(rows[p]) + 1
  BY <1>3, <1>4, InsertIs
<1>6. /\ List!Range(u) = List!Range(rows[p]) \cup {x}
      /\ \A k \in 1 .. Len(rows[p]) : \E j \in 1 .. Len(u) : j >= k /\ u[j] = rows[p][k]
      /\ List!IsInjective(rows[p]) /\ x \notin List!Range(rows[p]) => List!IsInjective(u)
  BY <1>3, <1>4, InsertKeeps
<1>7. List!Change(p, u, "came") /\ signing' \subseteq Id
  BY <1>2, <1>3, <1>4
<1>8. QED
  BY <1>2, <1>3, <1>5, <1>6, <1>7, ChangeKeeps

LEMMA DropKeeps == ASSUME ListInv, List!Drop PROVE ListInv'
<1>1. PICK p \in List!Places : \E i \in DOMAIN rows[p] :
        List!Change(p, List!RemoveAt(rows[p], i), "went") /\ UNCHANGED signing
  BY DEF List!Drop
<1>2. PICK i \in DOMAIN rows[p] :
        List!Change(p, List!RemoveAt(rows[p], i), "went") /\ UNCHANGED signing
  BY <1>1
<1>3. rows[p] \in Seq(Id) /\ List!IsInjective(rows[p]) /\ signing \subseteq Id
      /\ (reader \notin List!Continued => p = 1)
  BY <1>2 DEF ListInv, ListTyped, ListPlaces
<1> DEFINE u == List!RemoveAt(rows[p], i)
<1> HIDE DEF u
<1>4. u = List!RemoveAt(rows[p], i) /\ i \in 1 .. Len(rows[p])
  BY <1>3 DEF u
<1>5. u \in Seq(Id) /\ Len(u) = Len(rows[p]) - 1
  BY <1>3, <1>4, RemoveIs
<1>6. List!Range(u) = List!Range(rows[p]) \ {rows[p][i]} /\ List!IsInjective(u)
  BY <1>3, <1>4, RemoveKeeps
<1>7. List!Change(p, u, "went") /\ signing' \subseteq Id
  BY <1>2, <1>3, <1>4
<1>8. QED
  BY <1>3, <1>5, <1>6, <1>7, ChangeKeeps

LEMMA RenameKeeps == ASSUME ListInv, List!Rename PROVE ListInv'
<1>1. PICK p \in List!Places : \E i, j \in DOMAIN rows[p] :
        /\ i # j
        /\ List!Change(p, List!InsertAt(List!RemoveAt(rows[p], i), j, rows[p][i]), "moved")
        /\ UNCHANGED signing
  BY DEF List!Rename
<1>2. PICK i \in DOMAIN rows[p], j \in DOMAIN rows[p] :
        /\ i # j
        /\ List!Change(p, List!InsertAt(List!RemoveAt(rows[p], i), j, rows[p][i]), "moved")
        /\ UNCHANGED signing
  BY <1>1
<1>3. rows[p] \in Seq(Id) /\ List!IsInjective(rows[p]) /\ signing \subseteq Id
      /\ (reader \notin List!Continued => p = 1)
  BY <1>2 DEF ListInv, ListTyped, ListPlaces
<1> DEFINE w == List!RemoveAt(rows[p], i)
           x == rows[p][i]
           u == List!InsertAt(w, j, x)
<1> HIDE DEF u, w
<1>4. w = List!RemoveAt(rows[p], i) /\ i \in 1 .. Len(rows[p]) /\ x \in Id
      /\ x \in List!Range(rows[p])
  BY <1>3 DEF w, List!Range
<1>5. w \in Seq(Id) /\ Len(w) = Len(rows[p]) - 1
  BY <1>3, <1>4, RemoveIs
<1>6. List!Range(w) = List!Range(rows[p]) \ {x} /\ List!IsInjective(w)
  BY <1>3, <1>4, RemoveKeeps
<1> HIDE DEF x
<1>7. u = List!InsertAt(w, j, x) /\ j \in 1 .. Len(w) + 1
  BY <1>3, <1>5 DEF u
<1>8. u \in Seq(Id) /\ Len(u) = Len(w) + 1
  BY <1>4, <1>5, <1>7, InsertIs
<1>9. /\ List!Range(u) = List!Range(w) \cup {x}
      /\ List!IsInjective(w) /\ x \notin List!Range(w) => List!IsInjective(u)
  BY <1>4, <1>5, <1>7, InsertKeeps
<1>10. Len(u) = Len(rows[p]) /\ List!Range(u) = List!Range(rows[p]) /\ List!IsInjective(u)
  BY <1>3, <1>4, <1>5, <1>6, <1>8, <1>9
<1>11. List!Change(p, u, "moved") /\ signing' \subseteq Id
  BY <1>2, <1>3 DEF u, w, x
<1>12. QED
  BY <1>3, <1>8, <1>10, <1>11, ChangeKeeps

LEMMA RescopeKeeps == ASSUME ListInv, List!Rescope PROVE ListInv'
<1>1. PICK x \in Id : List!Change(1, rows[1], "moved") /\ reader = "networks"
        /\ signing' = IF x \in signing THEN signing \ {x} ELSE signing \cup {x}
  BY DEF List!Rescope
<1>2. rows[1] \in Seq(Id) /\ List!IsInjective(rows[1]) /\ signing \subseteq Id
  BY PlacesAre DEF ListInv, ListTyped
<1>3. signing' \subseteq Id
  BY <1>1, <1>2
<1>4. QED
  BY <1>1, <1>2, <1>3, PlacesAre, ChangeKeeps

\* The world is as it was.
Still == UNCHANGED <<reader, hidden, rows, signing, happened>>

LEMMA StillKeeps ==
  ASSUME ListInv, Still
  PROVE  /\ reader' = reader /\ hidden' = hidden /\ rows' = rows /\ signing' = signing
         /\ happened' = happened /\ There' = There /\ Concealed' = Concealed /\ ListStays'
         /\ (List!Undisturbed' <=> List!Undisturbed) /\ (List!Replaced' <=> List!Replaced)
<1>1. /\ reader' = reader /\ hidden' = hidden /\ rows' = rows /\ signing' = signing
      /\ happened' = happened
  BY DEF Still
<1>2. There' = There /\ Concealed' = Concealed
  BY <1>1 DEF There, List!All, Concealed
<1>3. QED
  BY <1>1, <1>2 DEF ListInv, ListStays, List!Undisturbed, List!Replaced

\* A reader that is done has told what it found, or that it found nothing.
LEMMA EndKeeps ==
  ASSUME ListInv, Still, list'.pc = "done", list' = [List!Start EXCEPT !.pc = "done", !.seen = list'.seen],
         list'.seen \in Seq(List!Places \X Id),
         result' \in [state : {"unavailable", "available"}, count : Nat], ListTold'
  PROVE  ListInv'
<1>1. ListTyped /\ ListPlaces
  BY DEF ListInv
<1>2. /\ reader' = reader /\ hidden' = hidden /\ rows' = rows /\ signing' = signing
      /\ happened' = happened /\ ListStays'
  BY StillKeeps
<1>3. list' \in [pc : {"coverage", "page", "done"}, place : List!Places, page : Nat \ {0},
                 seen : Seq(List!Places \X Id), total : -1 .. Cardinality(Id) + PageSize,
                 followed : SUBSET (Nat \ {0}), matches : SUBSET (Id \X BOOLEAN)]
  <2>1. list' = [pc |-> "done", place |-> 1, page |-> 1, seen |-> list'.seen, total |-> -1,
                 followed |-> {}, matches |-> {}]
    BY DEF List!Start, List!NoTotal
  <2>2. Cardinality(Id) \in Nat /\ PageSize \in Nat
    BY PageSizeIs
  <2>3. -1 \in -1 .. Cardinality(Id) + PageSize /\ 1 \in Nat \ {0}
        /\ {} \in SUBSET (Nat \ {0}) /\ {} \in SUBSET (Id \X BOOLEAN)
    BY <2>2
  <2>4. QED
    BY <2>1, <2>3, PlacesAre
<1>4. ListTyped'
  BY <1>1, <1>2, <1>3 DEF ListTyped
<1>5. ListPlaces'
  <2>1. list'.place = 1
    BY DEF List!Start
  <2>2. QED
    BY <1>1, <1>2, <2>1 DEF ListPlaces
<1>6. ListCounted' /\ ListInOrder' /\ ListFollowed' /\ ListUnique'
  BY DEF ListCounted, ListInOrder, ListFollowed, ListUnique
<1>7. QED
  BY <1>2, <1>4, <1>5, <1>6 DEF ListInv

LEMMA RefuseKeeps == ASSUME ListInv, Still, List!Refuse PROVE ListInv'
<1>1. list' = [List!Start EXCEPT !.pc = "done"]
      /\ result' = [state |-> "unavailable", count |-> 0]
  BY DEF List!Refuse
<1>2. list'.pc = "done" /\ list'.seen = <<>>
      /\ list' = [List!Start EXCEPT !.pc = "done", !.seen = list'.seen]
  BY <1>1 DEF List!Start
<1>3. <<>> \in Seq(List!Places \X Id)
  OBVIOUS
<1>4. ListTold'
  BY <1>1 DEF ListTold, List!CountWasTrue, List!HiddenRowsAreNoticed,
              List!NothingThatStayedIsMissed, List!NoRowTwice, List!NetworksAreCounted, List!Told
<1>5. QED
  BY <1>1, <1>2, <1>3, <1>4, EndKeeps

\* What a reader may tell.
LEMMA CompleteKeeps ==
  ASSUME ListInv, Still, NEW seen \in Seq(List!Places \X Id), NEW n \in Nat, List!Complete(seen, n),
         reader \in List!Counted => n \in happened.sizes,
         hidden > 0 => reader \in {"public", "accounts"} \/ (reader = "dashboards" /\ happened.came),
         \/ happened.stayed \subseteq List!Range(seen)
         \/ IF reader \in List!Continued THEN happened.went \/ happened.moved
            ELSE List!Replaced \/ (reader = "accounts" /\ happened.moved),
         \/ List!IsInjective(seen)
         \/ reader = "accounts" /\ (List!Replaced \/ happened.moved),
         reader = "networks" /\ List!Undisturbed =>
           n = List!Cardinality({x \in signing : \E p \in List!Places : x \in List!Range(rows[p])})
  PROVE  ListInv'
<1>1. list' = [List!Start EXCEPT !.pc = "done", !.seen = seen]
      /\ result' = [state |-> "available", count |-> n]
  BY DEF List!Complete
<1>2. list'.pc = "done" /\ list'.seen = seen
      /\ list' = [List!Start EXCEPT !.pc = "done", !.seen = list'.seen]
  BY <1>1 DEF List!Start
<1>3. /\ reader' = reader /\ hidden' = hidden /\ rows' = rows /\ signing' = signing
      /\ happened' = happened
      /\ (List!Undisturbed' <=> List!Undisturbed) /\ (List!Replaced' <=> List!Replaced)
  BY StillKeeps
<1>4. result'.count = n
  BY <1>1
<1>5. List!CountWasTrue'
  BY <1>3, <1>4 DEF List!CountWasTrue
<1>6. List!NothingThatStayedIsMissed'
  BY <1>2, <1>3 DEF List!NothingThatStayedIsMissed
<1>7. List!NoRowTwice'
  BY <1>2, <1>3 DEF List!NoRowTwice
<1>8. List!NetworksAreCounted'
  BY <1>3, <1>4 DEF List!NetworksAreCounted
<1>0. List!HiddenRowsAreNoticed'
  BY <1>3 DEF List!HiddenRowsAreNoticed
<1>9. ListTold'
  BY <1>0, <1>5, <1>6, <1>7, <1>8 DEF ListTold
<1>10. QED
  BY <1>1, <1>2, <1>9, EndKeeps

\* The panels' credential covers every folder before a page is read.
LEMMA CoverageKeeps == ASSUME ListInv, Still, List!Coverage PROVE ListInv'
<1>1. CASE List!Refuse
  BY <1>1, RefuseKeeps
<1>2. CASE hidden = 0 /\ List!Become([list EXCEPT !.pc = "page"])
  <2>1. list' = [list EXCEPT !.pc = "page"] /\ result' = result /\ list.pc = "coverage"
    BY <1>2 DEF List!Become, List!Coverage
  <2>2. ListTyped /\ ListPlaces
    BY DEF ListInv
  <2>3. reader = "panels" /\ list = List!Start /\ result = List!Pending
    BY <2>1, <2>2 DEF ListPlaces
  <2>4. /\ reader' = reader /\ hidden' = hidden /\ rows' = rows /\ signing' = signing
        /\ happened' = happened /\ ListStays'
    BY StillKeeps
  <2>5. /\ list'.pc = "page" /\ list'.place = 1 /\ list'.page = 1 /\ list'.seen = <<>>
        /\ list'.total = List!NoTotal
    BY <2>1, <2>3 DEF List!Start
  <2>6. ListTyped'
    <3>1. list' \in [pc : {"coverage", "page", "done"}, place : List!Places, page : Nat \ {0},
                     seen : Seq(List!Places \X Id), total : -1 .. Cardinality(Id) + PageSize,
                     followed : SUBSET (Nat \ {0}), matches : SUBSET (Id \X BOOLEAN)]
      BY <2>1, <2>2 DEF ListTyped
    <3>2. QED
      BY <2>1, <2>2, <2>4, <3>1 DEF ListTyped
  <2>7. ListPlaces'
    BY <1>2, <2>1, <2>2, <2>3, <2>4, <2>5 DEF ListPlaces
  <2>8. ~ Counting' /\ Has' = {}
    BY <2>5 DEF Counting, Has, List!Range
  <2>9. ListCounted'
    BY <2>3, <2>4, <2>5, <2>8 DEF ListCounted
  <2>10. ListInOrder' /\ ListFollowed'
    BY <2>3, <2>4 DEF ListInOrder, ListFollowed, List!Continued
  <2>11. ListUnique'
    BY <2>5 DEF ListUnique, List!IsInjective
  <2>12. ListTold'
    <3>1. result' = List!Pending
      BY <2>1, <2>3
    <3>2. QED
      BY <3>1, NothingToldYet
  <2>13. QED
    BY <2>4, <2>6, <2>7, <2>9, <2>10, <2>11, <2>12 DEF ListInv
<1>3. QED
  BY <1>1, <1>2 DEF List!Coverage, List!Unreadable

\* What a page of a list is that has one place.
LEMMA PageIs ==
  ASSUME ListInv, list.pc = "page", reader \notin List!Continued
  PROVE  LET n == Len(rows[1]) IN
         /\ n \in 0 .. Cardinality(Id) /\ Cardinality(Id) \in Nat /\ list.place = 1
         /\ Len(List!Shown) = n /\ List!Shown = rows[1]
         /\ IsFiniteSet(There) /\ Cardinality(There) = n
         /\ Earlier \in Nat /\ list.page * PageSize = Earlier + PageSize /\ PageSize \in Nat \ {0}
         /\ List!Batch \in Seq(Id)
         /\ Len(List!Batch) \in Nat
         /\ Len(List!Batch) = IF Earlier + PageSize <= n THEN PageSize
                              ELSE IF Earlier <= n THEN n - Earlier ELSE 0
         /\ List!Taken(List!Batch) \in Seq(List!Places \X Id)
         /\ Len(List!Taken(List!Batch)) = Len(list.seen) + Len(List!Batch) /\ Len(list.seen) \in Nat
         /\ Has \subseteq List!Range(List!Taken(List!Batch))
         /\ List!Range(List!Taken(List!Batch)) \subseteq Has \cup There
<1>1. ListTyped /\ ListPlaces
  BY DEF ListInv
<1>2. list.place = 1 /\ \A p \in List!Places : p # 1 => rows[p] = <<>>
  BY <1>1 DEF ListPlaces
<1>3. rows \in [List!Places -> Seq(Id)] /\ rows[1] \in Seq(Id) /\ List!IsInjective(rows[1])
      /\ Len(list.seen) \in Nat
  BY <1>1, PlacesAre DEF ListTyped
<1>4. Len(rows[1]) \in 0 .. Cardinality(Id) /\ Cardinality(Id) \in Nat
  BY <1>3, RowsAreFew
<1>5. IsFiniteSet(There) /\ Cardinality(There) = Len(rows[1])
  BY <1>2, <1>3, RowsAreCounted
<1>6. /\ List!Shown = rows[1]
      /\ Earlier \in Nat /\ list.page * PageSize = Earlier + PageSize /\ PageSize \in Nat \ {0}
      /\ List!Batch \in Seq(Id)
      /\ Len(List!Batch) = IF Earlier + PageSize <= Len(rows[1]) THEN PageSize
                              ELSE IF Earlier <= Len(rows[1]) THEN Len(rows[1]) - Earlier ELSE 0
  BY <1>1, <1>2, BatchIs
<1>7. List!Range(List!Batch) \subseteq List!Range(rows[1])
  BY <1>1, <1>2, BatchHas
<1>8. List!Range(List!Taken(List!Batch)) = Has \cup {<<1, x>> : x \in List!Range(List!Batch)}
  BY <1>1, <1>2, <1>6, TakenHas
<1>9. {<<1, x>> : x \in List!Range(List!Batch)} \subseteq There
  <2>1. List!Range(List!Batch) \subseteq Id
    BY <1>6, RangeIs
  <2>2. \A x \in Id : <<1, x>> \in There <=> x \in List!Range(rows[1])
    BY <1>3, PlacesAre, AllIs DEF There
  <2>3. QED
    BY <1>7, <2>1, <2>2
<1>10. List!Taken(List!Batch) \in Seq(List!Places \X Id)
       /\ Len(List!Taken(List!Batch)) = Len(list.seen) + Len(List!Batch)
  BY <1>1, <1>6, TakenIs
<1>11. Len(List!Batch) \in Nat
  BY <1>6
<1>12. QED
  BY <1>2, <1>3, <1>4, <1>5, <1>6, <1>8, <1>9, <1>10, <1>11

\* A page is read by the total that it says, which is the one the reader knew.
CountsBy(total) ==
  /\ list.pc = "page" /\ reader \notin List!Continued
  /\ reader \in List!Counted => total = Len(rows[1])
  /\ reader = "dashboards" => total = list.total
  /\ Counting => total = list.total
  /\ reader # "accounts" => ~ List!Repeated(List!Batch)

\* What the reader then has is there as long as nothing went, and as long as nothing came there is
\* no more beside it than was counted.
LEMMA PageCounts ==
  ASSUME ListInv, NEW total, CountsBy(total)
  PROVE  LET has == List!Range(List!Taken(List!Batch)) IN
         /\ total \in 0 .. Cardinality(Id) + PageSize
         /\ IsFiniteSet(has) /\ Cardinality(has) \in Nat
         /\ Cardinality(has) <= Len(List!Taken(List!Batch))
         /\ reader # "accounts" => List!IsInjective(List!Taken(List!Batch))
                                   /\ Cardinality(has) = Len(List!Taken(List!Batch))
         /\ ~ happened.went => has \subseteq There
         /\ ~ happened.came => IsFiniteSet(has \cup There) /\ Cardinality(has \cup There) \in Nat
                               /\ Cardinality(has \cup There) + Concealed <= total
         /\ Concealed \in Nat
<1> DEFINE has == List!Range(List!Taken(List!Batch))
           n == Len(rows[1])
<1>1. /\ n \in 0 .. Cardinality(Id) /\ Cardinality(Id) \in Nat /\ list.place = 1
      /\ IsFiniteSet(There) /\ Cardinality(There) = n
      /\ List!Batch \in Seq(Id)
      /\ List!Taken(List!Batch) \in Seq(List!Places \X Id)
      /\ Has \subseteq has /\ has \subseteq Has \cup There
  BY PageIs DEF CountsBy
<1>2. ListTyped /\ ListCounted /\ ListUnique
  BY DEF ListInv
<1>3. list.total \in -1 .. Cardinality(Id) + PageSize /\ List!NoTotal = -1 /\ PageSize \in Nat
      /\ Concealed \in Nat
  <2>1. PageSize \in Nat \ {0}
    BY PageIs DEF CountsBy
  <2>2. QED
    BY <1>2, <2>1 DEF ListTyped, List!NoTotal, Concealed
<1>4. /\ reader \in List!Counted => (~ Counting => list.seen = <<>>)
      /\ reader = "dashboards" => Counting
      /\ ~ happened.went => Has \subseteq There
      /\ Counting /\ ~ happened.came => Cardinality(Has \cup There) + Concealed <= list.total
  BY <1>2 DEF ListCounted, CountsBy
<1>5. reader \in List!Counted \/ reader = "dashboards"
  BY <1>2 DEF ListTyped, List!Sources, CountsBy
<1>6. total \in 0 .. Cardinality(Id) + PageSize
  BY <1>1, <1>3, <1>4, <1>5 DEF CountsBy, Counting
<1>7. /\ IsFiniteSet(has) /\ Cardinality(has) \in Nat
      /\ Cardinality(has) <= Len(List!Taken(List!Batch))
      /\ List!IsInjective(List!Taken(List!Batch)) =>
           Cardinality(has) = Len(List!Taken(List!Batch))
  BY <1>1, SizeIs
<1>8. reader # "accounts" => List!IsInjective(List!Taken(List!Batch))
  BY <1>1, <1>2, TakenHas DEF CountsBy, ListUnique
<1>9. ~ happened.went => has \subseteq There
  BY <1>1, <1>4
<1>10. ASSUME ~ happened.came
       PROVE  IsFiniteSet(has \cup There) /\ Cardinality(has \cup There) \in Nat
              /\ Cardinality(has \cup There) + Concealed <= total
  <2>1. IsFiniteSet(has \cup There)
    <3> HIDE DEF has
    <3>1. QED
      BY <1>1, <1>7, FS_Union
  <2>2. Cardinality(has \cup There) \in Nat
    <3> HIDE DEF has
    <3>1. QED
      BY <2>1, FS_CardinalityType
  <2>3. has \cup There = Has \cup There
    BY <1>1
  <2>4. CASE Counting
    BY <1>4, <1>10, <2>1, <2>2, <2>3, <2>4 DEF CountsBy
  <2>5. CASE ~ Counting
    <3>1. reader \in List!Counted /\ list.seen = <<>>
      BY <1>4, <1>5, <2>5
    <3>2. Has = {}
      BY <3>1 DEF Has, List!Range
    <3>3. Has \cup There = There /\ total = n
      BY <3>1, <3>2 DEF CountsBy
    <3>4. has \cup There = There
      BY <2>3, <3>3
    <3>5. Cardinality(has \cup There) = Cardinality(There)
      BY <3>4, Zenon
    <3>6. Cardinality(There) = total /\ total \in Int /\ Concealed = 0
      BY <1>1, <3>1, <3>3 DEF Concealed, List!Counted
    <3> HIDE DEF has, n
    <3>7. QED
      BY <2>1, <2>2, <3>5, <3>6
  <2>6. QED
    BY <2>4, <2>5
<1>11. QED
  BY <1>3, <1>6, <1>7, <1>8, <1>9, <1>10

\* As many rows as were counted are all the rows, unless some came and others went.
LEMMA WholeIs ==
  ASSUME ListInv, NEW total, CountsBy(total), reader # "accounts",
         Len(List!Taken(List!Batch)) = total,
         Len(rows[1]) <= total \/ happened.went
  PROVE  /\ List!Replaced \/ happened.stayed \subseteq List!Range(List!Taken(List!Batch))
         /\ ~ happened.came => Concealed = 0
<1> DEFINE has == List!Range(List!Taken(List!Batch))
<1>1. /\ IsFiniteSet(has) /\ Cardinality(has) = total /\ total \in Nat
      /\ ~ happened.went => has \subseteq There
      /\ ~ happened.came => IsFiniteSet(has \cup There) /\ Cardinality(has \cup There) \in Nat
                            /\ Cardinality(has \cup There) + Concealed <= total
      /\ Concealed \in Nat
  BY PageCounts
<1>2. IsFiniteSet(There) /\ Cardinality(There) = Len(rows[1]) /\ Len(rows[1]) \in Nat
  BY PageIs DEF CountsBy
<1>3. happened.stayed \subseteq There
  BY DEF ListInv, ListStays
<1> HIDE DEF has
<1>4. ASSUME ~ happened.went PROVE There \subseteq has
  <2>1. has \in SUBSET There
    BY <1>1, <1>4
  <2>2. Cardinality(has) <= Cardinality(There) /\ (Cardinality(There) = Cardinality(has) => There = has)
    BY <1>2, <2>1, FS_Subset
  <2>3. Cardinality(There) = Cardinality(has)
    BY <1>1, <1>2, <1>4, <2>2
  <2>4. QED
    BY <2>2, <2>3
<1>5. ASSUME ~ happened.came PROVE There \subseteq has /\ Concealed = 0
  <2>1. has \in SUBSET (has \cup There) /\ IsFiniteSet(has \cup There)
    BY <1>1, <1>5
  <2>2. Cardinality(has) <= Cardinality(has \cup There)
        /\ (Cardinality(has \cup There) = Cardinality(has) => has \cup There = has)
    BY <2>1, FS_Subset
  <2>3. Cardinality(has \cup There) = Cardinality(has) /\ Concealed = 0
    BY <1>1, <1>5, <2>2
  <2>4. QED
    BY <2>2, <2>3
<1>6. QED
  BY <1>3, <1>4, <1>5 DEF List!Replaced, has

\* What has been read of the accounts is then the beginning of their list.
LEMMA PageInOrder ==
  ASSUME ListInv, NEW total, CountsBy(total), reader = "accounts",
         ~ happened.moved, ~ List!Replaced
  PROVE  \A i \in 1 .. Len(List!Taken(List!Batch)) :
           i \in DOMAIN rows[1] /\ List!Taken(List!Batch)[i] = <<1, rows[1][i]>>
<1> DEFINE n == Len(rows[1])
           b == Len(List!Batch)
           s == Len(list.seen)
<1>1. ListTyped /\ ListPlaces /\ ListCounted /\ ListInOrder
  BY DEF ListInv
<1>2. /\ n \in Nat /\ list.place = 1 /\ List!Batch \in Seq(Id)
      /\ Len(List!Taken(List!Batch)) = s + b /\ s \in Nat /\ b \in Nat
  BY PageIs DEF CountsBy
<1>3. \A k \in 1 .. b : Earlier + k \in 1 .. n /\ List!Batch[k] = rows[1][Earlier + k]
  BY <1>1, <1>2, BatchIs
<1>4. /\ \A i \in 1 .. s : List!Taken(List!Batch)[i] = list.seen[i]
      /\ \A k \in 1 .. b : List!Taken(List!Batch)[s + k] = <<1, List!Batch[k]>>
  BY <1>1, <1>2, TakenIs
<1>5. /\ s = Earlier /\ total = n /\ (~ Counting => list.seen = <<>>)
      /\ rows[1] \in Seq(Id) /\ list.seen \in Seq(List!Places \X Id)
  BY <1>1, PlacesAre DEF ListCounted, ListTyped, CountsBy, List!Counted
<1>6. DOMAIN rows[1] = 1 .. n /\ DOMAIN list.seen = 1 .. s
  BY <1>5
<1>7. \A i \in 1 .. s : i \in DOMAIN rows[1] /\ list.seen[i] = <<1, rows[1][i]>>
  <2>1. CASE Counting
    <3>1. list.total = n
      BY <1>5, <2>1 DEF CountsBy
    <3>2. QED
      BY <1>1, <1>6, <2>1, <3>1 DEF ListInOrder, CountsBy
  <2>2. CASE ~ Counting
    BY <1>5, <2>2
  <2>3. QED
    BY <2>1, <2>2
<1> HIDE DEF n, b, s
<1>8. ASSUME NEW i \in 1 .. s + b
      PROVE  i \in DOMAIN rows[1] /\ List!Taken(List!Batch)[i] = <<1, rows[1][i]>>
  <2>1. CASE i <= s
    BY <1>2, <1>4, <1>7, <2>1
  <2>2. CASE i > s
    <3>1. i - s \in 1 .. b /\ s + (i - s) = i
      BY <1>2, <2>2
    <3>2. List!Taken(List!Batch)[i] = <<1, List!Batch[i - s]>>
      BY <1>4, <3>1
    <3>3. List!Batch[i - s] = rows[1][i] /\ i \in 1 .. n
      BY <1>3, <1>5, <3>1
    <3>4. QED
      BY <1>6, <3>2, <3>3
  <2>3. QED
    BY <1>2, <2>1, <2>2
<1>9. QED
  BY <1>2, <1>8 DEF n, b, s

\* On to the next page.
LEMMA NextPageKeeps ==
  ASSUME ListInv, Still, NEW total, CountsBy(total),
         List!NextPage(List!Taken(List!Batch), total),
         reader \in {"accounts", "dashboards"} => Len(List!Batch) = PageSize
  PROVE  ListInv'
<1> DEFINE seen == List!Taken(List!Batch)
<1>1. ListTyped /\ ListPlaces /\ ListCounted
  BY DEF ListInv
<1>2. list' = [list EXCEPT !.page = @ + 1, !.seen = seen, !.total = total] /\ result' = result
  BY DEF List!NextPage, List!Become
<1>3. /\ reader' = reader /\ hidden' = hidden /\ rows' = rows /\ signing' = signing
      /\ happened' = happened /\ There' = There /\ Concealed' = Concealed /\ ListStays'
      /\ (List!Replaced' <=> List!Replaced)
  BY StillKeeps
<1>4. /\ Len(rows[1]) \in 0 .. Cardinality(Id) /\ Cardinality(Id) \in Nat /\ list.place = 1
      /\ Earlier \in Nat /\ list.page * PageSize = Earlier + PageSize /\ PageSize \in Nat \ {0}
      /\ seen \in Seq(List!Places \X Id)
      /\ Len(seen) = Len(list.seen) + Len(List!Batch) /\ Len(list.seen) \in Nat
  BY PageIs DEF CountsBy
<1>5. /\ total \in 0 .. Cardinality(Id) + PageSize
      /\ reader # "accounts" => List!IsInjective(seen)
      /\ ~ happened.went => List!Range(seen) \subseteq There
      /\ ~ happened.came => Cardinality(List!Range(seen) \cup There) + Concealed <= total
  BY PageCounts
<1>6. \A i \in 1 .. Len(seen) : reader = "accounts" /\ ~ happened.moved /\ ~ List!Replaced =>
        i \in DOMAIN rows[1] /\ seen[i] = <<1, rows[1][i]>>
  BY PageInOrder
<1> HIDE DEF seen
<1>7. list \in [pc : {"coverage", "page", "done"}, place : List!Places, page : Nat \ {0},
                seen : Seq(List!Places \X Id), total : -1 .. Cardinality(Id) + PageSize,
                followed : SUBSET (Nat \ {0}), matches : SUBSET (Id \X BOOLEAN)]
  BY <1>1 DEF ListTyped
<1>8. /\ list'.pc = list.pc /\ list'.place = list.place /\ list'.page = list.page + 1
      /\ list'.seen = seen /\ list'.total = total
  BY <1>2, <1>7
<1>9. list.page + 1 \in Nat \ {0} /\ total \in -1 .. Cardinality(Id) + PageSize /\ list.page \in Nat \ {0}
  BY <1>4, <1>5, <1>7
<1>10. ListTyped'
  <2>1. list' \in [pc : {"coverage", "page", "done"}, place : List!Places, page : Nat \ {0},
                   seen : Seq(List!Places \X Id), total : -1 .. Cardinality(Id) + PageSize,
                   followed : SUBSET (Nat \ {0}), matches : SUBSET (Id \X BOOLEAN)]
    BY <1>2, <1>4, <1>7, <1>9
  <2>2. QED
    BY <1>1, <1>2, <1>3, <2>1 DEF ListTyped
<1>11. ListPlaces'
  <2>1. list.pc = "page"
    BY DEF CountsBy
  <2>2. QED
    BY <1>1, <1>2, <1>3, <1>4, <1>8, <2>1 DEF ListPlaces
<1>12. Has' = List!Range(seen) /\ Counting' /\ Earlier' = Earlier + PageSize
  <2>1. Counting'
    BY <1>5, <1>8 DEF Counting, List!NoTotal
  <2>2. Has' = List!Range(seen)
    BY <1>8 DEF Has
  <2>3. Earlier' = list.page * PageSize
    <3>1. list'.page - 1 = list.page
      BY <1>8, <1>9
    <3>2. Earlier' = (list'.page - 1) * PageSize
      BY DEF Earlier
    <3>3. QED
      BY <3>1, <3>2
  <2>4. QED
    BY <1>4, <2>1, <2>2, <2>3
<1>13. ListCounted'
  <2>2. reader \in {"accounts", "dashboards"} => Len(seen) = Earlier + PageSize
    <3>1. reader \in {"accounts", "dashboards"} => Len(list.seen) = Earlier
      BY <1>1 DEF ListCounted, CountsBy
    <3>2. QED
      BY <1>4, <3>1
  <2>3. list.page + 1 > 1
    BY <1>9
  <2>4. QED
    BY <1>3, <1>5, <1>8, <1>12, <2>2, <2>3 DEF ListCounted
<1>14. ListInOrder'
  <2>1. reader = "accounts" => total = Len(rows[1])
    BY DEF CountsBy, List!Counted
  <2>2. DOMAIN seen = 1 .. Len(seen)
    BY <1>4
  <2>3. reader = "accounts" => Len(rows[1]) >= total
    BY <1>4, <2>1
  <2>4. QED
    BY <1>3, <1>6, <1>8, <2>2, <2>3 DEF ListInOrder
<1>15. ListFollowed'
  BY <1>3 DEF ListFollowed, CountsBy
<1>16. ListUnique'
  BY <1>3, <1>5, <1>8 DEF ListUnique
<1>17. ListTold'
  <2>1. result' = List!Pending
    BY <1>1, <1>2 DEF ListPlaces, CountsBy
  <2>2. QED
    BY <2>1, NothingToldYet
<1>18. QED
  BY <1>3, <1>10, <1>11, <1>13, <1>14, <1>15, <1>16, <1>17 DEF ListInv

\* A list that is complete.
LEMMA WholeKeeps ==
  ASSUME ListInv, Still, NEW total, CountsBy(total), reader # "accounts",
         List!Complete(List!Taken(List!Batch), total),
         Len(List!Taken(List!Batch)) = total,
         Len(rows[1]) <= total \/ happened.went
  PROVE  ListInv'
<1> DEFINE seen == List!Taken(List!Batch)
<1>1. seen \in Seq(List!Places \X Id) /\ total \in Nat /\ List!IsInjective(seen)
  BY PageIs, PageCounts DEF CountsBy
<1>2. /\ List!Replaced \/ happened.stayed \subseteq List!Range(seen)
      /\ ~ happened.came => Concealed = 0
  BY WholeIs
<1>3. reader \in List!Counted => total \in happened.sizes
  BY DEF CountsBy, ListInv, ListStays
<1>4. reader \notin List!Continued /\ reader # "networks"
  BY DEF CountsBy, List!Continued
<1> HIDE DEF seen
<1>5. List!Complete(seen, total)
  BY DEF seen
<1>6. hidden > 0 => reader \in {"public", "accounts"} \/ (reader = "dashboards" /\ happened.came)
  <2>1. reader \in {"panels", "public", "dashboards"}
    BY <1>4 DEF ListInv, ListTyped, List!Sources, List!Counted
  <2>2. reader = "panels" => hidden = 0
    BY DEF ListInv, ListPlaces, CountsBy
  <2>3. reader = "dashboards" /\ ~ happened.came => hidden = 0
    BY <1>2 DEF Concealed
  <2>4. QED
    BY <2>1, <2>2, <2>3
<1>7. QED
  BY <1>1, <1>2, <1>3, <1>4, <1>5, <1>6, CompleteKeeps

LEMMA PanelsKeep ==
  ASSUME ListInv, Still, list.pc = "page", List!PanelsPage PROVE ListInv'
<1> DEFINE total == IF list.total = List!NoTotal THEN Len(List!Shown) ELSE list.total
           seen == List!Taken(List!Batch)
<1>1. reader = "panels" /\ reader \notin List!Continued /\ reader \in List!Counted
      /\ reader \notin {"accounts", "dashboards"}
  BY DEF List!PanelsPage, List!Continued, List!Counted
<1>2. CASE List!Refuse
  BY <1>2, RefuseKeeps
<1>3. CASE /\ Len(List!Shown) = total /\ ~ List!Repeated(List!Batch)
           /\ (Len(seen) = total /\ List!Complete(seen, total)) \/ List!NextPage(seen, total)
  <2>1. Len(List!Shown) = Len(rows[1]) /\ Len(rows[1]) \in Nat
    BY <1>1, PageIs
  <2>2. CountsBy(total)
    BY <1>1, <1>3, <2>1 DEF CountsBy, Counting
  <2>3. total = Len(rows[1])
    BY <1>3, <2>1
  <2> HIDE DEF total
  <2>4. CASE Len(seen) = total /\ List!Complete(seen, total)
    BY <1>1, <2>1, <2>2, <2>3, <2>4, WholeKeeps
  <2>5. CASE List!NextPage(seen, total)
    BY <1>1, <2>2, <2>5, NextPageKeeps
  <2>6. QED
    BY <1>3, <2>4, <2>5
<1>4. QED
  BY <1>2, <1>3 DEF List!PanelsPage

LEMMA PublicKeeps ==
  ASSUME ListInv, Still, list.pc = "page", List!PublicPage PROVE ListInv'
<1> DEFINE total == IF list.page = 1 THEN Len(List!Shown) ELSE list.total
           seen == List!Taken(List!Batch)
<1>1. reader = "public" /\ reader \notin List!Continued /\ reader \in List!Counted
      /\ reader \notin {"accounts", "dashboards"}
  BY DEF List!PublicPage, List!Continued, List!Counted
<1>2. CASE List!Refuse
  BY <1>2, RefuseKeeps
<1>3. CASE /\ Len(List!Shown) = total /\ ~ List!Repeated(List!Batch)
           /\ (Len(seen) = total /\ List!Complete(seen, total)) \/ List!NextPage(seen, total)
  <2>1. Len(List!Shown) = Len(rows[1]) /\ Len(rows[1]) \in Nat
    BY <1>1, PageIs
  <2>2. Counting <=> list.page > 1
    BY <1>1 DEF ListInv, ListCounted
  <2>3. list.page \in Nat \ {0}
    BY DEF ListInv, ListTyped
  <2>4. CountsBy(total)
    BY <1>1, <1>3, <2>1, <2>2, <2>3 DEF CountsBy
  <2>5. total = Len(rows[1])
    BY <1>3, <2>1
  <2> HIDE DEF total
  <2>6. CASE Len(seen) = total /\ List!Complete(seen, total)
    BY <1>1, <2>1, <2>4, <2>5, <2>6, WholeKeeps
  <2>7. CASE List!NextPage(seen, total)
    BY <1>1, <2>4, <2>7, NextPageKeeps
  <2>8. QED
    BY <1>3, <2>6, <2>7
<1>4. QED
  BY <1>2, <1>3 DEF List!PublicPage

LEMMA DashboardsKeep ==
  ASSUME ListInv, Still, list.pc = "page", List!DashboardsPage PROVE ListInv'
<1> DEFINE total == list.total
           seen == List!Taken(List!Batch)
<1>1. reader = "dashboards" /\ reader \notin List!Continued /\ reader \notin List!Counted
      /\ reader # "accounts"
  BY DEF List!DashboardsPage, List!Continued, List!Counted
<1>2. CASE List!Refuse
  BY <1>2, RefuseKeeps
<1>3. CASE /\ ~ List!Repeated(List!Batch)
           /\ \/ Len(List!Batch) < PageSize /\ Len(seen) = total /\ List!Complete(seen, Len(seen))
              \/ ~ (Len(List!Batch) < PageSize) /\ List!NextPage(seen, total)
  <2>1. /\ Len(rows[1]) \in Nat /\ Earlier \in Nat /\ PageSize \in Nat \ {0}
        /\ Len(List!Batch) = IF Earlier + PageSize <= Len(rows[1]) THEN PageSize
                             ELSE IF Earlier <= Len(rows[1]) THEN Len(rows[1]) - Earlier ELSE 0
        /\ Len(seen) = Len(list.seen) + Len(List!Batch)
    BY <1>1, PageIs
  <2>2. CountsBy(total)
    BY <1>1, <1>3 DEF CountsBy
  <2>3. Len(list.seen) = Earlier
    BY <1>1 DEF ListInv, ListCounted
  <2> HIDE DEF total, seen
  <2>4. CASE Len(List!Batch) < PageSize /\ Len(seen) = total /\ List!Complete(seen, Len(seen))
    <3>1. Len(rows[1]) <= total
      BY <2>1, <2>3, <2>4
    <3>2. List!Complete(seen, total)
      BY <2>4
    <3>3. QED
      BY <1>1, <2>2, <2>4, <3>1, <3>2, WholeKeeps DEF seen
  <2>5. CASE ~ (Len(List!Batch) < PageSize) /\ List!NextPage(seen, total)
    <3>1. Len(List!Batch) = PageSize
      BY <2>1, <2>5
    <3>2. QED
      BY <1>1, <2>2, <2>5, <3>1, NextPageKeeps DEF seen
  <2>6. QED
    BY <1>3, <2>4, <2>5 DEF total, seen
<1>4. QED
  BY <1>2, <1>3 DEF List!DashboardsPage

LEMMA AccountsKeep ==
  ASSUME ListInv, Still, list.pc = "page", List!AccountsPage PROVE ListInv'
<1> DEFINE total == IF list.total = List!NoTotal THEN Len(List!Shown) ELSE list.total
           seen == List!Taken(List!Batch)
<1>1. reader = "accounts" /\ reader \notin List!Continued /\ reader \in List!Counted
  BY DEF List!AccountsPage, List!Continued, List!Counted
<1>2. CASE List!Refuse
  BY <1>2, RefuseKeeps
<1>3. CASE /\ Len(List!Shown) = total
           /\ \/ Len(seen) = total /\ List!Complete(seen, total)
              \/ Len(seen) # total /\ Len(seen) <= total /\ List!Batch # <<>> /\ List!NextPage(seen, total)
  <2>1. /\ Len(List!Shown) = Len(rows[1]) /\ Len(rows[1]) \in Nat /\ Earlier \in Nat /\ PageSize \in Nat \ {0}
        /\ Len(List!Batch) = IF Earlier + PageSize <= Len(rows[1]) THEN PageSize
                             ELSE IF Earlier <= Len(rows[1]) THEN Len(rows[1]) - Earlier ELSE 0
        /\ Len(seen) = Len(list.seen) + Len(List!Batch)
        /\ seen \in Seq(List!Places \X Id)
        /\ IsFiniteSet(There) /\ Cardinality(There) = Len(rows[1])
    BY <1>1, PageIs
  <2>2. CountsBy(total)
    BY <1>1, <1>3, <2>1 DEF CountsBy, Counting
  <2>3. Len(list.seen) = Earlier /\ total = Len(rows[1])
    BY <1>1, <1>3, <2>1 DEF ListInv, ListCounted
  <2> HIDE DEF total, seen
  <2>4. CASE Len(seen) = total /\ List!Complete(seen, total)
    <3>2. ASSUME ~ happened.moved, ~ List!Replaced
          PROVE  List!IsInjective(seen) /\ happened.stayed \subseteq List!Range(seen)
      <4>1. \A i \in 1 .. Len(seen) : i \in DOMAIN rows[1] /\ seen[i] = <<1, rows[1][i]>>
        BY <1>1, <2>2, <3>2, PageInOrder DEF seen
      <4>2. DOMAIN seen = 1 .. Len(seen)
        BY <2>1
      <4>3. /\ rows[1] \in Seq(Id) /\ rows \in [List!Places -> Seq(Id)]
            /\ \A p \in List!Places : p # 1 => rows[p] = <<>>
            /\ happened.stayed \subseteq There /\ List!IsInjective(rows[1])
        BY <1>1, PlacesAre DEF ListInv, ListTyped, ListPlaces, ListStays
      <4>4. DOMAIN rows[1] = 1 .. Len(seen)
        BY <2>3, <2>4, <4>3
      <4>5. List!IsInjective(seen)
        BY <4>1, <4>2, <4>3, <4>4 DEF List!IsInjective
      <4>6. ASSUME NEW r \in There PROVE r \in List!Range(seen)
        <5>1. PICK p \in List!Places : \E i \in DOMAIN rows[p] : r = <<p, rows[p][i]>>
          BY DEF There, List!All
        <5>2. PICK i \in DOMAIN rows[p] : r = <<p, rows[p][i]>>
          BY <5>1
        <5>3. p = 1
          BY <4>3, <5>2
        <5>4. QED
          BY <4>1, <4>2, <4>4, <5>2, <5>3 DEF List!Range
      <4>7. QED
        BY <4>3, <4>5, <4>6
    <3>3. total \in happened.sizes
      BY <2>3 DEF ListInv, ListStays
    <3>4. reader # "networks" /\ total \in Nat
      BY <1>1, <2>1, <2>3
    <3>5. QED
      BY <1>1, <2>1, <2>4, <3>2, <3>3, <3>4, CompleteKeeps
  <2>5. CASE Len(seen) # total /\ Len(seen) <= total /\ List!Batch # <<>> /\ List!NextPage(seen, total)
    <3>1. Len(List!Batch) = PageSize
      BY <2>1, <2>3, <2>5
    <3>2. QED
      BY <2>2, <2>5, <3>1, NextPageKeeps DEF seen
  <2>6. QED
    BY <1>3, <2>4, <2>5 DEF total, seen
<1>4. total \in Int /\ Len(seen) \in Int
  BY <1>1, PageIs DEF ListInv, ListTyped
<1>5. QED
  BY <1>2, <1>3, <1>4 DEF List!AccountsPage

\* What a page of the policies of a region leaves the reader with.
LEMMA ContinuedIs ==
  ASSUME ListInv, list.pc = "page", reader \in List!Continued
  PROVE  LET seen == List!Taken(List!Fresh) IN
         /\ seen \in Seq(List!Places \X Id) /\ List!IsInjective(seen) /\ Len(seen) \in Nat
         /\ Has \subseteq List!Range(seen)
         /\ ~ happened.went => List!Range(seen) \subseteq There
         /\ ~ happened.went /\ ~ happened.moved =>
              \A r \in happened.stayed :
                \/ r \in List!Range(seen)
                \/ r[1] > list.place
                \/ /\ r[1] = list.place
                   /\ \E i \in DOMAIN rows[list.place] :
                        i > list.page * PageSize /\ r[2] = rows[list.place][i]
         /\ List!Matches \in SUBSET (Id \X BOOLEAN)
         /\ List!Undisturbed =>
              List!Matches = {<<r[2], r[2] \in signing>> : r \in List!Range(seen)}
<1> DEFINE seen == List!Taken(List!Fresh)
           place == list.place
<1>1. ListTyped /\ ListPlaces /\ ListFollowed /\ ListUnique /\ ListStays
  BY DEF ListInv
<1>2. reader # "accounts"
  BY <1>1 DEF ListPlaces, List!Continued
<1>3. /\ List!Fresh \in Seq(Id) /\ ~ List!Repeated(List!Fresh)
      /\ \A x \in Id : x \in List!Range(List!Fresh) <=>
           x \in List!Range(List!Batch) /\ <<place, x>> \notin Has
  BY <1>1, <1>2, FreshIs
<1>4. List!Range(List!Fresh) \subseteq Id
  BY <1>3, RangeIs
<1>5. seen \in Seq(List!Places \X Id) /\ List!IsInjective(seen) /\ Len(seen) \in Nat
      /\ List!Range(seen) = Has \cup {<<place, x>> : x \in List!Range(List!Fresh)}
  <2>1. List!IsInjective(list.seen)
    BY <1>1, <1>2 DEF ListUnique
  <2>2. seen \in Seq(List!Places \X Id)
    BY <1>1, <1>3, TakenIs
  <2>3. QED
    BY <1>1, <1>3, <2>1, <2>2, TakenHas
<1>6. /\ place \in List!Places /\ rows[place] \in Seq(Id) /\ list.page \in Nat \ {0}
      /\ rows \in [List!Places -> Seq(Id)] /\ signing \subseteq Id
  BY <1>1 DEF ListTyped
<1>7. /\ List!Range(List!Batch) \subseteq List!Range(rows[place])
      /\ \A i \in DOMAIN rows[place] :
           i > Earlier /\ i <= list.page * PageSize => rows[place][i] \in List!Range(List!Batch)
  BY <1>1, <1>2, BatchHas
<1>8. List!Batch \in Seq(Id) /\ Earlier \in Nat /\ list.page * PageSize = Earlier + PageSize
      /\ PageSize \in Nat
  BY <1>1, <1>2, BatchIs
<1>9. List!Range(List!Batch) \subseteq Id
  BY <1>8, RangeIs
<1> HIDE DEF seen, place
<1>10. \A x \in List!Range(List!Batch) : <<place, x>> \in List!Range(seen)
  BY <1>3, <1>5, <1>9
<1>11. \A x \in List!Range(List!Fresh) : <<place, x>> \in There
  <2>1. \A x \in Id : <<place, x>> \in There <=> x \in List!Range(rows[place])
    BY <1>6, AllIs DEF There
  <2>2. QED
    BY <1>3, <1>4, <1>7, <2>1
<1>12. ~ happened.went => List!Range(seen) \subseteq There
  BY <1>1, <1>5, <1>11 DEF ListFollowed
<1>13. ASSUME ~ happened.went, ~ happened.moved, NEW r \in happened.stayed
       PROVE  \/ r \in List!Range(seen)
              \/ r[1] > place
              \/ /\ r[1] = place
                 /\ \E i \in DOMAIN rows[place] : i > list.page * PageSize /\ r[2] = rows[place][i]
  <2>1. \/ r \in Has
        \/ r[1] > place
        \/ r[1] = place /\ \E i \in DOMAIN rows[place] : i > Earlier /\ r[2] = rows[place][i]
    BY <1>1, <1>13 DEF ListFollowed, ToCome, place
  <2>2. ASSUME NEW i \in DOMAIN rows[place], r[1] = place, i > Earlier, r[2] = rows[place][i],
               i <= list.page * PageSize
        PROVE  r \in List!Range(seen)
    <3>1. r = <<place, rows[place][i]>>
      <4>1. r \in List!Places \X Id
        BY <1>1, <1>13 DEF ListTyped
      <4>2. QED
        BY <2>2, <4>1
    <3>2. rows[place][i] \in List!Range(List!Batch)
      BY <1>7, <2>2
    <3>3. QED
      BY <1>10, <3>1, <3>2
  <2>3. \A i \in DOMAIN rows[place] : i > list.page * PageSize \/ i <= list.page * PageSize
    <3>1. \A i \in DOMAIN rows[place] : i \in Int
      BY <1>6
    <3>2. list.page * PageSize \in Int
      BY <1>8
    <3> DEFINE last == list.page * PageSize
    <3> HIDE DEF last
    <3>3. \A i \in DOMAIN rows[place] : i > last \/ i <= last
      BY <3>1, <3>2 DEF last
    <3>4. QED
      BY <3>3 DEF last
  <2>4. QED
    BY <1>5, <2>1, <2>2, <2>3
<1>14. List!Matches \in SUBSET (Id \X BOOLEAN)
  <2>1. list.matches \in SUBSET (Id \X BOOLEAN)
    BY <1>1 DEF ListTyped
  <2>2. \A x \in List!Range(List!Batch) : <<x, x \in signing>> \in Id \X BOOLEAN
    <3> TAKE x \in List!Range(List!Batch)
    <3> DEFINE b == x \in signing
    <3>1. b \in BOOLEAN
      OBVIOUS
    <3> HIDE DEF b
    <3>2. <<x, b>> \in Id \X BOOLEAN
      BY <1>9, <3>1
    <3>3. QED
      BY <3>2 DEF b
  <2>3. QED
    BY <2>1, <2>2, Zenon DEF List!Matches
<1>15. ASSUME List!Undisturbed
       PROVE  List!Matches = {<<r[2], r[2] \in signing>> : r \in List!Range(seen)}
  <2> DEFINE Says(x) == <<x, x \in signing>>
             N == {<<place, x>> : x \in List!Range(List!Fresh)}
  <2>1. list.matches = {Says(r[2]) : r \in Has}
    BY <1>1, <1>15 DEF ListFollowed, Asked
  <2>2. List!Matches = list.matches \cup {Says(x) : x \in List!Range(List!Batch)}
    BY DEF List!Matches
  <2> HIDE DEF Says
  <2>3. \A x \in List!Range(List!Batch) : \E r \in List!Range(seen) : r[2] = x
    BY <1>10
  <2>4. \A r \in List!Range(seen) : r \in Has \/ r[2] \in List!Range(List!Batch)
    BY <1>3, <1>4, <1>5
  <2>5. Has \subseteq List!Range(seen)
    BY <1>5
  <2>6. List!Matches = {Says(r[2]) : r \in List!Range(seen)}
    BY <2>1, <2>2, <2>3, <2>4, <2>5
  <2>7. QED
    BY <2>6 DEF Says
<1>16. QED
  BY <1>2, <1>5, <1>12, <1>13, <1>14, <1>15 DEF seen, place

\* A reader goes on, to another page or to another place.
LEMMA OnwardKeeps ==
  ASSUME ListInv, Still, list.pc = "page", reader \in List!Continued, result' = result,
         NEW place \in List!Places, NEW page \in Nat \ {0}, NEW followed \in SUBSET (Nat \ {0}),
         list' = [pc |-> "page", place |-> place, page |-> page, seen |-> List!Taken(List!Fresh),
                  total |-> list'.total, followed |-> followed, matches |-> List!Matches],
         list'.total \in -1 .. Cardinality(Id) + PageSize,
         \/ place = list.place /\ (page - 1) * PageSize <= list.page * PageSize
         \/ /\ place = list.place + 1 /\ page = 1
            /\ list.page * PageSize >= Len(rows[list.place])
  PROVE  ListInv'
<1> DEFINE seen == List!Taken(List!Fresh)
<1>1. ListTyped /\ ListPlaces /\ ListStays
  BY DEF ListInv
<1>2. /\ reader' = reader /\ hidden' = hidden /\ rows' = rows /\ signing' = signing
      /\ happened' = happened /\ There' = There /\ ListStays'
      /\ (List!Undisturbed' <=> List!Undisturbed)
  BY StillKeeps
<1>3. /\ seen \in Seq(List!Places \X Id) /\ List!IsInjective(seen)
      /\ ~ happened.went => List!Range(seen) \subseteq There
      /\ ~ happened.went /\ ~ happened.moved =>
           \A r \in happened.stayed :
             \/ r \in List!Range(seen)
             \/ r[1] > list.place
             \/ /\ r[1] = list.place
                /\ \E i \in DOMAIN rows[list.place] :
                     i > list.page * PageSize /\ r[2] = rows[list.place][i]
      /\ List!Matches \in SUBSET (Id \X BOOLEAN)
  BY ContinuedIs
<1>4. List!Undisturbed => List!Matches = {<<r[2], r[2] \in signing>> : r \in List!Range(seen)}
  BY ContinuedIs
<1> HIDE DEF seen
<1>5. /\ list'.pc = "page" /\ list'.place = place /\ list'.page = page /\ list'.seen = seen
      /\ list'.matches = List!Matches
  BY DEF seen
<1>6. ListTyped'
  <2>1. list' \in [pc : {"coverage", "page", "done"}, place : List!Places, page : Nat \ {0},
                   seen : Seq(List!Places \X Id), total : -1 .. Cardinality(Id) + PageSize,
                   followed : SUBSET (Nat \ {0}), matches : SUBSET (Id \X BOOLEAN)]
    BY <1>3 DEF seen
  <2>2. QED
    BY <1>1, <1>2, <2>1 DEF ListTyped
<1>7. ListPlaces'
  BY <1>1, <1>2, <1>3, <1>5 DEF ListPlaces
<1>8. ListCounted' /\ ListInOrder'
  BY <1>2 DEF ListCounted, ListInOrder, List!Continued
<1>9. Has' = List!Range(seen) /\ Earlier' = (page - 1) * PageSize
  BY <1>5 DEF Has, Earlier
<1>10. ASSUME ~ happened.went, ~ happened.moved, NEW r \in happened.stayed
       PROVE  r \in List!Range(seen) \/ ToCome(r)'
  <2>1. \/ r \in List!Range(seen)
        \/ r[1] > list.place
        \/ /\ r[1] = list.place
           /\ \E i \in DOMAIN rows[list.place] :
                i > list.page * PageSize /\ r[2] = rows[list.place][i]
    BY <1>3, <1>10
  <2>2. ToCome(r)' <=> \/ r[1] > place
                      \/ /\ r[1] = place
                         /\ \E i \in DOMAIN rows[place] : i > Earlier' /\ r[2] = rows[place][i]
    BY <1>2, <1>5 DEF ToCome
  <2>3. /\ r \in List!Places \X Id /\ r \in There
        /\ list.place \in Nat /\ place \in Nat /\ r[1] \in Nat /\ r[1] \in List!Places
        /\ list.page \in Nat \ {0}
    <3>1. list.place \in List!Places /\ list.page \in Nat \ {0}
          /\ happened.stayed \subseteq List!Places \X Id
      BY <1>1 DEF ListTyped
    <3>2. r \in There
      BY <1>1, <1>10 DEF ListStays
    <3>3. r \in List!Places \X Id /\ r[1] \in List!Places
      BY <1>10, <3>1
    <3>4. List!Places \subseteq Nat
      BY DEF List!Places
    <3>5. QED
      BY <3>1, <3>2, <3>3, <3>4
  <2>4. PageSize \in Int
    BY ListAssumption DEF ListConstants
  <2>5. \A p \in List!Places : rows[p] \in Seq(Id) /\ DOMAIN rows[p] = 1 .. Len(rows[p])
    BY <1>1 DEF ListTyped
  <2> DEFINE last == list.page * PageSize
  <2>6. last \in Int
    BY <2>3, <2>4
  <2>7. CASE place = list.place /\ (page - 1) * PageSize <= list.page * PageSize
    <3>1. Earlier' \in Int /\ Earlier' <= last
      <4>1. (page - 1) \in Int
        OBVIOUS
      <4>2. (page - 1) * PageSize \in Int
        BY <2>4, <4>1
      <4>3. QED
        BY <1>9, <2>7, <4>2
    <3> HIDE DEF last
    <3>2. \A i \in DOMAIN rows[place] : i > last => i > Earlier'
      <4>1. \A i \in DOMAIN rows[place] : i \in Int
        BY <2>5
      <4>2. QED
        BY <2>6, <3>1, <4>1
    <3>3. QED
      BY <2>1, <2>2, <2>7, <3>2 DEF last
  <2>8. CASE /\ place = list.place + 1 /\ page = 1
             /\ list.page * PageSize >= Len(rows[list.place])
    <3>1. Earlier' = 0
      BY <1>9, <2>4, <2>8
    <3> HIDE DEF last
    <3>2. last >= Len(rows[list.place])
      BY <2>8 DEF last
    <3>3. ~ \E i \in DOMAIN rows[list.place] : i > last
      <4>1. list.place \in List!Places
        BY <1>1 DEF ListTyped
      <4>2. Len(rows[list.place]) \in Nat /\ DOMAIN rows[list.place] = 1 .. Len(rows[list.place])
        BY <2>5, <4>1
      <4>3. QED
        BY <2>6, <3>2, <4>2
    <3>4. r \in List!Range(seen) \/ r[1] > list.place
      BY <2>1, <3>3 DEF last
    <3>5. CASE r[1] = place
      <4>1. r[2] \in List!Range(rows[place])
        <5>1. r = <<place, r[2]>> /\ r[2] \in Id /\ <<place, r[2]>> \in There
          BY <2>3, <3>5
        <5>2. <<place, r[2]>> \in There <=> r[2] \in List!Range(rows[place])
          BY <1>1, <5>1, AllIs DEF There, ListTyped
        <5>3. QED
          BY <5>1, <5>2
      <4>2. PICK i \in DOMAIN rows[place] : r[2] = rows[place][i]
        BY <4>1 DEF List!Range
      <4>3. i > 0
        BY <2>5
      <4>4. QED
        BY <2>2, <3>1, <3>5, <4>2, <4>3
    <3>6. r[1] > list.place => r[1] = place \/ r[1] > place
      BY <2>3, <2>8
    <3>7. QED
      BY <2>2, <3>4, <3>5, <3>6
  <2>9. QED
    BY <2>7, <2>8
<1>11. List!Undisturbed' => list'.matches = Asked'
  BY <1>2, <1>4, <1>5, <1>9, Zenon DEF Asked
<1>12. ListFollowed'
  BY <1>2, <1>3, <1>9, <1>10, <1>11 DEF ListFollowed
<1>13. ListUnique'
  BY <1>3, <1>5 DEF ListUnique
<1>14. ListTold'
  <2>1. result' = List!Pending
    BY <1>1 DEF ListPlaces
  <2>2. QED
    BY <2>1, NothingToldYet
<1>15. QED
  BY <1>2, <1>6, <1>7, <1>8, <1>12, <1>13, <1>14 DEF ListInv

LEMMA FollowKeeps ==
  ASSUME ListInv, Still, list.pc = "page", reader \in List!Continued,
         NEW page \in Nat \ {0}, (page - 1) * PageSize <= list.page * PageSize,
         List!Follow(page, List!Taken(List!Fresh))
  PROVE  ListInv'
<1>1. CASE List!Refuse
  BY <1>1, RefuseKeeps
<1>2. CASE List!Become([list EXCEPT !.page = page, !.seen = List!Taken(List!Fresh),
                                    !.matches = List!Matches, !.followed = @ \cup {page}])
  <2>1. result' = result
        /\ list' = [list EXCEPT !.page = page, !.seen = List!Taken(List!Fresh),
                                !.matches = List!Matches, !.followed = list.followed \cup {page}]
    BY <1>2 DEF List!Become
  <2>2. list \in [pc : {"coverage", "page", "done"}, place : List!Places, page : Nat \ {0},
                  seen : Seq(List!Places \X Id), total : -1 .. Cardinality(Id) + PageSize,
                  followed : SUBSET (Nat \ {0}), matches : SUBSET (Id \X BOOLEAN)]
    BY DEF ListInv, ListTyped
  <2>3. list.place \in List!Places /\ list.followed \cup {page} \in SUBSET (Nat \ {0})
        /\ list.total \in -1 .. Cardinality(Id) + PageSize
    BY <2>2
  <2>4. list'.total = list.total
        /\ list' = [pc |-> "page", place |-> list.place, page |-> page, seen |-> List!Taken(List!Fresh),
                    total |-> list'.total, followed |-> list.followed \cup {page},
                    matches |-> List!Matches]
    BY <2>1, <2>2
  <2>5. QED
    BY <2>1, <2>3, <2>4, OnwardKeeps
<1>3. QED
  BY <1>1, <1>2 DEF List!Follow

\* After the last page of the last place the networks are the policies that sign.
LEMMA SigningIs ==
  ASSUME ListInv, list.pc = "page", reader \in List!Continued, List!Undisturbed,
         List!Range(List!Taken(List!Fresh)) = There
  PROVE  List!Signing = {x \in signing : \E p \in List!Places : x \in List!Range(rows[p])}
<1>1. rows \in [List!Places -> Seq(Id)] /\ signing \subseteq Id
  BY DEF ListInv, ListTyped
<1>2. List!Matches = {<<r[2], r[2] \in signing>> : r \in There}
  BY ContinuedIs
<1>3. \A x \in Id : <<x, TRUE>> \in List!Matches <=> x \in signing /\ \E r \in There : r[2] = x
  <2> TAKE x \in Id
  <2>1. <<x, TRUE>> \in List!Matches => x \in signing /\ \E r \in There : r[2] = x
    <3> SUFFICES ASSUME <<x, TRUE>> \in List!Matches
                 PROVE  x \in signing /\ \E r \in There : r[2] = x
      OBVIOUS
    <3>1. PICK r \in There : <<x, TRUE>> = <<r[2], r[2] \in signing>>
      BY <1>2
    <3>2. x = r[2] /\ TRUE = (r[2] \in signing)
      BY <3>1
    <3>3. QED
      BY <3>2
  <2>2. x \in signing /\ (\E r \in There : r[2] = x) => <<x, TRUE>> \in List!Matches
    <3> SUFFICES ASSUME x \in signing, NEW r \in There, r[2] = x
                 PROVE  <<x, TRUE>> \in List!Matches
      OBVIOUS
    <3>1. (r[2] \in signing) = TRUE
      OBVIOUS
    <3>2. <<r[2], r[2] \in signing>> = <<x, TRUE>>
      BY <3>1
    <3>3. QED
      BY <1>2, <3>2
  <2>3. QED
    BY <2>1, <2>2
<1>4. \A x \in Id : (\E r \in There : r[2] = x) <=> \E p \in List!Places : x \in List!Range(rows[p])
  <2>1. There \subseteq List!Places \X Id
        /\ \A p \in List!Places, x \in Id : <<p, x>> \in There <=> x \in List!Range(rows[p])
    BY <1>1, AllIs DEF There
  <2>2. \A r \in There : r[1] \in List!Places /\ r[2] \in Id /\ r = <<r[1], r[2]>>
    BY <2>1
  <2>3. ASSUME NEW x \in Id, NEW r \in There, r[2] = x
        PROVE  \E p \in List!Places : x \in List!Range(rows[p])
    BY <2>1, <2>2, <2>3
  <2>4. ASSUME NEW x \in Id, NEW p \in List!Places, x \in List!Range(rows[p])
        PROVE  \E r \in There : r[2] = x
    <3>1. <<p, x>> \in There /\ <<p, x>>[2] = x
      BY <2>1, <2>4
    <3>2. QED
      BY <3>1
  <2>5. QED
    BY <2>3, <2>4
<1>5. QED
  BY <1>1, <1>3, <1>4 DEF List!Signing

LEMMA NextPlaceKeeps ==
  ASSUME ListInv, Still, list.pc = "page", reader \in List!Continued,
         list.page * PageSize >= Len(List!Shown), List!NextPlace(List!Taken(List!Fresh))
  PROVE  ListInv'
<1> DEFINE seen == List!Taken(List!Fresh)
           n == IF reader = "networks" THEN List!Cardinality(List!Signing) ELSE Len(seen)
<1>1. /\ seen \in Seq(List!Places \X Id) /\ List!IsInjective(seen) /\ Len(seen) \in Nat
      /\ ~ happened.went => List!Range(seen) \subseteq There
      /\ ~ happened.went /\ ~ happened.moved =>
           \A r \in happened.stayed :
             \/ r \in List!Range(seen)
             \/ r[1] > list.place
             \/ /\ r[1] = list.place
                /\ \E i \in DOMAIN rows[list.place] :
                     i > list.page * PageSize /\ r[2] = rows[list.place][i]
  BY ContinuedIs
<1>2. /\ list.place \in List!Places /\ list.page \in Nat \ {0} /\ list.place \in 1 .. Len(Regions)
      /\ rows[list.place] \in Seq(Id) /\ happened.stayed \subseteq There
      /\ happened.stayed \subseteq List!Places \X Id
      /\ (List!Undisturbed => happened.stayed = There)
  BY DEF ListInv, ListTyped, ListStays, List!Places
<1>3. list.page * PageSize >= Len(rows[list.place])
  BY <1>1 DEF List!Shown
<1>4. CASE list.place < Len(Regions)
  <2>1. result' = result
        /\ list' = [List!Start EXCEPT !.pc = "page", !.place = list.place + 1,
                                      !.seen = seen, !.matches = List!Matches]
    BY <1>4 DEF List!NextPlace, List!Become
  <2>2. list.place + 1 \in List!Places
    BY <1>2, <1>4, PlacesAre DEF List!Places
  <2>3. Cardinality(Id) \in Nat /\ PageSize \in Nat
    BY PageSizeIs
  <2> HIDE DEF seen
  <2>4. list'.total \in -1 .. Cardinality(Id) + PageSize
        /\ list' = [pc |-> "page", place |-> list.place + 1, page |-> 1, seen |-> seen,
                    total |-> list'.total, followed |-> {}, matches |-> List!Matches]
    <3>1. list' = [pc |-> "page", place |-> list.place + 1, page |-> 1, seen |-> seen,
                   total |-> List!NoTotal, followed |-> {}, matches |-> List!Matches]
      BY <2>1 DEF List!Start
    <3>2. List!NoTotal \in -1 .. Cardinality(Id) + PageSize
      BY <2>3 DEF List!NoTotal
    <3>3. QED
      BY <3>1, <3>2
  <2>5. {} \in SUBSET (Nat \ {0}) /\ 1 \in Nat \ {0}
    OBVIOUS
  <2>6. QED
    BY <1>3, <2>1, <2>2, <2>4, <2>5, OnwardKeeps DEF seen
<1>5. CASE ~ (list.place < Len(Regions))
  <2>1. List!Complete(seen, n)
    BY <1>5 DEF List!NextPlace
  <2>2. ~ happened.went /\ ~ happened.moved => happened.stayed \subseteq List!Range(seen)
    <3>1. \A r \in happened.stayed : ~ (r[1] > list.place)
      <4>1. \A r \in happened.stayed : r[1] \in 1 .. Len(Regions)
        BY <1>2 DEF List!Places
      <4>2. QED
        BY <1>2, <1>5, <4>1, PlacesAre
    <3>2. ~ \E i \in DOMAIN rows[list.place] : i > list.page * PageSize
      <4> DEFINE last == list.page * PageSize
                 k == Len(rows[list.place])
      <4>1. PageSize \in Int
        BY ListAssumption DEF ListConstants
      <4>2. last \in Int /\ k \in Nat /\ DOMAIN rows[list.place] = 1 .. k
        BY <1>2, <4>1
      <4>3. last >= k
        BY <1>3
      <4> HIDE DEF last, k
      <4>4. ~ \E i \in 1 .. k : i > last
        BY <4>2, <4>3
      <4>5. QED
        BY <4>2, <4>4 DEF last
    <3>3. QED
      BY <1>1, <3>1, <3>2
  <2>3. \/ happened.stayed \subseteq List!Range(seen)
        \/ IF reader \in List!Continued THEN happened.went \/ happened.moved
           ELSE List!Replaced \/ (reader = "accounts" /\ happened.moved)
    BY <2>2
  <2>4. n \in Nat
    <3>1. IsFiniteSet(List!Signing)
      <4>1. List!Signing \in SUBSET Id
        BY DEF List!Signing
      <4>2. QED
        BY <4>1, FS_Subset, ListAssumption DEF ListConstants
    <3>2. List!Cardinality(List!Signing) \in Nat
      BY <3>1, FS_CardinalityType, ListCardinality
    <3>3. QED
      BY <1>1, <3>2
  <2>5. reader = "networks" /\ List!Undisturbed =>
          n = List!Cardinality({x \in signing : \E p \in List!Places : x \in List!Range(rows[p])})
    <3> SUFFICES ASSUME reader = "networks", List!Undisturbed
                 PROVE  n = List!Cardinality({x \in signing : \E p \in List!Places : x \in List!Range(rows[p])})
      OBVIOUS
    <3>1. List!Range(seen) = There
      <4>1. ~ happened.went /\ ~ happened.moved
        BY DEF List!Undisturbed
      <4>2. QED
        BY <1>1, <1>2, <2>2, <4>1
    <3>2. List!Signing = {x \in signing : \E p \in List!Places : x \in List!Range(rows[p])}
      BY <3>1, SigningIs
    <3>3. QED
      BY <3>2
  <2>6. reader \notin List!Counted /\ ~ (hidden > 0)
    <3>1. hidden = 0
      BY DEF ListInv, ListPlaces
    <3>2. QED
      BY <3>1 DEF List!Continued, List!Counted
  <2> HIDE DEF seen, n
  <2>7. QED
    BY <1>1, <2>1, <2>3, <2>4, <2>5, <2>6, CompleteKeeps
<1>6. QED
  BY <1>4, <1>5

LEMMA ContinuedKeeps ==
  ASSUME ListInv, Still, list.pc = "page", List!ContinuedPage PROVE ListInv'
<1> DEFINE seen == List!Taken(List!Fresh)
<1>1. reader \in List!Continued
  BY DEF List!ContinuedPage
<1>2. list.page \in Nat \ {0} /\ PageSize \in Int
  BY ListAssumption DEF ListInv, ListTyped, ListConstants
<1>3. CASE List!Refuse
  BY <1>3, RefuseKeeps
<1>4. CASE list.page * PageSize >= Len(List!Shown) /\ List!NextPlace(seen)
  BY <1>1, <1>4, NextPlaceKeeps
<1>5. CASE List!Follow(list.page + 1, seen)
  <2> DEFINE page == list.page + 1
  <2>1. page \in Nat \ {0} /\ page - 1 = list.page
    BY <1>2
  <2>2. list.page * PageSize \in Int
    BY <1>2
  <2>3. List!Follow(page, seen)
    BY <1>5
  <2> HIDE DEF page
  <2>4. (page - 1) * PageSize <= list.page * PageSize
    BY <2>1, <2>2
  <2>5. QED
    BY <1>1, <2>1, <2>3, <2>4, FollowKeeps
<1>6. CASE \E page \in 1 .. list.page : List!Follow(page, seen)
  <2>1. PICK page \in 1 .. list.page : List!Follow(page, seen)
    BY <1>6
  <2>2. page \in Nat \ {0} /\ page - 1 <= list.page /\ page - 1 \in Nat
    BY <1>2
  <2>3. PageSize \in Nat
    <3>1. PageSize \in 1 .. Cardinality(Id)
      BY ListAssumption DEF ListConstants
    <3>2. QED
      BY <3>1
  <2>4. (page - 1) * PageSize <= list.page * PageSize
    <3>1. PICK d \in Nat : list.page = (page - 1) + d
      <4>1. list.page - (page - 1) \in Nat /\ list.page = (page - 1) + (list.page - (page - 1))
        BY <1>2, <2>2
      <4>2. QED
        BY <4>1
    <3>2. PICK q \in Nat : q = page - 1
      BY <2>2
    <3>3. (q + d) * PageSize = q * PageSize + d * PageSize
          /\ d * PageSize \in Nat /\ q * PageSize \in Nat
      BY <2>3
    <3>4. QED
      BY <3>1, <3>2, <3>3
  <2>5. QED
    BY <1>1, <2>1, <2>2, <2>4, FollowKeeps
<1>7. QED
  BY <1>3, <1>4, <1>5, <1>6 DEF List!ContinuedPage

LEMMA ListHolds == ASSUME ListInv, List!Next \/ UNCHANGED listVars PROVE ListInv'
<1>1. CASE List!Add
  BY <1>1, AddKeeps
<1>2. CASE List!Drop
  BY <1>2, DropKeeps
<1>3. CASE List!Rename
  BY <1>3, RenameKeeps
<1>4. CASE List!Rescope
  BY <1>4, RescopeKeeps
<1>5. CASE Still /\ List!Coverage
  BY <1>5, CoverageKeeps
<1>6. CASE Still /\ List!ReadPage
  <2>1. CASE List!Refuse
    BY <1>6, <2>1, RefuseKeeps
  <2>2. CASE List!PanelsPage
    BY <1>6, <2>2, PanelsKeep DEF List!ReadPage
  <2>3. CASE List!PublicPage
    BY <1>6, <2>3, PublicKeeps DEF List!ReadPage
  <2>4. CASE List!AccountsPage
    BY <1>6, <2>4, AccountsKeep DEF List!ReadPage
  <2>5. CASE List!DashboardsPage
    BY <1>6, <2>5, DashboardsKeep DEF List!ReadPage
  <2>6. CASE List!ContinuedPage
    BY <1>6, <2>6, ContinuedKeeps DEF List!ReadPage
  <2>7. QED
    BY <1>6, <2>1, <2>2, <2>3, <2>4, <2>5, <2>6 DEF List!ReadPage, List!Unreadable
<1>7. CASE UNCHANGED listVars
  <2>1. list' = list /\ result' = result /\ Still
    BY <1>7 DEF listVars, Still
  <2>2. /\ reader' = reader /\ hidden' = hidden /\ rows' = rows /\ signing' = signing
        /\ happened' = happened /\ There' = There /\ Concealed' = Concealed /\ ListStays'
        /\ (List!Undisturbed' <=> List!Undisturbed) /\ (List!Replaced' <=> List!Replaced)
    BY <2>1, StillKeeps
  <2>3. ListTyped' /\ ListPlaces'
    BY <2>1, <2>2 DEF ListInv, ListTyped, ListPlaces
  <2>4. Has' = Has /\ Earlier' = Earlier /\ (Counting' <=> Counting) /\ Asked' = Asked
    BY <2>1, <2>2 DEF Has, Earlier, Counting, Asked
  <2>5. \A r : ToCome(r)' <=> ToCome(r)
    BY <2>1, <2>2, <2>4 DEF ToCome
  <2>6. ListCounted' /\ ListInOrder' /\ ListUnique'
    BY <2>1, <2>2, <2>4 DEF ListInv, ListCounted, ListInOrder, ListUnique
  <2>7. ListFollowed'
    BY <2>1, <2>2, <2>4, <2>5 DEF ListInv, ListFollowed
  <2>8. ListTold'
    BY <2>1, <2>2 DEF ListInv, ListTold, List!CountWasTrue, List!HiddenRowsAreNoticed,
                      List!NothingThatStayedIsMissed, List!NoRowTwice, List!NetworksAreCounted,
                      List!Told
  <2>9. QED
    BY <2>2, <2>3, <2>6, <2>7, <2>8 DEF ListInv
<1>8. QED
  BY <1>1, <1>2, <1>3, <1>4, <1>5, <1>6, <1>7 DEF List!Next, Still

LEMMA ListIsTrue == ListInv => List!ListingsAreTrue
<1> SUFFICES ASSUME ListInv PROVE List!ListingsAreTrue
  OBVIOUS
<1>1. ListTyped /\ ListTold
  BY DEF ListInv
<1>2. List!TypeOK
  BY <1>1, ListCardinality DEF ListTyped, List!TypeOK
<1>3. QED
  BY <1>1, <1>2 DEF ListTold, List!ListingsAreTrue

-----------------------------------------------------------------------------
(* The parts together: each theorem is about behaviours in which its part moves. *)

LEMMA OneBegins ==
  ASSUME Init
  PROVE  /\ part = "listing" => List!Init
         /\ part = "fleet" => Fleet!Init
         /\ part = "gap" => Gap!Init
         /\ part = "diff" => Diff!Init
         /\ part = "upgrade" => Upgrade!Init
         /\ part = "alerts" => Rules!Init
         /\ part = "dashboards" => Dash!Init
BY DEF Init

LEMMA OneMoves ==
  ASSUME [Next]_vars
  PROVE  /\ part' = part
         /\ part = "listing" => List!Next \/ UNCHANGED listVars
         /\ part = "fleet" => [Fleet!Next]_(Fleet!vars)
         /\ part = "gap" => [Gap!Next]_(Gap!vars)
         /\ part = "diff" => [Diff!Next]_(Diff!vars)
         /\ part = "upgrade" => [Upgrade!Next]_(Upgrade!vars)
         /\ part = "alerts" => [Rules!Next]_(Rules!vars)
         /\ part = "dashboards" => [Dash!Next]_(Dash!vars)
<1>1. CASE UNCHANGED vars
  BY <1>1 DEF vars, listVars, fleetVars, gapVars, diffVars, upgradeVars, alertVars, commandVars,
     Fleet!vars, Gap!vars, Diff!vars, Upgrade!vars, Rules!vars, Dash!vars
<1>2. CASE Next
  BY <1>2 DEF Next, ListMoves, FleetMoves, GapMoves, DiffMoves, UpgradeMoves, AlertsMove, DashMoves
<1>3. QED
  BY <1>1, <1>2

\* collector/sources: whatever is added to a list, removed from it, moved or changed in it between two
\* pages, for any rows, regions and page size, and however often continuations point back, what a
\* reader tells is true of the list as it is shown to its credential: a count is one that it had, no row
\* that stayed is missed or told twice unless rows came and others went, and the networks are the
\* policies that sign.  If rows are hidden from the credential, no list of panels is told, and one of
\* dashboards only if others came; the public dashboards and the accounts are told without them.
THEOREM ListingsStayTrue == Spec => []ListingsAreTrue
<1>1. Init => (part = "listing" => ListInv)
  BY OneBegins, ListBegins
<1>2. (part = "listing" => ListInv) /\ [Next]_vars => (part = "listing" => ListInv)'
  BY OneMoves, ListHolds
<1>3. (part = "listing" => ListInv) => ListingsAreTrue
  BY ListIsTrue DEF ListingsAreTrue
<1>4. QED
  BY <1>1, <1>2, <1>3, PTL DEF Spec

\* fetch_all_stack_detail and probe_all, and the source reports of scan.py: however the threads of the
\* pool interleave over the unlocked counters, for any estate, threads, exceptions, sources and shares,
\* no stack is lost or told twice, a run is refused only for more failures than its floor allows, and
\* what t2 publishes covers what it should.
THEOREM FleetStaysCovered == Spec => []FleetIsCovered
<1>1. Init => (part = "fleet" => FleetInv)
  BY FleetAssumption, OneBegins, FleetBegins
<1>2. (part = "fleet" => FleetInv) /\ [Next]_vars => (part = "fleet" => FleetInv)'
  BY FleetAssumption, OneMoves, FleetKeeps
<1>3. (part = "fleet" => FleetInv) => FleetIsCovered
  BY FleetAssumption, FleetHolds DEF FleetIsCovered
<1>4. QED
  BY <1>1, <1>2, <1>3, PTL DEF Spec

\* gapstate.py in t2: stamps neither outlive their gap nor restart within it, and an age that is
\* published is that of a gap in the payload beside it, for any number of stacks and any clock.
THEOREM GapAgesHold == Spec => GapAgesAreTrue
<1>1. Init => (part = "gap" => GapInv)
  BY ClockAssumption, OneBegins, GapBegins
<1>2. (part = "gap" => GapInv) /\ [Next]_vars => (part = "gap" => GapInv)' /\ (part = "gap" => Gap!AgesTrue)
  BY ClockAssumption, OneMoves, GapKeeps DEF Gap!AgesTrue, GapInv
<1>3. QED
  BY <1>1, <1>2, PTL DEF Spec, GapAgesAreTrue

\* run_t4: for any windows whose label reaches at least as far above its target as below, and any
\* number of archived scans, arriving and expiring while it runs, what is compared fits its label and
\* is nearest its target, and a window is left out only when nothing would do or a read failed.
THEOREM BaselinesHold == Spec => []BaselinesAreHonest
<1>1. Init => (part = "diff" => DiffInv)
  BY DiffAssumption, OneBegins, DiffBegins
<1>2. (part = "diff" => DiffInv) /\ [Next]_vars => (part = "diff" => DiffInv)'
  BY DiffAssumption, OneMoves, DiffKeeps
<1>3. (part = "diff" => DiffInv) => BaselinesAreHonest
  BY DiffAssumption, DiffHolds DEF BaselinesAreHonest
<1>4. QED
  BY <1>1, <1>2, <1>3, PTL DEF Spec

\* consumer_manifest.py: whatever writes fail and wherever a command dies, half an upgrade is
\* announced by its journal, and the journal still knows the files, at any number of revisions, edits
\* and faults.
THEOREM UpgradesRecover == Spec => []UpgradeIsRecoverable
<1>1. Init => (part = "upgrade" => UpgradeInv)
  BY UpgradeAssumption, OneBegins, UpgradeBegins
<1>2. (part = "upgrade" => UpgradeInv) /\ [Next]_vars => (part = "upgrade" => UpgradeInv)'
  BY UpgradeAssumption, OneMoves, UpgradeKeeps
<1>3. (part = "upgrade" => UpgradeInv) => UpgradeIsRecoverable
  BY DEF UpgradeIsRecoverable, UpgradeInv, Upgrade!UpgradeIsRecoverable,
     Upgrade!HalfAnUpgradeIsJournalled, Upgrade!PairAgrees, Agree
<1>4. QED
  BY <1>1, <1>2, <1>3, PTL DEF Spec

\* alerts.py: whoever pauses, routes or deletes rules meanwhile and wherever a command dies, no rule
\* of ours is live without a receiver or beside another of its alert, and an activation that reports
\* success is one: for any alerts and receivers.
THEOREM AlertsAreRouted == Spec => []AlertsStayRouted
<1>1. Init => (part = "alerts" => AlertInv)
  BY AlertAssumption, OneBegins, AlertsBegin
<1>2. (part = "alerts" => AlertInv) /\ [Next]_vars => (part = "alerts" => AlertInv)'
  BY AlertAssumption, OneMoves, AlertsKeep
<1>3. (part = "alerts" => AlertInv) => AlertsStayRouted
  BY AlertAssumption, AlertsHold DEF AlertsStayRouted
<1>4. QED
  BY <1>1, <1>2, <1>3, PTL DEF Spec

\* dashboards.py --publish: what was called published is stored as it was built, for any commands,
\* dashboards and faults, and a failure neither stops the rest nor is forgotten.
THEOREM DashboardsStayIntact == Spec => []DashboardsAreIntact
<1>1. Init => (part = "dashboards" => DashInv)
  BY DashAssumption, OneBegins, DashBegins
<1>2. (part = "dashboards" => DashInv) /\ [Next]_vars => (part = "dashboards" => DashInv)'
  BY DashAssumption, OneMoves, DashKeeps
<1>3. (part = "dashboards" => DashInv) => DashboardsAreIntact
  BY DashAssumption, DashHolds DEF DashboardsAreIntact
<1>4. QED
  BY <1>1, <1>2, <1>3, PTL DEF Spec

\* No recovery and no rollback writes back a file from before an edit of its operator, and no publish
\* of the dashboards replaces a version that it has not read.  A plain publish of the alerts, and a
\* migration, leave each live rule's pause and receiver as they are or, if people have changed the rule
\* since it was listed, as they were then, both together; and no command brings back a rule that it
\* had listed and somebody deleted.
THEOREM EditsAreRespected == Spec => OperatorsDecide
<1> DEFINE Inv == /\ part = "upgrade" => UpgradeInv
                  /\ part = "alerts" => AlertInv
                  /\ part = "dashboards" => DashInv
<1> DEFINE Saved == /\ part = "upgrade" => Upgrade!EditsKept
                    /\ part = "alerts" => Rules!LiveStateKept
                    /\ part = "dashboards" => Dash!NothingUnreadIsReplaced
<1>1. Init => Inv
  BY UpgradeAssumption, AlertAssumption, DashAssumption,
     OneBegins, UpgradeBegins, AlertsBegin, DashBegins
<1>2. Inv /\ [Next]_vars => Inv' /\ Saved
  BY UpgradeAssumption, AlertAssumption, DashAssumption,
     OneMoves, UpgradeKeeps, AlertsKeep, DashKeeps
<1>3. QED
  BY <1>1, <1>2, PTL DEF Spec, OperatorsDecide
=============================================================================
