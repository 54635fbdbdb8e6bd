----------------------------- MODULE FleetScan -----------------------------
(***************************************************************************)
(* One run of t2 or t3 over the estate, from the fresh inventory to the     *)
(* publication floor: the thread pool of gcom.fetch_all_stack_detail and    *)
(* dataplane.probe_all, the counters of collector/coverage.py that its      *)
(* threads share without a lock, and the source reports of scan.py that     *)
(* decide what may be published.                                            *)
(*                                                                          *)
(* `table[key] += 1` on a Counter reads 0 for a missing key in              *)
(* Counter.__missing__, which is Python code: another thread may run        *)
(* between that and the store.  Once the key is there the increment is one  *)
(* uninterrupted step of the interpreter.                                   *)
(***************************************************************************)
EXTENDS Naturals, FiniteSets

CONSTANTS
    Stacks,       \* slugs of the fresh inventory
    Threads,      \* threads of the pool (cfg.concurrency)
    Reasons,      \* exception types a stack's reads may end in
    Sources,      \* t2's other sources
    Optional,     \* those that deployment policy may disable
    NonBlocking,  \* T2_NON_BLOCKING_INPUTS
    Population,   \* source -> what it is measured over: "scannable", "live", "producer", "org", or
                  \* "sourced" for synthetic_inventory, whose data source a stack may do without
    Floor         \* source -> <<num, den>>, the share that may be missing; of "stack_detail"
                  \* and the primary coverage too it is FAILURE_ABORT_RATIO

VARIABLES
    tier,      \* the tier of the run
    paused,    \* stacks the inventory calls paused
    enabled,   \* sources that policy enables
    queue,     \* stacks no thread has taken
    work,      \* thread -> its step and its stack
    counts,    \* the counters: `scanned`, and `failures` and `skipped` by reason
    failed,    \* Coverage._failed_stacks: stack -> reason
    skipped,   \* Coverage._skipped_stacks: stack -> reason
    results,   \* stacks with a payload
    measured,  \* source -> stacks (or the org) with an available record; "no_datasource" -> the
               \* stacks that answered that they have none
    verdict    \* what the run came to

vars == <<tier, paused, enabled, queue, work, counts, failed, skipped, results, measured, verdict>>

Skips == {"paused", "unavailable"}
Keys == Reasons \cup Skips
Idle == [pc |-> "idle"]
At(pc, s, key) == [pc |-> pc, stack |-> s, key |-> key]
Undecided == [end |-> "none", inputs |-> {}]
Live == Stacks \ paused

TypeOK ==
    /\ tier \in {"t2", "t3"} /\ paused \subseteq Stacks /\ enabled \subseteq Sources
    /\ queue \subseteq Stacks /\ results \subseteq Stacks
    /\ work \in [Threads -> {Idle} \cup
                    [pc : {"read"}, stack : Stacks, key : {"none"}] \cup
                    [pc : {"count", "store"}, stack : Stacks, key : Keys]]
    /\ counts \in [Keys \cup {"scanned"} -> 0 .. Cardinality(Stacks)]
    /\ DOMAIN failed \subseteq Stacks /\ DOMAIN skipped \subseteq Stacks
    /\ DOMAIN measured = Sources \cup {"no_datasource"}
    /\ verdict.end \in {"none", "unknown", "refused", "published"}
    /\ verdict.inputs \subseteq Sources \cup {"stack_detail", "dataplane"}

Init ==
    /\ tier \in {"t2", "t3"}
    /\ paused \in SUBSET Stacks
    /\ enabled \in {Sources \ off : off \in SUBSET Optional}
    /\ queue = Stacks
    /\ work = [t \in Threads |-> Idle]
    /\ counts = [k \in Keys \cup {"scanned"} |-> 0]
    /\ failed = <<>> /\ skipped = <<>>
    /\ results = {}
    /\ measured = [s \in Sources \cup {"no_datasource"} |-> {}]
    /\ verdict = Undecided

-----------------------------------------------------------------------------
(* The pool *)

\* An idle thread takes a stack.  A paused one is skipped without a request.
Take(t) ==
    /\ work[t] = Idle
    /\ \E s \in queue :
        /\ queue' = queue \ {s}
        /\ work' = [work EXCEPT ![t] = IF s \in paused THEN At("count", s, "paused")
                                                       ELSE At("read", s, "none")]
    /\ UNCHANGED <<tier, paused, enabled, counts, failed, skipped, results, measured, verdict>>

\* Every request of the stack has been answered well enough to make a payload.
ReadOk(t) ==
    /\ work[t].pc = "read"
    /\ results' = results \cup {work[t].stack}
    /\ counts' = [counts EXCEPT !["scanned"] = @ + 1]
    /\ work' = [work EXCEPT ![t] = Idle]
    /\ UNCHANGED <<tier, paused, enabled, queue, failed, skipped, measured, verdict>>

\* The reads end in an exception.  Only t2's route answers 409, which is not a failure.
ReadFails(t) ==
    /\ work[t].pc = "read"
    /\ \E key \in Reasons \cup (IF tier = "t2" THEN {"unavailable"} ELSE {}) :
        work' = [work EXCEPT ![t] = At("count", @.stack, key)]
    /\ UNCHANGED <<tier, paused, enabled, queue, counts, failed, skipped, results, measured, verdict>>

\* record_failure and record_skipped name the stack after they have counted it.
Record(t) ==
    LET s == work[t].stack
        key == work[t].key
        Named(table) == [x \in DOMAIN table \cup {s} |-> IF x = s THEN key ELSE table[x]]
    IN  /\ IF key \in Skips THEN skipped' = Named(skipped) /\ UNCHANGED failed
                            ELSE failed' = Named(failed) /\ UNCHANGED skipped
        /\ work' = [work EXCEPT ![t] = Idle]
        /\ UNCHANGED <<tier, paused, enabled, queue, results, measured, verdict>>

\* A key that is there is incremented in one step.
CountKnown(t) ==
    /\ work[t].pc = "count" /\ counts[work[t].key] > 0
    /\ counts' = [counts EXCEPT ![work[t].key] = @ + 1]
    /\ Record(t)

\* A missing key reads as 0, and the thread may be suspended with that.
CountMissing(t) ==
    /\ work[t].pc = "count" /\ counts[work[t].key] = 0
    /\ work' = [work EXCEPT ![t].pc = "store"]
    /\ UNCHANGED <<tier, paused, enabled, queue, counts, failed, skipped, results, measured, verdict>>

\* 0 + 1 is stored over whatever others have counted meanwhile.
Store(t) ==
    /\ work[t].pc = "store"
    /\ counts' = [counts EXCEPT ![work[t].key] = 1]
    /\ Record(t)

PoolDone == queue = {} /\ \A t \in Threads : work[t] = Idle

-----------------------------------------------------------------------------
(* The publication floor *)

\* The other sources of t2 read the stacks that are not paused, each with an outcome of its own; a
\* credential store that cannot be read leaves nothing, and a disabled source makes no request.
Gatherings ==
    {m \in [Sources -> SUBSET (Live \cup {"org"})] :
        \A src \in Sources :
            m[src] \subseteq IF src \notin enabled THEN {}
                             ELSE IF Population[src] = "org" THEN {"org"} ELSE Live}

\* A stack may answer that it has no such data source: its record is not available, but no failure.
Without(m) ==
    SUBSET UNION {Live \ m[src] : src \in {x \in enabled : Population[x] = "sourced"}}

Over(n, of, share) == n * share[2] > share[1] * of

\* The sum of the counters of some keys: as many pairs as they have counted.
Total(keys) == Cardinality(UNION {{key} \X (1 .. counts[key]) : key \in keys})
Lesser(m, n) == IF m < n THEN m ELSE n

Scannable ==
    LET out == Total(Skips)
    IN  IF out > Cardinality(Stacks) THEN 0 ELSE Cardinality(Stacks) - out

\* How many records a source should have; `bare` stacks are without its data source.  They are
\* taken off what the counters leave even if t2's own route has skipped the stack before.
Expected(src, bare) ==
    IF src = "stack_detail" THEN Scannable
    ELSE IF src \notin enabled THEN 0
    ELSE IF Population[src] = "org" THEN 1
    ELSE IF Population[src] \in {"live", "producer"} THEN Cardinality(Live)
    ELSE IF Population[src] = "sourced" THEN Scannable - Lesser(Scannable, bare)
    ELSE Scannable

\* Mutant: anything that answered makes the source healthy.
HealthyIfAny(src, available, bare) == Expected(src, bare) = 0 \/ available > 0

\* source_report: at most `expected` count as available, and few enough are missing.  A producer
\* that has no stack to ask knows nothing.
Healthy(src, available, bare) ==
    LET expected == Expected(src, bare)
    IN  /\ ~ Over(expected - Lesser(expected, available), expected, Floor[src])
        /\ (src \in enabled /\ Population[src] = "producer") => Live # {}

Unhealthy(m, bare) ==
    {src \in Sources : ~ Healthy(src, Cardinality(m[src]), bare)} \cup
    {src \in {"stack_detail"} : ~ Healthy(src, Cardinality(results), bare)}

ShouldAbort == Scannable > 0 /\ Over(Total(Reasons), Scannable, Floor["stack_detail"])

Decide(inputs, blocking) ==
    verdict' = IF Stacks = {} THEN [end |-> "unknown", inputs |-> {}]
               ELSE IF ShouldAbort \/ blocking # {} THEN [end |-> "refused", inputs |-> {}]
               ELSE [end |-> "published", inputs |-> inputs]

\* t2 reports on every source, withholds what is below its floor, and refuses everything when that
\* is a source that blocks.
FinishT2 ==
    /\ tier = "t2" /\ PoolDone /\ verdict = Undecided
    /\ \E m \in Gatherings : \E none \in Without(m) :
        LET low == Unhealthy(m, Cardinality(none))
        IN  /\ measured' = [x \in Sources \cup {"no_datasource"} |->
                               IF x = "no_datasource" THEN none ELSE m[x]]
            /\ Decide((enabled \cup {"stack_detail"}) \ low, low \ NonBlocking)
    /\ UNCHANGED <<tier, paused, enabled, queue, work, counts, failed, skipped, results>>

\* t3 has one source and only the primary coverage to judge it by.
FinishT3 ==
    /\ tier = "t3" /\ PoolDone /\ verdict = Undecided
    /\ Decide({"dataplane"}, {})
    /\ UNCHANGED <<tier, paused, enabled, queue, work, counts, failed, skipped, results, measured>>

Next ==
    \/ \E t \in Threads :
        Take(t) \/ ReadOk(t) \/ ReadFails(t) \/ CountKnown(t) \/ CountMissing(t) \/ Store(t)
    \/ FinishT2
    \/ FinishT3

Spec == Init /\ [][Next]_vars

-----------------------------------------------------------------------------
(* Properties *)

\* When the pool is done every stack of the inventory is in exactly one of the payload, the failures
\* and the skipped, the skipped hold every paused stack, and `scanned` is the size of the payload:
\* whatever the threads do to the counters, no stack is lost or told twice.
EveryStackIsAccountedFor ==
    PoolDone =>
        /\ results \cup DOMAIN failed \cup DOMAIN skipped = Stacks
        /\ Cardinality(results) + Cardinality(DOMAIN failed) + Cardinality(DOMAIN skipped)
               = Cardinality(Stacks)
        /\ paused \subseteq DOMAIN skipped
        /\ counts["scanned"] = Cardinality(results)

Refusable == Stacks \ DOMAIN skipped

\* A run that the counters refuse has really lost more than the floor allows: no interleaving of the
\* threads makes them count a failure twice or a stack out of the denominator that is not.
AbortHasCause ==
    (PoolDone /\ ShouldAbort)
        => Over(Cardinality(DOMAIN failed), Cardinality(Refusable), Floor["stack_detail"])

\* What a source should cover.
Covered(src) ==
    IF src = "stack_detail" THEN Refusable
    ELSE IF Population[src] = "org" THEN {"org"}
    ELSE IF Population[src] \in {"scannable", "sourced"} THEN Refusable
    ELSE Live

\* How much of it, `bare` stacks being without the data source of a "sourced" one.
Due(src, bare) ==
    LET all == Cardinality(Covered(src))
    IN  IF src # "stack_detail" /\ Population[src] = "sourced" THEN all - Lesser(all, bare) ELSE all

\* What t2 publishes of an enabled source was answered by all but the allowed share of the stacks
\* that it should cover, whatever the counters lost on the way.  A stack that has answered that it is
\* without the data source is not among them, nor (a second time) one that was skipped as well.
AcceptedInputsCoverTheEstate ==
    tier = "t2" => \A src \in verdict.inputs :
        LET of == Due(src, Cardinality(measured["no_datasource"]))
            answered == Cardinality(IF src = "stack_detail" THEN results ELSE measured[src])
        IN  ~ Over(of - Lesser(of, answered), of, Floor[src])

\* The fan-out loses no stack, a run is refused only for stacks that it has really lost, and no input
\* of t2 is accepted on counts that do not describe the estate.  t3 is accepted by the primary
\* coverage alone, whose counters may lose failures: nothing is said of what a t3 run accepts.
FleetIsCovered ==
    TypeOK /\ EveryStackIsAccountedFor /\ AbortHasCause /\ AcceptedInputsCoverTheEstate
=============================================================================
