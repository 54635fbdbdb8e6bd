---------------------------- MODULE LabelVerdicts ----------------------------
(***************************************************************************)
(* What t2 measures of a stack's labels (collector/sources/                 *)
(* label_inventory.py) and what the rules make of it                        *)
(* (collector/label_rules.py).  Every read may fail, be cut off at a bound  *)
(* or come back with a warning, and the stack changes meanwhile; a rule may *)
(* then say that it does not know, but neither pass nor fail wrongly.       *)
(*                                                                          *)
(* A behaviour measures one signal.  Left out are static labels, whose      *)
(* thresholds are higher, names that are too long or personal, and of the   *)
(* register all but its being cut.                                          *)
(***************************************************************************)
EXTENDS Integers, Sequences, FiniteSets

CONSTANTS
    Bounds,     \* [names, rows, keys, values], as in class Bounds
    Warn,       \* from how many values of a label, or series of a metric, rules fail
    MaxCount,   \* bound: values of a label
    MaxFaults,  \* bound: reads that go wrong
    MaxGrowth   \* bound: changes of the stack

Order == <<"__name__", "pod", "service_name">>
Labels == {Order[i] : i \in DOMAIN Order}
Inputs == {"missing_identity", "distinct_values", "shape_count", "metric_series",
           "labels_per_stream", "otlp_churn_labels", "drilldown_missing", "span_names"}
Reasons == {"deadline", "overflow", "missing_input"}

\* The verified and approved rules of each signal: their input, kind, and where they fail.
Rule(input, kind, warn, floor) == [input |-> input, kind |-> kind, warn |-> warn, floor |-> floor]
Shape == Rule("shape_count", "count", 1, FALSE)
Identity == Rule("missing_identity", "absence", 1, FALSE)
Rules ==
    [metrics |-> {Rule("distinct_values", "cardinality", Warn, TRUE), Identity, Shape,
                  Rule("metric_series", "count", Warn, FALSE)},
     logs |-> {Rule("distinct_values", "cardinality", Warn, TRUE), Identity, Shape,
               Rule("labels_per_stream", "count", 1, FALSE),
               Rule("otlp_churn_labels", "count", 1, FALSE),
               Rule("drilldown_missing", "absence", 1, FALSE)},
     traces |-> {Identity, Shape},
     profiles |-> {Rule("distinct_values", "cardinality", Warn, FALSE), Identity, Shape}]

VARIABLES
    signal,
    bounds,
    world,     \* what there is on the stack
    first,     \* ghost: what there was when the measuring began
    task,      \* how far the measuring is, and its local variables
    payload,   \* the signal's part of the envelope
    faults,
    growth

vars == <<signal, bounds, world, first, task, payload, faults, growth>>

\* A label: how many values it has, how many of them have a bad shape, and whether it is on enough
\* series or streams to count.  Beside the labels, the shapes of span names, the series of the
\* heaviest metric, and whether a stream has too many labels and the configuration promotes ids.
Label == [count : 0 .. MaxCount, odd : 0 .. 1, big : BOOLEAN]
NoLabel == [count |-> 0, odd |-> 0, big |-> FALSE]
World == [label : [Labels -> Label], spans : 0 .. 1, series : 1 .. Warn, wide : 0 .. 1, risky : 0 .. 1]
There(w) == {l \in Labels : w.label[l].count > 0}

NoInput == [state |-> "none", reason |-> "none", names |-> FALSE, overflow |-> FALSE, samples |-> {}]
Input(state, reason, names, overflow, samples) ==
    [state |-> state, reason |-> reason, names |-> names, overflow |-> overflow, samples |-> samples]
Missing == Input("unavailable", "missing_input", FALSE, FALSE, {})
Sample(value, exact, population) == [value |-> value, exact |-> exact, population |-> population]

Unmeasured == [data |-> "unknown", state |-> "unavailable", reason |-> "missing_input", cut |-> FALSE,
              inputs |-> [i \in Inputs |-> NoInput]]
Start == [pc |-> "names", kept |-> <<>>, counts |-> <<>>, at |-> 1, late |-> FALSE, truncated |-> FALSE,
          successful |-> FALSE, odd |-> 0, partial |-> FALSE, overflow |-> FALSE, failure |-> "none"]

TypeOK ==
    /\ signal \in DOMAIN Rules /\ bounds \in Bounds
    /\ world \in World /\ first \in World
    /\ task.pc \in {"names", "keys", "streams", "config", "spans", "fit", "done"}
    /\ task.at \in 1 .. Len(task.kept) + 1 /\ task.odd \in 0 .. Len(task.kept)
    /\ task.counts \in Seq(Nat)
    /\ task.failure \in Reasons \cup {"none"}
    /\ payload.data \in {"present", "empty", "unknown"}
    /\ \A i \in Inputs : \A s \in payload.inputs[i].samples :
           s.value \in Nat /\ s.exact \in BOOLEAN /\ s.population \in {"none", "small", "big"}
    /\ faults \in 0 .. MaxFaults /\ growth \in 0 .. MaxGrowth

\* What a stack may have: the label of interest, an identity (in traces service.name), and of metrics
\* their name, which is a label like the others: there is one metric.
Worlds(sig) ==
    {w \in World :
        /\ LET pod == w.label["pod"] IN
               pod = NoLabel \/ (pod.count \in Warn - 1 .. Warn /\ (pod.big => sig = "metrics"))
        /\ LET service == w.label["service_name"] IN
               \/ service = NoLabel
               \/ service.count \in {1, Warn} /\ service.odd = 0 /\ service.big = (sig = "metrics")
        /\ LET name == w.label["__name__"] IN
               name = NoLabel \/ (sig = "metrics" /\ name.count = 1 /\ name.odd = 0 /\ ~ name.big)
        /\ sig # "metrics" => w.series = 1
        /\ sig # "logs" => w.wide = 0 /\ w.risky = 0
        /\ sig # "traces" => w.spans = 0}

Init ==
    /\ signal \in DOMAIN Rules
    /\ world \in Worlds(signal) /\ first = world
    /\ bounds \in Bounds
    /\ task = Start /\ payload = Unmeasured
    /\ faults = 0 /\ growth = 0

\* The stack gets more of something while it is measured.
Grow ==
    /\ growth < MaxGrowth /\ growth' = growth + 1
    /\ task.pc \notin {"fit", "done"}
    /\ \/ world.label["pod"].count < MaxCount /\ world' = [world EXCEPT !.label["pod"].count = @ + 1]
       \/ /\ world.label["service_name"].count = 0
          /\ world' = [world EXCEPT !.label["service_name"].count = 1]
       \/ /\ world.label["pod"].count > 0
          /\ \/ world' = [world EXCEPT !.label["pod"].odd = 1]
             \/ signal = "metrics" /\ world' = [world EXCEPT !.label["pod"].big = TRUE]
       \/ signal = "metrics" /\ world.series < Warn /\ world' = [world EXCEPT !.series = @ + 1]
       \/ signal = "logs" /\ world' = [world EXCEPT !.wide = 1]
       \/ signal = "traces" /\ world' = [world EXCEPT !.spans = 1]
    /\ UNCHANGED <<signal, bounds, first, task, payload, faults>>

-----------------------------------------------------------------------------
(* Reads *)

\* A read may raise: for time, for its size, or for its transport, status or body.  Once the
\* client's time is up every later read raises, before it is sent.
Raises(t, reason) ==
    \/ task.late /\ t = task /\ reason = "deadline" /\ UNCHANGED faults
    \/ /\ ~ task.late /\ faults < MaxFaults /\ faults' = faults + 1
       /\ reason \in Reasons
       /\ \E late \in BOOLEAN : (late => reason = "deadline") /\ t = [task EXCEPT !.late = late]

Answers == ~ task.late /\ UNCHANGED faults
\* An answer may carry a warning, which is its fault.
Warned(warned) ==
    /\ ~ task.late
    /\ faults' = IF warned THEN faults + 1 ELSE faults
    /\ faults' <= MaxFaults

Become(t, p) == task' = t /\ payload' = p /\ UNCHANGED <<signal, bounds, world, first, growth>>

Cut == {"deadline", "overflow"}
StateOf(reason) == IF reason \in Cut THEN "partial" ELSE "unavailable"
Whole(partial) == IF partial THEN "partial" ELSE "complete"
Why(partial) == IF partial THEN "truncated" ELSE "none"
\* A reason that says more than truncated is not replaced.
Lower(p, reason) == [p EXCEPT !.state = "partial", !.reason = IF @ \in Reasons THEN @ ELSE reason]
Lesser(m, n) == IF m < n THEN m ELSE n

\* After the names, or the last key: what else the signal has to read.
Further == [metrics |-> "fit", logs |-> "streams", traces |-> "spans", profiles |-> "fit"]

-----------------------------------------------------------------------------
(* The names, and what of them is kept *)

\* A size that is too large here is no finding about values.
NamesFail ==
    /\ task.pc = "names"
    /\ \E t \in {task, [task EXCEPT !.late = TRUE]}, reason \in Reasons :
           /\ Raises(t, reason)
           /\ Become([t EXCEPT !.pc = "done"],
                     [payload EXCEPT !.state = StateOf(reason),
                                     !.reason = IF reason = "overflow" THEN "truncated" ELSE reason])

\* In their order, the labels that there are.
Listed(i) == IF Order[i] \in There(world) THEN <<Order[i]>> ELSE <<>>

\* Metrics come with a count of everything; of the other signals no answer is known to be complete.
\* The bound on names is no less than there are labels, so a full answer only looks cut.
ReadNames ==
    /\ task.pc = "names"
    /\ \E warned \in BOOLEAN :
        /\ Warned(warned)
        /\ LET names == Listed(1) \o Listed(2) \o Listed(3)
               room == Lesser(bounds.names, bounds.rows)
               kept == SubSeq(names, 1, Lesser(Len(names), room))
               truncated == signal # "metrics" \/ warned \/ Len(names) >= bounds.names \/ Len(names) > room
               state == Whole(truncated)
               identity == Sample(IF \E i \in DOMAIN kept : kept[i] = "service_name" THEN 0 ELSE 1, TRUE, "none")
           IN  Become([task EXCEPT !.pc = IF names = <<>> THEN Further[signal] ELSE "keys",
                                   !.kept = kept, !.truncated = truncated, !.partial = truncated,
                                   !.counts = [i \in DOMAIN kept |-> world.label[kept[i]].count]],
                      [payload EXCEPT
                          !.data = IF names # <<>> THEN "present" ELSE IF truncated THEN "unknown" ELSE "empty",
                          !.state = state, !.reason = Why(truncated), !.cut = Len(names) > Len(kept),
                          !.inputs = IF names = <<>> THEN @ ELSE
                              [payload.inputs EXCEPT
                                  !["missing_identity"] = Input(state, Why(truncated), truncated, FALSE, {identity}),
                                  !["distinct_values"] = IF signal = "traces" THEN NoInput
                                                         ELSE Input(state, Why(truncated), truncated, FALSE, {}),
                                  !["metric_series"] = IF signal = "metrics" THEN Missing ELSE NoInput,
                                  !["shape_count"] = Missing]])

-----------------------------------------------------------------------------
(* The values of each kept label *)

Key == task.kept[task.at]
AtKey == task.pc = "keys" /\ task.at <= Len(task.kept)
\* Logs and traces keep one of the reads for later.
Readable == task.at <= bounds.keys - IF signal \in {"logs", "traces"} THEN 1 ELSE 0
Counted(p, sample) == [p EXCEPT !.inputs["distinct_values"].samples = @ \cup {sample}]
\* Of values that are cut, those that are seen need not be the odd ones.
OddSeen == IF Key = "__name__" /\ signal = "metrics" THEN {0}
           ELSE IF world.label[Key].count > bounds.values THEN 0 .. world.label[Key].odd
           ELSE {world.label[Key].odd}

\* The label is not read; of metrics its count is known from the names, not on how many series it is.
SkipKey ==
    /\ AtKey /\ ~ Readable /\ UNCHANGED faults
    /\ Become([task EXCEPT !.at = @ + 1, !.partial = TRUE],
              IF signal # "metrics" THEN payload
              ELSE [Counted(payload, Sample(task.counts[task.at], TRUE, "none")) EXCEPT
                        !.state = IF task.failure = "none" THEN "partial" ELSE @,
                        !.reason = IF task.failure = "none" THEN "truncated" ELSE @])

KeyFails ==
    /\ AtKey /\ Readable
    /\ \E t \in {task, [task EXCEPT !.late = TRUE]}, reason \in Reasons :
        /\ Raises(t, reason)
        /\ LET overflow == task.overflow \/ reason = "overflow"
               failed == [payload EXCEPT !.state = "partial",
                              !.reason = IF signal = "metrics" /\ overflow THEN "overflow" ELSE reason]
               named == IF Key # "__name__" THEN failed
                        ELSE [failed EXCEPT !.inputs["metric_series"] =
                                 Input(StateOf(reason), reason, task.truncated /\ reason \in Cut,
                                       reason = "overflow", {})]
           IN  Become([t EXCEPT !.at = @ + 1, !.overflow = overflow, !.failure = reason,
                                !.partial = @ \/ signal = "metrics"],
                      IF signal = "metrics" THEN Counted(named, Sample(task.counts[task.at], TRUE, "none"))
                      ELSE failed)

\* Values of logs, traces and profiles: at least what was seen.
Values ==
    /\ AtKey /\ Readable /\ signal # "metrics" /\ Answers
    /\ \E odd \in OddSeen :
           Become([task EXCEPT !.at = @ + 1, !.successful = TRUE, !.partial = TRUE, !.odd = @ + odd],
                  IF signal = "traces" THEN payload
                  ELSE Counted(payload, Sample(Lesser(world.label[Key].count, bounds.values), FALSE, "none")))

\* Values of metrics, with the label's count and the number of its series.
Series ==
    /\ AtKey /\ Readable /\ signal = "metrics"
    /\ \E warned \in BOOLEAN, odd \in OddSeen :
        /\ Warned(warned)
        /\ LET label == world.label[Key]
               partial == warned \/ label.count >= bounds.values
               incomplete == partial \/ task.truncated
               lowered == IF partial /\ task.failure = "none"
                          THEN [payload EXCEPT !.state = "partial", !.reason = "truncated"] ELSE payload
               named == IF Key # "__name__" THEN lowered
                        ELSE [lowered EXCEPT !.inputs["metric_series"] =
                                 Input(Whole(incomplete), Why(incomplete), task.truncated, FALSE,
                                       {Sample(world.series, ~ partial, "none")})]
           IN  Become([task EXCEPT !.at = @ + 1, !.successful = @ \/ Key # "__name__",
                                   !.partial = @ \/ partial, !.odd = @ + odd],
                      Counted(named, Sample(label.count, TRUE, IF label.big THEN "big" ELSE "small")))

\* What the reads of the values come to.
Shapes(p) ==
    LET partial == task.partial \/ task.failure # "none"
        reason == IF task.overflow THEN "overflow" ELSE IF task.failure # "none" THEN task.failure ELSE Why(partial)
    IN  IF task.successful \/ task.overflow
        THEN [p EXCEPT !.inputs["shape_count"] =
                 Input(Whole(partial), reason, task.truncated, task.overflow, {Sample(task.odd, ~ partial, "none")})]
        ELSE IF task.failure = "none" THEN p
        ELSE [p EXCEPT !.inputs["shape_count"] =
                 Input(StateOf(task.failure), task.failure, FALSE, task.overflow, {})]

Distinct(p) ==
    IF signal = "traces" \/ (task.failure = "none" /\ (signal # "metrics" \/ p.state # "partial")) THEN p
    ELSE [p EXCEPT !.inputs["distinct_values"].state = "partial",
                   !.inputs["distinct_values"].overflow = task.overflow,
                   !.inputs["distinct_values"].reason =
                       IF task.overflow THEN "overflow"
                       ELSE IF task.failure # "none" THEN task.failure ELSE "truncated"]

KeysDone ==
    /\ task.pc = "keys" /\ task.at > Len(task.kept) /\ UNCHANGED faults
    /\ Become([task EXCEPT !.pc = Further[signal]], Distinct(Shapes(payload)))

-----------------------------------------------------------------------------
(* What only logs and traces have *)

\* The labels of a selection of the streams.
Streams ==
    /\ task.pc = "streams"
    /\ \/ \E t \in {task, [task EXCEPT !.late = TRUE]}, reason \in Reasons :
           /\ Raises(t, reason)
           /\ LET why == IF reason = "overflow" THEN "truncated" ELSE reason
                  state == IF reason \in Cut THEN "partial" ELSE "unavailable"
              IN  Become([t EXCEPT !.pc = "config"],
                         [Lower(payload, why) EXCEPT !.inputs["labels_per_stream"] =
                             Input(state, why, FALSE, FALSE, {})])
       \/ /\ Answers
          /\ LET some == There(world) # {}
             IN  Become([task EXCEPT !.pc = "config"],
                        [Lower(payload, "truncated") EXCEPT
                            !.data = IF some THEN "present" ELSE @,
                            !.inputs["labels_per_stream"] = Input("partial", "truncated", TRUE, FALSE,
                                IF some THEN {Sample(world.wide, FALSE, "none")} ELSE {})])

\* Only explicit promotions of an id are a finding; what the defaults do is not known.
Config ==
    /\ task.pc = "config"
    /\ \/ \E t \in {task, [task EXCEPT !.late = TRUE]}, reason \in Reasons :
           /\ Raises(t, reason)
           /\ LET input == IF reason = "deadline" THEN Input("partial", "deadline", FALSE, FALSE, {}) ELSE Missing
              IN  Become([t EXCEPT !.pc = "fit"],
                         [payload EXCEPT !.inputs["otlp_churn_labels"] = input, !.inputs["drilldown_missing"] = input])
       \/ /\ Answers
          /\ Become([task EXCEPT !.pc = "fit"],
                    [payload EXCEPT
                        !.inputs["otlp_churn_labels"] =
                            IF world.risky = 0 THEN Missing
                            ELSE Input("partial", "truncated", FALSE, FALSE, {Sample(1, FALSE, "none")}),
                        !.inputs["drilldown_missing"] = Missing])

\* Span names are measured for their shape, whether or not there are attributes; `some' is whether
\* there are any.
Spans ==
    /\ task.pc = "spans"
    /\ LET shape == IF payload.inputs["shape_count"] = NoInput THEN Missing ELSE payload.inputs["shape_count"]
           seen == {s.value : s \in shape.samples}
       IN  \/ \E t \in {task, [task EXCEPT !.late = TRUE]}, reason \in Reasons :
               /\ Raises(t, reason)
               /\ LET overflow == shape.overflow \/ reason = "overflow"
                      why == IF overflow THEN "overflow" ELSE reason
                  IN  Become([t EXCEPT !.pc = "fit"],
                             [payload EXCEPT
                                 !.state = "partial", !.reason = why,
                                 !.inputs["span_names"] =
                                     Input(StateOf(reason), reason, FALSE, reason = "overflow", {}),
                                 !.inputs["shape_count"] =
                                     [shape EXCEPT !.state = "partial", !.reason = why, !.overflow = overflow]])
           \/ /\ Answers
              /\ LET why == IF shape.overflow THEN "overflow"
                            ELSE IF shape.reason \in {"deadline", "missing_input"} THEN shape.reason ELSE "truncated"
                     count == world.spans + IF seen = {} THEN 0 ELSE CHOOSE n \in seen : TRUE
                     full == Len(task.kept) >= Lesser(bounds.names, bounds.rows)
                 IN  \E some \in {world.spans = 1, TRUE} :
                     Become([task EXCEPT !.pc = "fit"],
                            [Lower(payload, "truncated") EXCEPT
                                !.data = IF some THEN "present" ELSE @, !.cut = @ \/ full,
                                !.inputs["span_names"] =
                                    Input("partial", "truncated", FALSE, FALSE, {Sample(IF some THEN 1 ELSE 0, FALSE, "none")}),
                                !.inputs["shape_count"] =
                                    Input("partial", why, shape.names, shape.overflow, {Sample(count, FALSE, "none")})])

-----------------------------------------------------------------------------
Trimmed(input) ==
    IF input.state \in {"none", "unavailable"} THEN input
    ELSE [Lower(input, "truncated") EXCEPT !.names = TRUE]

\* A payload that is too large loses rows of its register, and its inputs say so.
Fit ==
    /\ task.pc = "fit"
    /\ \/ UNCHANGED faults /\ Become([task EXCEPT !.pc = "done"], payload)
       \/ /\ task.kept # <<>> /\ faults < MaxFaults /\ faults' = faults + 1
          /\ Become([task EXCEPT !.pc = "done"],
                    [Lower(payload, "truncated") EXCEPT
                        !.cut = TRUE,
                        !.inputs = [i \in Inputs |-> Trimmed(payload.inputs[i])]])

Next ==
    \/ Grow
    \/ NamesFail \/ ReadNames
    \/ SkipKey \/ KeyFails \/ Values \/ Series \/ KeysDone
    \/ Streams \/ Config \/ Spans
    \/ Fit

Spec == Init /\ [][Next]_vars

-----------------------------------------------------------------------------
(* The verdicts *)

In(rule) == payload.inputs[rule.input]

\* Nothing was measured, or not enough to say anything.
Unknown(rule) ==
    \/ payload.data = "unknown"
    \/ In(rule).state \in {"none", "unavailable"}
    \/ "deadline" \in {In(rule).reason, payload.reason}

\* What was measured does not bear on the rule.
Blind(rule) ==
    \/ rule.kind = "absence" /\ (In(rule).names \/ payload.cut)
    \/ In(rule).samples = {}
    \/ rule.floor /\ \E s \in In(rule).samples : s.population = "none"

Eligible(rule) == {s \in In(rule).samples : rule.floor => s.population = "big"}
Violating(rule) == {s \in Eligible(rule) : s.value >= rule.warn}

\* Mutant: what is not a violation is taken for the whole truth.
UncertainIfSampled(rule) == \E s \in Eligible(rule) \ Violating(rule) : ~ s.exact

\* There may be a violation that was not seen.
Uncertain(rule) ==
    \/ "partial" \in {In(rule).state, payload.state}
    \/ \E s \in Eligible(rule) \ Violating(rule) : ~ s.exact

Verdict(rule) ==
    IF payload.data = "empty" THEN "not_applicable"
    ELSE IF Unknown(rule) THEN "not_evaluated"
    ELSE IF In(rule).overflow \/ (~ Blind(rule) /\ Violating(rule) # {}) THEN "fail"
    ELSE IF Blind(rule) \/ Uncertain(rule) THEN "not_evaluated"
    ELSE IF Eligible(rule) = {} THEN "not_applicable"
    ELSE "pass"

\* What validate_inventory accepts.
Coherent(x) ==
    /\ x.state = "complete" <=> x.reason = "none"
    /\ x.state = "unavailable" => x.reason \in {"missing_input", "deadline"}

Accepted ==
    /\ Coherent(payload)
    /\ payload.data = "empty" =>
           payload.state = "complete" /\ task.kept = <<>>
           /\ \A i \in Inputs : payload.inputs[i].state \in {"none", "complete"} /\ payload.inputs[i].samples = {}
    /\ payload.state = "unavailable" => payload.data = "unknown"
    /\ payload.cut => payload.state = "partial"
    /\ \A i \in Inputs : LET input == payload.inputs[i] IN
           input.state # "none" =>
               /\ Coherent(input)
               /\ input.names \/ input.overflow => input.state = "partial"
               /\ input.overflow => input.reason = "overflow"

-----------------------------------------------------------------------------
(* Properties *)

\* What a rule is about, at one time.
Violated(rule, w) ==
    CASE rule.input = "distinct_values" ->
             \E l \in Labels : w.label[l].count >= rule.warn /\ (rule.floor => w.label[l].big)
      [] rule.input = "missing_identity" -> w.label["service_name"].count = 0
      [] rule.input = "shape_count" -> w.spans > 0 \/ \E l \in Labels : w.label[l].odd > 0
      [] rule.input = "metric_series" -> w.series >= rule.warn
      [] rule.input = "labels_per_stream" -> w.wide > 0
      [] rule.input = "otlp_churn_labels" -> w.risky > 0
      [] rule.input = "drilldown_missing" -> FALSE

\* A pass or a not applicable is never given for what was violated all the
\* time, nor a fail, unless for values that were too many to read, for what
\* never was: whatever reads fail, are cut or are late, at whatever bound, and
\* while the stack changes.  And no outcome of the reads makes an envelope that
\* the validator refuses, which would end the probe of every stack.
VerdictsAreSound ==
    task.pc = "done" =>
        /\ \A rule \in Rules[signal] :
               /\ Verdict(rule) = "pass" => ~ (Violated(rule, first) /\ Violated(rule, world))
               /\ Verdict(rule) = "not_applicable" =>
                      There(first) = {} \/ ~ (Violated(rule, first) /\ Violated(rule, world))
               /\ Verdict(rule) = "fail" =>
                      In(rule).overflow \/ Violated(rule, first) \/ Violated(rule, world)
        /\ Accepted
=============================================================================
