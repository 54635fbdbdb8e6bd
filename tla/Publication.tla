---------------------------- MODULE Publication ----------------------------
(***************************************************************************)
(* How the scan tiers publish over one bucket: _run_admitted and the       *)
(* runners of scan.py, with hydration (collector/emit/hydrate.py), carry-  *)
(* forward (carry.py) and the S3 writers (s3.py).                          *)
(*                                                                         *)
(* t1 is hourly and holds the estate's inventory, t2 is daily, t3 sweeps   *)
(* the data plane.  Each gathers the inputs it owns, reads the other       *)
(* tiers' inputs from scans/<tier>/latest.json, composes every view it     *)
(* can, and writes views, samples and its own scan, in that order.  The    *)
(* tiers run as independent tasks: only runs of one tier exclude each      *)
(* other (TierMutex, which ScanLock implements), so the steps of runs of   *)
(* different tiers interleave, and a run may die between any two.          *)
(*                                                                         *)
(* An input's payload is abstracted to where it comes from: the run of the *)
(* owner that gathered it and the time stamped on that run's scan.  One    *)
(* clock stands for all tasks; FutureSkew is what the code grants skew.    *)
(***************************************************************************)
EXTENDS Naturals

CONSTANTS
  Input,       \* optional inputs, by their names in INPUT_OWNER
  Owner,       \* INPUT_OWNER: the tier that gathers an input
  Reported,    \* inputs with a source report: their gather can be rejected
  Selectable,  \* inputs the configuration can disable
  NonBlocking, \* T2_NON_BLOCKING_INPUTS
  View,        \* names under views/
  Series,      \* metric series composed from inputs
  Needs,       \* VIEW_INPUTS, extended to series
  LiveOnly,    \* adaptive_totals of run_t1: series that are never carried
  DisabledOK,  \* DISABLED_OK, extended to series (the maturity series)
  Schema,      \* Schema[t]: the input schema version tier t's image carries
  MaxAge,      \* MAX_CARRY_AGE, which is also MAX_INPUT_AGE
  FutureSkew,  \* MAX_FUTURE_SKEW
  MaxCompose,  \* bound: time from the start of hydration to the last push
  MaxRuns,     \* bound: MaxRuns[t] runs of tier t
  MaxClock,    \* bound of the clock
  None         \* no such object

Tier == {"t1", "t2", "t3"}
Product == View \cup Series
OwnedBy(t) == {i \in Input : Owner[i] = t}

Outcomes == {"ok", "empty", "rejected", "disabled"}
States == {"pending", "unavailable", "disabled", "own", "hydrated"}

\* Provenance of one input: its state and, when it is available, the run of
\* its owner that gathered it and the stamp of that run's scan.
Prov == [state : States, run : Nat, at : Nat]
Provenance == [Input -> Prov]
Lacking(s) == [state |-> s, run |-> 0, at |-> 0]

\* scans/<tier>/<stamp>.json and latest.json; own is what meta.sources and the
\* data say of each input ("empty": nothing, as for the inputs of other tiers).
Envelope == [run : Nat, at : Nat, own : [Input -> Outcomes]]
\* views/<name>.json: the run that wrote it, and the meta.inputs it carries.
ViewFile == [by : Tier, run : Nat, inputs : Provenance]
\* state/t3-metrics.json; clean says the batch would pass the label guard.
Batch == [run : Nat, at : Nat, clean : BOOLEAN, series : SUBSET Series,
          inputs : Provenance]
\* The last sample of a series in Mimir: who pushed it and when, and the t3 run
\* whose batch it was carried from (0 if it was composed by the run itself).
Sample == [by : Tier, run : Nat, at : Nat, batch : Nat, inputs : Provenance]

Labels == {"idle", "history", "hydrate", "gate", "save", "views", "archive",
           "latest"}

ASSUME InputAssumption ==
  /\ Owner \in [Input -> Tier]
  /\ Reported \subseteq Input /\ Selectable \subseteq Input
  /\ NonBlocking \subseteq Input
\* The billing history is written before its input can be rejected: rejecting it
\* must not refuse the run.
ASSUME BillingAssumption ==
  "ai_billing" \in Input => Owner["ai_billing"] = "t2" /\ "ai_billing" \in NonBlocking
ASSUME ProductAssumption ==
  /\ Needs \in [Product -> SUBSET Input]
  /\ DisabledOK \in [Product -> SUBSET Input]
  /\ LiveOnly \subseteq Series
ASSUME BoundAssumption ==
  /\ Schema \in [Tier -> Nat] /\ MaxRuns \in [Tier -> Nat]
  /\ MaxAge \in Nat /\ FutureSkew \in Nat /\ MaxCompose \in Nat
  /\ MaxClock \in Nat
ASSUME NoneAssumption ==
  /\ None \notin Envelope /\ None \notin ViewFile /\ None \notin Batch /\ None \notin Sample

VARIABLES
  clock,
  config,   \* the selectable inputs the deployment disables now
  latest,   \* latest[t]: scans/t/latest.json
  archive,  \* archive[t]: the timestamped scans of t
  views,    \* views[v]: views/v.json
  carry,    \* state/t3-metrics.json
  history,  \* the run of t2 that wrote state/ai-cost-history.json last
  gaps,     \* the run of t2 that wrote state/credential-gaps.json last
  mimir,    \* mimir[s]: the last sample of s
  task,     \* task[t]: the memory of tier t's current run
  runs,     \* runs[t]: how many runs of t are over
  refused   \* refused[t]: those of them that refused to publish

store == <<latest, archive, views, carry, history, gaps, mimir>>
vars == <<clock, config, store, task, runs, refused>>

NoTask ==
  [pc |-> "idle", off |-> {}, own |-> [i \in Input |-> "empty"],
   whole |-> TRUE, asked |-> 0, stamp |-> 0,
   inputs |-> [i \in Input |-> Lacking("pending")], recalled |-> None,
   todo |-> {}, solo |-> FALSE]

Task ==
  [pc : Labels,
   off : SUBSET Selectable,       \* disabled_inputs(cfg)
   own : [Input -> Outcomes],     \* what the run gathered
   whole : BOOLEAN,               \* see Gather
   asked : Nat,                   \* hydrate's now
   stamp : Nat,                   \* generated_at
   inputs : Provenance,           \* hydrate's result
   recalled : Batch \cup {None},  \* t1: the batch it carries forward
   todo : SUBSET View,            \* views still to be written
   solo : BOOLEAN]                \* history variable: no other tier was active

TypeOK ==
  /\ clock \in Nat
  /\ config \in SUBSET Selectable
  /\ latest \in [Tier -> Envelope \cup {None}]
  /\ archive \in [Tier -> SUBSET Envelope]
  /\ task \in [Tier -> Task]
  /\ views \in [View -> ViewFile \cup {None}]
  /\ carry \in Batch \cup {None}
  /\ history \in Nat /\ gaps \in Nat
  /\ mimir \in [Series -> Sample \cup {None}]
  /\ runs \in [Tier -> Nat]
  /\ refused \in [Tier -> SUBSET Nat]

Init ==
  /\ clock = 0
  /\ config \in SUBSET Selectable
  /\ latest = [t \in Tier |-> None]
  /\ archive = [t \in Tier |-> {}]
  /\ views = [v \in View |-> None]
  /\ carry = None
  /\ history = 0 /\ gaps = 0
  /\ mimir = [s \in Series |-> None]
  /\ task = [t \in Tier |-> NoTask]
  /\ runs = [t \in Tier |-> 0]
  /\ refused = [t \in Tier |-> {}]

-----------------------------------------------------------------------------
\* The number of t's current run, and whether t has one.
Run(t) == runs[t] + 1
Active(t) == task[t].pc # "idle"

Update(t, new) == task' = [task EXCEPT ![t] = new]

\* The run ends, and its memory with it.
End(t) ==
  /\ runs' = [runs EXCEPT ![t] = @ + 1]
  /\ Update(t, NoTask)

\* blocking_source_failures, over publication_inputs' verdicts.
BlockedBy(t, own) ==
  {i \in OwnedBy(t) : own[i] = "rejected" /\ ~(t = "t2" /\ i \in NonBlocking)}

\* The run will pass both publication gates.
Admissible(t) == task[t].whole /\ BlockedBy(t, task[t].own) = {}

\* Mutant: a tier whose gather failed reads its own last scan.
LocalFromSelf(t, i, own, off) ==
  IF i \in off THEN Lacking("disabled")
  ELSE IF own[i] = "ok" THEN [state |-> "own", run |-> Run(t), at |-> 0]
  ELSE Lacking("pending")

\* What a run of t that gathers own, with off disabled, knows of input i before
\* it reads anything; "pending" asks for the owner's latest scan.
Local(t, i, own, off) ==
  IF i \in off THEN Lacking("disabled")
  ELSE IF Owner[i] # t THEN Lacking("pending")
  ELSE IF own[i] = "ok" THEN [state |-> "own", run |-> Run(t), at |-> 0]
  ELSE Lacking("unavailable")

\* What t can gather: a disabled input is not read, and only an input with a
\* source report can be rejected.
Gatherings(t, off) ==
  {own \in [Input -> Outcomes] :
     \A i \in Input :
       /\ Owner[i] # t => own[i] = "empty"
       /\ Owner[i] = t => \/ i \in off /\ own[i] = "disabled"
                          \/ i \notin off /\ own[i] \in {"ok", "empty"}
                          \/ i \notin off /\ i \in Reported /\ own[i] = "rejected"}

\* The rest of the deployment changes its policy at any time; a run reads it
\* when it starts.
Reconfigure ==
  /\ \E off \in SUBSET Selectable : off # config /\ config' = off
  /\ UNCHANGED <<clock, store, task, runs, refused>>

\* No other tier is running.
Alone(t) == \A u \in Tier \ {t} : ~Active(u)

\* The memory of a run of t that has gathered own.
Begun(t, own, whole) ==
  [pc |-> IF "ai_billing" \in OwnedBy(t) THEN "history" ELSE "hydrate",
   off |-> config, own |-> own, whole |-> whole, asked |-> clock, stamp |-> 0,
   inputs |-> [i \in Input |-> Local(t, i, own, config)], recalled |-> None,
   todo |-> {}, solo |-> Alone(t)]

\* A run of t starts and gathers its own inputs.  It is whole when it read an
\* estate that is not empty, with a coverage above the floor, and was not
\* limited to a part of it.
Gather(t) ==
  /\ ~Active(t)
  /\ runs[t] < MaxRuns[t]
  /\ \E own \in Gatherings(t, config), whole \in BOOLEAN :
       task' = [u \in Tier |-> IF u = t THEN Begun(t, own, whole)
                              ELSE [task[u] EXCEPT !.solo = FALSE]]
  /\ UNCHANGED <<clock, config, store, runs, refused>>

\* history_admitted: what run_t2 asks before it touches the billing history.
HistoryAdmitted(t) ==
  /\ Admissible(t)
  /\ task[t].own["ai_billing"] = "ok"

\* run_t2, before hydration: the billing history is merged and written.  A
\* failure, whether or not the write was applied, rejects the input.
RecordHistory(t) ==
  /\ task[t].pc = "history"
  /\ LET next == [task[t] EXCEPT !.pc = "hydrate", !.asked = clock]
     IN \/ ~HistoryAdmitted(t) /\ Update(t, next) /\ UNCHANGED history
        \/ HistoryAdmitted(t) /\ Update(t, next) /\ history' = Run(t)
        \/ /\ HistoryAdmitted(t)
           /\ Update(t, [next EXCEPT
                           !.own["ai_billing"] = "rejected",
                           !.inputs["ai_billing"] = Lacking("unavailable")])
           /\ history' \in {history, Run(t)}
  /\ UNCHANGED <<clock, config, latest, archive, views, carry, gaps, mimir, runs, refused>>

Pending(t) == {i \in Input : task[t].inputs[i].state = "pending"}

\* Mutant: the owner's verdict on its own gather is not looked at.
UsableIfPresent(t, i, scan) ==
  /\ scan.own[i] \notin {"empty", "disabled"}
  /\ Schema[Owner[i]] <= Schema[t]
  /\ scan.at <= task[t].asked + FutureSkew
  /\ task[t].asked <= scan.at + MaxAge

\* hydrate: input i of the owner's scan may be used by the run of t.
Usable(t, i, scan) ==
  /\ scan.own[i] = "ok"
  /\ Schema[Owner[i]] <= Schema[t]
  /\ scan.at <= task[t].asked + FutureSkew
  /\ task[t].asked <= scan.at + MaxAge

\* Mutant: an owner that had the input disabled excuses every reader.
JudgeIgnoringConfig(t, i, scan) ==
  IF scan # None /\ Usable(t, i, scan)
    THEN [state |-> "hydrated", run |-> scan.run, at |-> scan.at]
    ELSE IF scan # None /\ scan.own[i] = "disabled"
      THEN Lacking("disabled")
      ELSE Lacking("unavailable")

\* hydrate: the provenance of i after reading scan.  An owner's scan that was
\* made with i disabled says nothing to a reader whose policy enables it.
Judge(t, i, scan) ==
  IF scan # None /\ Usable(t, i, scan)
    THEN [state |-> "hydrated", run |-> scan.run, at |-> scan.at]
    ELSE IF /\ scan # None /\ Schema[Owner[i]] <= Schema[t]
            /\ scan.own[i] = "disabled" /\ i \in task[t].off
      THEN Lacking("disabled")
      ELSE Lacking("unavailable")

\* Mutant: an unreadable latest scan falls back to any archived one.
HydrateFromArchive(t) ==
  /\ task[t].pc = "hydrate"
  /\ \E i \in Pending(t) :
       \E scan \in {latest[Owner[i]], None} \cup archive[Owner[i]] :
         Update(t, [task[t] EXCEPT !.inputs[i] = Judge(t, i, scan)])
  /\ UNCHANGED <<clock, config, store, runs, refused>>

\* One turn of hydrate's loop: the loader is called for every input, even when
\* the last call read the same object.  An unreadable object is no scan.
Hydrate(t) ==
  /\ task[t].pc = "hydrate"
  /\ \E i \in Pending(t) : \E scan \in {latest[Owner[i]], None} :
       Update(t, [task[t] EXCEPT !.inputs[i] = Judge(t, i, scan)])
  /\ UNCHANGED <<clock, config, store, runs, refused>>

Hydrated(t) == task[t].pc = "hydrate" /\ Pending(t) = {}

\* load_ratecard fails: exit 2, before the gates.
RateCardFails(t) ==
  /\ Hydrated(t)
  /\ End(t)
  /\ UNCHANGED <<clock, config, store, refused>>

\* Mutant: carry-forward does not ask how old its state is.
AnyAge == TRUE

\* carry_forward: the state is young enough to be republished.
Young == clock <= carry.at + MaxAge

\* run_t1: recall t3's last batch, unless it cannot be read or is too old.
Recall(t) ==
  /\ t = "t1" /\ Hydrated(t)
  /\ \E batch \in {carry, None} :
       Update(t, [task[t] EXCEPT
         !.pc = "gate",
         !.recalled = IF batch = None THEN None ELSE IF Young THEN batch ELSE None])
  /\ UNCHANGED <<clock, config, store, runs, refused>>

\* run_t2: assistant_gaps stamps the credential gaps this run measured.  The
\* result of the write is not looked at.
StampGaps(t) ==
  /\ t = "t2" /\ Hydrated(t)
  /\ Update(t, [task[t] EXCEPT !.pc = "gate"])
  /\ \/ UNCHANGED gaps
     \/ /\ Admissible(t)
        /\ "assistant" \in OwnedBy(t) /\ task[t].own["assistant"] = "ok"
        /\ gaps' = Run(t)
  /\ UNCHANGED <<clock, config, latest, archive, views, carry, history, mimir, runs, refused>>

Satisfied(p) == p.state \in {"own", "hydrated"}

\* filter_views: x rests on satisfied inputs, but for a disabled one it may do
\* without.
Composable(t, x) ==
  \A i \in Needs[x] :
    \/ Satisfied(task[t].inputs[i])
    \/ i \in DisabledOK[x] /\ task[t].inputs[i].state = "disabled"

AtGate(t) == task[t].pc = "gate" \/ (t = "t3" /\ Hydrated(t))

\* The envelope is stamped, and with it the run's own inputs.
Stamped(inputs) ==
  [i \in Input |-> IF inputs[i].state = "own"
                     THEN [state |-> "own", run |-> inputs[i].run, at |-> clock]
                     ELSE inputs[i]]

\* _run_admitted: below the floor, or limited to a subset, nothing is written.
Refuse(t) ==
  /\ AtGate(t)
  /\ ~Admissible(t)
  /\ End(t)
  /\ refused' = [refused EXCEPT ![t] = @ \cup {Run(t)}]
  /\ UNCHANGED <<clock, config, store>>

Pass(t) ==
  /\ AtGate(t)
  /\ Admissible(t)
  /\ Update(t, [task[t] EXCEPT !.pc = IF t = "t3" THEN "save" ELSE "views",
                               !.stamp = clock, !.inputs = Stamped(@),
                               !.todo = {v \in View : Composable(t, v)}])
  /\ UNCHANGED <<clock, config, store, runs, refused>>

\* filter_metrics: a series of the maturity score, live or carried, needs
\* label_inventory unless that is disabled.
Admitted(t, s) ==
  \A i \in DisabledOK[s] :
    Satisfied(task[t].inputs[i]) \/ task[t].inputs[i].state = "disabled"

Live(t) == {s \in Series : Composable(t, s)}

\* What t1 takes from the batch: what it does not compose itself, but for the
\* totals that only an estate read in full may tell.
Carried(t) ==
  IF task[t].recalled = None THEN {}
  ELSE {s \in task[t].recalled.series \ (Live(t) \cup LiveOnly) : Admitted(t, s)}

\* Mutant: run_t3 saved its batch itself, before the gates.
SaveBeforeGate(t) ==
  /\ t = "t3" /\ (task[t].pc = "save" \/ Hydrated(t))
  /\ \E clean \in BOOLEAN :
       carry' = [run |-> Run(t), at |-> clock, clean |-> clean,
                 series |-> Live(t), inputs |-> Stamped(task[t].inputs)]
  /\ Update(t, [task[t] EXCEPT !.pc = IF @ = "save" THEN "views" ELSE "gate"])
  /\ UNCHANGED <<clock, config, latest, archive, views, history, gaps, mimir, runs, refused>>

\* carry.save_state, after the gates and before the label guard has seen the
\* batch.
Save(t) ==
  /\ task[t].pc = "save"
  /\ \E clean \in BOOLEAN :
       carry' = [run |-> Run(t), at |-> clock, clean |-> clean,
                 series |-> Live(t), inputs |-> task[t].inputs]
  /\ Update(t, [task[t] EXCEPT !.pc = "views"])
  /\ UNCHANGED <<clock, config, latest, archive, views, history, gaps, mimir, runs, refused>>

\* Mutant: the guard sees only what the run composed, not what it carries.
LiveBatchClean(t) == t = "t3" => carry.clean

\* guard.check_all on the final batch: t3's is the one it has just saved, t1's
\* holds the series it carries.
BatchClean(t) ==
  /\ t = "t3" => carry.clean
  /\ Carried(t) # {} => task[t].recalled.clean

\* Past the guard: a batch with an unbounded label raises, and leaves only Die.
Publishing(t) == task[t].pc = "views" /\ BatchClean(t)

\* write_views: one object after the other.
WriteView(t) ==
  /\ Publishing(t)
  /\ \E v \in task[t].todo :
       /\ views' = [views EXCEPT ![v] = [by |-> t, run |-> Run(t),
                                         inputs |-> task[t].inputs]]
       /\ Update(t, [task[t] EXCEPT !.todo = @ \ {v}])
  /\ UNCHANGED <<clock, config, latest, archive, carry, history, gaps, mimir, runs, refused>>

\* The samples after the run's push: its live series, and the carried ones.
Pushed(t) ==
  [s \in Series |->
    IF s \in Live(t)
      THEN [by |-> t, run |-> Run(t), at |-> clock, batch |-> 0,
            inputs |-> task[t].inputs]
    ELSE IF s \in Carried(t)
      THEN [by |-> t, run |-> Run(t), at |-> clock, batch |-> task[t].recalled.run,
            inputs |-> task[t].recalled.inputs]
    ELSE mimir[s]]

\* RemoteWriter.push and LokiWriter.push: a failure of either, before or after
\* Mimir took the samples, does not end the run; the exit code will be 3.
Push(t) ==
  /\ Publishing(t) /\ task[t].todo = {}
  /\ mimir' \in {mimir, Pushed(t)}
  /\ Update(t, [task[t] EXCEPT !.pc = "archive"])
  /\ UNCHANGED <<clock, config, latest, archive, views, carry, history, gaps,
                 runs, refused>>

\* The scan of t's run.
Scan(t) == [run |-> Run(t), at |-> task[t].stamp, own |-> task[t].own]

\* write_scan: the timestamped scan first, latest.json second.
Archive(t) ==
  /\ task[t].pc = "archive"
  /\ archive' = [archive EXCEPT ![t] = @ \cup {Scan(t)}]
  /\ Update(t, [task[t] EXCEPT !.pc = "latest"])
  /\ UNCHANGED <<clock, config, latest, views, carry, history, gaps, mimir, runs, refused>>

WriteLatest(t) ==
  /\ task[t].pc = "latest"
  /\ latest' = [latest EXCEPT ![t] = Scan(t)]
  /\ End(t)
  /\ UNCHANGED <<clock, config, archive, views, carry, history, gaps, mimir, refused>>

\* The run is killed, or an S3 write or the label guard raises.  The last write
\* may have been applied although its answer was lost.
Die(t) ==
  /\ Active(t)
  /\ \/ UNCHANGED latest
     \/ task[t].pc = "latest" /\ latest' = [latest EXCEPT ![t] = Scan(t)]
  /\ End(t)
  /\ UNCHANGED <<clock, config, archive, views, carry, history, gaps, mimir, refused>>

\* Time passes, but no run takes longer than MaxCompose from the start of its
\* hydration to its end.
Tick ==
  /\ clock < MaxClock
  /\ \A t \in Tier : Active(t) /\ task[t].pc # "history" =>
                       clock < task[t].asked + MaxCompose
  /\ clock' = clock + 1
  /\ UNCHANGED <<config, store, task, runs, refused>>

Step(t) ==
  \/ Gather(t) \/ RecordHistory(t) \/ Hydrate(t) \/ RateCardFails(t)
  \/ Recall(t) \/ StampGaps(t) \/ Refuse(t) \/ Pass(t) \/ Save(t)
  \/ WriteView(t) \/ Push(t) \/ Archive(t) \/ WriteLatest(t) \/ Die(t)

Next == Reconfigure \/ Tick \/ \E t \in Tier : Step(t)

Spec == Init /\ [][Next]_vars

-----------------------------------------------------------------------------
\* Run n of tier t has published something: a scan, a view or a sample.
Published(t, n) ==
  \/ latest[t] # None /\ latest[t].run = n
  \/ \E e \in archive[t] : e.run = n
  \/ \E v \in View : views[v] # None /\ views[v].by = t /\ views[v].run = n
  \/ \E s \in Series : mimir[s] # None /\ mimir[s].by = t /\ mimir[s].run = n

\* Run n of tier t has left something on the bucket or in Mimir.
LeftTrace(t, n) ==
  \/ Published(t, n)
  \/ t = "t3" /\ carry # None /\ carry.run = n
  \/ t = "t2" /\ (history = n \/ gaps = n)

\* A run that ends "REFUSING all S3, Mimir and Loki writes" (scan.py, the
\* publication floor and the subset refusal) has written nothing: not the carry
\* state, and none of the side state t2 writes while it is still gathering.
RefusedLeavesNoTrace ==
  \A t \in Tier : \A n \in refused[t] : ~LeftTrace(t, n)

\* Input i of a scan that its owner archived, accepted there, in a version the
\* reader understands.
AcceptedByOwner(reader, i, p) ==
  /\ Schema[Owner[i]] <= Schema[reader]
  /\ \E e \in archive[Owner[i]] : e.run = p.run /\ e.at = p.at /\ e.own[i] = "ok"

\* Every input another tier's view was hydrated with can be found, accepted, in
\* a timestamped scan of its owner: no refused, rejected or unfinished gather of
\* one tier ever reaches the views of another.
HydratedInputsAreAccepted ==
  \A v \in View : \A i \in Input :
    views[v] # None /\ views[v].inputs[i].state = "hydrated" =>
      AcceptedByOwner(views[v].by, i, views[v].inputs[i])

\* A tier never fills a gap in its own gather from its own earlier scan, which
\* "would make a broken gatherer look healthy for ever" (hydrate): a published
\* view takes the inputs of the tier that wrote it from the run that wrote it.
NoRevival ==
  \A v \in View : \A i \in Needs[v] :
    views[v] # None /\ Owner[i] = views[v].by /\ Satisfied(views[v].inputs[i]) =>
      views[v].inputs[i].run = views[v].run

\* A view is written only with all it needs, and the one excuse for a missing
\* input is that the configuration of the run that writes it disables it: never
\* that its owner failed, nor that its owner ran under an older policy.
OnlyPolicyExcuses ==
  [][\A v \in View, i \in Input :
       views'[v] # views[v] /\ i \in Needs[v] /\ ~Satisfied(views'[v].inputs[i]) =>
         i \in DisabledOK[v] /\ i \in task[views'[v].by].off]_vars

\* t3 saves its batch before the label guard has seen it (scan.py, save_state),
\* so a batch that the guard refuses outlives the run that failed on it, and the
\* hourly runs of t1 recall it.  It goes no further: the run that saved it
\* publishes nothing, no sample is ever carried from it, a run of t1 that holds
\* some of it publishes nothing either, and it stops no run of t1 once it is
\* older than the cap and one composition.
PoisonIsContained ==
  \A b \in {carry, task["t1"].recalled} : b # None /\ ~b.clean =>
    /\ ~Published("t3", b.run)
    /\ \A s \in Series : mimir[s] # None => mimir[s].batch # b.run
    /\ b = task["t1"].recalled /\ Carried("t1") # {} =>
         ~Published("t1", Run("t1")) /\ clock <= b.at + MaxAge + MaxCompose

\* A sample rests on gathers no older than the one cap; one that was carried,
\* on gathers no older than twice the cap, because the batch was composed under
\* it and recalled under it (carry.MAX_CARRY_AGE, hydrate.MAX_INPUT_AGE).
SamplesWithinTheCap ==
  \A s \in Series : \A i \in Input :
    mimir[s] # None /\ i \in Needs[s] /\ Satisfied(mimir[s].inputs[i]) =>
      mimir[s].at <= mimir[s].inputs[i].at
        + (IF mimir[s].batch = 0 THEN 1 ELSE 2) * (MaxAge + MaxCompose)

\* A run that no other tier's run overlapped leaves its views on what the other
\* tiers published last: what a slower run overwrote with older data is repaired
\* by the next run that has the bucket to itself.
SoloRunIsCurrent ==
  [][\A t \in Tier : latest'[t] # latest[t] /\ task[t].solo =>
       \A v \in View : \A i \in Needs[v] :
         /\ views[v] # None /\ views[v].by = t /\ views[v].run = Run(t)
         /\ views[v].inputs[i].state = "hydrated"
         => /\ latest[Owner[i]] # None
            /\ views[v].inputs[i].run = latest[Owner[i]].run]_vars

\* Violated.  "Every tier ... writes a complete, self-consistent view set"
\* (hydrate): the inputs a view takes from one other tier come from one scan.
HydratedFromOneScan ==
  \A v \in View : \A i, j \in Needs[v] :
    /\ views[v] # None /\ Owner[i] = Owner[j]
    /\ views[v].inputs[i].state = "hydrated"
    /\ views[v].inputs[j].state = "hydrated"
    => views[v].inputs[i].run = views[v].inputs[j].run
=============================================================================
