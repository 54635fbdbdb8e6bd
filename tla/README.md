# Formal verification of grafana-cloud-org-insights

TLA+ specifications of the collector, the TLC instances that check them, and theorems that TLAPS
proves about them. Paths are relative to the repository's root; in [PROJECT.json](PROJECT.json)
every definition that models code names the lines it models, and the same file lists the
components, the runs, a mutant of the code for every property, the hazards and the findings.

    tlc -config PublicationViews.cfg MCPublication     # model-check one instance
    tlapm PublicationProofs.tla                        # check one module's proofs

## 1. The system

The collector scans one Grafana Cloud organisation. It has no server and no database: it is a set
of short-lived ECS tasks started by EventBridge, and everything they know of each other is objects
on one S3 bucket, secrets in the parameter store, and lines in the task log. Operators run a few
tools of its `bin/` by hand.

| part | code | state it keeps | operations |
|---|---|---|---|
| scan driver | `scan.py` | exit code, views, batch, envelope of one run | `main`, `run`, `_run_admitted`, `run_t1`..`run_t4` |
| scan lock | `collector/emit/lock.py` | `locks/<tier>.lock` | `acquire`, `release` |
| hydration | `collector/emit/hydrate.py` | none; reads `scans/<tier>/latest.json` | `hydrate`, `filter_views`, `filter_metrics` |
| carry-forward | `collector/emit/carry.py` | `state/t3-metrics.json` | `save_state`, `load_state`, `carry_forward` |
| S3 writers | `collector/emit/s3.py` | `views/*.json`, `scans/<tier>/*.json` | `write_views`, `write_scan` |
| AI cost history | `collector/emit/ai_history.py` | `state/ai-cost-history.json` | `load`, `merge`, `update` |
| credential gaps | `collector/emit/gapstate.py` | `state/credential-gaps.json` | `load`, `merge`, `update`, `oldest_age_seconds` |
| HTTP fence | `collector/netbound.py` | slots, queue, threads, futures | `bounded_call` |
| HTTP client | `collector/httpclient.py` | token buckets, host slots, deadline | `get`, guarded reads, retries |
| coverage | `collector/coverage.py` | counters of one run, shared by its threads | `record_ok`, `record_failure`, `record_skipped`, `should_abort` |
| guard | `collector/emit/guard.py` | none | `check_all`, `check_no_duplicates` |
| writers | `collector/emit/mimir.py`, `loki.py` | none | one push each |
| diff | `collector/emit/diff.py` | none; reads archived scans | `list_scans`, `select_baseline`, `diff` |
| provisioner | `bin/provision.py`, `collector/provision.py` | secrets; accounts, tokens and roles of each stack | `repair`, `ensure_role`, verification, prune |
| outcome recorder | `collector/outcome_events.py` | event sequence of one run | `start`, `inventory`, `view_write`, `finish` |
| outcome observer | `collector/observer.py` | `views/outcomes/<tier>.json` | `query`, `reduce_projections`, `publish` |
| sources | `collector/sources` | none | requests, and one payload each |
| pillars | `collector/pillars`, `collector/label_rules.py` | none | views and series of the payloads |
| operator's tools | `bin/consumer_manifest.py`, `bin/alerts.py`, `bin/dashboards.py` | manifest and journal; alert rules and dashboards of a stack | `upgrade`, `regenerate`; `publish`, `activate`, `migrate`; `--publish` |
| dashboard builders | `collector/dashboards` | none | JSON of constants |

**How they interact.** Four tiers run on schedules of their own: t1 hourly (inventory), t2 daily
(per-stack sources), t3 six-hourly (data plane), t4 daily (diff). A tier gathers the inputs it
owns, reads the others' from their owners' latest scans, composes every view it has inputs for,
passes two gates (subset refusal; coverage and blocking inputs), saves its carry state (t3), passes
the label guard, and then writes views, samples and its own scan, in that order. The lock excludes
two tasks of one tier; nothing excludes tasks of different tiers. t2 updates two more objects while
it is still gathering: the AI history (compare-and-swap) and the credential gaps (plain put). t1
republishes t3's samples from the carry state. t4 reads the archive that the others write. The
recorder's events go to CloudWatch, from which the observer derives each tier's outcome. All reads
of Grafana go through the client, and through the fence, because neither a DNS lookup nor a slow
body can be interrupted; those of a stack use the token that the provisioner has left in the
parameter store.

**What is hard here.** Every write is a separate process (`aws s3 cp`) that may fail, be lost, be
applied although its answer is lost, or be applied late. A task can be killed between any two. The
deadline bounds HTTP, not the writes after it. Configuration and image can differ between tasks
that run at the same time. Each tier judges what the others left by its own clock and policy.
Lists are paged and events counted while they change. The tools take no lock: two of them, or a
tool and a person in the UI, can change the same thing.

**What makes each part correct.**

- *Lock*: two tasks never scan under valid locks; a lock disappears only by its owner or by expiry;
  a dead task never wedges its tier; while overruns stay within the grace, the lock is a mutex.
- *Publication*: a refused run leaves nothing; a view rests only on what its owners accepted; no
  tier revives its own old gather; a lacking input is excused by policy only; ages are bounded over
  all hops; a run that had the bucket to itself leaves current views.
- *AI history*: an observation is never lost nor goes back; what is published is recorded; departed
  stacks stay out; a reader can always read what writers left.
- *Fence*: no slot lost or doubled; a queued job always has a free worker; nothing starts after its
  caller has gone; every call ends.
- *Client*: pacing, host slots and oversized reads stay within their limits; no request after its
  deadline or before the advice of its host; every call ends.
- *Gap state*: the age of a persisting gap does not shrink; a healed gap's age does not survive.
- *Coverage*: no stack is lost or told twice; a run is refused only for stacks that it really lost;
  t2 accepts no input that is thinner than its floor (of t3 section 3 says what it may accept).
- *Diff*: a window never compares an interval its label does not cover, nor hides one it does.
- *Provisioner*: no token without its secret in the store or its revocation, no Admin account left,
  what is reported provisioned is; a run that has the estate to itself repairs it; edits of others
  are kept.
- *Recorder and observer*: a projection says no more than the records it saw, calls success only a
  whole attempt, and never unlearns what another observer published.
- *Paging readers*: a list that is called complete is one that the source had, as far as it shows it
  to the credential.
- *Figures*: label verdicts, usage and maturity say "unknown" before they say something untrue.
- *Tools*: half an upgrade can be recovered; alerts stay routed; dashboards are whole; edits of files
  and dashboards are not replaced unread; a rule that people changed meanwhile is at worst put back to
  the one state that the command had listed.

## 2. Modules

| module | models | theorems in |
|---|---|---|
| `ScanLock` | `acquire`, `release` and the part of `main` around them, request by request | `ScanLockProofs` |
| `TierMutex` | the abstract mutual exclusion that `ScanLock` implements | |
| `Publication` | `_run_admitted` and the runners t1, t2, t3, with hydration, carry-forward and the S3 writers | `PublicationProofs` |
| `AiHistory` | `ai_history.update`, request by request | `AiHistoryProofs` |
| `Netbound` | `bounded_call` and the worker pool, step by step | `NetboundProofs` |
| `HttpClient` | limiter, slots, attempts, retries and deadlines of the client | `HttpClientProofs` |
| `Provisioner` | `repair`, verification, sweep and prune, request by request, two runs at once | `ProvisionerProofs` |
| `OutcomeEvents`, `Observer` | the recorder of a scan; the observer, which extends it | `ObserverProofs` |
| `GapState` | `gapstate.update` in t2 and its readers in t1 and t3 | `PartsProofs` |
| `EstateDiff` | `run_t4` and `select_baseline` | `PartsProofs` |
| `ManifestUpgrade` | `upgrade`, `regenerate`, rollback and recovery, write by write | `PartsProofs` |
| `AlertRules` | the writing commands of `bin/alerts.py`, rule by rule | `PartsProofs` |
| `DashboardPublish` | `bin/dashboards.py --publish`, request by request | `PartsProofs` |
| `FleetScan` | the thread pool over the stacks, the shared counters, the publication floor | `PartsProofs` |
| `Listing` | the paging of six lists, page by page | `PartsProofs` |
| `LabelVerdicts` | the label inventory of a stack, query by query, and the rules' verdicts | `ObserverProofs` |
| `StackReads` | the count-only product reads and the sweep of their credentials | `ObserverProofs` |
| `UsageInsights` | the usage queries of a day about one stack | `ObserverProofs` |
| `Maturity` | the maturity rubric, dimension by dimension | `ObserverProofs` |
| `Parts` | nothing of its own: puts `Listing`, `FleetScan`, `GapState`, `EstateDiff`, `ManifestUpgrade`, `AlertRules` and `DashboardPublish` side by side and states their properties and assumptions | `PartsProofs` |
| `Survey` | nothing of its own: puts `Observer`, `LabelVerdicts`, `StackReads`, `UsageInsights` and `Maturity` side by side and states the properties and assumptions of the last four | `ObserverProofs` |

`MC<module>` gives a module its constants. `Parts` holds seven modules that share no state, `Survey`
five: the first state chooses which one moves. Operators
whose comment says "Mutant" belong to no specification: each is a plausible mistake in the definition
that follows it, and PROJECT.json says which property finds it.

### ScanLock

A task is started, sends a conditional create, reads the incumbent, judges it, deletes it under its
ETag, creates again, scans, releases. Each AWS request is one action, and its failure another, with
both outcomes where S3 may have applied a request whose answer was lost (or the CLI repeats one).
`Kill` ends a task anywhere. `exit` records how the process ends: `LaterCreateRefused` is the
`PreconditionFailed` that no handler catches. An object is its body and "ETag matches" is equality
of bodies, because S3's ETag is a digest. Every task has a wall clock of its own, ahead of the
slowest by `Skew`. `Tick` lets a task live `MaxOverrun` beyond its deadline: the code has no bound
on its writes, so this is the environment's.

`TierMutex` is what the rest of the system may assume: of the tasks of a tier, one at a time scans.
`Mutex == INSTANCE TierMutex` with the phases of the lock's tasks is the refinement mapping.

### Publication

One state component per bucket object (`latest`, `archive`, `views`, `carry`, `history`, `gaps`),
`mimir` for the last samples, and `task[t]` for the memory of tier t's run; of one tier there is one
run at a time, which is `TierMutex`. A payload is abstracted to its provenance: which run of its
owner gathered it, and when. The actions follow the code's order: `Gather`; `RecordHistory` (t2);
`Hydrate`, one read of the owner's scan per input, as the loop calls its loader; `RateCardFails`,
`Recall` (t1), `StampGaps` (t2); `Refuse` or `Pass` at the gates; `Save` (t3); `WriteView`, one
object at a time, past the label guard; `Push`; `Archive`; `WriteLatest`; `Die` anywhere, with the
last write applied or not. `Reconfigure` changes the policy between and during runs, `Schema` lets
images differ.

Left out: t4 (it is `EstateDiff`, and writes views of its own); dry runs, which write
nothing; exit codes other than whether a run refused; carry-forward's filter by live stacks (its
filter of the Adaptive totals, which are told live or not at all, is there: `LiveOnly`); clock
skew between tasks (`FutureSkew` is there, the skew is not). Inputs are
hydrated in any order, where the code goes alphabetically: more behaviours, never fewer.

### AiHistory

`Gather` takes the snapshot and the inventory; `Head`, `Get` and `Write` are the three requests;
the merge is part of the step that obtains the history, as nothing happens in between. `Abandon`
is a put that is refused, given up or cut off by a kill, and may leave its request in flight; `Land`
is S3 serving it later. `Churn` changes the estate, `Tick` the clock; a writer's clock is ahead of
it by at most `Drift`. ETags compare contents, which is exact for a digest of sorted JSON. The
numbers of an observation are one value, rows are a set, and bytes are not counted (`MAX_BYTES`);
rows are (`MAX_ROWS`).

### Netbound and HttpClient

In `Netbound` a caller acquires a slot, then the startup lock, starts missing threads one by one,
submits, waits, cancels. A worker takes a job, asks whether it was cancelled, runs it, releases the
slot. `Expire` makes a caller's deadline pass in any phase; time is nothing else. `Finish` may never
come. `StartupFails` is the deadline in the startup loop or a thread that cannot be started.

`HttpClient` is the client over that fence: a call hands over an attempt and waits for it no longer
than its timeout; the attempt takes its token, waits for a slot of its host and perhaps for one of
the few oversized reads, is sent, and is answered, fails, is told to wait, or hangs. An attempt that
its caller has given up goes on holding what it holds. The code takes the token before the slot, so
attempts that hang let later ones be sent closer together than they were paced; and a later, shorter
advice of a host replaces an earlier, longer one. Both are as in the code, and the properties say
what holds nevertheless.

### Provisioner

Every request of `repair` to gcom, to the stack and to the parameter store is an action, with the
decisions between them: plan, Admin account, role (with its version), reader account, token, secret,
verification, revocation of the old token, deletion of the Admin account, sweep, prune. A request
may be refused; a write may be applied and its answer lost; a run may die; `Churn` changes a stack
from outside. Four permission pairs stand for the kinds that the reconciliation tells apart.
`UNEXPLAINED_403` of `plan_action` is left out: no caller can reach it.

### OutcomeEvents and Observer

An attempt's recorder consumes a sequence number per record, may lose the record, is refused when
it is out of order, and dies anywhere. An observer queries the log (cut off, failing, spoilt by
lines that do not belong, or behind the log's delivery), reads the priors, reduces each tier's
records with what it remembers, and publishes by compare-and-swap. Recorders go first: a query sees
half an attempt by being of an earlier time or by missing its last records.

### GapState, EstateDiff, FleetScan

`GapState` has t2's read, merge and write of the gaps' stamps with their failures, and the readers;
a read that fails is an empty object, as in the code, and restarts the ages. `EstateDiff` goes
through the windows as `run_t4` does: list t3's archive, choose a pair, load it, else t1's, else
leave the window out, while scans are archived and expire. `FleetScan` is one run's pool of threads
over the stacks: `Counter`'s `+= 1` is two steps while a key is missing, so two threads may lose an
increment. The source reports and the floors are those of `scan.py`, with one source of each kind of
population: stacks that are not paused, stacks that the counters leave, those of them that have the
data source (synthetic monitoring), and the organisation.

### ManifestUpgrade, AlertRules, DashboardPublish

`ManifestUpgrade` writes journal, Terraform file and manifest one by one; each write may fail before
or after the file is replaced, and the command may be interrupted anywhere. The operator edits
between commands, of which one runs at a time. `AlertRules` lists the rules, checks
them (`preflight`), and writes one rule after the other, for `publish`, `activate` and `migrate`,
while people pause, route and delete rules in the UI; one command runs at a time. `DashboardPublish` has two
commands that read, write and read back one dashboard after the other, while people save them; a
version is who saved it and what is in it, and Grafana may add defaults to what it stores or, when
something goes wrong, change it.

### Listing, LabelVerdicts, StackReads, UsageInsights, Maturity

These are what sources and pillars do that is more than parsing. `Listing` reads a list page by page
while its rows come, go and move, with each reader's own test of completeness; a stack gives the list
that the reader's credential may see, which may lack rows (`hidden`), and answers 200. `LabelVerdicts`
measures one signal's labels with queries that may fail, be cut at a bound or warn, validates what
was measured and judges the rules. `StackReads` sweeps the credential store, which is being rotated,
then reads a product from each stack and takes each kind of answer for what the reader takes it.
`UsageInsights` asks a day's queries one after the other while events of the day still arrive, and
makes figures of the answers. `Maturity` scores a stack dimension by dimension; the sum of the
weights is that of the doubles, exactly.

## 3. What is checked

| run | instance | shows |
|---|---|---|
| `lock` | two contenders, a task that bypasses the lock, one clock ahead, overrun + skew = grace, fair requests | exclusion under valid locks, removal only by owner or expiry, the refinement of `TierMutex`, a stale lock is broken |
| `publish_views` | one view from one input of t2 (may be disabled) and one of t3, two runs of t2, one each of t1 and t3, t3's image older | provenance, no revival, policy, repair by a run that is alone |
| `publish_refused` | billing, assistant and data plane inputs, a carried and an Adaptive series, one run per tier | refused runs leave no trace, in carry and side state too |
| `publish_age` | one carried series, five units of time, a cap of one | the ages of three hops add up to two caps; a batch saved before the label guard refused it goes no further |
| `publish_torn` | two inputs of t2, two runs of t2 | **violated**: a view mixes two scans of one tier |
| `ai_history` | two writers of two runs, two stacks, two months under a retention of one, clocks one unit apart | no lost observation, recorded publication, departed stacks, readability |
| `netbound` | two callers of two calls, two workers | slots, room, no abandoned start, every call ends |
| `http_client` | a call that may be retried and two oversized reads, a paced host and another, one slot each, advice of one and of two units | limits, deadlines and advice, every call ends |
| `provisioner` | two runs, a stack in use and a skipped one; one lost answer or death, or one change from outside | tokens and Admin accounts accounted for, true reports, repair by a run that is alone, edits of others, pruning |
| `provision_stuck` | the same | **violated**: a lost token keeps its stack without a credential |
| `survey` | two attempts and two overlapping observers of one tier; `LabelVerdicts`, `UsageInsights`, `Maturity`, `StackReads` | sound projections, success only of whole attempts, nothing unlearned; sound verdicts; figures that add up, fair ranking, counts of what was there |
| `parts` | the seven modules of `Parts` | per module: coverage, ages of gaps, baselines, recovery of upgrades, routed alerts, whole dashboards, edits that are respected, true listings |

**Why these bounds.** Every hazard behind these properties is a race of two parties, or of one
party with its own past (a request that was lost, a lock that expired, an operation that hangs), and
the instances hold both. Two runs of an owner are needed to tell a current input from an old one;
two calls of a caller, to tell a job it abandoned from the one it waits for; two attempts and two
observers, to see a slow observer overwrite a faster one. Clocks run past every expiry, cap and
retention involved: five units against a deadline plus grace of three, five against a cap
of one, three (and a drift of one) against a month of two, four against a timeout of two and a
deadline of three. The runs at clock zero ask questions of order only. Of the smaller parts:
three stacks and two threads (a lost increment needs two) and four sources beside the stacks' detail, one of each population and kind of share; two windows of which each
refuses something the other takes; three faults for an upgrade (a write, its rollback, and the
recovery); one alert with a title of old and one without; two publishers of two dashboards; two
pages of two rows, four rows and up to two hidden ones; three labels under bounds that cut rows, names, keys, or nothing;
two stacks, the second of which shows that the first's troubles stay its own.

Names that begin with `Max` bound what the code leaves unbounded: runs, faults, edits, time. Most
only end the exploration. `MaxOverrun`, `MaxSkew` and `MaxCompose` are assumptions about the
environment that appear in the properties that depend on them. `ReportedIsProvisioned` needs
`MaxTrouble` to be one and says so: with two (a lost answer to the put of the secret, and an Admin
account that another run could not delete) a run can revoke the token that another has just called
working. The theorems hold for every value of all the other bounds.

Deadlock is not checked: every instance is finite, and a task that has ended has no more steps.
Symmetry is used where the permuted constants are interchangeable and no liveness is checked.

**Fairness.** `ScanLock!FairSpec` assumes that a request the AWS CLI has sent is answered (its own
connect and read timeouts), and nothing of launches, scans, kills or time. `Netbound!FairSpec`
assumes that threads are scheduled and that deadlines pass, and nothing of the operations: the
fence exists because they may hang. `HttpClient!FairSpec` assumes the same of callers and time, and
nothing of what hosts answer.

**Disagreements found.** Two have a run:

1. `publish_torn`: `collector/emit/hydrate.py:40` promises self-consistent view sets. The owner's
   scan is loaded once per input, so a view can take its inputs from two scans.
2. `provision_stuck`: `collector/provision.py:28` and `:615` promise that a crash between mint and
   put is repaired. The lost token holds the one name there is, and every later mint is refused.

Others were met while modelling, and reproduced by runs that are not kept:

3. `collector/emit/lock.py:18` says a scan is killed by its deadline before its lock can be stale.
   The deadline bounds the client's requests; composing and writing are unbounded, and past the
   grace a live run is overtaken. `NeverOvertaken` proves the condition under which it is not.
4. `scan.py:2275` says a lost lock is "not a crash". `acquire` catches the refusal of its first
   create only; a task that loses the second ends with a traceback.
5. `scan.py:2049` persists "the accepted T3 batch", but before the label guard has judged it, and a
   rejected one then stops t1 while it is young enough to be carried. `PoisonIsContained` says that
   this is all it does.
6. `maturity.py` compares a sum of doubles with 0.8: eleven of the fourteen ways to cover exactly 80%
   of the weight give 0.7999999999999999, and the stack is not ranked, although
   `maturity_summary` publishes the bar as 80% and more.

And what the code does that a reader may not expect; the properties are stated so that they hold
nevertheless:

- `FleetScan`: a source's coverage is the smaller of two counts, whichever stacks they are of; an
  estate whose stacks are all paused has nothing to cover and is published; lost increments of the
  counters can let a t3 scan pass that is thinner than `coverage.py:13` promises (t2's inputs cannot).
  A stack that t2's own route skipped with a 409, and that also answers to have no synthetic data
  source, is taken off the expected count twice (`scan.py:623`), so that a source which misses another
  stack passes.
- `Provisioner`: a stack that is gone when a run begins, and comes back while it is under way, can lose
  its secret to that run's prune, which knows only the estate and the store of its start; the property
  excuses that, and the next run provisions the stack again.
- `GapState`: a read that fails restarts the ages, against `gapstate.py:63`; a credential that is
  unavailable for a moment counts as a gap.
- `EstateDiff`: t3's archive is preferred even when its newest scan is old and t1's is not.
- `ManifestUpgrade`: when the journal is unlinked and the sync after it fails, the rollback runs
  with no journal to recover it from; `check` still tells that the files disagree.
- `AlertRules`: a plain publish puts back the pause and the routing that it listed, over what people
  set between its listing and its write (`bin/alerts.py:698`), although its help text says it "leaves
  an existing rule's live state alone" (`:765`) and its last line that "existing rules kept whatever
  pause and routing they already had" (`:890`).
- `DashboardPublish`: a transport error stops the remaining dashboards; what Grafana makes of
  variables, titles and the options of its own panels is not verified.
- `Listing`: the endpoint of the public dashboards "answer[s] 200 with a permission-filtered list"
  (`public_dashboards.py:5`), and `probe_stack`, which is to "refuse to call a partial response
  successful" (`:76`), has no witness of what its token may see: a filtered list is available, with a
  total that is the filtered one's. The same holds of service accounts. `CAPABILITIES.md:231` and
  `docs/credentials.md:129` trust a zero only after the role pair is confirmed, which neither reader
  asks. The panels' reader asks; the dashboards' is held against the inventory's count.
- `Listing`: service accounts are not checked for duplicates, so a list whose rows change places can
  be called complete with one row twice and one missing.
- `LabelVerdicts`: only metrics can ever be complete, so only they can pass; three rules are never
  evaluated.
- `UsageInsights`: an event that arrives between two queries can make the day of a stack malformed,
  or leave a user, a type or an error out of the remainder.
- `HttpClient`: attempts that hang bunch the ones behind them; a shorter advice shortens a longer.
- `Observer`: what an overlapping slower observer merges from a query that was cut off is trusted
  by a later one; two newer attempts that began at the same time hide an older last success.

## 4. What is proved

For all constants that satisfy the named assumptions of each module or theorem (sizes, bounds,
clocks, owners, needs, tables: none is fixed), with no state-space bound:

| theorem | property | argument |
|---|---|---|
| `ScanLockProofs!SafetyInvariant` | `SafetyInv` | inductive as stated |
| `ScanLockProofs!ValidLocksExclude` | `ExclusiveWhileValid` | both would be the one object in S3 |
| `ScanLockProofs!OnlyOwnerOrExpiryRemoves` | `RemovedOnlyByOwnerOrExpiry` | what is about to be broken has expired |
| `ScanLockProofs!NeverOvertaken` | `LiveRunNeverOvertaken` | if `MaxOverrun + MaxSkew <= Grace`, every scanning task's lock is valid |
| `ScanLockProofs!LockImplementsMutex` | `ImplementsMutex` | the same condition; step by step |
| `PublicationProofs!RefusedRunsLeaveNoTrace` | `RefusedLeavesNoTrace` | `TraceInv` |
| `PublicationProofs!ViewsRestOnAcceptedScans`, `NoTierRevivesItself`, `OnlyPolicyExcusesViews` | `HydratedInputsAreAccepted`, `NoRevival`, `OnlyPolicyExcuses` | `SourceInv` |
| `PublicationProofs!SoloRunsAreCurrent` | `SoloRunIsCurrent` | `SoloInv` |
| `PublicationProofs!SamplesAreBounded` | `SamplesWithinTheCap` | `AgeInv` |
| `PublicationProofs!PoisonStaysContained` | `PoisonIsContained` | `PoisonInv` |
| `AiHistoryProofs!NothingIsLost`, `PublishedStays`, `NoStackReturns`, `AlwaysReadable` | `ObservationsOnlyAdvance`, `PublishedIsRecorded`, `DepartedStaysOut`, `HistoryIsReadable` | `Inv` |
| `NetboundProofs!NoSlotIsLost`, `EveryJobHasRoom`, `NoAbandonedStart` | `SlotsAccounted`, `RoomForEveryJob`, `AbandonedNeverStarts` | `Inv` |
| `HttpClientProofs!LimitsAreKept`, `RequestsGoInTime` | `LimitsKept`, `SentInTime` | `Inv` |
| `ProvisionerProofs!Invariance` | | the inductive invariant |
| `ProvisionerProofs!CredentialsHaveOwners`, `ReportsAreTrue`, `CleanRunsSettle` | `CredentialsAccounted`, `ReportedIsProvisioned`, `CleanRunSettles` | follow from it |
| `ProvisionerProofs!ForeignPairsAreKept`, `LivingAreSpared` | `ForeignPairsStay`, `PruneSparesTheLiving` | step by step |
| `ObserverProofs!Invariance` | | the inductive invariant |
| `ObserverProofs!StoreStaysSound`, `SuccessesAreWhole`, `NothingIsUnlearned` | `StoreIsSound`, `SuccessIsWhole`, `NothingUnlearned` | follow from it |
| `PartsProofs!FleetStaysCovered` | `FleetIsCovered` | `FleetInv` |
| `PartsProofs!GapAgesHold` | `GapAgesAreTrue` | `GapInv` |
| `PartsProofs!BaselinesHold` | `BaselinesAreHonest` | `DiffInv` |
| `PartsProofs!UpgradesRecover` | `UpgradeIsRecoverable` | `UpgradeInv` |
| `PartsProofs!AlertsAreRouted` | `AlertsStayRouted` | `AlertInv` |
| `PartsProofs!DashboardsStayIntact` | `DashboardsAreIntact` | `DashInv` |
| `PartsProofs!EditsAreRespected` | `OperatorsDecide` | the last three |
| `PartsProofs!ListingsStayTrue` | `ListingsAreTrue` | `ListInv` |
| `ObserverProofs!VerdictsStaySound` | `VerdictsAreSound` | `LabelsInv` |
| `ObserverProofs!ReadsStayTrue`, `UsageStaysTrue`, `RankingStaysFair` | the parts of `FiguresAreTrue` | `ReadsInv`, `UsageInv`, `RankInv` |
| `ObserverProofs!FiguresStayTrue` | `FiguresAreTrue` | the three together |
| `TypeCorrect` in six of the modules | `TypeOK` | inductive; in `Netbound` and `HttpClient` it needs the accounting of slots |

Type invariants are proved rather than run: no run lists them, but for those that are a conjunct of
a property.

**Why the properties are not inductive by themselves.**

- *SafetyInv.* Exclusion says nothing of a task that is about to delete. The invariant adds that an
  unexpired lock of a scanning task is the object in S3 (`ValidLockInPlace`) and that whoever is
  about to break a lock read an expired one (`BreaksOnlyStale`), which clocks keep true. `Deadlines`
  ties expiry to the task's age, and gives `NeverOvertaken` under its condition.
- *TraceInv.* A refused run must not have written, so every run that has written is one that the
  gates will pass (`Admissible`), and stays so: the verdicts it rests on are not changed later,
  except for the AI billing input, whose rejection does not block (`BillingAssumption`).
- *SourceInv.* What a view says of an input is what the task's memory says, and what that says is in
  the owner's archive; the archive only grows, `latest` is in it, and a task about to write
  `latest` has archived that scan.
- *AgeInv.* Each hop has its own bound: hydrated inputs are younger than the cap when asked for, a
  run stays within `MaxCompose` of that, and a saved batch, wherever it is (bucket or t1's memory),
  is at most a cap and a composition older than what it rests on.
- *PoisonInv.* Every batch on the bucket or in t1's memory names the run of t3 that saved it, two of one
  run agree on whether the guard would pass them (`AtHand`), and a run that holds some of one that it
  would not has not come past the guard (`Dirty`): the run that saved it because it still stands at its
  views, one of t1 because what it carries is in its own batch. How old such a batch may be when it
  still stops t1 is `AgeInv`'s business.
- *SoloInv.* As long as a run is alone, what it was hydrated with is in its owners' last scans, because
  a step of any other tier ends its solitude; what it has written is what it was hydrated with.
- *AiHistory!Inv.* A put, in a task or in flight, replaces only the contents it expects, with a
  readable history that covers them. The lemma behind it is that "covered" is transitive although
  retention drops months in between (`CoversTransitive`, from `NewestMonthsStay`: the newest k
  months of a set that grew contain the newest k of the old one, as far as they are still new).
- *Netbound!Inv.* Slots are counted over callers on their way, queued jobs and busy workers; with it
  go that the pool is up once anyone submits, and that a pending job's caller still waits for it.
- *HttpClient!Inv.* Who holds a slot stands in exactly one place (`Placed`), free slots and holders
  add up (`SlotsAccounted`), tokens handed out are not more than time has made (`Paced`), and an
  attempt is either its caller's present one, within the time that is left, or has been given up
  (`WaitedForOrLate`). The delay of a retry is taken as bounded by `BackoffCap`: the solver has no
  type for `2^n`.
- *ProvisionerProofs!Inv.* For each step of a repair, what the run's memory may hold (`Fit`); for
  each pair of runs at one stack, that no two hold the same account or token (`Apart`); for each
  stack, whose its tokens and accounts are (`Kept`) and what a probe that answered "ok" still
  guarantees (`Trusted`). How a run's memory moves is said once (`Tame`), and most steps need no more.
  A run that is alone has a second invariant (`Lonely`, `Lone`), step by step towards a settled stack.
- *ObserverProofs!Inv.* Records say of their recorder only what is true (`Recorded`); every
  projection, in the bucket or in an observer's memory, rests on records that exist and is whole
  where it says success (`Good`); what an observer holds of a tier is what the prefixes it has seen
  say (`Informed`). Merging keeps all three, whichever side is older.
- *FleetInv.* A stack is in one place: it waits, a thread has it, or it is told in one way
  (`FleetPlaces`). What the counters of some reasons have counted is a set of pairs (`Ticks`), and a
  thread that names its stack adds at most one to it (`OneTick`), so the counters never exceed the
  stacks named (`FleetCounts`). A lost increment therefore lowers the failures and raises the
  denominator, never the reverse, which is what both gates rest on (`LossIsLarger`, `LessIsCovered`).
- *GapInv.* Stamps in the run's memory are already those of its gaps: each between the beginning of
  the gap (`Began`, which the object tells, or the run) and the time it was merged; unless a read
  failed, they are those of the object.
- *DiffInv.* What is published or being loaded fits its window (`Compared`, `Chosen`), windows to come
  have nothing published (`Ahead`), and windows and sources passed over had no pair (`Behind`,
  `Tried`). That the choice of `select_baseline` refuses only what it must rests on the windows'
  labels reaching as far above the target as below, which those of `diff.WINDOWS` do, and on the
  minimum interval being positive. That a nearest scan exists is an induction over numbers, by a
  minimal element of a well-founded relation.
- *UpgradeInv.* The journal's two pairs match except for the revision (`Matched`), each file is one
  of its two (`Known`), and at each step of a command exactly the files written so far are the new
  ones (`Reached`).
- *AlertInv.* The live rules are `Sound` (single, routed, titled), what the command remembers was
  (`Checked`), nobody has added a rule of ours beside an alert's (`NoneBesides`), and where it has
  activated a rule, that rule is active unless somebody touched it (`Active`); `Kept` says the same
  of the state that a plain publish carries over.
- *DashInv.* Each command has published all of what it has been at, or knows that it has failed
  (`Honest`), and a version saved by a command is as built as far as that command has called it so
  (`Intact`).
- *ListInv.* The properties speak of the end; the invariant says what each reader's witness is worth
  meanwhile. For those that count (`ListCounted`): while nothing went, all that has been read is
  there, and while nothing came, what has been read and what is there are together no more than was
  counted, so a reader that has as many rows as the count has all of them. `dashboards` ends at a
  short page instead, which tells that the list is no longer than the count. Nobody asks whether an
  account comes twice: there it takes the order of the list (`ListInOrder`), what has been read is
  its beginning. For those that follow continuations, what stayed has been read or is on a page or in
  a region to come (`ListFollowed`). Rows that are hidden enter nothing that is read, but the count of
  the inventory, with which the dashboards' reader is held against them. The lemmas below it say what becomes of places and of lengths
  when a row is put into a sequence or taken out of it.
- *LabelsInv.* A stack has never less than in the beginning (`LabelsGrow`), so what a read has seen
  is a witness both ways, and the invariant says of every input for what (`Tells`): a sample of
  values is no more than some label has now, an identity that was seen is there, one that was not, in
  a whole list, was not there in the beginning, and shapes that a whole input lacks were not there
  either. A sample does not keep its label's name, so that nothing was overlooked is said with the
  keys (`LabelsRead`): each label that has been passed has a sample with all it had in the beginning
  (`Covers`), unless the sample says that its population is not known, which blinds the rule, or the
  input is no longer whole. After the last key that holds of every label (`LabelsCovered`).
  `LabelsForm` is what the validator looks at. Of all the inputs a step has to be looked at only
  where it changes one (`InputsKeep`).
- *ReadsInv.* A record that is available says of what was noted when it was listed what the answer
  said of it (`Honest`), which rests on what each reader lets pass (one lemma per reader); synthetic
  monitoring asks three times, and the answers in between are kept (`ReadsAsked`). A page of the store
  has given what was there, and what was there stays (`ReadsTokens`). Errors are as many as records
  that are not available, or else the sweep has ended before its last page and there are no records
  (`ReadsErrors`).
- *UsageInv.* The log only grows, so an answer lies between what it would have been at the first query
  and what it would be now, and the invariant says that of every answer so far (`Told`, `Within`). The
  surface `other` is what the other answers leave, so of two counts taken at different times: it is no
  more than the requests from elsewhere (`Left`), as the total was asked first. What was opened when
  the catalogue was read is opened still (`Looked`). The properties about a finished day follow, by
  counting, from what is known of all its answers (`Complete`, `Bracketed`).
- *RankInv.* The score is a quotient at the end of the rubric; the invariant keeps the sum on the way
  between the least and the greatest of the points so far, each by all of the weight so far
  (`Between`), and, without the data plane, the weight to what the other dimensions can come to
  (`ThinWeight`), of which the last is below the floor.

**Assumed.** The assumptions that the modules name, which every run evaluates: bounds are naturals,
sets of threads and stacks are finite, model values are distinct from data, owners and needs have
their types, `BillingAssumption`, for the windows `DiffAssumption`, for the floors
`FleetAssumption` (no more than everything may be missing), and for the lists `ListAssumption` (at
least one region, finitely many rows, two or more, and no fewer than a page has), and for the labels
`LabelAssumption` (the bounds are naturals, and a rule fails from two values at the earliest), and
`ReadAssumption` (there is a stack, and holdings are of objects), `UsageAssumption` (finitely many
events, at least one row of the mix) and `RankAssumption` (counts are naturals, and a rule that passes is
evaluated and applies); the code's tables satisfy all of them.
`ForeignPairsAreKept` assumes that the server refuses stale versions (`VersionChecked`),
`ReportsAreTrue` that no more than one thing goes wrong.

**Only model-checked.**

- `StaleLockIsBroken` and `CallsEnd`: liveness needs ENABLED, which the prover does not handle.

## 5. Not modelled, and the plan

The sources and pillars that are not in section 2, the dashboards' definitions (most of
`bin/dashboards.py`, all of `collector/dashboards`), the series budget and the rate card are data and
data transformations with no shared state; what they contribute to the protocol (which view needs
which input, a gather that fails) is a constant or a choice in `Publication` and `FleetScan`. Guard,
Mimir and Loki writers appear as their verdicts and failures. Configuration and identity are read
once. Tests, fixtures, probes and the Terraform of the deployment are not behaviour of the program.
The components' notes in PROJECT.json say what is left out of each part that is modelled partly.

What could follow, in this order:

1. That `Publication` over one `ScanLock` per tier, instead of its assumption, refines `Publication`.
2. Exit codes of a run (`README.md:245` documents 3 for a failed publication, an S3 failure ends with
   1), carry-forward's filter by live stacks, clock skew between tasks.
3. The remaining readers with a protocol of their own: fleet, alert routing and signal inventory.
