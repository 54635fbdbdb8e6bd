----------------------------- MODULE Observer -----------------------------
(* collector/observer.py: scheduled observers query the task logs, merge what *)
(* they find into what earlier ones recorded, and publish one projection per  *)
(* tier by compare-and-swap.  Observers may overlap; a query may be cut off,  *)
(* fail, or miss what the log service has not delivered yet.                  *)
(*                                                                            *)
(* Observers change nothing that recorders read, and a query may be of any    *)
(* time and miss any last records.  So the recorders go first, and a query    *)
(* sees an attempt half done by being of an earlier time.                     *)
EXTENDS OutcomeEvents

CONSTANTS
  Observing,  \* observer tasks
  Lookback,   \* LOOKBACK_SECONDS
  Deadline,   \* deadline_seconds and the tolerance of 300 s
  MaxAttempts,\* MAX_ATTEMPTS
  MaxRuns     \* bound: observer runs

ASSUME ObserverAssumption ==
  Lookback \in Nat /\ Deadline \in Nat /\ MaxAttempts \in Nat /\ MaxRuns \in Nat

VARIABLES
  store,   \* views/outcomes/<tier>.json
  obs,     \* the memory of each observer
  runs     \* bound

observers == <<store, obs, runs>>
vars == <<recorders, observers>>

RowState ==
  {"unknown", "running", "incomplete", "ambiguous", "success", "failed", "acknowledged"}
Row == [state : RowState, attempt : Attempt \cup {None}]
Unobserved == [state |-> "unknown", attempt |-> None]

\* The window, the private replay state, and the rows that are shown.
Projection ==
  [generated : Nat, completed : Nat \cup {None},
   state : {"complete", "partial", "unavailable"},
   events : SUBSET Event, conflict : SUBSET Attempt,
   lastInventory : Event \cup {None}, lastView : [View -> Event \cup {None}],
   attemptRow : Row, inventoryRow : RowState, viewRow : [View -> RowState]]

Memory ==
  [pc : {"idle", "read", "publish", "reread"}, now : Nat,
   state : {"complete", "partial", "unavailable"},
   records : SUBSET Event, invalid : BOOLEAN,
   prior : [Tier -> Projection \cup {None}],
   todo : SUBSET Tier, tier : Tier \cup {None},
   tries : 0 .. 3]
Idle ==
  [pc |-> "idle", now |-> 0, state |-> "complete", records |-> {},
   invalid |-> FALSE, prior |-> [t \in Tier |-> None], todo |-> {},
   tier |-> None, tries |-> 0]

ASSUME NoneAssumption == None \notin Nat /\ None \notin Event /\ None \notin Projection

\* What the first observer leaves before any scan: it had no priors.
First ==
  [generated |-> 0, completed |-> 0, state |-> "partial",
   events |-> {}, conflict |-> {},
   lastInventory |-> None, lastView |-> [v \in View |-> None],
   attemptRow |-> Unobserved, inventoryRow |-> "unknown",
   viewRow |-> [v \in View |-> "unknown"]]

\* Within the bounds, to begin with no objects takes the place of a fault.
Init ==
  /\ InitRecorders
  /\ \/ faults = 0 /\ store = [t \in Tier |-> First]
     \/ faults = 1 /\ store = [t \in Tier |-> None]
  /\ obs = [o \in Observing |-> Idle]
  /\ runs = 0

-----------------------------------------------------------------------------
(* The records of one attempt.                                                *)

Started(a) == att[a].started   \* every record carries it, and its tier
TierOf(a) == att[a].tier
Of(a, events) == {e \in events : e.attempt = a}

\* Records up to the first number that is missing.
Contiguous(a, events) ==
  LET numbers == {e.sequence : e \in Of(a, events)} IN
  {e \in Of(a, events) : 1 .. e.sequence \subseteq numbers}

\* Transitions that no recorder makes, or time that runs backwards.
Illegal(a, events) ==
  LET prefix == Contiguous(a, events)
      Before(e) == {f \in prefix : f.sequence < e.sequence}
      Reads(e) == {f \in Before(e) : f.kind = "inventory_result"}
  IN
  \E e \in prefix :
    \/ \E f \in Before(e) : (f.kind = "attempt_finished" \/ f.at > e.at)
    \/ (e.sequence = 1) # (e.kind = "attempt_started")
    \/ /\ e.kind = "inventory_result"
       /\ \E f \in Before(e) : f.kind \in {"inventory_result", "view_write_result"}
    \/ /\ e.kind = "view_write_result"
       /\ \/ \A f \in Reads(e) : ~f.ok
          \/ \E f \in Before(e) : f.view = e.view
    \/ /\ e.kind = "attempt_finished"
       /\ Reads(e) = {} \/ (e.ok /\ \E f \in Reads(e) : ~f.ok)

\* _legal_prefix: none of a conflicting trace is trusted.
LegalPrefix(events, conflict) ==
  UNION {Contiguous(a, events) : a \in {e.attempt : e \in events} \ conflict}

\* The attempts whose traces are refused.
Refused(events, flagged) ==
  {a \in {e.attempt : e \in events} : a \in flagged \/ Illegal(a, events)}

\* _latest of records that are alike: by the start of their attempt; a tie of
\* attempts has none.
Latest(candidates) ==
  LET newest == {e \in candidates :
                   \A f \in candidates : Started(f.attempt) <= Started(e.attempt)}
  IN
  IF Cardinality({e.attempt : e \in newest}) # 1 THEN None
  ELSE CHOOSE e \in newest : \A f \in newest : f.sequence <= e.sequence

-----------------------------------------------------------------------------
(* reduce_projections.                                                        *)

\* What a prior vouches for: all of its prefixes if its observation was
\* complete, and its last successes in any case.
Vouches(p) ==
  {e \in LegalPrefix(p.events, Refused(p.events, p.conflict)) :
     \/ p.state = "complete"
     \/ e = p.lastInventory \/ \E v \in View : e = p.lastView[v]}

\* The records of all tiers, old and new, and what is to be made of them.
Merge(m) ==
  LET priors == {m.prior[t] : t \in Tier} \ {None}
      events == {e \in m.records \cup UNION {p.events : p \in priors} :
                   Started(e.attempt) >= m.now - Lookback}
      conflict == Refused(events, UNION {p.conflict : p \in priors})
      spoilt == conflict # {} \/ m.invalid
  IN
  [now |-> m.now, end |-> IF m.state = "unavailable" THEN None ELSE m.now,
   events |-> events, conflict |-> conflict,
   prefix |-> LegalPrefix(events, conflict),
   trusted |-> IF m.state = "complete" /\ ~m.invalid THEN events
               ELSE UNION {Vouches(p) : p \in priors},
   spoilt |-> spoilt,
   state |-> IF spoilt THEN "partial" ELSE m.state]

\* The state of the newest attempt; traces that overlap establish none.
AttemptState(g, a, overlapped) ==
  LET last == {e \in g.prefix : e.attempt = a /\ e.kind = "attempt_finished"} IN
  IF overlapped \/ a \in g.conflict THEN "ambiguous"
  ELSE IF ~(Of(a, g.events) \subseteq g.prefix) THEN "incomplete"
  ELSE IF last # {}
  THEN IF \A e \in last : ~e.ok THEN "failed"
       ELSE IF g.state = "complete" THEN "success" ELSE "incomplete"
  ELSE IF g.now > Started(a) + Deadline THEN "incomplete" ELSE "running"

InventoryState(g, a) ==
  LET reads == {e \in g.prefix : e.attempt = a /\ e.kind = "inventory_result"} IN
  IF reads = {} \/ TierOf(a) \in Unread THEN "unknown"
  ELSE IF \A e \in reads : ~e.ok THEN "failed"
  ELSE IF reads \subseteq g.trusted THEN "success" ELSE "unknown"

ViewState(g, e) ==
  IF e \notin g.prefix THEN "unknown"
  ELSE IF ~e.ok THEN "failed"
  ELSE IF e \in g.trusted THEN "acknowledged" ELSE "unknown"

\* An attempt that may still have run when a later one began.
Overlaps(g, a, start) ==
  /\ Started(a) < start
  /\ ~\E e \in g.prefix :
        e.attempt = a /\ e.kind = "attempt_finished" /\ e.at < start
  /\ Started(a) + Deadline >= start

\* The interval of a later observation is kept, and its state unless this one
\* found something wrong.
Window(g, prior) ==
  IF /\ prior # None /\ prior.completed # None
     /\ g.end = None \/ prior.completed > g.end
  THEN [completed |-> prior.completed,
        state |-> IF g.spoilt THEN "partial" ELSE prior.state]
  ELSE [completed |-> g.end, state |-> g.state]

\* Mutant: the label is always this observer's own clock.
OwnClock(g, prior) == g.now

Generated(g, prior) ==
  IF prior = None \/ prior.generated <= g.now THEN g.now ELSE prior.generated

\* The projection of one tier.  Of a tie of attempts no one is named.
Project(g, t, prior) ==
  LET events == {e \in g.events : TierOf(e.attempt) = t}
      attempts == {e.attempt : e \in events}
      newest == {a \in attempts : \A b \in attempts : Started(b) <= Started(a)}
      chosen == CHOOSE a \in newest : TRUE
      overlapped == \/ Cardinality(newest) > 1
                    \/ \E a \in attempts : Overlaps(g, a, Started(chosen))
      successes == {e \in events \cap g.prefix \cap g.trusted : e.ok}
      Writes(v) == {e \in events : e.view = v}
      latest == [v \in View |-> Latest(Writes(v))]
      window == Window(g, prior)
  IN
  [generated |-> Generated(g, prior),
   completed |-> window.completed, state |-> window.state,
   events |-> events, conflict |-> g.conflict \cap attempts,
   lastInventory |-> IF t \in Unread THEN None
                     ELSE Latest({e \in successes : e.kind = "inventory_result"}),
   lastView |-> [v \in View |-> Latest(successes \cap Writes(v))],
   attemptRow |->
     IF attempts = {} THEN Unobserved
     ELSE [state |-> AttemptState(g, chosen, overlapped),
           attempt |-> IF Cardinality(newest) > 1 THEN None ELSE chosen],
   inventoryRow |->
     IF attempts = {} THEN "unknown"
     ELSE IF overlapped THEN "ambiguous" ELSE InventoryState(g, chosen),
   viewRow |-> [v \in View |->
     IF Writes(v) = {} THEN "unknown"
     ELSE IF latest[v] = None THEN "ambiguous" ELSE ViewState(g, latest[v])]]

\* More attempts than the cap, in any tier, and nothing is published.
Fits(g) ==
  \A t \in Tier :
    Cardinality({e.attempt : e \in {f \in g.events : TierOf(f.attempt) = t}})
      <= MaxAttempts

-----------------------------------------------------------------------------
Become(o, m) == obs' = [obs EXCEPT ![o] = m]
Reads == UNCHANGED <<recorders, store, runs>>

\* The records of a time.  A query may miss the last records of any task.
Until(now) == {e \in log : e.at <= now}
Delivered(now) ==
  {{e \in Until(now) : e.sequence <= cut[e.attempt]} :
     cut \in [Attempt -> 0 .. Cardinality(View) + 3]}

Answer(state, records, invalid) ==
  [state |-> state, records |-> records, invalid |-> invalid]

\* query: complete, or in trouble: behind the log service; cut off on a later
\* page, which come in the order of time; failed on the first; or spoilt by a
\* record that does not parse.
Query(o) ==
  /\ obs[o].pc = "idle"
  /\ runs < MaxRuns /\ runs' = runs + 1
  /\ \A a \in Attempt : att[a].phase # "running"
  /\ \E now \in 0 .. clock :
       LET whole == Answer("complete", Until(now), FALSE)
           Found(answer) ==
             Become(o, [Idle EXCEPT !.pc = "read", !.now = now, !.state = answer.state,
                          !.records = answer.records, !.invalid = answer.invalid])
       IN
       \/ Found(whole) /\ UNCHANGED faults
       \/ /\ Trouble /\ faults' = faults + 1
          /\ \/ \E records \in Delivered(now) \ {Until(now)} :
                  Found(Answer("complete", records, FALSE))
             \/ \E n \in 0 .. now : Found(Answer("partial", Until(n), FALSE))
             \/ Found(Answer("unavailable", {}, FALSE))
             \/ Found(Answer("complete", Until(now), TRUE))
  /\ UNCHANGED <<clock, att, log, store>>

\* read_prior of every tier.  One whose read failed is not published; one that
\* may not be read is tried as if there were none.
ReadPriors(o) ==
  LET m == obs[o] IN
  /\ m.pc = "read"
  /\ \E unreadable \in SUBSET Tier : \E failed \in SUBSET unreadable :
       LET prior == [t \in Tier |-> IF t \in unreadable THEN None ELSE store[t]]
           missing == \E t \in Tier : prior[t] = None
       IN
       /\ IF unreadable = {} THEN UNCHANGED faults ELSE Trouble /\ faults' = faults + 1
       /\ Become(o, IF failed = Tier THEN Idle
                    ELSE [m EXCEPT
                      !.pc = "publish", !.todo = Tier \ failed, !.prior = prior,
                      !.state = IF missing /\ @ = "complete" THEN "partial" ELSE @])
  /\ UNCHANGED <<clock, att, log, store, runs>>

Done(m, t) ==
  IF m.todo = {t} THEN Idle
  ELSE [m EXCEPT !.todo = @ \ {t}, !.tier = None, !.tries = 0, !.pc = "publish"]

\* Mutant: the object is replaced whatever it holds by now.
PublishUnconditionally(o, t) ==
  LET m == obs[o]
      merged == Merge(m)
      projection == Project(merged, t, m.prior[t])
      published == IF m.todo = {t} THEN Idle
                   ELSE [Done(m, t) EXCEPT !.prior[t] = projection]
  IN
  /\ m.pc = "publish" /\ t \in m.todo /\ m.tier \in {None, t}
  /\ \/ /\ Fits(merged)
        /\ store' = [store EXCEPT ![t] = projection]
        /\ Become(o, published) \/ Become(o, Done(m, t))
        /\ UNCHANGED <<recorders, runs>>
     \/ Become(o, Done(m, t)) /\ Reads

\* publish: one conditional put.  It is applied and answered, applied without
\* an answer, refused because the object has changed, or fails.
Publish(o, t) ==
  LET m == obs[o]
      merged == Merge(m)
      projection == Project(merged, t, m.prior[t])
      published == IF m.todo = {t} THEN Idle
                   ELSE [Done(m, t) EXCEPT !.prior[t] = projection]
  IN
  /\ m.pc = "publish" /\ t \in m.todo /\ m.tier \in {None, t}
  /\ \/ /\ Fits(merged) /\ store[t] = m.prior[t]
        /\ store' = [store EXCEPT ![t] = projection]
        /\ Become(o, published) \/ Become(o, Done(m, t))
        /\ UNCHANGED <<recorders, runs>>
     \/ /\ Fits(merged) /\ store[t] # m.prior[t]
        /\ Become(o, IF m.tries = 2 THEN Done(m, t)
                     ELSE [m EXCEPT !.pc = "reread", !.tier = t, !.tries = @ + 1])
        /\ Reads
     \/ Become(o, Done(m, t)) /\ Reads

\* The object that was there instead is merged, or the tier is given up.
Reread(o) ==
  LET m == obs[o] IN
  /\ m.pc = "reread"
  /\ \/ Become(o, [m EXCEPT !.pc = "publish", !.prior[m.tier] = store[m.tier]])
     \/ Become(o, Done(m, m.tier))
  /\ Reads

\* A query reads nothing that observers change: the reading of the priors follows
\* it at once.
Reading == \E o \in Observing : obs[o].pc = "read"
Observe == \E o \in Observing :
  \/ ReadPriors(o)
  \/ ~Reading /\ (Query(o) \/ (\E t \in Tier : Publish(o, t)) \/ Reread(o))

Next == (runs = 0 /\ Scan /\ UNCHANGED observers) \/ Observe
Spec == Init /\ [][Next]_vars

-----------------------------------------------------------------------------
TypeOK ==
  /\ RecordersTypeOK
  /\ store \in [Tier -> Projection \cup {None}]
  /\ obs \in [Observing -> Memory]
  /\ runs \in Nat

Stored(t) == store[t] # None

\* A tier that shows success shows it of an attempt that did succeed and whose
\* records all arrived: one that was killed, or lost a record, never reads as a
\* success (_record's gap, _legal_prefix, the attempt row).
SuccessIsWhole ==
  \A t \in Tier :
    Stored(t) /\ store[t].attemptRow.state = "success" =>
      LET a == store[t].attemptRow.attempt IN
      /\ att[a].phase = "over" /\ att[a].result = "success"
      /\ {e.sequence : e \in Of(a, store[t].events)} = 1 .. att[a].sequence
      /\ att[a].views \subseteq {e.view : e \in Of(a, store[t].events)}

\* What one observer writes the next one can read: the interval that is carried
\* ends no later than the label says (reduce_projections' generated_at).
NextReaderAccepts ==
  \A t \in Tier :
    Stored(t) =>
      LET p == store[t] IN
      /\ p.completed # None => p.completed <= p.generated
      /\ p.state = "complete" => p.completed # None
      /\ p.generated <= clock

\* The published object is well formed, and accepted by the observer after.
StoreIsSound == TypeOK /\ NextReaderAccepts

\* No observer drops what another recorded, nor a conflict that it found, before
\* it is out of the window: compare-and-swap, and the merge with the prior.
EvidenceKept ==
  \A t \in Tier :
    store[t] # None =>
      /\ store'[t] # None
      /\ \A e \in store[t].events :
           Started(e.attempt) >= store'[t].generated - Lookback =>
             /\ e \in store'[t].events
             /\ e.attempt \in store[t].conflict => e.attempt \in store'[t].conflict

\* The interval and the label never go back, whichever observer is slower.
WatermarkKept ==
  \A t \in Tier :
    store[t] # None =>
      /\ store'[t].generated >= store[t].generated
      /\ store[t].completed # None =>
           store'[t].completed # None /\ store'[t].completed >= store[t].completed

\* A last success is not taken back by an observation that saw less: only by
\* age, by a conflict, for a later one, or when the latest are a tie of attempts.
LastSuccessKept ==
  \A t \in Tier :
    store[t] # None =>
      LET e == store[t].lastInventory IN
      (e # None /\ Started(e.attempt) >= store'[t].generated - Lookback) =>
        LET f == store'[t].lastInventory IN
        \/ f # None /\ (f = e \/ Started(f.attempt) > Started(e.attempt))
        \/ e.attempt \in store'[t].conflict
        \/ \E g, h \in store'[t].events :
             /\ g.attempt # h.attempt /\ Started(g.attempt) = Started(h.attempt)
             /\ Started(g.attempt) >= Started(e.attempt)
             /\ \A i \in {g, h} : i.kind = "inventory_result" /\ i.ok

\* No observer, however slow and whatever it missed, unlearns what another had
\* published: records and conflicts, the interval, the last success (publish's
\* compare-and-swap and reread).
NothingUnlearned ==
  [][EvidenceKept /\ WatermarkKept /\ LastSuccessKept]_store
=============================================================================
