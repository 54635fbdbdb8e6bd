------------------------- MODULE PublicationProofs -------------------------
(* What is proved of Publication for every set of inputs, views and series,  *)
(* every ownership, and every bound.                                         *)
EXTENDS Publication, TLAPS

\* Lacking records are provenance.
LEMMA LackingType == \A s \in States : Lacking(s) \in Prov
BY DEF Lacking, Prov

\* Type correctness of what the steps build.
LEMMA LocalType ==
  ASSUME TypeOK, NEW t \in Tier, NEW own \in [Input -> Outcomes],
         NEW off \in SUBSET Selectable, NEW i \in Input
  PROVE  Local(t, i, own, off) \in Prov
BY LackingType, SMTT(30) DEF Local, Prov, Run, TypeOK, States, Tier

LEMMA JudgeType ==
  ASSUME TypeOK, NEW t \in Tier, NEW i \in Input,
         NEW scan \in Envelope \cup {None}
  PROVE  Judge(t, i, scan) \in Prov
BY LackingType, SMTT(30) DEF Judge, Prov, Envelope, States

LEMMA StampedType ==
  ASSUME TypeOK, NEW inputs \in Provenance
  PROVE  Stamped(inputs) \in Provenance
BY SMTT(30) DEF Stamped, Provenance, Prov, TypeOK

LEMMA NoTaskType == NoTask \in Task
BY LackingType, SMTT(30) DEF NoTask, Task, Labels, Outcomes, States, Provenance

\* A run's own update keeps the type of the tasks.
LEMMA UpdateType ==
  ASSUME TypeOK, NEW t \in Tier, NEW new \in Task, Update(t, new)
  PROVE  task' \in [Tier -> Task]
BY DEF Update, TypeOK

\* So does moving the program counter alone.
LEMMA MoveType ==
  ASSUME TypeOK, NEW t \in Tier, NEW label \in Labels
  PROVE  [task[t] EXCEPT !.pc = label] \in Task
<1>1. task[t] \in Task
  BY DEF TypeOK
<1> HIDE DEF Labels
<1> QED
  BY <1>1 DEF Task

LEMMA EndType ==
  ASSUME TypeOK, NEW t \in Tier, End(t)
  PROVE  task' \in [Tier -> Task] /\ runs' \in [Tier -> Nat]
BY NoTaskType DEF End, Update, TypeOK

-----------------------------------------------------------------------------
\* One lemma per action of a run that touches more than the run's memory.
LEMMA GatherType ==
  ASSUME TypeOK, NEW t \in Tier, Gather(t)
  PROVE  TypeOK'
<1>1. PICK own \in Gatherings(t, config), whole \in BOOLEAN :
        task' = [u \in Tier |-> IF u = t THEN Begun(t, own, whole)
                               ELSE [task[u] EXCEPT !.solo = FALSE]]
  BY DEF Gather
<1>2. own \in [Input -> Outcomes] /\ config \in SUBSET Selectable /\ clock \in Nat
  BY DEF Gatherings, TypeOK
<1>3. [i \in Input |-> Local(t, i, own, config)] \in Provenance
  BY <1>2, LocalType DEF Provenance
<1>4. Alone(t) \in BOOLEAN
  BY DEF Alone
<1>5. Begun(t, own, whole) \in Task
  <2>1. {"history", "hydrate"} \subseteq Labels
    BY DEF Labels
  <2> HIDE DEF Labels
  <2> QED
    BY <1>2, <1>3, <1>4, <2>1 DEF Begun, Task
<1>6. \A u \in Tier : [task[u] EXCEPT !.solo = FALSE] \in Task
  <2>1. \A u \in Tier : task[u] \in Task
    BY DEF TypeOK
  <2> QED
    BY <2>1 DEF Task
<1>7. task' \in [Tier -> Task]
  BY <1>1, <1>5, <1>6
<1> QED
  BY <1>7 DEF TypeOK, Gather, store

LEMMA RecordHistoryType ==
  ASSUME TypeOK, NEW t \in Tier, RecordHistory(t)
  PROVE  TypeOK'
<1> DEFINE next == [task[t] EXCEPT !.pc = "hydrate", !.asked = clock]
           failed == [next EXCEPT
                        !.own["ai_billing"] = "rejected",
                        !.inputs["ai_billing"] = Lacking("unavailable")]
<1>1. task[t] \in Task /\ clock \in Nat /\ runs[t] \in Nat
  BY DEF TypeOK
<1>2. next \in Task
  BY <1>1 DEF Task, Labels
<1>3. failed \in Task
  <2>1. Lacking("unavailable") \in Prov
    BY LackingType DEF States
  <2>2. [next.own EXCEPT !["ai_billing"] = "rejected"] \in [Input -> Outcomes]
    BY <1>2 DEF Task, Outcomes
  <2>3. [next.inputs EXCEPT !["ai_billing"] = Lacking("unavailable")] \in Provenance
    BY <1>2, <2>1 DEF Task, Provenance
  <2>4. failed = [next EXCEPT
           !.own = [next.own EXCEPT !["ai_billing"] = "rejected"],
           !.inputs = [next.inputs EXCEPT !["ai_billing"] = Lacking("unavailable")]]
    BY <1>2 DEF Task
  <2> HIDE DEF next
  <2> QED
    BY <1>2, <2>2, <2>3, <2>4 DEF Task
<1>4. task' \in [Tier -> Task]
  <2>1. Update(t, next) \/ Update(t, failed)
    BY DEF RecordHistory
  <2> HIDE DEF next, failed
  <2> QED
    BY <2>1, <1>2, <1>3, UpdateType
<1>5. history' \in Nat
  BY <1>1 DEF RecordHistory, TypeOK, Run
<1> QED
  BY <1>4, <1>5 DEF TypeOK, RecordHistory

LEMMA HydrateType ==
  ASSUME TypeOK, NEW t \in Tier, Hydrate(t)
  PROVE  TypeOK'
<1>1. PICK i \in Pending(t) : \E scan \in {latest[Owner[i]], None} :
        Update(t, [task[t] EXCEPT !.inputs[i] = Judge(t, i, scan)])
  BY DEF Hydrate
<1>2. PICK scan \in {latest[Owner[i]], None} :
        Update(t, [task[t] EXCEPT !.inputs[i] = Judge(t, i, scan)])
  BY <1>1
<1>3. i \in Input /\ task[t] \in Task /\ scan \in Envelope \cup {None}
  BY InputAssumption DEF Pending, TypeOK
<1>4. Judge(t, i, scan) \in Prov
  BY <1>3, JudgeType
<1>5. [task[t].inputs EXCEPT ![i] = Judge(t, i, scan)] \in Provenance
  BY <1>3, <1>4 DEF Task, Provenance
<1>6. [task[t] EXCEPT !.inputs[i] = Judge(t, i, scan)] \in Task
  BY <1>3, <1>5 DEF Task
<1>7. task' \in [Tier -> Task]
  BY <1>2, <1>6, UpdateType
<1> QED
  BY <1>7 DEF TypeOK, Hydrate, store

LEMMA RecallType ==
  ASSUME TypeOK, NEW t \in Tier, Recall(t)
  PROVE  TypeOK'
<1>1. PICK batch \in {carry, None} :
        Update(t, [task[t] EXCEPT
          !.pc = "gate",
          !.recalled = IF batch = None THEN None ELSE IF Young THEN batch ELSE None])
  BY DEF Recall
<1>2. batch \in Batch \cup {None} /\ task[t] \in Task
  BY DEF TypeOK
<1>3. (IF batch = None THEN None ELSE IF Young THEN batch ELSE None)
        \in Batch \cup {None}
  BY <1>2
<1> DEFINE kept == IF batch = None THEN None ELSE IF Young THEN batch ELSE None
<1>4. [task[t] EXCEPT !.pc = "gate", !.recalled = kept] \in Task
  <2> HIDE DEF kept
  <2> QED BY <1>2, <1>3 DEF Task, Labels, kept
<1>5. task' \in [Tier -> Task]
  BY <1>1, <1>4, UpdateType
<1> QED
  BY <1>5 DEF TypeOK, Recall, store

LEMMA PassType ==
  ASSUME TypeOK, NEW t \in Tier, Pass(t)
  PROVE  TypeOK'
<1>1. task[t] \in Task /\ clock \in Nat
  BY DEF TypeOK
<1>2. Stamped(task[t].inputs) \in Provenance
  BY <1>1, StampedType DEF Task
<1> DEFINE todo == {v \in View : Composable(t, v)}
           inputs == Stamped(task[t].inputs)
           pc == IF t = "t3" THEN "save" ELSE "views"
<1>3. todo \in SUBSET View /\ pc \in Labels
  BY DEF Labels
<1>4. Update(t, [task[t] EXCEPT !.pc = pc, !.stamp = clock, !.inputs = inputs,
                                !.todo = todo])
  BY DEF Pass
<1>5. [task[t] EXCEPT !.pc = pc, !.stamp = clock, !.inputs = inputs,
                      !.todo = todo] \in Task
  <2> HIDE DEF todo, inputs, pc
  <2> QED BY <1>1, <1>2, <1>3 DEF Task, inputs
<1>6. task' \in [Tier -> Task]
  BY <1>4, <1>5, UpdateType
<1> QED
  BY <1>6 DEF TypeOK, Pass, store

LEMMA SaveType ==
  ASSUME TypeOK, NEW t \in Tier, Save(t)
  PROVE  TypeOK'
<1>1. task[t] \in Task /\ clock \in Nat /\ runs[t] \in Nat
  BY DEF TypeOK
<1>2. carry' \in Batch
  <2>1. PICK clean \in BOOLEAN :
          carry' = [run |-> Run(t), at |-> clock, clean |-> clean,
                    series |-> Live(t), inputs |-> task[t].inputs]
    BY DEF Save
  <2>2. Live(t) \in SUBSET Series /\ Run(t) \in Nat /\ task[t].inputs \in Provenance
    BY <1>1 DEF Live, Run, Task
  <2> QED
    BY <1>1, <2>1, <2>2 DEF Batch
<1>3. [task[t] EXCEPT !.pc = "views"] \in Task
  BY MoveType DEF Labels
<1>4. task' \in [Tier -> Task]
  BY <1>3, UpdateType DEF Save
<1> QED
  BY <1>2, <1>4 DEF TypeOK, Save

LEMMA WriteViewType ==
  ASSUME TypeOK, NEW t \in Tier, WriteView(t)
  PROVE  TypeOK'
<1>1. PICK v \in task[t].todo :
        /\ views' = [views EXCEPT ![v] = [by |-> t, run |-> Run(t),
                                          inputs |-> task[t].inputs]]
        /\ Update(t, [task[t] EXCEPT !.todo = @ \ {v}])
  BY DEF WriteView
<1>2. task[t] \in Task /\ v \in View /\ Run(t) \in Nat
  BY DEF TypeOK, Task, Run
<1>3. views' \in [View -> ViewFile \cup {None}]
  BY <1>1, <1>2 DEF TypeOK, ViewFile, Task
<1>4. [task[t] EXCEPT !.todo = @ \ {v}] \in Task
  BY <1>2 DEF Task
<1>5. task' \in [Tier -> Task]
  BY <1>1, <1>4, UpdateType
<1> QED
  BY <1>3, <1>5 DEF TypeOK, WriteView

LEMMA PushType ==
  ASSUME TypeOK, NEW t \in Tier, Push(t)
  PROVE  TypeOK'
<1>1. task[t] \in Task /\ clock \in Nat /\ Run(t) \in Nat
  BY DEF TypeOK, Run
<1>2. Pushed(t) \in [Series -> Sample \cup {None}]
  <2> SUFFICES ASSUME NEW s \in Series PROVE Pushed(t)[s] \in Sample \cup {None}
    BY DEF Pushed
  <2>1. CASE s \in Live(t)
    BY <1>1, <2>1 DEF Pushed, Sample, Task
  <2>2. CASE s \notin Live(t) /\ s \in Carried(t)
    <3>1. task[t].recalled \in Batch
      BY <1>1, <2>2 DEF Carried, Task
    <3> QED
      BY <1>1, <2>2, <3>1 DEF Pushed, Sample, Batch
  <2>3. CASE s \notin Live(t) /\ s \notin Carried(t)
    BY <2>3 DEF Pushed, TypeOK
  <2> QED
    BY <2>1, <2>2, <2>3
<1>3. mimir' \in [Series -> Sample \cup {None}]
  BY <1>2 DEF Push, TypeOK
<1>4. [task[t] EXCEPT !.pc = "archive"] \in Task
  BY MoveType DEF Labels
<1>5. task' \in [Tier -> Task]
  BY <1>4, UpdateType DEF Push
<1> QED
  BY <1>3, <1>5 DEF TypeOK, Push

LEMMA ScanType == ASSUME TypeOK, NEW t \in Tier PROVE Scan(t) \in Envelope
BY DEF TypeOK, Scan, Envelope, Task, Run

LEMMA ArchiveType ==
  ASSUME TypeOK, NEW t \in Tier, Archive(t)
  PROVE  TypeOK'
<1>1. archive' \in [Tier -> SUBSET Envelope]
  BY ScanType DEF Archive, TypeOK
<1>2. [task[t] EXCEPT !.pc = "latest"] \in Task
  BY MoveType DEF Labels
<1>3. task' \in [Tier -> Task]
  BY <1>2, UpdateType DEF Archive
<1> QED
  BY <1>1, <1>3 DEF TypeOK, Archive

\* Every step of a run keeps the types.
LEMMA StepType ==
  ASSUME TypeOK, NEW t \in Tier, Step(t)
  PROVE  TypeOK'
<1>1. CASE RateCardFails(t)
  BY <1>1, EndType DEF RateCardFails, End, TypeOK, store
<1>2. CASE StampGaps(t)
  <2>1. [task[t] EXCEPT !.pc = "gate"] \in Task
    BY MoveType DEF Labels
  <2>2. task' \in [Tier -> Task]
    BY <1>2, <2>1, UpdateType DEF StampGaps
  <2>3. gaps' \in Nat
    BY <1>2 DEF StampGaps, TypeOK, Run
  <2> QED
    BY <1>2, <2>2, <2>3 DEF StampGaps, TypeOK
<1>3. CASE Refuse(t)
  <2>1. refused' \in [Tier -> SUBSET Nat]
    BY <1>3 DEF Refuse, TypeOK, Run
  <2> QED
    BY <1>3, <2>1, EndType DEF Refuse, End, TypeOK, store
<1>4. CASE WriteLatest(t)
  <2>1. latest' \in [Tier -> Envelope \cup {None}]
    BY <1>4, ScanType DEF WriteLatest, TypeOK
  <2> QED
    BY <1>4, <2>1, EndType DEF WriteLatest, End, TypeOK
<1>5. CASE Die(t)
  <2>1. latest' \in [Tier -> Envelope \cup {None}]
    BY <1>5, ScanType DEF Die, TypeOK
  <2> QED
    BY <1>5, <2>1, EndType DEF Die, End, TypeOK
<1> QED
  BY <1>1, <1>2, <1>3, <1>4, <1>5, GatherType, RecordHistoryType, HydrateType,
     RecallType, PassType, SaveType, WriteViewType, PushType, ArchiveType DEF Step

\* Type correctness: whatever the tiers own and however their runs interleave,
\* die and are reconfigured, memory and bucket keep their shape.
THEOREM TypeCorrect == Spec => []TypeOK
<1>1. Init => TypeOK
  BY NoTaskType DEF Init, TypeOK
<1>2. TypeOK /\ [Next]_vars => TypeOK'
  <2> SUFFICES ASSUME TypeOK, [Next]_vars PROVE TypeOK'
    OBVIOUS
  <2>1. CASE Reconfigure
    BY <2>1 DEF Reconfigure, TypeOK, store
  <2>2. CASE Tick
    BY <2>2 DEF Tick, TypeOK, store
  <2>3. CASE \E t \in Tier : Step(t)
    BY <2>3, StepType
  <2>4. CASE UNCHANGED vars
    BY <2>4 DEF vars, store, TypeOK
  <2> QED
    BY <2>1, <2>2, <2>3, <2>4 DEF Next
<1> QED
  BY <1>1, <1>2, PTL DEF Spec

-----------------------------------------------------------------------------
\* Why a refused run leaves nothing: whoever writes can no longer be refused.
Committed == {"save", "views", "archive", "latest"}

TraceInv ==
  /\ \A t \in Tier : \A n \in Nat : LeftTrace(t, n) => n <= Run(t)
  /\ \A t \in Tier : LeftTrace(t, Run(t)) => Active(t) /\ Admissible(t)
  /\ \A t \in Tier : \A n \in refused[t] : n <= runs[t] /\ ~LeftTrace(t, n)
  /\ \A t \in Tier : task[t].pc \in Committed => Admissible(t)
  /\ \A t \in Tier : task[t].pc = "history" =>
                     "ai_billing" \in Input /\ Owner["ai_billing"] = t
  /\ \A t \in Tier : task[t].pc = "save" => t = "t3"

\* What is on the bucket does not change by the steps that only compute.
LEMMA SameTrace ==
  ASSUME UNCHANGED store, NEW t \in Tier, NEW n \in Nat
  PROVE  LeftTrace(t, n)' <=> LeftTrace(t, n)
BY DEF LeftTrace, Published, store

\* A step leaves traces of the run that takes it, and only if that run is past
\* every reason to refuse.
LEMMA OwnTrace ==
  ASSUME TypeOK, TraceInv, NEW t \in Tier, Step(t), NEW u \in Tier, NEW n \in Nat,
         LeftTrace(u, n)'
  PROVE  LeftTrace(u, n) \/ (u = t /\ n = Run(t) /\ Active(t) /\ Admissible(t))
<1>1. CASE UNCHANGED store
  BY <1>1, SameTrace
<1>2. CASE RecordHistory(t)
  <2>1. Active(t) /\ (history' # history => Admissible(t) /\ history' = Run(t))
    BY <1>2 DEF RecordHistory, HistoryAdmitted, Active
  <2>2. t = "t2"
    BY <1>2, BillingAssumption DEF RecordHistory, TraceInv
  <2> QED
    BY <1>2, <2>1, <2>2 DEF RecordHistory, LeftTrace, Published
<1>3. CASE StampGaps(t)
  <2>1. Active(t) /\ t = "t2"
    BY <1>3 DEF StampGaps, Hydrated, Active
  <2>2. gaps' # gaps => Admissible(t) /\ gaps' = Run(t)
    BY <1>3 DEF StampGaps
  <2> QED
    BY <1>3, <2>1, <2>2 DEF StampGaps, LeftTrace, Published
<1>4. CASE Save(t)
  <2>1. Active(t) /\ Admissible(t) /\ carry'.run = Run(t)
    BY <1>4 DEF Save, Active, TraceInv, Committed
  <2>2. t = "t3"
    BY <1>4 DEF Save, TraceInv
  <2> QED
    BY <1>4, <2>1, <2>2 DEF Save, LeftTrace, Published
<1>5. CASE WriteView(t)
  <2>1. Active(t) /\ Admissible(t)
    BY <1>5 DEF WriteView, Publishing, Active, TraceInv, Committed
  <2>2. PICK v \in View : views' = [views EXCEPT ![v] =
                 [by |-> t, run |-> Run(t), inputs |-> task[t].inputs]]
    BY <1>5 DEF WriteView, TypeOK, Task
  <2>3. \A w \in View : w # v => views'[w] = views[w]
    BY <2>2 DEF TypeOK
  <2>4. views'[v].by = t /\ views'[v].run = Run(t)
    BY <2>2 DEF TypeOK
  <2> QED
    BY <1>5, <2>1, <2>3, <2>4 DEF WriteView, LeftTrace, Published
<1>6. CASE Push(t)
  <2>1. Active(t) /\ Admissible(t)
    BY <1>6 DEF Push, Publishing, Active, TraceInv, Committed
  <2>2. \A s \in Series : \/ mimir'[s] = mimir[s]
                          \/ mimir'[s].by = t /\ mimir'[s].run = Run(t)
    <3>1. \A s \in Series : \/ Pushed(t)[s] = mimir[s]
                            \/ Pushed(t)[s].by = t /\ Pushed(t)[s].run = Run(t)
      BY DEF Pushed
    <3> QED
      BY <1>6, <3>1 DEF Push
  <2> QED
    BY <1>6, <2>1, <2>2 DEF Push, LeftTrace, Published
<1>7. CASE Archive(t)
  <2>1. Active(t) /\ Admissible(t)
    BY <1>7 DEF Archive, Active, TraceInv, Committed
  <2>2. \A w \in Tier : \A e \in archive'[w] :
          e \in archive[w] \/ (w = t /\ e = Scan(t))
    BY <1>7 DEF Archive, TypeOK
  <2>3. Scan(t).run = Run(t)
    BY DEF Scan
  <2> QED
    BY <1>7, <2>1, <2>2, <2>3 DEF Archive, LeftTrace, Published
<1>8. CASE UNCHANGED <<archive, views, carry, history, gaps, mimir>>
           /\ task[t].pc = "latest"
           /\ latest' = [latest EXCEPT ![t] = Scan(t)]
  <2>1. Active(t) /\ Admissible(t)
    BY <1>8 DEF Active, TraceInv, Committed
  <2>2. latest'[t].run = Run(t) /\ \A w \in Tier : w # t => latest'[w] = latest[w]
    BY <1>8 DEF TypeOK, Scan
  <2> QED
    BY <1>8, <2>1, <2>2 DEF LeftTrace, Published
<1> QED
  BY <1>1, <1>2, <1>3, <1>4, <1>5, <1>6, <1>7, <1>8
  DEF Step, Gather, Hydrate, RateCardFails, Recall, Refuse, Pass, WriteLatest, Die, store

\* A step of t leaves the other tiers' runs as they are.
LEMMA OthersKeep ==
  ASSUME TypeOK, NEW t \in Tier, Step(t), NEW u \in Tier, u # t
  PROVE  /\ runs'[u] = runs[u] /\ refused'[u] = refused[u]
         /\ task'[u].pc = task[u].pc
         /\ task'[u].own = task[u].own /\ task'[u].whole = task[u].whole
<1>1. CASE Gather(t)
  <2>1. PICK own \in Gatherings(t, config), whole \in BOOLEAN :
          task' = [w \in Tier |-> IF w = t THEN Begun(t, own, whole)
                                 ELSE [task[w] EXCEPT !.solo = FALSE]]
    BY <1>1 DEF Gather
  <2>2. task'[u] = [task[u] EXCEPT !.solo = FALSE]
    BY <2>1
  <2> QED
    BY <1>1, <2>2 DEF Gather, TypeOK, Task
<1>2. CASE ~Gather(t)
  <2>1. task'[u] = task[u]
    BY <1>2 DEF Step, RecordHistory, Hydrate, RateCardFails, Recall, StampGaps, Refuse,
       Pass, Save, WriteView, Push, Archive, WriteLatest, Die, Update, End, TypeOK
  <2>2. runs'[u] = runs[u]
    BY <1>2 DEF Step, RecordHistory, Hydrate, RateCardFails, Recall, StampGaps, Refuse,
       Pass, Save, WriteView, Push, Archive, WriteLatest, Die, Update, End, TypeOK
  <2>3. refused'[u] = refused[u]
    BY <1>2 DEF Step, RecordHistory, Hydrate, RateCardFails, Recall, StampGaps, Refuse,
       Pass, Save, WriteView, Push, Archive, WriteLatest, Die, TypeOK
  <2> QED
    BY <2>1, <2>2, <2>3
<1> QED
  BY <1>1, <1>2

\* The run goes on: what admits it is not taken back.
GoesOn(t) ==
  /\ runs' = runs /\ refused' = refused
  /\ Active(t)'
  /\ Active(t) /\ Admissible(t) => Admissible(t)'
  /\ Active(t) \/ ~LeftTrace(t, Run(t))
  /\ task'[t].pc \in Committed => Active(t) /\ Admissible(t)
  /\ task'[t].pc = "history" => "ai_billing" \in Input /\ Owner["ai_billing"] = t
  /\ task'[t].pc = "save" => t = "t3"

\* The run ends, refused or not.
IsOver(t) ==
  /\ runs'[t] = Run(t)
  /\ task'[t].pc = "idle"
  /\ \/ refused' = refused
     \/ ~Admissible(t) /\ refused'[t] = refused[t] \cup {Run(t)}

\* A step that only moves the run's label, or changes what does not decide its
\* admission.
LEMMA SameGathering ==
  ASSUME TypeOK, NEW t \in Tier, NEW new \in Task, Update(t, new),
         new.own = task[t].own, new.whole = task[t].whole
  PROVE  Admissible(t)' <=> Admissible(t)
<1>1. task'[t] = new
  BY DEF Update, TypeOK
<1> QED
  BY <1>1 DEF Admissible, BlockedBy

\* A rejected billing input does not block the tier that owns it.
LEMMA BillingDoesNotBlock ==
  ASSUME TypeOK, NEW t \in Tier, "ai_billing" \in Input, Owner["ai_billing"] = t,
         NEW own \in [Input -> Outcomes]
  PROVE  BlockedBy(t, [own EXCEPT !["ai_billing"] = "rejected"]) \subseteq BlockedBy(t, own)
BY BillingAssumption DEF BlockedBy, OwnedBy

\* Ending steps are over; the others go on.
LEMMA EndIsOver ==
  ASSUME TypeOK, NEW t \in Tier, End(t), refused' = refused
  PROVE  IsOver(t)
BY DEF IsOver, End, Update, NoTask, TypeOK, Run

LEMMA GatherGoesOn ==
  ASSUME TypeOK, TraceInv, NEW t \in Tier, Gather(t)
  PROVE  GoesOn(t)
<1>1. PICK own \in Gatherings(t, config), whole \in BOOLEAN :
        task' = [u \in Tier |-> IF u = t THEN Begun(t, own, whole)
                               ELSE [task[u] EXCEPT !.solo = FALSE]]
  BY DEF Gather
<1>2. task'[t].pc = IF "ai_billing" \in OwnedBy(t) THEN "history" ELSE "hydrate"
  BY <1>1 DEF Begun
<1>3. ~Active(t) /\ runs' = runs /\ refused' = refused
  BY DEF Gather
<1>4. ~LeftTrace(t, Run(t))
  BY <1>3 DEF TraceInv
<1> QED
  BY <1>2, <1>3, <1>4 DEF GoesOn, Active, Committed, OwnedBy

LEMMA RecordHistoryGoesOn ==
  ASSUME TypeOK, TraceInv, NEW t \in Tier, RecordHistory(t)
  PROVE  GoesOn(t)
<1> DEFINE next == [task[t] EXCEPT !.pc = "hydrate", !.asked = clock]
           failed == [next EXCEPT
                        !.own["ai_billing"] = "rejected",
                        !.inputs["ai_billing"] = Lacking("unavailable")]
<1>1. Update(t, next) \/ Update(t, failed)
  BY DEF RecordHistory
<1>2. "ai_billing" \in Input /\ Owner["ai_billing"] = t /\ Active(t)
  BY DEF RecordHistory, TraceInv, Active
<1>3. task[t] \in Task /\ next \in Task
  <2>1. task[t] \in Task /\ clock \in Nat
    BY DEF TypeOK
  <2> QED
    BY <2>1 DEF Task, Labels
<1>4. next.pc = "hydrate" /\ next.own = task[t].own /\ next.whole = task[t].whole
  BY <1>3 DEF Task
<1>5. /\ failed.pc = "hydrate" /\ failed.whole = task[t].whole
      /\ failed.own = [task[t].own EXCEPT !["ai_billing"] = "rejected"]
  BY <1>3 DEF Task
<1>6. Admissible(t) => Admissible(t)'
  <2>1. CASE Update(t, next)
    BY <1>3, <1>4, <2>1, SameGathering
  <2>2. CASE Update(t, failed)
    <3>1. task'[t] = failed
      BY <2>2 DEF Update, TypeOK
    <3>2. task'[t].own = [task[t].own EXCEPT !["ai_billing"] = "rejected"]
          /\ task'[t].whole = task[t].whole
      BY <3>1, <1>5
    <3>3. BlockedBy(t, task'[t].own) \subseteq BlockedBy(t, task[t].own)
      BY <1>2, <1>3, <3>2, BillingDoesNotBlock DEF Task
    <3>4. BlockedBy(t, task[t].own)' = BlockedBy(t, task'[t].own)
      BY DEF BlockedBy
    <3> QED
      BY <3>2, <3>3, <3>4 DEF Admissible
  <2> QED
    BY <1>1, <2>1, <2>2
<1>7. task'[t].pc = "hydrate"
  <2>1. task'[t] = next \/ task'[t] = failed
    BY <1>1 DEF Update, TypeOK
  <2> QED
    BY <2>1, <1>4, <1>5
<1> QED
  BY <1>2, <1>6, <1>7 DEF RecordHistory, GoesOn, Active, Committed

\* The other steps that go on only move the run along.
LEMMA MoveGoesOn ==
  ASSUME TypeOK, TraceInv, NEW t \in Tier, NEW new \in Task, Update(t, new),
         new.own = task[t].own, new.whole = task[t].whole,
         runs' = runs, refused' = refused, Active(t),
         new.pc \notin {"idle", "history"}, new.pc = "save" => t = "t3",
         new.pc \in Committed => Admissible(t)
  PROVE  GoesOn(t)
<1>1. task'[t] = new
  BY DEF Update, TypeOK
<1>2. Admissible(t)' <=> Admissible(t)
  BY SameGathering
<1> QED
  BY <1>1, <1>2 DEF GoesOn, Active

LEMMA StepShape ==
  ASSUME TypeOK, TraceInv, NEW t \in Tier, Step(t)
  PROVE  GoesOn(t) \/ IsOver(t)
<1>0. task[t] \in Task
  BY DEF TypeOK
<1>1. CASE Gather(t)
  BY <1>1, GatherGoesOn
<1>2. CASE RecordHistory(t)
  BY <1>2, RecordHistoryGoesOn
<1>3. CASE RateCardFails(t) \/ WriteLatest(t) \/ Die(t)
  BY <1>3, EndIsOver DEF RateCardFails, WriteLatest, Die
<1>4. CASE Refuse(t)
  BY <1>4 DEF Refuse, End, Update, NoTask, IsOver, TypeOK, Run
<1>5. CASE Hydrate(t)
  <2>0. PICK i \in Pending(t) : \E scan \in {latest[Owner[i]], None} :
          Update(t, [task[t] EXCEPT !.inputs[i] = Judge(t, i, scan)])
    BY <1>5 DEF Hydrate
  <2>1. PICK scan \in {latest[Owner[i]], None} :
          Update(t, [task[t] EXCEPT !.inputs[i] = Judge(t, i, scan)])
    BY <2>0
  <2>2. i \in Input /\ scan \in Envelope \cup {None}
    BY InputAssumption DEF Pending, TypeOK
  <2>3. Judge(t, i, scan) \in Prov
    BY <2>2, JudgeType
  <2>4. [task[t].inputs EXCEPT ![i] = Judge(t, i, scan)] \in Provenance
    BY <1>0, <2>2, <2>3 DEF Task, Provenance
  <2>5. [task[t] EXCEPT !.inputs[i] = Judge(t, i, scan)] \in Task
    BY <1>0, <2>4 DEF Task
  <2> QED
    BY <1>0, <1>5, <2>1, <2>5, MoveGoesOn DEF Hydrate, Active, Task, Committed
<1>6. CASE Recall(t)
  <2>1. PICK kept \in Batch \cup {None} :
          Update(t, [task[t] EXCEPT !.pc = "gate", !.recalled = kept])
    BY <1>6 DEF Recall, TypeOK
  <2>2. [task[t] EXCEPT !.pc = "gate", !.recalled = kept] \in Task
    BY <1>0 DEF Task, Labels
  <2> QED
    BY <1>0, <1>6, <2>1, <2>2, MoveGoesOn DEF Recall, Hydrated, Active, Task, Committed
<1>7. CASE StampGaps(t)
  <2>1. [task[t] EXCEPT !.pc = "gate"] \in Task
    BY <1>0 DEF Task, Labels
  <2> QED
    BY <1>0, <1>7, <2>1, MoveGoesOn DEF StampGaps, Hydrated, Active, Task, Committed
<1>8. CASE Pass(t)
  <2> DEFINE todo == {v \in View : Composable(t, v)}
             inputs == Stamped(task[t].inputs)
             pc == IF t = "t3" THEN "save" ELSE "views"
             new == [task[t] EXCEPT !.pc = pc, !.stamp = clock, !.inputs = inputs,
                                    !.todo = todo]
  <2>1. todo \in SUBSET View /\ pc \in {"save", "views"} /\ (pc = "save" => t = "t3")
    OBVIOUS
  <2>2. inputs \in Provenance
    BY <1>0, StampedType DEF Task
  <2>3. Update(t, new) /\ Active(t) /\ Admissible(t) /\ runs' = runs
        /\ refused' = refused /\ clock \in Nat
    BY <1>8 DEF Pass, AtGate, Hydrated, Active, TypeOK
  <2> HIDE DEF todo, inputs, pc
  <2>4. /\ new \in Task /\ new.pc = pc
        /\ new.own = task[t].own /\ new.whole = task[t].whole
    BY <1>0, <2>1, <2>2, <2>3 DEF Task, Labels
  <2> HIDE DEF new
  <2> QED
    BY <2>1, <2>3, <2>4, MoveGoesOn
<1>9. CASE Save(t)
  <2>1. [task[t] EXCEPT !.pc = "views"] \in Task
    BY <1>0 DEF Task, Labels
  <2>2. Active(t) /\ Admissible(t)
    BY <1>9 DEF Save, Active, TraceInv, Committed
  <2> QED
    BY <1>0, <1>9, <2>1, <2>2, MoveGoesOn DEF Save, Task
<1>10. CASE WriteView(t)
  <2>1. PICK v \in View : Update(t, [task[t] EXCEPT !.todo = @ \ {v}])
    BY <1>0, <1>10 DEF WriteView, Task
  <2>2. [task[t] EXCEPT !.todo = @ \ {v}] \in Task
    BY <1>0 DEF Task
  <2>3. task[t].pc = "views" /\ Active(t) /\ Admissible(t)
    BY <1>10 DEF WriteView, Publishing, Active, TraceInv, Committed
  <2> QED
    BY <1>0, <1>10, <2>1, <2>2, <2>3, MoveGoesOn DEF WriteView, Task
<1>11. CASE Push(t)
  <2>1. [task[t] EXCEPT !.pc = "archive"] \in Task
    BY <1>0 DEF Task, Labels
  <2>2. Active(t) /\ Admissible(t)
    BY <1>11 DEF Push, Publishing, Active, TraceInv, Committed
  <2> QED
    BY <1>0, <1>11, <2>1, <2>2, MoveGoesOn DEF Push, Task
<1>12. CASE Archive(t)
  <2>1. [task[t] EXCEPT !.pc = "latest"] \in Task
    BY <1>0 DEF Task, Labels
  <2>2. Active(t) /\ Admissible(t)
    BY <1>12 DEF Archive, Active, TraceInv, Committed
  <2> QED
    BY <1>0, <1>12, <2>1, <2>2, MoveGoesOn DEF Archive, Task
<1> QED
  BY <1>1, <1>2, <1>3, <1>4, <1>5, <1>6, <1>7, <1>8, <1>9, <1>10, <1>11, <1>12 DEF Step

LEMMA StepTraceInv ==
  ASSUME TypeOK, TraceInv, NEW t \in Tier, Step(t)
  PROVE  TraceInv'
<1>1. GoesOn(t) \/ IsOver(t)
  BY StepShape
<1>2. \A u \in Tier \ {t} :
        /\ runs'[u] = runs[u] /\ refused'[u] = refused[u]
        /\ task'[u].pc = task[u].pc
        /\ task'[u].own = task[u].own /\ task'[u].whole = task[u].whole
  BY OthersKeep
<1>3. \A u \in Tier \ {t} : /\ Run(u)' = Run(u) /\ (Active(u)' <=> Active(u))
                           /\ (Admissible(u)' <=> Admissible(u))
  BY <1>2 DEF Run, Active, Admissible, BlockedBy
<1>4. \A u \in Tier : \A n \in Nat :
        LeftTrace(u, n)' =>
          LeftTrace(u, n) \/ (u = t /\ n = Run(t) /\ Active(t) /\ Admissible(t))
  BY OwnTrace
<1>5. /\ \A u \in Tier : runs[u] \in Nat /\ Run(u) = runs[u] + 1
      /\ \A u \in Tier : runs'[u] \in Nat /\ Run(u)' = runs'[u] + 1
      /\ \A u \in Tier : Run(u) \in Nat /\ Run(u)' \in Nat
  <2>1. TypeOK'
    BY StepType
  <2> QED
    BY <2>1 DEF TypeOK, Run
<1>6. runs'[t] \in {runs[t], Run(t)}
  BY <1>1 DEF GoesOn, IsOver
<1>7. \A u \in Tier : runs[u] <= runs'[u]
  BY <1>2, <1>5, <1>6
<1>8. (\A u \in Tier : \A n \in Nat : LeftTrace(u, n) => n <= Run(u))'
  <2> SUFFICES ASSUME NEW u \in Tier, NEW n \in Nat, LeftTrace(u, n)'
               PROVE  n <= Run(u)'
    OBVIOUS
  <2>1. n <= Run(u)
    BY <1>4, <1>5 DEF TraceInv
  <2> QED
    BY <2>1, <1>5, <1>7
<1>9. (\A u \in Tier : LeftTrace(u, Run(u)) => Active(u) /\ Admissible(u))'
  <2> SUFFICES ASSUME NEW u \in Tier, LeftTrace(u, Run(u))'
               PROVE  (Active(u) /\ Admissible(u))'
    OBVIOUS
  <2>0. PICK n \in Nat : n = Run(u)' /\ LeftTrace(u, n)'
    <3>1. Run(u)' \in Nat
      BY <1>5
    <3>2. LeftTrace(u, Run(u))' <=> \E n \in Nat : n = Run(u)' /\ LeftTrace(u, n)'
      BY <3>1 DEF LeftTrace, Published
    <3> QED
      BY <3>2
  <2>1. CASE u # t
    <3>1. LeftTrace(u, Run(u))
      BY <2>0, <2>1, <1>3, <1>4
    <3> QED
      BY <3>1, <2>1, <1>3 DEF TraceInv
  <2>2. CASE u = t /\ GoesOn(t)
    <3>1. n = Run(t)
      BY <2>0, <2>2 DEF GoesOn, Run
    <3>2. Active(t) /\ Admissible(t)
      BY <2>0, <2>2, <3>1, <1>4 DEF TraceInv
    <3> QED
      BY <2>2, <3>2 DEF GoesOn
  <2>3. CASE u = t /\ IsOver(t)
    <3>1. n = Run(t) + 1
      BY <2>0, <2>3, <1>5 DEF IsOver
    <3>2. n <= Run(t)
      BY <2>0, <2>3, <1>4, <1>5 DEF TraceInv
    <3> QED
      BY <3>1, <3>2, <1>5
  <2> QED
    BY <1>1, <2>1, <2>2, <2>3
<1>10. (\A u \in Tier : \A n \in refused[u] : n <= runs[u] /\ ~LeftTrace(u, n))'
  <2> SUFFICES ASSUME NEW u \in Tier, NEW n \in refused'[u]
               PROVE  n <= runs'[u] /\ ~LeftTrace(u, n)'
    OBVIOUS
  <2>0. refused[u] \subseteq Nat
    BY DEF TypeOK
  <2>1. CASE n \in refused[u]
    <3>1. n \in Nat /\ n <= runs[u] /\ ~LeftTrace(u, n)
      BY <2>0, <2>1 DEF TraceInv
    <3>2. n <= runs'[u]
      BY <3>1, <1>5, <1>7
    <3>3. n # Run(u)
      BY <3>1, <1>5
    <3> QED
      BY <3>1, <3>2, <3>3, <1>4
  <2>2. CASE n \notin refused[u]
    <3>1. u = t /\ IsOver(t) /\ ~Admissible(t) /\ n = Run(t)
      BY <2>2, <1>1, <1>2 DEF GoesOn, IsOver
    <3>2. ~LeftTrace(t, Run(t))
      BY <3>1 DEF TraceInv
    <3>3. n \in Nat /\ n <= runs'[u]
      BY <3>1, <1>5 DEF IsOver
    <3> QED
      BY <3>1, <3>2, <3>3, <1>4
  <2> QED
    BY <2>1, <2>2
<1>11. \A u \in Tier : task'[u].pc \in Committed => Admissible(u)'
  BY <1>1, <1>2, <1>3 DEF GoesOn, IsOver, TraceInv, Committed
<1>12. \A u \in Tier : task'[u].pc = "history" =>
         "ai_billing" \in Input /\ Owner["ai_billing"] = u
  BY <1>1, <1>2 DEF GoesOn, IsOver, TraceInv
<1>13. \A u \in Tier : task'[u].pc = "save" => u = "t3"
  BY <1>1, <1>2 DEF GoesOn, IsOver, TraceInv
<1> QED
  BY <1>8, <1>9, <1>10, <1>11, <1>12, <1>13 DEF TraceInv, Committed

LEMMA TracesStay == Spec => []TraceInv
<1>1. Init => TraceInv
  <2> SUFFICES ASSUME Init PROVE TraceInv
    OBVIOUS
  <2>1. \A t \in Tier, n \in Nat : LeftTrace(t, n) => n = 0
    BY DEF Init, LeftTrace, Published
  <2>2. \A t \in Tier : Run(t) = 1 /\ refused[t] = {} /\ task[t].pc = "idle"
    BY DEF Init, Run, NoTask
  <2> QED
    BY <2>1, <2>2 DEF TraceInv, Committed
<1>2. TypeOK /\ TraceInv /\ [Next]_vars => TraceInv'
  <2> SUFFICES ASSUME TypeOK, TraceInv, [Next]_vars PROVE TraceInv'
    OBVIOUS
  <2>1. CASE \E t \in Tier : Step(t)
    BY <2>1, StepTraceInv
  <2>2. CASE Reconfigure \/ Tick \/ UNCHANGED vars
    <3>1. UNCHANGED <<store, task, runs, refused>>
      BY <2>2 DEF Reconfigure, Tick, vars
    <3>2. TraceInv' <=> TraceInv
      BY <3>1 DEF TraceInv, LeftTrace, Published, store, Run, Active, Admissible, BlockedBy
    <3> QED
      BY <3>2
  <2> QED
    BY <2>1, <2>2 DEF Next
<1> QED
  BY <1>1, <1>2, TypeCorrect, PTL DEF Spec

\* A run that refuses to publish has left nothing on the bucket nor in Mimir:
\* the two side writes t2 makes before the gates are conditioned on all that the
\* gates ask, and rejecting the billing input afterwards blocks no run.
THEOREM RefusedRunsLeaveNoTrace == Spec => []RefusedLeavesNoTrace
<1>1. TypeOK /\ TraceInv => RefusedLeavesNoTrace
  BY DEF TraceInv, RefusedLeavesNoTrace
<1> QED
  BY <1>1, TypeCorrect, TracesStay, PTL

-----------------------------------------------------------------------------
\* Where the inputs of a run come from.  Accepted, Sound and SoundFile take the
\* archive as an argument: it only grows, and what was sound stays so.
Accepted(arch, reader, i, p) ==
  /\ Schema[Owner[i]] <= Schema[reader]
  /\ \E e \in arch[Owner[i]] : e.run = p.run /\ e.at = p.at /\ e.own[i] = "ok"

\* The memory k of run n of t.
Sound(arch, t, k, n) ==
  /\ \A i \in Input :
       /\ k.inputs[i].state = "hydrated" =>
            Owner[i] # t /\ Accepted(arch, t, i, k.inputs[i])
       /\ k.inputs[i].state = "own" => k.inputs[i].run = n
       /\ k.inputs[i].state = "disabled" => i \in k.off
       /\ k.inputs[i].state = "pending" /\ k.pc # "idle" => Owner[i] # t
  /\ k.pc \in {"idle", "history", "hydrate"} => k.todo = {}
  /\ \A v \in k.todo : \A i \in Needs[v] :
       \/ Satisfied(k.inputs[i])
       \/ i \in DisabledOK[v] /\ k.inputs[i].state = "disabled"

SoundFile(arch, w) ==
  \A i \in Input :
    /\ w.inputs[i].state = "hydrated" =>
         Owner[i] # w.by /\ Accepted(arch, w.by, i, w.inputs[i])
    /\ w.inputs[i].state = "own" => w.inputs[i].run = w.run

SourceInv ==
  /\ \A t \in Tier : latest[t] # None => latest[t] \in archive[t]
  /\ \A t \in Tier : task[t].pc = "latest" => Scan(t) \in archive[t]
  /\ \A t \in Tier : Sound(archive, t, task[t], runs[t] + 1)
  /\ \A v \in View : views[v] # None => SoundFile(archive, views[v])

\* An archive that only grows.
Grows(a, b) == \A t \in Tier : a[t] \subseteq b[t]

LEMMA StaysAccepted ==
  ASSUME NEW a, NEW b, Grows(a, b), NEW t \in Tier, NEW i \in Input, NEW p,
         Accepted(a, t, i, p)
  PROVE  Accepted(b, t, i, p)
BY InputAssumption DEF Accepted, Grows

LEMMA StaysSound ==
  ASSUME NEW a, NEW b, Grows(a, b), NEW t \in Tier, NEW k, NEW n, Sound(a, t, k, n)
  PROVE  Sound(b, t, k, n)
BY StaysAccepted DEF Sound

LEMMA FileStaysSound ==
  ASSUME NEW a, NEW b, Grows(a, b), NEW w \in ViewFile, SoundFile(a, w)
  PROVE  SoundFile(b, w)
<1>1. w.by \in Tier
  BY DEF ViewFile
<1> QED
  BY <1>1, StaysAccepted DEF SoundFile

\* A run that keeps its inputs keeps them sound.
LEMMA KeepsSound ==
  ASSUME NEW a, NEW t \in Tier, NEW k \in Task, NEW l \in Task, NEW n, Sound(a, t, k, n),
         l.inputs = k.inputs, l.off = k.off, l.todo \subseteq k.todo,
         l.pc = "idle" \/ k.pc # "idle", l.pc \in {"idle", "history", "hydrate"} => l.todo = {}
  PROVE  Sound(a, t, l, n)
BY DEF Sound

LEMMA NoTaskSound ==
  ASSUME NEW a, NEW t \in Tier, NEW n
  PROVE  Sound(a, t, NoTask, n)
BY DEF Sound, NoTask, Lacking

LEMMA BegunSound ==
  ASSUME TypeOK, NEW a, NEW t \in Tier, NEW own \in [Input -> Outcomes],
         NEW whole \in BOOLEAN
  PROVE  Sound(a, t, Begun(t, own, whole), runs[t] + 1)
<1>1. \A i \in Input : LET p == Local(t, i, own, config) IN
        /\ p.state # "hydrated"
        /\ p.state = "own" => p.run = runs[t] + 1
        /\ p.state = "disabled" => i \in config
        /\ p.state = "pending" => Owner[i] # t
  BY DEF Local, Lacking, Run
<1>2. /\ Begun(t, own, whole).inputs = [i \in Input |-> Local(t, i, own, config)]
      /\ Begun(t, own, whole).off = config /\ Begun(t, own, whole).todo = {}
  BY DEF Begun
<1> QED
  BY <1>1, <1>2 DEF Sound

\* What Hydrate puts in place of a pending input.
LEMMA JudgeSound ==
  ASSUME TypeOK, SourceInv, NEW t \in Tier, NEW i \in Pending(t),
         NEW scan \in {latest[Owner[i]], None}, Active(t)
  PROVE  LET p == Judge(t, i, scan) IN
           /\ p.state = "hydrated" => Owner[i] # t /\ Accepted(archive, t, i, p)
           /\ p.state \notin {"own", "pending"}
           /\ p.state = "disabled" => i \in task[t].off
<1>1. i \in Input /\ Owner[i] \in Tier /\ Owner[i] # t
  BY InputAssumption DEF Pending, SourceInv, Sound, Active
<1>2. scan # None => scan \in archive[Owner[i]]
  BY <1>1 DEF SourceInv
<1>3. Judge(t, i, scan).state = "hydrated" =>
        /\ scan # None /\ Usable(t, i, scan)
        /\ Judge(t, i, scan) = [state |-> "hydrated", run |-> scan.run, at |-> scan.at]
  BY DEF Judge, Lacking
<1>4. Judge(t, i, scan).state = "hydrated" => Accepted(archive, t, i, Judge(t, i, scan))
  BY <1>1, <1>2, <1>3 DEF Accepted, Usable
<1>5. Judge(t, i, scan).state \in {"hydrated", "disabled", "unavailable"}
  BY DEF Judge, Lacking
<1>6. Judge(t, i, scan).state = "disabled" => i \in task[t].off
  BY DEF Judge, Lacking
<1> QED
  BY <1>1, <1>4, <1>5, <1>6

LEMMA HydrateSound ==
  ASSUME TypeOK, SourceInv, NEW t \in Tier, Hydrate(t)
  PROVE  Sound(archive, t, task'[t], runs[t] + 1)
<1>1. PICK i \in Pending(t) : \E scan \in {latest[Owner[i]], None} :
        Update(t, [task[t] EXCEPT !.inputs[i] = Judge(t, i, scan)])
  BY DEF Hydrate
<1>2. PICK scan \in {latest[Owner[i]], None} :
        Update(t, [task[t] EXCEPT !.inputs[i] = Judge(t, i, scan)])
  BY <1>1
<1>3. task[t] \in Task /\ task[t].pc = "hydrate" /\ Active(t)
  BY DEF Hydrate, TypeOK, Active
<1>4. Sound(archive, t, task[t], runs[t] + 1)
  BY DEF SourceInv
<1>5. /\ task'[t].inputs = [task[t].inputs EXCEPT ![i] = Judge(t, i, scan)]
      /\ task'[t].off = task[t].off /\ task'[t].todo = task[t].todo
  <2>1. task'[t] = [task[t] EXCEPT !.inputs[i] = Judge(t, i, scan)]
    BY <1>2 DEF Update, TypeOK
  <2> QED
    BY <2>1, <1>3 DEF Task
<1>6. task[t].todo = {} /\ task[t].inputs \in Provenance
  BY <1>3, <1>4 DEF Sound, Task
<1> DEFINE p == Judge(t, i, scan)
<1>7. /\ p.state = "hydrated" => Owner[i] # t /\ Accepted(archive, t, i, p)
      /\ p.state \notin {"own", "pending"}
      /\ p.state = "disabled" => i \in task[t].off
  BY <1>3, JudgeSound
<1>8. \A j \in Input : task'[t].inputs[j] = IF j = i THEN p ELSE task[t].inputs[j]
  BY <1>5, <1>6 DEF Provenance
<1> HIDE DEF p
<1>9. \A j \in Input : j # i =>
       /\ task[t].inputs[j].state = "hydrated" =>
            Owner[j] # t /\ Accepted(archive, t, j, task[t].inputs[j])
       /\ task[t].inputs[j].state = "own" => task[t].inputs[j].run = runs[t] + 1
       /\ task[t].inputs[j].state = "disabled" => j \in task[t].off
       /\ task[t].inputs[j].state = "pending" => Owner[j] # t
  BY <1>3, <1>4 DEF Sound
<1> QED
  BY <1>5, <1>6, <1>7, <1>8, <1>9 DEF Sound

LEMMA RecordHistorySound ==
  ASSUME TypeOK, SourceInv, NEW t \in Tier, RecordHistory(t)
  PROVE  Sound(archive, t, task'[t], runs[t] + 1)
<1> DEFINE next == [task[t] EXCEPT !.pc = "hydrate", !.asked = clock]
           failed == [next EXCEPT
                        !.own["ai_billing"] = "rejected",
                        !.inputs["ai_billing"] = Lacking("unavailable")]
<1>1. task[t] \in Task /\ task[t].pc = "history"
  BY DEF RecordHistory, TypeOK
<1>2. task'[t] = next \/ task'[t] = failed
  BY DEF RecordHistory, Update, TypeOK
<1>3. /\ next.inputs = task[t].inputs /\ next.off = task[t].off
      /\ next.todo = task[t].todo
  BY <1>1 DEF Task
<1>4. /\ failed.inputs = [task[t].inputs EXCEPT !["ai_billing"] = Lacking("unavailable")]
      /\ failed.off = task[t].off /\ failed.todo = task[t].todo
  BY <1>1 DEF Task
<1> HIDE DEF next, failed
<1>5. Sound(archive, t, task[t], runs[t] + 1) /\ task[t].todo = {}
  BY <1>1 DEF SourceInv, Sound
<1>6. Sound(archive, t, next, runs[t] + 1)
  BY <1>1, <1>3, <1>5 DEF Sound
<1>7. Sound(archive, t, failed, runs[t] + 1)
  <2>1. \A i \in Input : \/ failed.inputs[i] = task[t].inputs[i]
                         \/ failed.inputs[i].state = "unavailable"
    BY <1>1, <1>4 DEF Task, Provenance, Lacking
  <2> QED
    BY <1>1, <1>4, <1>5, <2>1 DEF Sound
<1> QED
  BY <1>2, <1>6, <1>7

LEMMA PassSound ==
  ASSUME TypeOK, SourceInv, NEW t \in Tier, Pass(t)
  PROVE  Sound(archive, t, task'[t], runs[t] + 1)
<1>1. task[t] \in Task /\ Active(t) /\ clock \in Nat
  BY DEF Pass, AtGate, Hydrated, Active, TypeOK
<1>2. Sound(archive, t, task[t], runs[t] + 1)
  BY DEF SourceInv
<1>3. /\ task'[t].pc \in {"save", "views"} /\ task'[t].off = task[t].off
      /\ task'[t].inputs = Stamped(task[t].inputs)
      /\ task'[t].todo = {v \in View : Composable(t, v)}
  BY <1>1 DEF Pass, Update, TypeOK, Task
<1>4. \A i \in Input :
        /\ Stamped(task[t].inputs)[i].state = task[t].inputs[i].state
        /\ Stamped(task[t].inputs)[i].run = task[t].inputs[i].run
        /\ task[t].inputs[i].state # "own" =>
             Stamped(task[t].inputs)[i] = task[t].inputs[i]
  BY DEF Stamped
<1>5. \A v \in task'[t].todo : \A i \in Needs[v] :
        /\ i \in Input
        /\ \/ Satisfied(task[t].inputs[i])
           \/ i \in DisabledOK[v] /\ task[t].inputs[i].state = "disabled"
  BY <1>3, ProductAssumption DEF Composable, Product
<1>6. \A i \in Input :
       /\ task'[t].inputs[i].state = "hydrated" =>
            Owner[i] # t /\ Accepted(archive, t, i, task'[t].inputs[i])
       /\ task'[t].inputs[i].state = "own" => task'[t].inputs[i].run = runs[t] + 1
       /\ task'[t].inputs[i].state = "disabled" => i \in task'[t].off
       /\ task'[t].inputs[i].state = "pending" => Owner[i] # t
  BY <1>1, <1>2, <1>3, <1>4 DEF Sound, Active
<1>7. \A v \in task'[t].todo : \A i \in Needs[v] :
        \/ Satisfied(task'[t].inputs[i])
        \/ i \in DisabledOK[v] /\ task'[t].inputs[i].state = "disabled"
  BY <1>3, <1>4, <1>5 DEF Satisfied
<1> QED
  BY <1>3, <1>6, <1>7 DEF Sound

\* A run's own memory stays sound, whatever step it takes.
LEMMA OwnSound ==
  ASSUME TypeOK, SourceInv, NEW t \in Tier, Step(t)
  PROVE  Sound(archive, t, task'[t], runs'[t] + 1)
<1>0. task[t] \in Task /\ Sound(archive, t, task[t], runs[t] + 1)
  BY DEF TypeOK, SourceInv
<1>1. CASE End(t)
  BY <1>1, NoTaskSound DEF End, Update, TypeOK
<1>2. CASE Gather(t)
  <2>1. PICK own \in Gatherings(t, config), whole \in BOOLEAN :
          task' = [u \in Tier |-> IF u = t THEN Begun(t, own, whole)
                                 ELSE [task[u] EXCEPT !.solo = FALSE]]
    BY <1>2 DEF Gather
  <2>2. task'[t] = Begun(t, own, whole) /\ runs' = runs
    BY <1>2, <2>1 DEF Gather
  <2> QED
    BY <2>2, BegunSound DEF Gatherings
<1>3. CASE RecordHistory(t)
  BY <1>3, RecordHistorySound DEF RecordHistory
<1>4. CASE Hydrate(t)
  BY <1>4, HydrateSound DEF Hydrate
<1>5. CASE Pass(t)
  BY <1>5, PassSound DEF Pass
<1>6. CASE Recall(t) \/ StampGaps(t) \/ Save(t) \/ WriteView(t) \/ Push(t) \/ Archive(t)
  <2>1. runs' = runs /\ task[t].pc # "idle" /\ task'[t] \in Task
    <3>1. TypeOK'
      BY StepType
    <3> QED
      BY <1>6, <3>1 DEF Recall, StampGaps, Save, WriteView, Push, Archive, Hydrated,
         Publishing, TypeOK
  <2>2. /\ task'[t].inputs = task[t].inputs /\ task'[t].off = task[t].off
        /\ task'[t].todo \subseteq task[t].todo
        /\ task'[t].pc \notin {"idle", "history", "hydrate"}
    <3>1. CASE Recall(t)
      BY <3>1, <1>0 DEF Recall, Update, TypeOK, Task
    <3>2. CASE StampGaps(t) \/ Save(t) \/ Push(t) \/ Archive(t)
      <4>1. PICK pc \in {"gate", "views", "archive", "latest"} :
              task'[t] = [task[t] EXCEPT !.pc = pc]
        BY <3>2 DEF StampGaps, Save, Push, Archive, Update, TypeOK
      <4> QED
        BY <4>1, <1>0 DEF Task
    <3>3. CASE WriteView(t)
      <4>1. PICK v \in task[t].todo : Update(t, [task[t] EXCEPT !.todo = @ \ {v}])
        BY <3>3 DEF WriteView
      <4>2. task'[t] = [task[t] EXCEPT !.todo = task[t].todo \ {v}]
        BY <4>1 DEF Update, TypeOK
      <4>3. task[t].pc = "views"
        BY <3>3 DEF WriteView, Publishing
      <4> QED
        BY <4>2, <4>3, <1>0 DEF Task
    <3> QED
      BY <1>6, <3>1, <3>2, <3>3
  <2> QED
    BY <1>0, <2>1, <2>2, KeepsSound
<1> QED
  BY <1>1, <1>2, <1>3, <1>4, <1>5, <1>6
  DEF Step, RateCardFails, Refuse, WriteLatest, Die

\* What a step changes for the other tiers does not concern their inputs.
LEMMA OthersInputs ==
  ASSUME TypeOK, NEW t \in Tier, Step(t), NEW u \in Tier, u # t
  PROVE  /\ task'[u] \in Task /\ task'[u].pc = task[u].pc /\ task'[u].off = task[u].off
         /\ task'[u].inputs = task[u].inputs /\ task'[u].todo = task[u].todo
         /\ task'[u].own = task[u].own /\ task'[u].stamp = task[u].stamp
         /\ task'[u].asked = task[u].asked /\ task'[u].recalled = task[u].recalled
<1>0. task[u] \in Task
  BY DEF TypeOK
<1>1. CASE Gather(t)
  <2>1. PICK own \in Gatherings(t, config), whole \in BOOLEAN :
          task' = [w \in Tier |-> IF w = t THEN Begun(t, own, whole)
                                 ELSE [task[w] EXCEPT !.solo = FALSE]]
    BY <1>1 DEF Gather
  <2>2. task'[u] = [task[u] EXCEPT !.solo = FALSE]
    BY <2>1
  <2> QED
    BY <1>0, <2>2 DEF Task
<1>2. CASE ~Gather(t)
  <2>1. task'[u] = task[u]
    BY <1>2 DEF Step, RecordHistory, Hydrate, RateCardFails, Recall, StampGaps, Refuse,
       Pass, Save, WriteView, Push, Archive, WriteLatest, Die, Update, End, TypeOK
  <2> QED
    BY <1>0, <2>1
<1> QED
  BY <1>1, <1>2

LEMMA RecordHistoryPc ==
  ASSUME TypeOK, NEW t \in Tier, RecordHistory(t)
  PROVE  task'[t].pc = "hydrate"
<1> DEFINE next == [task[t] EXCEPT !.pc = "hydrate", !.asked = clock]
           failed == [next EXCEPT
                        !.own["ai_billing"] = "rejected",
                        !.inputs["ai_billing"] = Lacking("unavailable")]
<1>1. task'[t] = next \/ task'[t] = failed
  BY DEF RecordHistory, Update, TypeOK
<1>2. next.pc = "hydrate" /\ failed.pc = "hydrate"
  BY DEF TypeOK, Task
<1> QED
  BY <1>1, <1>2

\* The archive only grows, and latest.json is one of the archived scans.
LEMMA StepLatest ==
  ASSUME TypeOK, SourceInv, NEW t \in Tier, Step(t)
  PROVE  /\ Grows(archive, archive')
         /\ \A u \in Tier : latest'[u] # None => latest'[u] \in archive'[u]
         /\ task'[t].pc = "latest" => Scan(t)' \in archive'[t]
<1>0. task[t] \in Task
  BY DEF TypeOK
<1>1. CASE Archive(t)
  <2>1. \A u \in Tier : archive[u] \subseteq archive'[u]
    BY <1>1 DEF Archive, TypeOK
  <2>2. Scan(t) \in archive'[t]
    BY <1>1 DEF Archive, TypeOK
  <2>3. task'[t] = [task[t] EXCEPT !.pc = "latest"] /\ runs' = runs
    BY <1>1 DEF Archive, Update, TypeOK
  <2>4. task'[t].stamp = task[t].stamp /\ task'[t].own = task[t].own
    BY <2>3, <1>0 DEF Task
  <2>5. Scan(t)' = Scan(t)
    BY <2>3, <2>4 DEF Scan, Run
  <2> QED
    BY <1>1, <2>1, <2>2, <2>5 DEF Archive, Grows, SourceInv
<1>2. CASE WriteLatest(t) \/ Die(t)
  <2>1. archive' = archive
    BY <1>2 DEF WriteLatest, Die
  <2>2. \/ latest' = latest
        \/ task[t].pc = "latest" /\ latest' = [latest EXCEPT ![t] = Scan(t)]
    BY <1>2 DEF WriteLatest, Die
  <2>3. task'[t].pc = "idle"
    BY <1>2 DEF WriteLatest, Die, End, Update, NoTask, TypeOK
  <2> QED
    BY <2>1, <2>2, <2>3 DEF SourceInv, Grows, TypeOK
<1>3. CASE ~Archive(t) /\ ~WriteLatest(t) /\ ~Die(t)
  <2>1. UNCHANGED <<archive, latest>>
    BY <1>3 DEF Step, Gather, RecordHistory, Hydrate, RateCardFails, Recall, StampGaps,
       Refuse, Pass, Save, WriteView, Push, store
  <2>2. task'[t].pc # "latest"
    <3>1. CASE Gather(t)
      BY <3>1 DEF Gather, Begun
    <3>2. CASE Hydrate(t)
      <4>1. PICK i \in Pending(t) : \E scan \in {latest[Owner[i]], None} :
              Update(t, [task[t] EXCEPT !.inputs[i] = Judge(t, i, scan)])
        BY <3>2 DEF Hydrate
      <4>2. task'[t].pc = task[t].pc
        BY <4>1, <1>0 DEF Update, TypeOK, Task
      <4> QED
        BY <3>2, <4>2 DEF Hydrate
    <3>3. CASE RecordHistory(t)
      BY <3>3, RecordHistoryPc
    <3>4. CASE Recall(t) \/ StampGaps(t) \/ Save(t) \/ Push(t) \/ WriteView(t)
      <4>1. CASE Recall(t)
        BY <4>1, <1>0 DEF Recall, Update, TypeOK, Task
      <4>2. CASE StampGaps(t) \/ Save(t) \/ Push(t)
        <5>1. PICK pc \in {"gate", "views", "archive"} :
                task'[t] = [task[t] EXCEPT !.pc = pc]
          BY <4>2 DEF StampGaps, Save, Push, Update, TypeOK
        <5> QED
          BY <5>1, <1>0 DEF Task
      <4>3. CASE WriteView(t)
        <5>1. PICK v \in task[t].todo : task'[t] = [task[t] EXCEPT !.todo = @ \ {v}]
          BY <4>3 DEF WriteView, Update, TypeOK
        <5>2. task'[t].pc = task[t].pc
          BY <5>1, <1>0 DEF Task
        <5> QED
          BY <4>3, <5>2 DEF WriteView, Publishing
      <4> QED
        BY <3>4, <4>1, <4>2, <4>3
    <3>5. CASE Pass(t)
      BY <3>5, <1>0 DEF Pass, Update, TypeOK, Task
    <3>6. CASE End(t)
      BY <3>6 DEF End, Update, NoTask, TypeOK
    <3> QED
      BY <1>3, <3>1, <3>2, <3>3, <3>4, <3>5, <3>6 DEF Step, RateCardFails, Refuse
  <2> QED
    BY <2>1, <2>2 DEF SourceInv, Grows
<1> QED
  BY <1>1, <1>2, <1>3

\* The views are written by publishing runs, with sound inputs.
LEMMA StepViews ==
  ASSUME TypeOK, SourceInv, NEW t \in Tier, Step(t), NEW v \in View, views'[v] # views[v]
  PROVE  /\ views'[v] = [by |-> t, run |-> Run(t), inputs |-> task[t].inputs]
         /\ v \in task[t].todo
         /\ SoundFile(archive, views'[v])
<1>1. WriteView(t)
  BY DEF Step, Gather, RecordHistory, Hydrate, RateCardFails, Recall, StampGaps, Refuse,
     Pass, Save, Push, Archive, WriteLatest, Die, store
<1>2. PICK w \in task[t].todo :
        views' = [views EXCEPT ![w] = [by |-> t, run |-> Run(t), inputs |-> task[t].inputs]]
  BY <1>1 DEF WriteView
<1>3. /\ v = w
      /\ views'[v] = [by |-> t, run |-> Run(t), inputs |-> task[t].inputs]
  BY <1>2 DEF TypeOK
<1>4. Sound(archive, t, task[t], Run(t))
  BY DEF SourceInv, Run
<1> QED
  BY <1>3, <1>4 DEF Sound, SoundFile

LEMMA StepSourceInv ==
  ASSUME TypeOK, SourceInv, NEW t \in Tier, Step(t)
  PROVE  SourceInv'
<1>1. TypeOK'
  BY StepType
<1>2. /\ Grows(archive, archive')
      /\ \A u \in Tier : latest'[u] # None => latest'[u] \in archive'[u]
      /\ task'[t].pc = "latest" => Scan(t)' \in archive'[t]
  BY StepLatest
<1>3. \A u \in Tier : Sound(archive, u, task'[u], runs'[u] + 1)
  <2> SUFFICES ASSUME NEW u \in Tier PROVE Sound(archive, u, task'[u], runs'[u] + 1)
    OBVIOUS
  <2>1. CASE u = t
    BY <2>1, OwnSound
  <2>2. CASE u # t
    <3>1. /\ task'[u].pc = task[u].pc /\ task'[u].off = task[u].off
          /\ task'[u].inputs = task[u].inputs /\ task'[u].todo = task[u].todo
      BY <2>2, OthersInputs
    <3>2. runs'[u] = runs[u]
      BY <2>2, OthersKeep
    <3>3. Sound(archive, u, task[u], runs[u] + 1)
      BY DEF SourceInv
    <3> QED
      BY <3>1, <3>2, <3>3 DEF Sound
  <2> QED
    BY <2>1, <2>2
<1>4. \A u \in Tier : Sound(archive', u, task'[u], runs'[u] + 1)
  BY <1>2, <1>3, StaysSound
<1>5. \A u \in Tier : task'[u].pc = "latest" => Scan(u)' \in archive'[u]
  <2> SUFFICES ASSUME NEW u \in Tier, u # t, task'[u].pc = "latest"
               PROVE  Scan(u)' \in archive'[u]
    BY <1>2
  <2>1. /\ task'[u].pc = task[u].pc /\ task'[u].own = task[u].own
        /\ task'[u].stamp = task[u].stamp /\ runs'[u] = runs[u]
    BY OthersInputs, OthersKeep
  <2>2. Scan(u)' = Scan(u)
    BY <2>1 DEF Scan, Run
  <2>3. Scan(u) \in archive[u]
    BY <2>1 DEF SourceInv
  <2> QED
    BY <2>2, <2>3, <1>2 DEF Grows
<1>6. \A v \in View : views'[v] # None => SoundFile(archive', views'[v])
  <2> SUFFICES ASSUME NEW v \in View, views'[v] # None
               PROVE  SoundFile(archive', views'[v])
    OBVIOUS
  <2>1. SoundFile(archive, views'[v])
    BY StepViews DEF SourceInv
  <2>2. views'[v] \in ViewFile
    BY <1>1 DEF TypeOK
  <2> QED
    BY <2>1, <2>2, <1>2, FileStaysSound
<1> QED
  BY <1>2, <1>4, <1>5, <1>6 DEF SourceInv

\* The invariant of sources.
LEMMA SourcesStaySound == Spec => []SourceInv
<1>1. Init => SourceInv
  <2> SUFFICES ASSUME Init PROVE SourceInv
    OBVIOUS
  <2>1. \A t \in Tier : task[t] = NoTask /\ task[t].pc = "idle" /\ latest[t] = None
    BY DEF Init, NoTask
  <2>2. \A v \in View : views[v] = None
    BY DEF Init
  <2> QED
    BY <2>1, <2>2, NoTaskSound DEF SourceInv
<1>2. TypeOK /\ SourceInv /\ [Next]_vars => SourceInv'
  <2> SUFFICES ASSUME TypeOK, SourceInv, [Next]_vars PROVE SourceInv'
    OBVIOUS
  <2>1. CASE \E t \in Tier : Step(t)
    BY <2>1, StepSourceInv
  <2>2. CASE Reconfigure \/ Tick \/ UNCHANGED vars
    <3>1. UNCHANGED <<latest, archive, views, task, runs>>
      BY <2>2 DEF Reconfigure, Tick, vars, store
    <3>2. SourceInv' <=> SourceInv
      BY <3>1 DEF SourceInv, Scan, Run
    <3> QED
      BY <3>2
  <2> QED
    BY <2>1, <2>2 DEF Next
<1> QED
  BY <1>1, <1>2, TypeCorrect, PTL DEF Spec

\* Every hydrated input of every view is archived, accepted, by its owner: no
\* interleaving, death or change of policy lets a refused, rejected or
\* unfinished gather reach another tier's views.
THEOREM ViewsRestOnAcceptedScans == Spec => []HydratedInputsAreAccepted
<1>1. TypeOK /\ SourceInv => HydratedInputsAreAccepted
  BY DEF SourceInv, SoundFile, Accepted, HydratedInputsAreAccepted, AcceptedByOwner
<1> QED
  BY <1>1, TypeCorrect, SourcesStaySound, PTL

\* No tier revives an earlier gather of its own.
THEOREM NoTierRevivesItself == Spec => []NoRevival
<1>1. SourceInv => NoRevival
  <2> SUFFICES ASSUME SourceInv, NEW v \in View, NEW i \in Needs[v], views[v] # None,
                      Owner[i] = views[v].by, Satisfied(views[v].inputs[i])
               PROVE  views[v].inputs[i].run = views[v].run
    BY DEF NoRevival
  <2>1. i \in Input
    BY ProductAssumption DEF Product
  <2> QED
    BY <2>1 DEF SourceInv, SoundFile, Satisfied
<1> QED
  BY <1>1, SourcesStaySound, PTL

\* A view that lacks an input lacks it by the policy of the run that wrote it.
THEOREM OnlyPolicyExcusesViews == Spec => OnlyPolicyExcuses
<1> DEFINE A == \A v \in View, i \in Input :
       views'[v] # views[v] /\ i \in Needs[v] /\ ~Satisfied(views'[v].inputs[i]) =>
         i \in DisabledOK[v] /\ i \in task[views'[v].by].off
<1>1. TypeOK /\ SourceInv /\ [Next]_vars => A
  <2> SUFFICES ASSUME TypeOK, SourceInv, [Next]_vars, NEW v \in View, NEW i \in Input,
                      views'[v] # views[v], i \in Needs[v],
                      ~Satisfied(views'[v].inputs[i])
               PROVE  i \in DisabledOK[v] /\ i \in task[views'[v].by].off
    OBVIOUS
  <2>1. PICK t \in Tier : Step(t)
    BY DEF Next, Reconfigure, Tick, vars, store
  <2>2. /\ views'[v] = [by |-> t, run |-> Run(t), inputs |-> task[t].inputs]
        /\ v \in task[t].todo
    BY <2>1, StepViews
  <2>3. Sound(archive, t, task[t], runs[t] + 1)
    BY DEF SourceInv
  <2> QED
    BY <2>2, <2>3 DEF Sound
<1> QED
  BY <1>1, TypeCorrect, SourcesStaySound, PTL DEF Spec, OnlyPolicyExcuses

-----------------------------------------------------------------------------
\* How old a sample can be.  Three hops, each with a cap of its own: from the
\* owner's scan to the batch, from the batch to the run that recalls it, and from
\* the start of hydration to the push.
FreshBatch(b) ==
  /\ b.run # 0
  /\ \A i \in Input : Satisfied(b.inputs[i]) =>
                       b.at <= b.inputs[i].at + MaxAge + MaxCompose

Fresh(k) ==
  /\ k.pc \in {"idle", "history"} =>
       k.recalled = None /\ \A i \in Input : k.inputs[i].state # "hydrated"
  /\ \A i \in Input : k.inputs[i].state = "hydrated" =>
                       k.asked <= k.inputs[i].at + MaxAge
  /\ k.pc \in Committed => \A i \in Input : k.inputs[i].state = "own" =>
                                          k.asked <= k.inputs[i].at
  /\ k.recalled # None => FreshBatch(k.recalled) /\ k.asked <= k.recalled.at + MaxAge

InTime(k, now) ==
  k.pc \notin {"idle", "history"} => k.asked <= now /\ now <= k.asked + MaxCompose

AgeInv ==
  /\ \A t \in Tier : Fresh(task[t]) /\ InTime(task[t], clock)
  /\ carry # None => FreshBatch(carry)
  /\ SamplesWithinTheCap

LEMMA NoTaskFresh == ASSUME NEW now PROVE Fresh(NoTask) /\ InTime(NoTask, now)
BY DEF Fresh, InTime, NoTask, Lacking, Committed

\* A run that only moves along stays fresh.
LEMMA MoveFresh ==
  ASSUME NEW k \in Task, NEW l \in Task, NEW now, Fresh(k), InTime(k, now),
         l.inputs = k.inputs, l.asked = k.asked, l.recalled = k.recalled,
         k.pc \notin {"idle", "history"}, l.pc \notin {"idle", "history"},
         l.pc \in Committed => k.pc \in Committed
  PROVE  Fresh(l) /\ InTime(l, now)
BY DEF Fresh, InTime

LEMMA GatherFresh ==
  ASSUME TypeOK, NEW t \in Tier, NEW own, NEW whole
  PROVE  LET k == Begun(t, own, whole) IN Fresh(k) /\ InTime(k, clock)
<1> DEFINE k == Begun(t, own, whole)
<1>1. /\ k.inputs = [i \in Input |-> Local(t, i, own, config)]
      /\ k.asked = clock /\ k.recalled = None /\ k.pc \in {"history", "hydrate"}
  BY DEF Begun
<1>2. \A i \in Input : Local(t, i, own, config).state # "hydrated"
  BY DEF Local, Lacking
<1>3. clock \in Nat /\ MaxCompose \in Nat
  BY BoundAssumption DEF TypeOK
<1> HIDE DEF k
<1>4. Fresh(k) /\ InTime(k, clock)
  BY <1>1, <1>2, <1>3 DEF Fresh, InTime, Committed
<1> QED
  BY <1>4 DEF k

LEMMA RecordHistoryFresh ==
  ASSUME TypeOK, AgeInv, NEW t \in Tier, RecordHistory(t)
  PROVE  Fresh(task'[t]) /\ InTime(task'[t], clock)
<1> DEFINE next == [task[t] EXCEPT !.pc = "hydrate", !.asked = clock]
           failed == [next EXCEPT
                        !.own["ai_billing"] = "rejected",
                        !.inputs["ai_billing"] = Lacking("unavailable")]
<1>1. task[t] \in Task /\ task[t].pc = "history" /\ clock \in Nat /\ MaxCompose \in Nat
  BY BoundAssumption DEF RecordHistory, TypeOK
<1>2. task'[t] = next \/ task'[t] = failed
  BY DEF RecordHistory, Update, TypeOK
<1>3. /\ next.inputs = task[t].inputs /\ next.asked = clock /\ next.pc = "hydrate"
      /\ next.recalled = task[t].recalled
  BY <1>1 DEF Task
<1>4. /\ failed.inputs = [task[t].inputs EXCEPT !["ai_billing"] = Lacking("unavailable")]
      /\ failed.asked = clock /\ failed.pc = "hydrate"
      /\ failed.recalled = task[t].recalled
  BY <1>1 DEF Task
<1> HIDE DEF next, failed
<1>5. /\ task[t].recalled = None
      /\ \A i \in Input : task[t].inputs[i].state # "hydrated"
  BY <1>1 DEF AgeInv, Fresh
<1>6. \A i \in Input : failed.inputs[i].state # "hydrated"
  <2>1. \A i \in Input : \/ failed.inputs[i] = task[t].inputs[i]
                         \/ failed.inputs[i].state = "unavailable"
    BY <1>1, <1>4 DEF Task, Provenance, Lacking
  <2> QED
    BY <1>5, <2>1
<1>7. Fresh(next) /\ InTime(next, clock)
  BY <1>1, <1>3, <1>5 DEF Fresh, InTime, Committed
<1>8. Fresh(failed) /\ InTime(failed, clock)
  BY <1>1, <1>4, <1>5, <1>6 DEF Fresh, InTime, Committed
<1> QED
  BY <1>2, <1>7, <1>8

LEMMA HydrateFresh ==
  ASSUME TypeOK, AgeInv, NEW t \in Tier, Hydrate(t)
  PROVE  Fresh(task'[t]) /\ InTime(task'[t], clock)
<1>1. PICK i \in Pending(t) : \E scan \in {latest[Owner[i]], None} :
        Update(t, [task[t] EXCEPT !.inputs[i] = Judge(t, i, scan)])
  BY DEF Hydrate
<1>2. PICK scan \in {latest[Owner[i]], None} :
        Update(t, [task[t] EXCEPT !.inputs[i] = Judge(t, i, scan)])
  BY <1>1
<1>3. task[t] \in Task /\ task[t].pc = "hydrate"
  BY DEF Hydrate, TypeOK
<1>0. Judge(t, i, scan).state = "hydrated" =>
        /\ Usable(t, i, scan)
        /\ Judge(t, i, scan) = [state |-> "hydrated", run |-> scan.run, at |-> scan.at]
  BY DEF Judge, Lacking
<1> DEFINE p == Judge(t, i, scan)
<1>4. p.state = "hydrated" => task[t].asked <= p.at + MaxAge
  BY <1>0 DEF Usable
<1>5. p.state # "own"
  <2>1. Judge(t, i, scan).state \in {"hydrated", "disabled", "unavailable"}
    BY DEF Judge, Lacking
  <2> QED
    BY <2>1
<1> HIDE DEF p
<1>6. task'[t] = [task[t] EXCEPT !.inputs[i] = p]
  BY <1>2 DEF Update, TypeOK, p
<1>7. /\ task'[t].inputs = [task[t].inputs EXCEPT ![i] = p]
      /\ task'[t].asked = task[t].asked /\ task'[t].pc = "hydrate"
      /\ task'[t].recalled = task[t].recalled
  BY <1>3, <1>6 DEF Task
<1>8. \A j \in Input : task'[t].inputs[j] = IF j = i THEN p ELSE task[t].inputs[j]
  BY <1>3, <1>7 DEF Task, Provenance
<1>9. Fresh(task[t]) /\ InTime(task[t], clock)
  BY DEF AgeInv
<1> QED
  BY <1>3, <1>4, <1>5, <1>7, <1>8, <1>9 DEF Fresh, InTime, Committed

LEMMA RecallFresh ==
  ASSUME TypeOK, AgeInv, NEW t \in Tier, Recall(t)
  PROVE  Fresh(task'[t]) /\ InTime(task'[t], clock)
<1>1. PICK kept \in Batch \cup {None} :
        /\ task'[t] = [task[t] EXCEPT !.pc = "gate", !.recalled = kept]
        /\ kept # None => kept = carry /\ Young
  BY DEF Recall, Update, TypeOK
<1>2. task[t] \in Task /\ task[t].pc = "hydrate" /\ clock \in Nat /\ MaxAge \in Nat
  BY BoundAssumption DEF Recall, Hydrated, TypeOK
<1>3. Fresh(task[t]) /\ InTime(task[t], clock)
  BY DEF AgeInv
<1>4. /\ task'[t].inputs = task[t].inputs /\ task'[t].asked = task[t].asked
      /\ task'[t].pc = "gate" /\ task'[t].recalled = kept
  BY <1>1, <1>2 DEF Task
<1>5. task[t].asked \in Nat /\ task[t].asked <= clock
  BY <1>2, <1>3 DEF InTime, Task
<1>6. kept # None => FreshBatch(kept) /\ kept.at \in Nat /\ clock <= kept.at + MaxAge
  BY <1>1 DEF AgeInv, Young, Batch
<1>7. kept # None => task[t].asked <= kept.at + MaxAge
  BY <1>2, <1>5, <1>6
<1> QED
  BY <1>2, <1>3, <1>4, <1>6, <1>7 DEF Fresh, InTime, Committed

LEMMA PassFresh ==
  ASSUME TypeOK, AgeInv, NEW t \in Tier, Pass(t)
  PROVE  Fresh(task'[t]) /\ InTime(task'[t], clock)
<1>1. task[t] \in Task /\ task[t].pc \in {"gate", "hydrate"} /\ clock \in Nat
  BY DEF Pass, AtGate, Hydrated, TypeOK
<1>2. /\ task'[t].pc \in {"save", "views"} /\ task'[t].asked = task[t].asked
      /\ task'[t].inputs = Stamped(task[t].inputs)
      /\ task'[t].recalled = task[t].recalled
  BY <1>1 DEF Pass, Update, TypeOK, Task
<1>3. \A i \in Input :
        IF task[t].inputs[i].state = "own"
          THEN Stamped(task[t].inputs)[i].state = "own"
               /\ Stamped(task[t].inputs)[i].at = clock
          ELSE Stamped(task[t].inputs)[i] = task[t].inputs[i]
  BY DEF Stamped
<1>4. Fresh(task[t]) /\ InTime(task[t], clock) /\ task[t].asked <= clock
  BY <1>1 DEF AgeInv, InTime
<1> QED
  BY <1>1, <1>2, <1>3, <1>4 DEF Fresh, InTime

LEMMA StepFresh ==
  ASSUME TypeOK, AgeInv, NEW t \in Tier, Step(t)
  PROVE  Fresh(task'[t]) /\ InTime(task'[t], clock)
<1>0. task[t] \in Task /\ Fresh(task[t]) /\ InTime(task[t], clock)
  BY DEF TypeOK, AgeInv
<1>1. CASE End(t)
  BY <1>1, NoTaskFresh DEF End, Update, TypeOK
<1>2. CASE Gather(t)
  <2>1. PICK own \in Gatherings(t, config), whole \in BOOLEAN :
          task' = [u \in Tier |-> IF u = t THEN Begun(t, own, whole)
                                 ELSE [task[u] EXCEPT !.solo = FALSE]]
    BY <1>2 DEF Gather
  <2>2. task'[t] = Begun(t, own, whole)
    BY <2>1
  <2> QED
    BY <2>2, GatherFresh
<1>3. CASE RecordHistory(t)
  BY <1>3, RecordHistoryFresh
<1>4. CASE Hydrate(t)
  BY <1>4, HydrateFresh
<1>5. CASE Recall(t)
  BY <1>5, RecallFresh
<1>6. CASE Pass(t)
  BY <1>6, PassFresh
<1>7. CASE StampGaps(t) \/ Save(t) \/ WriteView(t) \/ Push(t) \/ Archive(t)
  <2>1. task[t].pc \notin {"idle", "history"} /\ task'[t] \in Task
    <3>1. TypeOK'
      BY StepType
    <3> QED
      BY <1>7, <3>1 DEF StampGaps, Save, WriteView, Push, Archive, Hydrated, Publishing,
         TypeOK
  <2>2. /\ task'[t].inputs = task[t].inputs /\ task'[t].asked = task[t].asked
        /\ task'[t].recalled = task[t].recalled
        /\ task'[t].pc \notin {"idle", "history"}
        /\ task'[t].pc \in Committed => task[t].pc \in Committed
    <3>1. CASE StampGaps(t) \/ Save(t) \/ Push(t) \/ Archive(t)
      <4>1. PICK pc \in {"gate", "views", "archive", "latest"} :
              /\ task'[t] = [task[t] EXCEPT !.pc = pc]
              /\ pc # "gate" => task[t].pc \in Committed
        BY <3>1 DEF StampGaps, Save, Push, Archive, Publishing, Update, TypeOK, Committed
      <4> QED
        BY <4>1, <1>0 DEF Task, Committed
    <3>2. CASE WriteView(t)
      <4>1. PICK v \in task[t].todo : task'[t] = [task[t] EXCEPT !.todo = @ \ {v}]
        BY <3>2 DEF WriteView, Update, TypeOK
      <4> QED
        BY <4>1, <1>0, <2>1 DEF Task
    <3> QED
      BY <1>7, <3>1, <3>2
  <2> QED
    BY <1>0, <2>1, <2>2, MoveFresh
<1> QED
  BY <1>1, <1>2, <1>3, <1>4, <1>5, <1>6, <1>7
  DEF Step, RateCardFails, Refuse, WriteLatest, Die

\* A publishing run's inputs, when it pushes or saves them.
LEMMA PublishedAge ==
  ASSUME TypeOK, AgeInv, NEW t \in Tier, task[t].pc \in Committed,
         NEW i \in Input, Satisfied(task[t].inputs[i])
  PROVE  clock <= task[t].inputs[i].at + MaxAge + MaxCompose
<1>1. task[t] \in Task /\ task[t].inputs[i] \in Prov /\ clock \in Nat
      /\ MaxAge \in Nat /\ MaxCompose \in Nat
  BY BoundAssumption DEF TypeOK, Task, Provenance
<1>2. task[t].asked \in Nat /\ task[t].inputs[i].at \in Nat
  BY <1>1 DEF Task, Prov
<1>3. clock <= task[t].asked + MaxCompose
  BY DEF AgeInv, InTime, Committed
<1>4. task[t].asked <= task[t].inputs[i].at + MaxAge
  BY <1>1, <1>2 DEF AgeInv, Fresh, Satisfied
<1> QED
  BY <1>1, <1>2, <1>3, <1>4

LEMMA SavedFresh ==
  ASSUME TypeOK, AgeInv, NEW t \in Tier, Save(t)
  PROVE  FreshBatch(carry')
<1>1. PICK clean \in BOOLEAN :
        carry' = [run |-> Run(t), at |-> clock, clean |-> clean,
                  series |-> Live(t), inputs |-> task[t].inputs]
  BY DEF Save
<1>2. task[t].pc \in Committed
  BY DEF Save, Committed
<1>3. Run(t) # 0
  BY DEF Run, TypeOK
<1> QED
  BY <1>1, <1>2, <1>3, PublishedAge DEF FreshBatch

LEMMA PushedAge ==
  ASSUME TypeOK, AgeInv, NEW t \in Tier, Push(t)
  PROVE  SamplesWithinTheCap'
<1>1. task[t].pc \in Committed /\ task[t] \in Task /\ clock \in Nat
  BY DEF Push, Publishing, Committed, TypeOK
<1> SUFFICES ASSUME NEW s \in Series, NEW i \in Input, mimir'[s] # None, i \in Needs[s],
                    Satisfied(mimir'[s].inputs[i])
             PROVE  mimir'[s].at <= mimir'[s].inputs[i].at
                      + (IF mimir'[s].batch = 0 THEN 1 ELSE 2) * (MaxAge + MaxCompose)
  BY DEF SamplesWithinTheCap
<1>2. CASE mimir'[s] = mimir[s]
  BY <1>2 DEF AgeInv, SamplesWithinTheCap
<1>3. CASE mimir'[s] # mimir[s]
  <2>1. mimir'[s] = Pushed(t)[s]
    BY <1>3 DEF Push
  <2>2. MaxAge \in Nat /\ MaxCompose \in Nat
    BY BoundAssumption
  <2>3. CASE s \in Live(t)
    <3>1. mimir'[s].at = clock /\ mimir'[s].batch = 0
          /\ mimir'[s].inputs = task[t].inputs
      BY <2>1, <2>3 DEF Pushed
    <3>2. clock <= task[t].inputs[i].at + MaxAge + MaxCompose
      BY <1>1, <3>1, PublishedAge
    <3>3. task[t].inputs[i].at \in Nat
      BY <1>1 DEF Task, Provenance, Prov
    <3> QED
      BY <1>1, <2>2, <3>1, <3>2, <3>3
  <2>4. CASE s \notin Live(t) /\ s \in Carried(t)
    <3> DEFINE b == task[t].recalled
    <3>1. b # None /\ b \in Batch
      BY <2>4, <1>1 DEF Carried, Task
    <3>2. mimir'[s].at = clock /\ mimir'[s].batch = b.run /\ mimir'[s].inputs = b.inputs
      BY <2>1, <2>4 DEF Pushed
    <3>3. FreshBatch(b) /\ task[t].asked <= b.at + MaxAge
      BY <3>1 DEF AgeInv, Fresh
    <3>4. clock <= task[t].asked + MaxCompose
      BY <1>1 DEF AgeInv, InTime, Committed
    <3>5. b.at \in Nat /\ b.inputs[i].at \in Nat /\ task[t].asked \in Nat
      BY <1>1, <3>1 DEF Batch, Task, Provenance, Prov
    <3> HIDE DEF b
    <3>6. b.run # 0 /\ b.at <= b.inputs[i].at + MaxAge + MaxCompose
      BY <3>2, <3>3 DEF FreshBatch
    <3>7. clock <= b.inputs[i].at + 2 * (MaxAge + MaxCompose)
      BY <1>1, <2>2, <3>3, <3>4, <3>5, <3>6
    <3> QED
      BY <3>2, <3>6, <3>7
  <2>5. CASE s \notin Live(t) /\ s \notin Carried(t)
    BY <1>3, <2>1, <2>5 DEF Pushed
  <2> QED
    BY <2>3, <2>4, <2>5
<1> QED
  BY <1>2, <1>3

LEMMA StepAgeInv ==
  ASSUME TypeOK, AgeInv, NEW t \in Tier, Step(t)
  PROVE  AgeInv'
<1>1. clock' = clock
  BY DEF Step, Gather, RecordHistory, Hydrate, RateCardFails, Recall, StampGaps, Refuse,
     Pass, Save, WriteView, Push, Archive, WriteLatest, Die
<1>2. \A u \in Tier : Fresh(task'[u]) /\ InTime(task'[u], clock')
  <2> SUFFICES ASSUME NEW u \in Tier PROVE Fresh(task'[u]) /\ InTime(task'[u], clock)
    BY <1>1
  <2>1. CASE u = t
    BY <2>1, StepFresh
  <2>2. CASE u # t
    <3>1. /\ task'[u].pc = task[u].pc /\ task'[u].inputs = task[u].inputs
          /\ task'[u].asked = task[u].asked /\ task'[u].recalled = task[u].recalled
      BY <2>2, OthersInputs
    <3>2. Fresh(task[u]) /\ InTime(task[u], clock)
      BY DEF AgeInv
    <3> QED
      BY <3>1, <3>2 DEF Fresh, InTime
  <2> QED
    BY <2>1, <2>2
<1>3. carry' # None => FreshBatch(carry')
  <2>1. carry' = carry \/ Save(t)
    BY DEF Step, Gather, RecordHistory, Hydrate, RateCardFails, Recall, StampGaps, Refuse,
       Pass, WriteView, Push, Archive, WriteLatest, Die, store
  <2> QED
    BY <2>1, SavedFresh DEF AgeInv
<1>4. SamplesWithinTheCap'
  <2>1. mimir' = mimir \/ Push(t)
    BY DEF Step, Gather, RecordHistory, Hydrate, RateCardFails, Recall, StampGaps, Refuse,
       Pass, Save, WriteView, Archive, WriteLatest, Die, store
  <2>2. CASE mimir' = mimir
    BY <2>2 DEF AgeInv, SamplesWithinTheCap
  <2> QED
    BY <2>1, <2>2, PushedAge
<1> QED
  BY <1>2, <1>3, <1>4 DEF AgeInv

LEMMA AgesStay == Spec => []AgeInv
<1>1. Init => AgeInv
  <2> SUFFICES ASSUME Init PROVE AgeInv
    OBVIOUS
  <2>1. \A t \in Tier : task[t] = NoTask
    BY DEF Init
  <2>2. carry = None /\ \A s \in Series : mimir[s] = None
    BY DEF Init
  <2> QED
    BY <2>1, <2>2, NoTaskFresh DEF AgeInv, SamplesWithinTheCap
<1>2. TypeOK /\ AgeInv /\ [Next]_vars => AgeInv'
  <2> SUFFICES ASSUME TypeOK, AgeInv, [Next]_vars PROVE AgeInv'
    OBVIOUS
  <2>1. CASE \E t \in Tier : Step(t)
    BY <2>1, StepAgeInv
  <2>2. CASE Tick
    <3>1. UNCHANGED <<task, carry, mimir>> /\ clock' = clock + 1 /\ clock \in Nat
      BY <2>2 DEF Tick, store, TypeOK
    <3>2. \A t \in Tier : InTime(task[t], clock + 1)
      <4> SUFFICES ASSUME NEW t \in Tier, task[t].pc \notin {"idle", "history"}
                   PROVE  task[t].asked <= clock + 1 /\ clock + 1 <= task[t].asked + MaxCompose
        BY DEF InTime
      <4>1. clock < task[t].asked + MaxCompose /\ task[t].asked <= clock
        BY <2>2 DEF Tick, Active, AgeInv, InTime
      <4>2. task[t].asked \in Nat /\ MaxCompose \in Nat
        BY BoundAssumption DEF TypeOK, Task
      <4> QED
        BY <3>1, <4>1, <4>2
    <3>3. \A t \in Tier : Fresh(task'[t]) /\ InTime(task'[t], clock')
      BY <3>1, <3>2 DEF AgeInv
    <3> QED
      BY <3>1, <3>3 DEF AgeInv, SamplesWithinTheCap
  <2>3. CASE Reconfigure \/ UNCHANGED vars
    <3>1. UNCHANGED <<clock, task, carry, mimir>>
      BY <2>3 DEF Reconfigure, vars, store
    <3> QED
      BY <3>1 DEF AgeInv, SamplesWithinTheCap
  <2> QED
    BY <2>1, <2>2, <2>3 DEF Next
<1> QED
  BY <1>1, <1>2, TypeCorrect, PTL DEF Spec

\* A sample pushed from a run's own inputs is at most one cap and one composition
\* older than the gathers it rests on; a carried one at most two of each.
THEOREM SamplesAreBounded == Spec => []SamplesWithinTheCap
<1>1. AgeInv => SamplesWithinTheCap
  BY DEF AgeInv
<1> QED
  BY <1>1, AgesStay, PTL

-----------------------------------------------------------------------------
\* How far a batch goes that the label guard refuses.  Only a run that is past
\* its gates publishes; while t3 publishes, the saved batch is its own.
Publishes == {"views", "archive", "latest"}

\* A batch that is saved, or that a run holds.
AtHand(b) == b # None /\ (b = carry \/ \E t \in Tier : b = task[t].recalled)

\* Run n of t3 is over, or is this one and has saved its batch.
HasSaved(n) == n <= runs["t3"] \/ (n = Run("t3") /\ task["t3"].pc \in Publishes)

\* The run of t holds something that the guard will refuse.
Dirty(t) == Carried(t) # {} /\ ~task[t].recalled.clean

PoisonInv ==
  /\ \A t \in Tier : task[t].pc \notin Publishes => ~Published(t, Run(t))
  /\ \A t \in Tier : Dirty(t) =>
       task[t].pc \notin {"archive", "latest"} /\ ~Published(t, Run(t))
  /\ task["t3"].pc \in Publishes => carry # None /\ carry.run = Run("t3")
  /\ \A b \in Batch : AtHand(b) => b.run # 0 /\ HasSaved(b.run)
  /\ \A b, c \in Batch : AtHand(b) /\ AtHand(c) /\ b.run = c.run => b.clean = c.clean
  /\ \A s \in Series : mimir[s] # None => HasSaved(mimir[s].batch)
  /\ \A b \in Batch : AtHand(b) /\ ~b.clean =>
       /\ ~Published("t3", b.run)
       /\ \A s \in Series : mimir[s] # None => mimir[s].batch # b.run
       /\ b.run = Run("t3") => task["t3"].pc = "views"

\* A step publishes only for its own run, past the gates and past the guard.
LEMMA OwnPublication ==
  ASSUME TypeOK, NEW t \in Tier, Step(t), NEW u \in Tier, NEW n \in Nat, Published(u, n)'
  PROVE  \/ Published(u, n)
         \/ /\ u = t /\ n = Run(t) /\ task[t].pc \in Publishes
            /\ task[t].pc = "views" => BatchClean(t)
<1>1. CASE UNCHANGED <<latest, archive, views, mimir>>
  BY <1>1 DEF Published
<1>2. CASE WriteView(t)
  <2>1. PICK v \in View : views' = [views EXCEPT ![v] =
                 [by |-> t, run |-> Run(t), inputs |-> task[t].inputs]]
    BY <1>2 DEF WriteView, TypeOK, Task
  <2>2. \A w \in View : w # v => views'[w] = views[w]
    BY <2>1 DEF TypeOK
  <2>3. views'[v].by = t /\ views'[v].run = Run(t)
    BY <2>1 DEF TypeOK
  <2> QED
    BY <1>2, <2>2, <2>3 DEF WriteView, Publishing, Publishes, Published
<1>3. CASE Push(t)
  <2>1. \A s \in Series : \/ Pushed(t)[s] = mimir[s]
                          \/ Pushed(t)[s].by = t /\ Pushed(t)[s].run = Run(t)
    BY DEF Pushed
  <2>2. \A s \in Series : \/ mimir'[s] = mimir[s]
                          \/ mimir'[s].by = t /\ mimir'[s].run = Run(t)
    BY <1>3, <2>1 DEF Push
  <2> QED
    BY <1>3, <2>2 DEF Push, Publishing, Publishes, Published
<1>4. CASE Archive(t)
  <2>1. \A w \in Tier : \A e \in archive'[w] :
          e \in archive[w] \/ (w = t /\ e = Scan(t))
    BY <1>4 DEF Archive, TypeOK
  <2>2. Scan(t).run = Run(t)
    BY DEF Scan
  <2> QED
    BY <1>4, <2>1, <2>2 DEF Archive, Publishes, Published
<1>5. CASE /\ UNCHANGED <<archive, views, mimir>>
           /\ task[t].pc = "latest"
           /\ latest' = [latest EXCEPT ![t] = Scan(t)]
  <2>1. latest'[t].run = Run(t) /\ \A w \in Tier : w # t => latest'[w] = latest[w]
    BY <1>5 DEF TypeOK, Scan
  <2> QED
    BY <1>5, <2>1 DEF Publishes, Published
<1> QED
  BY <1>1, <1>2, <1>3, <1>4, <1>5
  DEF Step, Gather, RecordHistory, Hydrate, RateCardFails, Recall, StampGaps, Refuse, Pass,
      Save, WriteLatest, Die, store

\* What a step does to its own run: it ends, it is still before the gates, it
\* passes them, or it is past them.
Ends(t) == task'[t] = NoTask /\ runs'[t] = Run(t)
Prepares(t) ==
  /\ runs' = runs /\ task[t].pc \notin Publishes /\ task'[t].pc \notin Publishes
  /\ task'[t].recalled \in {task[t].recalled, carry, None}
Passes(t) ==
  /\ runs' = runs /\ task[t].pc \notin Publishes /\ task'[t].pc = "views"
  /\ task'[t].recalled = task[t].recalled
GoesOnPublishing(t) ==
  /\ runs' = runs /\ task[t].pc \in Publishes /\ task'[t].pc \in Publishes
  /\ task[t].pc = "views" => BatchClean(t)
  /\ task'[t].pc = "views" => task[t].pc = "views"
  /\ task'[t].inputs = task[t].inputs /\ task'[t].recalled = task[t].recalled

LEMMA OwnProgress ==
  ASSUME TypeOK, TraceInv, NEW t \in Tier, Step(t)
  PROVE  /\ \/ Ends(t) /\ carry' = carry
            \/ Prepares(t) /\ carry' = carry
            \/ Passes(t) /\ t # "t3" /\ carry' = carry
            \/ Passes(t) /\ t = "t3" /\ Save(t) /\ task[t].pc = "save"
            \/ GoesOnPublishing(t) /\ carry' = carry
         /\ \A u \in Tier \ {t} : runs'[u] = runs[u]
<1>0. task[t] \in Task /\ TypeOK'
  BY StepType DEF TypeOK
<1>1. \A u \in Tier \ {t} : runs'[u] = runs[u]
  BY OthersKeep
<1>2. CASE RateCardFails(t) \/ Refuse(t) \/ WriteLatest(t) \/ Die(t)
  <2>0. End(t)
    BY <1>2 DEF RateCardFails, Refuse, WriteLatest, Die
  <2>1. Ends(t)
    BY <2>0 DEF End, Update, Ends, Run, TypeOK
  <2> QED
    BY <1>1, <1>2, <2>1 DEF RateCardFails, Refuse, WriteLatest, Die, store
<1>3. CASE Gather(t)
  <2>1. PICK own \in Gatherings(t, config), whole \in BOOLEAN :
          task' = [u \in Tier |-> IF u = t THEN Begun(t, own, whole)
                                 ELSE [task[u] EXCEPT !.solo = FALSE]]
    BY <1>3 DEF Gather
  <2>2. task'[t] = Begun(t, own, whole)
    BY <2>1
  <2>3. task'[t].recalled = None /\ task'[t].pc \in {"history", "hydrate"}
    BY <2>2 DEF Begun
  <2> QED
    BY <1>1, <1>3, <2>3 DEF Gather, Active, Prepares, Publishes, store
<1>4. CASE RecordHistory(t)
  <2>1. task'[t].pc = "hydrate" /\ task'[t].recalled = task[t].recalled
    <3> DEFINE next == [task[t] EXCEPT !.pc = "hydrate", !.asked = clock]
               failed == [next EXCEPT
                            !.own["ai_billing"] = "rejected",
                            !.inputs["ai_billing"] = Lacking("unavailable")]
    <3>1. task'[t] = next \/ task'[t] = failed
      BY <1>4 DEF RecordHistory, Update, TypeOK
    <3>2. /\ next.pc = "hydrate" /\ next.recalled = task[t].recalled
          /\ failed.pc = "hydrate" /\ failed.recalled = task[t].recalled
      BY <1>0 DEF Task
    <3> QED
      BY <3>1, <3>2
  <2> QED
    BY <1>1, <1>4, <2>1 DEF RecordHistory, Prepares, Publishes
<1>5. CASE Hydrate(t)
  <2>1. PICK i \in Pending(t) : \E scan \in {latest[Owner[i]], None} :
          Update(t, [task[t] EXCEPT !.inputs[i] = Judge(t, i, scan)])
    BY <1>5 DEF Hydrate
  <2>2. PICK p : task'[t] = [task[t] EXCEPT !.inputs[i] = p]
    BY <2>1 DEF Update, TypeOK
  <2>3. task'[t].pc = task[t].pc /\ task'[t].recalled = task[t].recalled
    BY <1>0, <2>2 DEF Task
  <2> QED
    BY <1>1, <1>5, <2>3 DEF Hydrate, Prepares, Publishes, store
<1>6. CASE Recall(t)
  <2>1. PICK kept \in {carry, None} : task'[t] = [task[t] EXCEPT !.pc = "gate", !.recalled = kept]
    BY <1>6 DEF Recall, Update, TypeOK
  <2>2. task'[t].pc = "gate" /\ task'[t].recalled = kept
    BY <1>0, <2>1 DEF Task
  <2> QED
    BY <1>1, <1>6, <2>2 DEF Recall, Hydrated, Prepares, Publishes, store
<1>7. CASE StampGaps(t)
  <2>1. task'[t] = [task[t] EXCEPT !.pc = "gate"]
    BY <1>7 DEF StampGaps, Update, TypeOK
  <2>2. task'[t].pc = "gate" /\ task'[t].recalled = task[t].recalled
    BY <1>0, <2>1 DEF Task
  <2> QED
    BY <1>1, <1>7, <2>2 DEF StampGaps, Hydrated, Prepares, Publishes
<1>8. CASE Pass(t)
  <2>1. /\ task'[t].pc = (IF t = "t3" THEN "save" ELSE "views")
        /\ task'[t].recalled = task[t].recalled
    BY <1>0, <1>8 DEF Pass, Update, TypeOK, Task
  <2>2. task[t].pc \in {"gate", "hydrate"} /\ runs' = runs /\ carry' = carry
    BY <1>8 DEF Pass, AtGate, Hydrated, store
  <2> QED
    BY <1>1, <2>1, <2>2 DEF Passes, Prepares, Publishes
<1>9. CASE Save(t)
  <2>1. t = "t3" /\ task[t].pc = "save"
    BY <1>9 DEF Save, TraceInv
  <2>2. task'[t] = [task[t] EXCEPT !.pc = "views"]
    BY <1>9 DEF Save, Update, TypeOK
  <2>3. task'[t].pc = "views" /\ task'[t].recalled = task[t].recalled
    BY <1>0, <2>2 DEF Task
  <2> QED
    BY <1>1, <1>9, <2>1, <2>3 DEF Save, Passes, Publishes
<1>10. CASE WriteView(t)
  <2>1. PICK v : task'[t] = [task[t] EXCEPT !.todo = @ \ {v}]
    BY <1>10 DEF WriteView, Update, TypeOK
  <2>2. /\ task'[t].pc = task[t].pc /\ task'[t].recalled = task[t].recalled
        /\ task'[t].inputs = task[t].inputs
    BY <1>0, <2>1 DEF Task
  <2> QED
    BY <1>1, <1>10, <2>2 DEF WriteView, Publishing, GoesOnPublishing, Publishes
<1>11. CASE Push(t) \/ Archive(t)
  <2>1. PICK pc \in {"archive", "latest"} : task'[t] = [task[t] EXCEPT !.pc = pc]
    BY <1>11 DEF Push, Archive, Update, TypeOK
  <2>2. /\ task'[t].pc = pc /\ task'[t].recalled = task[t].recalled
        /\ task'[t].inputs = task[t].inputs
    BY <1>0, <2>1 DEF Task
  <2> QED
    BY <1>1, <1>11, <2>2 DEF Push, Archive, Publishing, GoesOnPublishing, Publishes
<1> QED
  BY <1>2, <1>3, <1>4, <1>5, <1>6, <1>7, <1>8, <1>9, <1>10, <1>11 DEF Step

\* What a push does to a sample.
LEMMA SampleComes ==
  ASSUME TypeOK, NEW t \in Tier, Step(t), NEW s \in Series, mimir'[s] # None,
         mimir'[s] # mimir[s]
  PROVE  /\ task[t].pc = "views" /\ BatchClean(t)
         /\ \/ mimir'[s].batch = 0
            \/ /\ AtHand(task[t].recalled) /\ task[t].recalled \in Batch
               /\ task[t].recalled.clean /\ mimir'[s].batch = task[t].recalled.run
<1>1. Push(t)
  BY DEF Step, Gather, RecordHistory, Hydrate, RateCardFails, Recall, StampGaps, Refuse,
     Pass, Save, WriteView, Archive, WriteLatest, Die, store
<1>2. mimir'[s] = Pushed(t)[s] /\ task[t].pc = "views" /\ BatchClean(t)
  BY <1>1 DEF Push, Publishing
<1>3. CASE s \in Live(t)
  BY <1>2, <1>3 DEF Pushed
<1>4. CASE s \notin Live(t) /\ s \in Carried(t)
  <2>1. task[t].recalled # None /\ task[t].recalled \in Batch
    BY <1>4 DEF Carried, TypeOK, Task
  <2>2. task[t].recalled.clean
    BY <1>2, <1>4 DEF BatchClean
  <2> QED
    BY <1>2, <1>4, <2>1, <2>2 DEF Pushed, AtHand
<1> QED
  BY <1>2, <1>3, <1>4 DEF Pushed

\* A batch comes to hand by being saved.
LEMMA HandComes ==
  ASSUME TypeOK, TraceInv, NEW t \in Tier, Step(t), NEW b \in Batch, AtHand(b)'
  PROVE  \/ AtHand(b)
         \/ t = "t3" /\ Save(t) /\ b = carry' /\ b.run = Run(t) /\ task[t].pc = "save"
<1>1. \A u \in Tier \ {t} : task'[u].recalled = task[u].recalled
  BY OthersInputs
<1>2. b # None /\ (b = carry' \/ \E u \in Tier : b = task'[u].recalled)
  BY DEF AtHand
<1>3. CASE Save(t)
  <2>1. t = "t3" /\ task[t].pc = "save" /\ carry'.run = Run(t)
    BY <1>3 DEF Save, TraceInv
  <2>2. task'[t].recalled = task[t].recalled
    BY <1>3, <2>1 DEF Save, Update, TypeOK, Task
  <2> QED
    BY <1>1, <1>2, <1>3, <2>1, <2>2 DEF AtHand
<1>4. CASE ~Save(t)
  <2>1. carry' = carry
    BY <1>4, OwnProgress
  <2>2. task'[t].recalled \in {task[t].recalled, carry, None}
    BY <1>4, OwnProgress DEF Ends, NoTask, Prepares, Passes, GoesOnPublishing
  <2> QED
    BY <1>1, <1>2, <2>1, <2>2 DEF AtHand
<1> QED
  BY <1>3, <1>4

LEMMA StepPoisonInv ==
  ASSUME TypeOK, TraceInv, PoisonInv, NEW t \in Tier, Step(t)
  PROVE  PoisonInv'
<1>1. /\ TypeOK' /\ "t3" \in Tier
      /\ \A u \in Tier : runs[u] \in Nat /\ Run(u) = runs[u] + 1
      /\ \A u \in Tier : runs'[u] \in Nat /\ Run(u)' = runs'[u] + 1
  BY StepType DEF TypeOK, Run, Tier
<1>2. /\ \/ Ends(t) /\ carry' = carry
         \/ Prepares(t) /\ carry' = carry
         \/ Passes(t) /\ t # "t3" /\ carry' = carry
         \/ Passes(t) /\ t = "t3" /\ Save(t) /\ task[t].pc = "save"
         \/ GoesOnPublishing(t) /\ carry' = carry
      /\ \A u \in Tier \ {t} : runs'[u] = runs[u]
  BY OwnProgress
<1>3. \A u \in Tier \ {t} :
        /\ runs'[u] = runs[u] /\ Run(u)' = Run(u) /\ task'[u].pc = task[u].pc
        /\ task'[u].inputs = task[u].inputs /\ task'[u].recalled = task[u].recalled
  BY <1>1, <1>2, OthersInputs
<1>4. \A u \in Tier : \A n \in Nat : Published(u, n)' =>
        \/ Published(u, n)
        \/ /\ u = t /\ n = Run(t) /\ task[t].pc \in Publishes
           /\ task[t].pc = "views" => BatchClean(t)
  BY OwnPublication
<1>5. \A u \in Tier : \A n \in Nat : Published(u, n) => n <= Run(u)
  BY DEF TraceInv, LeftTrace
<1>6. Ends(t) => runs'[t] = Run(t) /\ task'[t].pc = "idle" /\ task'[t].recalled = None
  BY DEF Ends, NoTask
<1>7. ~Ends(t) => runs'[t] = runs[t] /\ Run(t)' = Run(t)
  BY <1>1, <1>2 DEF Prepares, Passes, GoesOnPublishing
\* Nothing is published before the gates.
<1>10. ASSUME NEW u \in Tier, task'[u].pc \notin Publishes
       PROVE  ~Published(u, Run(u))'
  <2>0. PICK n \in Nat : n = Run(u)'
    BY <1>1
  <2>1. n = Run(u)' /\ (Published(u, Run(u))' => Published(u, n)')
    BY <2>0 DEF Published
  <2>2. CASE u # t
    <3>1. n = Run(u) /\ ~Published(u, Run(u))
      BY <1>3, <1>10, <2>1, <2>2 DEF PoisonInv
    <3> QED
      BY <1>4, <2>1, <2>2, <3>1
  <2>3. CASE u = t /\ Ends(t)
    <3>1. n = Run(t) + 1
      BY <1>1, <1>6, <2>1, <2>3
    <3> QED
      BY <1>1, <1>4, <1>5, <2>1, <2>3, <3>1
  <2>4. CASE u = t /\ ~Ends(t)
    <3>1. Prepares(t)
      BY <1>2, <1>10, <2>4 DEF Passes, GoesOnPublishing, Publishes
    <3>2. task[t].pc \notin Publishes /\ n = Run(t) /\ ~Published(t, Run(t))
      BY <1>7, <2>1, <2>4, <3>1 DEF Prepares, PoisonInv
    <3> QED
      BY <1>4, <2>1, <2>4, <3>2
  <2> QED
    BY <2>2, <2>3, <2>4
\* Nor while the run holds something that the guard refuses.
<1>11. ASSUME NEW u \in Tier, Dirty(u)'
       PROVE  task'[u].pc \notin {"archive", "latest"} /\ ~Published(u, Run(u))'
  <2>1. CASE task'[u].pc \notin Publishes
    BY <1>10, <2>1 DEF Publishes
  <2>2. CASE task'[u].pc \in Publishes /\ u # t
    <3>1. Dirty(u)
      BY <1>3, <1>11, <2>2 DEF Dirty, Carried, Live, Composable, Admitted, Satisfied
    <3>2. task[u].pc \notin {"archive", "latest"} /\ ~Published(u, Run(u))
      BY <3>1 DEF PoisonInv
    <3>3. PICK n \in Nat : n = Run(u)' /\ n = Run(u)
      BY <1>1, <1>3, <2>2
    <3>4. Published(u, Run(u))' => Published(u, n)'
      BY <3>3 DEF Published
    <3> QED
      BY <1>3, <1>4, <2>2, <3>2, <3>3, <3>4
  <2>3. CASE task'[u].pc \in Publishes /\ u = t /\ Passes(t)
    <3>1. task[t].pc \notin Publishes /\ ~Published(t, Run(t)) /\ Run(t)' = Run(t)
      BY <1>1, <2>3 DEF Passes, PoisonInv, Run
    <3>2. PICK n \in Nat : n = Run(t)' /\ n = Run(t)
      BY <1>1, <3>1
    <3>3. Published(t, Run(t))' => Published(t, n)'
      BY <3>2 DEF Published
    <3> QED
      BY <1>4, <2>3, <3>1, <3>2, <3>3 DEF Passes
  <2>4. CASE task'[u].pc \in Publishes /\ u = t /\ GoesOnPublishing(t)
    <3>1. Dirty(t)
      BY <1>11, <2>4 DEF GoesOnPublishing, Dirty, Carried, Live, Composable, Admitted, Satisfied
    <3>2. task[t].pc = "views"
      BY <2>4, <3>1 DEF PoisonInv, GoesOnPublishing, Publishes
    <3>3. BatchClean(t)
      BY <2>4, <3>2 DEF GoesOnPublishing
    <3> QED
      BY <3>1, <3>3 DEF Dirty, BatchClean
  <2> QED
    BY <1>2, <1>6, <2>1, <2>2, <2>3, <2>4 DEF Prepares, Publishes
<1>12. task'["t3"].pc \in Publishes => carry' # None /\ carry'.run = Run("t3")'
  <2> SUFFICES ASSUME task'["t3"].pc \in Publishes
               PROVE  carry' # None /\ carry'.run = Run("t3")'
    OBVIOUS
  <2>1. CASE t # "t3"
    BY <1>1, <1>2, <1>3, <2>1 DEF PoisonInv
  <2>2. CASE t = "t3" /\ Save(t)
    <3>1. carry'.run = Run(t) /\ runs' = runs
      BY <2>2 DEF Save
    <3>2. carry' # None
      <4>1. PICK clean \in BOOLEAN :
              carry' = [run |-> Run(t), at |-> clock, clean |-> clean,
                        series |-> Live(t), inputs |-> task[t].inputs]
        BY <2>2 DEF Save
      <4>2. Live(t) \in SUBSET Series /\ Run(t) \in Nat /\ clock \in Nat
            /\ task[t].inputs \in Provenance
        BY <1>1 DEF Live, TypeOK, Task
      <4>3. carry' \in Batch
        BY <4>1, <4>2 DEF Batch
      <4> QED
        BY <4>3, NoneAssumption
    <3> QED
      BY <1>1, <2>2, <3>1, <3>2
  <2>3. CASE t = "t3" /\ GoesOnPublishing(t) /\ carry' = carry
    BY <1>1, <2>3 DEF PoisonInv, GoesOnPublishing
  <2> QED
    BY <1>2, <1>6, <2>1, <2>2, <2>3 DEF Prepares, Publishes
<1>13. \A n \in Nat : HasSaved(n) => HasSaved(n)'
  <2> SUFFICES ASSUME NEW n \in Nat, HasSaved(n) PROVE HasSaved(n)'
    OBVIOUS
  <2>1. CASE t # "t3"
    BY <1>1, <1>3, <2>1 DEF HasSaved
  <2>2. CASE t = "t3" /\ Ends(t)
    BY <1>1, <1>6, <2>2 DEF HasSaved
  <2>3. CASE t = "t3" /\ ~Ends(t)
    <3>1. task["t3"].pc \in Publishes => task'["t3"].pc \in Publishes
      BY <1>2, <2>3 DEF Prepares, Passes, GoesOnPublishing
    <3> QED
      BY <1>1, <1>7, <2>3, <3>1 DEF HasSaved
  <2> QED
    BY <2>1, <2>2, <2>3
<1>14. ASSUME NEW b \in Batch, AtHand(b)', ~AtHand(b)
       PROVE  /\ t = "t3" /\ Save(t) /\ b = carry' /\ b.run = Run(t) /\ task[t].pc = "save"
              /\ task'[t].pc = "views" /\ Run(t)' = Run(t)
  <2>1. t = "t3" /\ Save(t) /\ b = carry' /\ b.run = Run(t) /\ task[t].pc = "save"
    BY <1>14, HandComes
  <2>2. task'[t].pc = "views" /\ Run(t)' = Run(t)
    BY <2>1 DEF Save, Update, TypeOK, Task, Run
  <2> QED
    BY <2>1, <2>2
\* A batch that was at hand before a save is not of the run that saves.
<1>15. ASSUME NEW n \in Nat, HasSaved(n), task["t3"].pc = "save" PROVE n # Run("t3")
  BY <1>1, <1>15 DEF HasSaved, Publishes
<1>16. ASSUME NEW b \in Batch, AtHand(b)' PROVE b.run # 0 /\ HasSaved(b.run)' /\ b.run \in Nat
  <2>0. b.run \in Nat
    BY DEF Batch
  <2>1. CASE AtHand(b)
    BY <1>13, <2>0, <2>1 DEF PoisonInv
  <2>2. CASE ~AtHand(b)
    <3>1. b.run = Run("t3") /\ Run("t3")' = Run("t3") /\ task'["t3"].pc = "views"
      BY <1>14, <1>16, <2>2
    <3> QED
      BY <1>1, <2>0, <3>1 DEF HasSaved, Publishes
  <2> QED
    BY <2>0, <2>1, <2>2
<1>17. ASSUME NEW b \in Batch, NEW c \in Batch, AtHand(b)', AtHand(c)', b.run = c.run
       PROVE  b.clean = c.clean
  <2>1. CASE AtHand(b) /\ AtHand(c)
    BY <1>17, <2>1 DEF PoisonInv
  <2>2. CASE ~AtHand(b) /\ ~AtHand(c)
    BY <1>14, <1>17, <2>2
  <2>3. ASSUME NEW x \in Batch, NEW y \in Batch, AtHand(x), AtHand(y)', ~AtHand(y), x.run = y.run
        PROVE  FALSE
    <3>1. y.run = Run("t3") /\ task["t3"].pc = "save"
      BY <1>14, <2>3
    <3>2. HasSaved(x.run) /\ x.run \in Nat
      BY <2>3 DEF PoisonInv, Batch
    <3> QED
      BY <1>15, <2>3, <3>1, <3>2
  <2> QED
    BY <1>17, <2>1, <2>2, <2>3
<1>18. ASSUME NEW s \in Series, mimir'[s] # None
       PROVE  HasSaved(mimir[s].batch)'
  <2>0. PICK n \in Nat : n = mimir'[s].batch
    BY <1>1, <1>18 DEF TypeOK, Sample
  <2>1. HasSaved(n)
    <3>1. CASE mimir'[s] = mimir[s]
      BY <1>18, <2>0, <3>1 DEF PoisonInv
    <3>2. CASE mimir'[s] # mimir[s] /\ mimir'[s].batch = 0
      BY <1>1, <2>0, <3>2 DEF HasSaved
    <3>3. CASE mimir'[s] # mimir[s] /\ mimir'[s].batch # 0
      <4>1. /\ AtHand(task[t].recalled) /\ task[t].recalled \in Batch
            /\ mimir'[s].batch = task[t].recalled.run
        BY <1>18, <3>3, SampleComes
      <4> QED
        BY <2>0, <4>1 DEF PoisonInv
    <3> QED
      BY <3>1, <3>2, <3>3
  <2>2. HasSaved(n)'
    BY <1>13, <2>1
  <2> QED
    BY <2>0, <2>2 DEF HasSaved
\* A batch that the guard refuses stays where it is.
<1>19. ASSUME NEW b \in Batch, AtHand(b)', ~b.clean
       PROVE  /\ ~Published("t3", b.run)'
              /\ \A s \in Series : mimir'[s] # None => mimir'[s].batch # b.run
              /\ b.run = Run("t3")' => task'["t3"].pc = "views"
  <2>0. b.run \in Nat /\ b.run # 0
    BY <1>16, <1>19
  <2>1. CASE ~AtHand(b)
    <3>1. /\ t = "t3" /\ Save(t) /\ b.run = Run("t3") /\ task["t3"].pc = "save"
          /\ task'["t3"].pc = "views" /\ mimir' = mimir
      BY <1>14, <1>19, <2>1 DEF Save
    <3>2. ~Published("t3", b.run)
      BY <1>1, <3>1 DEF PoisonInv, Publishes
    <3>3. ~Published("t3", b.run)'
      BY <1>1, <1>4, <2>0, <3>1, <3>2 DEF Publishes
    <3>4. ASSUME NEW s \in Series, mimir'[s] # None PROVE mimir'[s].batch # b.run
      <4>1. HasSaved(mimir[s].batch) /\ mimir[s].batch \in Nat
        BY <3>1, <3>4 DEF PoisonInv, TypeOK, Sample
      <4> QED
        BY <1>15, <3>1, <4>1
    <3> QED
      BY <3>1, <3>3, <3>4
  <2>2. CASE AtHand(b)
    <3>0. /\ ~Published("t3", b.run)
          /\ \A s \in Series : mimir[s] # None => mimir[s].batch # b.run
          /\ b.run = Run("t3") => task["t3"].pc = "views"
      BY <1>19, <2>2 DEF PoisonInv
    \* The guard of t3 looks at the batch that the run has saved.
    <3>1. ~(t = "t3" /\ b.run = Run("t3") /\ task[t].pc = "views" /\ BatchClean(t))
      <4> SUFFICES ASSUME t = "t3", b.run = Run("t3"), task[t].pc = "views", BatchClean(t)
                   PROVE  FALSE
        OBVIOUS
      <4>1. carry # None /\ carry.run = Run("t3") /\ carry \in Batch /\ carry.clean
        BY DEF PoisonInv, Publishes, BatchClean, TypeOK
      <4>2. AtHand(carry) /\ carry.run = b.run
        BY <4>1 DEF AtHand
      <4> QED
        BY <1>19, <2>2, <4>1, <4>2 DEF PoisonInv
    <3>2. ~Published("t3", b.run)'
      BY <1>1, <1>4, <2>0, <3>0, <3>1
    <3>3. ASSUME NEW s \in Series, mimir'[s] # None PROVE mimir'[s].batch # b.run
      <4>1. CASE mimir'[s] = mimir[s]
        BY <3>0, <3>3, <4>1
      <4>2. CASE mimir'[s] # mimir[s]
        <5>1. \/ mimir'[s].batch = 0
              \/ /\ AtHand(task[t].recalled) /\ task[t].recalled \in Batch
                 /\ task[t].recalled.clean /\ mimir'[s].batch = task[t].recalled.run
          BY <3>3, <4>2, SampleComes
        <5> QED
          BY <1>19, <2>0, <2>2, <5>1 DEF PoisonInv
      <4> QED
        BY <4>1, <4>2
    <3>4. b.run = Run("t3")' => task'["t3"].pc = "views"
      <4> SUFFICES ASSUME b.run = Run("t3")' PROVE task'["t3"].pc = "views"
        OBVIOUS
      <4>1. HasSaved(b.run)
        BY <2>2 DEF PoisonInv
      <4>2. CASE t # "t3"
        BY <1>1, <1>3, <3>0, <4>2
      <4>3. CASE t = "t3" /\ Ends(t)
        BY <1>1, <1>6, <2>0, <4>1, <4>3 DEF HasSaved
      <4>4. CASE t = "t3" /\ ~Ends(t)
        <5>1. task["t3"].pc = "views"
          BY <1>7, <3>0, <4>4
        <5>2. GoesOnPublishing(t) /\ BatchClean(t)
          BY <1>2, <4>4, <5>1 DEF Prepares, Passes, GoesOnPublishing, Publishes
        <5> QED
          BY <1>7, <3>1, <4>4, <5>1, <5>2
      <4> QED
        BY <4>2, <4>3, <4>4
    <3> QED
      BY <3>2, <3>3, <3>4
  <2> QED
    BY <2>1, <2>2
<1> QED
  BY <1>10, <1>11, <1>12, <1>16, <1>17, <1>18, <1>19 DEF PoisonInv

LEMMA PoisonStays == Spec => []PoisonInv
<1>1. Init => PoisonInv
  <2> SUFFICES ASSUME Init PROVE PoisonInv
    OBVIOUS
  <2>1. \A t \in Tier, n \in Nat : ~Published(t, n)
    BY DEF Init, Published
  <2>2. /\ \A t \in Tier : Run(t) = 1 /\ task[t].pc = "idle" /\ task[t].recalled = None
        /\ carry = None /\ \A s \in Series : mimir[s] = None
    BY DEF Init, Run, NoTask
  <2>3. \A b : ~AtHand(b)
    BY <2>2 DEF AtHand
  <2>4. \A t \in Tier : ~Published(t, Run(t)) /\ ~Dirty(t) /\ task[t].pc \notin Publishes
    BY <2>1, <2>2 DEF Dirty, Carried, Publishes
  <2> QED
    BY <2>2, <2>3, <2>4 DEF PoisonInv, Tier
<1>2. TypeOK /\ TraceInv /\ PoisonInv /\ [Next]_vars => PoisonInv'
  <2> SUFFICES ASSUME TypeOK, TraceInv, PoisonInv, [Next]_vars PROVE PoisonInv'
    OBVIOUS
  <2>1. CASE \E t \in Tier : Step(t)
    BY <2>1, StepPoisonInv
  <2>2. CASE Reconfigure \/ Tick \/ UNCHANGED vars
    <3>1. UNCHANGED <<store, task, runs>>
      BY <2>2 DEF Reconfigure, Tick, vars
    <3>2. PoisonInv' <=> PoisonInv
      BY <3>1 DEF PoisonInv, Published, AtHand, HasSaved, Dirty, Carried, Live, Composable,
         Admitted, Satisfied, store, Run
    <3> QED
      BY <3>2
  <2> QED
    BY <2>1, <2>2 DEF Next
<1> QED
  BY <1>1, <1>2, TypeCorrect, TracesStay, PTL DEF Spec

\* A batch that the label guard refuses is saved all the same, and goes no
\* further: its run publishes nothing, no sample is ever carried from it, a run
\* of t1 that holds some of it publishes nothing, and it stops none any more when
\* it is older than the cap and one composition.
THEOREM PoisonStaysContained == Spec => []PoisonIsContained
<1>1. TypeOK /\ AgeInv /\ PoisonInv => PoisonIsContained
  <2> SUFFICES ASSUME TypeOK, AgeInv, PoisonInv,
                      NEW b \in {carry, task["t1"].recalled}, b # None, ~b.clean
               PROVE  /\ ~Published("t3", b.run)
                      /\ \A s \in Series : mimir[s] # None => mimir[s].batch # b.run
                      /\ b = task["t1"].recalled /\ Carried("t1") # {} =>
                           ~Published("t1", Run("t1")) /\ clock <= b.at + MaxAge + MaxCompose
    BY DEF PoisonIsContained
  <2>1. "t1" \in Tier /\ task["t1"] \in Task /\ clock \in Nat
    BY DEF Tier, TypeOK
  <2>2. AtHand(b) /\ b \in Batch
    BY <2>1 DEF AtHand, TypeOK, Task
  <2>3. b = task["t1"].recalled /\ Carried("t1") # {} => ~Published("t1", Run("t1"))
    BY <2>1 DEF PoisonInv, Dirty
  <2>4. b = task["t1"].recalled => clock <= b.at + MaxAge + MaxCompose
    <3> SUFFICES ASSUME b = task["t1"].recalled PROVE clock <= b.at + MaxAge + MaxCompose
      OBVIOUS
    <3>1. task["t1"].asked <= b.at + MaxAge /\ task["t1"].pc \notin {"idle", "history"}
      BY <2>1 DEF AgeInv, Fresh
    <3>2. clock <= task["t1"].asked + MaxCompose
      BY <2>1, <3>1 DEF AgeInv, InTime
    <3>3. task["t1"].asked \in Nat /\ b.at \in Nat /\ MaxAge \in Nat /\ MaxCompose \in Nat
      BY <2>1, <2>2, BoundAssumption DEF Task, Batch
    <3> QED
      BY <2>1, <3>1, <3>2, <3>3
  <2> QED
    BY <2>2, <2>3, <2>4 DEF PoisonInv
<1> QED
  BY <1>1, TypeCorrect, AgesStay, PoisonStays, PTL

-----------------------------------------------------------------------------
\* A run that has the bucket to itself.  While it goes on, no other tier moves
\* without ending its solitude, so what it was hydrated with stays what its
\* owners published last; and what it writes is what it was hydrated with.
Writing == {"views", "archive", "latest"}

\* The memory k rests on the scans that its owners published last.
Current(k, last) ==
  \A i \in Input : k.inputs[i].state = "hydrated" =>
    last[Owner[i]] # None /\ k.inputs[i].run = last[Owner[i]].run

SoloInv ==
  /\ \A t \in Tier : task[t].solo => Alone(t) /\ Current(task[t], latest)
  /\ \A t \in Tier, v \in View :
       views[v] # None /\ views[v].by = t =>
         /\ views[v].run <= Run(t)
         /\ views[v].run = Run(t) =>
              task[t].pc \in Writing /\ views[v].inputs = task[t].inputs

\* A step of one tier ends the solitude of every other.
LEMMA OthersAreNotAlone ==
  ASSUME TypeOK, SoloInv, NEW t \in Tier, Step(t), NEW u \in Tier, u # t
  PROVE  ~task'[u].solo
<1>0. task[u] \in Task
  BY DEF TypeOK
<1>1. CASE Gather(t)
  <2>1. PICK own \in Gatherings(t, config), whole \in BOOLEAN :
          task' = [w \in Tier |-> IF w = t THEN Begun(t, own, whole)
                                 ELSE [task[w] EXCEPT !.solo = FALSE]]
    BY <1>1 DEF Gather
  <2>2. task'[u] = [task[u] EXCEPT !.solo = FALSE]
    BY <2>1
  <2> QED
    BY <1>0, <2>2 DEF Task
<1>2. CASE ~Gather(t)
  <2>1. task'[u] = task[u]
    BY <1>2 DEF Step, RecordHistory, Hydrate, RateCardFails, Recall, StampGaps, Refuse,
       Pass, Save, WriteView, Push, Archive, WriteLatest, Die, Update, End, TypeOK
  <2>2. Active(t)
    BY <1>2 DEF Step, RecordHistory, Hydrate, RateCardFails, Recall, StampGaps, Refuse,
       Pass, Save, WriteView, Push, Archive, WriteLatest, Die, Publishing, Hydrated,
       AtGate, Active
  <2>3. task[u].solo => ~Active(t)
    BY DEF SoloInv, Alone
  <2> QED
    BY <2>1, <2>2, <2>3
<1> QED
  BY <1>1, <1>2

\* The run gathers, reads or stamps: it has written no view yet.
Learns(t) ==
  /\ runs' = runs /\ views' = views
  /\ task[t].pc \notin Writing
  /\ task'[t].solo => Alone(t) /\ Current(task'[t], latest')

\* The run goes on with what it has learned.
Keeps(t) ==
  /\ runs' = runs /\ latest' = latest
  /\ task'[t].inputs = task[t].inputs /\ task'[t].solo = task[t].solo
  /\ task[t].pc \in Writing => task'[t].pc \in Writing
  /\ views' # views => task'[t].pc \in Writing

\* The run is over.
Forgets(t) ==
  /\ runs'[t] = Run(t) /\ views' = views
  /\ task'[t] = NoTask

LEMMA GatherLearns ==
  ASSUME TypeOK, SoloInv, NEW t \in Tier, Gather(t)
  PROVE  Learns(t)
<1>1. PICK own \in Gatherings(t, config), whole \in BOOLEAN :
        task' = [w \in Tier |-> IF w = t THEN Begun(t, own, whole)
                               ELSE [task[w] EXCEPT !.solo = FALSE]]
  BY DEF Gather
<1>2. task'[t] = Begun(t, own, whole)
  BY <1>1
<1>3. /\ task'[t].solo = Alone(t)
      /\ task'[t].inputs = [i \in Input |-> Local(t, i, own, config)]
  BY <1>2 DEF Begun
<1>4. \A i \in Input : Local(t, i, own, config).state # "hydrated"
  BY DEF Local, Lacking
<1> QED
  BY <1>3, <1>4 DEF Gather, store, Learns, Current, Active, Writing

LEMMA RecordHistoryLearns ==
  ASSUME TypeOK, SoloInv, NEW t \in Tier, RecordHistory(t)
  PROVE  Learns(t)
<1> DEFINE next == [task[t] EXCEPT !.pc = "hydrate", !.asked = clock]
           failed == [next EXCEPT
                        !.own["ai_billing"] = "rejected",
                        !.inputs["ai_billing"] = Lacking("unavailable")]
<1>1. task[t] \in Task /\ task[t].pc = "history"
  BY DEF RecordHistory, TypeOK
<1>2. task'[t] = next \/ task'[t] = failed
  BY DEF RecordHistory, Update, TypeOK
<1>3. next.inputs = task[t].inputs /\ next.solo = task[t].solo
  BY <1>1 DEF Task
<1>4. /\ failed.inputs = [task[t].inputs EXCEPT !["ai_billing"] = Lacking("unavailable")]
      /\ failed.solo = task[t].solo
  BY <1>1 DEF Task
<1> HIDE DEF next, failed
<1>5. \A i \in Input : \/ task'[t].inputs[i] = task[t].inputs[i]
                       \/ task'[t].inputs[i].state = "unavailable"
  BY <1>1, <1>2, <1>3, <1>4 DEF Task, Provenance, Lacking
<1>6. task'[t].solo = task[t].solo
  BY <1>2, <1>3, <1>4
<1>7. task[t].solo => Alone(t) /\ Current(task[t], latest)
  BY DEF SoloInv
<1>8. latest' = latest /\ views' = views /\ runs' = runs
  BY DEF RecordHistory
<1> QED
  BY <1>1, <1>5, <1>6, <1>7, <1>8 DEF Learns, Current, Writing

LEMMA HydrateLearns ==
  ASSUME TypeOK, SoloInv, NEW t \in Tier, Hydrate(t)
  PROVE  Learns(t)
<1>1. PICK i \in Pending(t) : \E scan \in {latest[Owner[i]], None} :
        Update(t, [task[t] EXCEPT !.inputs[i] = Judge(t, i, scan)])
  BY DEF Hydrate
<1>2. PICK scan \in {latest[Owner[i]], None} :
        Update(t, [task[t] EXCEPT !.inputs[i] = Judge(t, i, scan)])
  BY <1>1
<1>3. task[t] \in Task /\ task[t].pc = "hydrate"
  BY DEF Hydrate, TypeOK
<1>4. /\ task'[t].inputs = [task[t].inputs EXCEPT ![i] = Judge(t, i, scan)]
      /\ task'[t].solo = task[t].solo
  <2>1. task'[t] = [task[t] EXCEPT !.inputs[i] = Judge(t, i, scan)]
    BY <1>2 DEF Update, TypeOK
  <2> QED
    BY <2>1, <1>3 DEF Task
<1>5. \A j \in Input : task'[t].inputs[j] =
                         IF j = i THEN Judge(t, i, scan) ELSE task[t].inputs[j]
  BY <1>3, <1>4 DEF Task, Provenance
<1>6. Judge(t, i, scan).state = "hydrated" =>
        latest[Owner[i]] # None /\ Judge(t, i, scan).run = latest[Owner[i]].run
  BY DEF Judge, Lacking
<1>7. task[t].solo => Alone(t) /\ Current(task[t], latest)
  BY DEF SoloInv
<1>8. latest' = latest /\ views' = views /\ runs' = runs
  BY DEF Hydrate, store
<1>9. Current(task[t], latest) => Current(task'[t], latest)
  BY <1>5, <1>6 DEF Current
<1> QED
  BY <1>3, <1>4, <1>7, <1>8, <1>9 DEF Learns, Writing

LEMMA PassLearns ==
  ASSUME TypeOK, SoloInv, NEW t \in Tier, Pass(t)
  PROVE  Learns(t)
<1>1. task[t] \in Task /\ task[t].pc \notin Writing
  BY DEF Pass, AtGate, Hydrated, Writing, TypeOK
<1>2. /\ task'[t].inputs = Stamped(task[t].inputs)
      /\ task'[t].solo = task[t].solo
  BY <1>1 DEF Pass, Update, TypeOK, Task
<1>3. \A i \in Input :
        /\ Stamped(task[t].inputs)[i].state = task[t].inputs[i].state
        /\ Stamped(task[t].inputs)[i].run = task[t].inputs[i].run
  BY DEF Stamped
<1>4. task[t].solo => Alone(t) /\ Current(task[t], latest)
  BY DEF SoloInv
<1>5. latest' = latest /\ views' = views /\ runs' = runs
  BY DEF Pass, store
<1> QED
  BY <1>1, <1>2, <1>3, <1>4, <1>5 DEF Learns, Current

LEMMA StepSolo ==
  ASSUME TypeOK, SoloInv, NEW t \in Tier, Step(t)
  PROVE  Learns(t) \/ Keeps(t) \/ Forgets(t)
<1>0. task[t] \in Task
  BY DEF TypeOK
<1>1. CASE Gather(t) \/ RecordHistory(t) \/ Hydrate(t) \/ Pass(t)
  BY <1>1, GatherLearns, RecordHistoryLearns, HydrateLearns, PassLearns
<1>2. CASE RateCardFails(t) \/ Refuse(t) \/ WriteLatest(t) \/ Die(t)
  <2>1. End(t) /\ views' = views
    BY <1>2 DEF RateCardFails, Refuse, WriteLatest, Die, store
  <2>2. task'[t] = NoTask /\ runs'[t] = Run(t)
    BY <2>1 DEF End, Update, Run, TypeOK
  <2> QED
    BY <2>1, <2>2 DEF Forgets
<1>3. CASE Recall(t)
  BY <1>0, <1>3 DEF Recall, Hydrated, Update, TypeOK, Task, Keeps, Writing, store
<1>4. CASE StampGaps(t)
  BY <1>0, <1>4 DEF StampGaps, Hydrated, Update, TypeOK, Task, Keeps, Writing
<1>5. CASE Save(t) \/ Push(t) \/ Archive(t)
  BY <1>0, <1>5 DEF Save, Push, Archive, Update, TypeOK, Task, Keeps, Writing
<1>6. CASE WriteView(t)
  <2>1. PICK v \in task[t].todo : task'[t] = [task[t] EXCEPT !.todo = @ \ {v}]
    BY <1>6 DEF WriteView, Update, TypeOK
  <2>2. /\ task'[t].pc = task[t].pc /\ task'[t].inputs = task[t].inputs
        /\ task'[t].solo = task[t].solo
    BY <2>1, <1>0 DEF Task
  <2>3. task[t].pc = "views" /\ runs' = runs /\ latest' = latest
    BY <1>6 DEF WriteView, Publishing
  <2> QED
    BY <2>2, <2>3 DEF Keeps, Writing
<1> QED
  BY <1>1, <1>2, <1>3, <1>4, <1>5, <1>6 DEF Step

LEMMA StepSoloInv ==
  ASSUME TypeOK, SourceInv, SoloInv, NEW t \in Tier, Step(t)
  PROVE  SoloInv'
<1>0. runs[t] \in Nat /\ Run(t) \in Nat
  BY DEF TypeOK, Run
<1>1. Learns(t) \/ Keeps(t) \/ Forgets(t)
  BY StepSolo
<1>2. \A u \in Tier : u # t =>
        /\ ~task'[u].solo
        /\ runs'[u] = runs[u] /\ task'[u].pc = task[u].pc /\ task'[u].inputs = task[u].inputs
  BY OthersAreNotAlone, OthersKeep, OthersInputs
<1>3. task[t].solo => Alone(t) /\ Current(task[t], latest)
  BY DEF SoloInv
<1>4. task'[t].solo => Alone(t) /\ Current(task'[t], latest')
  <2>1. CASE Learns(t)
    BY <2>1 DEF Learns
  <2>2. CASE Keeps(t)
    BY <2>2, <1>3 DEF Keeps, Current
  <2>3. CASE Forgets(t)
    BY <2>3 DEF Forgets, NoTask
  <2> QED
    BY <1>1, <2>1, <2>2, <2>3
<1>5. Alone(t) => Alone(t)'
  BY <1>2 DEF Alone, Active
<1>6. ASSUME NEW u \in Tier, NEW v \in View, views'[v] # None, views'[v].by = u
      PROVE  /\ views'[v].run <= Run(u)'
             /\ views'[v].run = Run(u)' =>
                  task'[u].pc \in Writing /\ views'[v].inputs = task'[u].inputs
  <2>0. views[v] = views'[v] =>
          /\ views'[v].run <= Run(u)
          /\ views'[v].run = Run(u) =>
               task[u].pc \in Writing /\ views'[v].inputs = task[u].inputs
    BY <1>6 DEF SoloInv
  <2>1. CASE u # t
    <3>1. views'[v] # views[v] => views'[v].by = t
      <4>1. views'[v] # views[v] =>
              views'[v] = [by |-> t, run |-> Run(t), inputs |-> task[t].inputs]
        BY StepViews
      <4> QED
        BY <4>1
    <3> QED
      BY <1>2, <1>6, <2>0, <2>1, <3>1 DEF Run
  <2>2. CASE u = t /\ Forgets(t)
    <3>1. Run(t)' = Run(t) + 1 /\ views'[v] = views[v]
      BY <2>2, <1>0 DEF Forgets, Run
    <3>2. views'[v].run \in Nat
      <4>1. TypeOK'
        BY StepType
      <4> QED
        BY <1>6, <4>1 DEF TypeOK, ViewFile
    <3> QED
      BY <1>0, <2>0, <2>2, <3>1, <3>2
  <2>3. CASE u = t /\ Learns(t)
    BY <2>0, <2>3, <1>0 DEF Learns, Run
  <2>4. CASE u = t /\ Keeps(t)
    <3>1. Run(t)' = Run(t) /\ task'[t].inputs = task[t].inputs
      BY <2>4 DEF Keeps, Run
    <3>2. CASE views'[v] = views[v]
      BY <2>0, <2>4, <3>1, <3>2 DEF Keeps
    <3>3. CASE views'[v] # views[v]
      <4>1. views'[v] = [by |-> t, run |-> Run(t), inputs |-> task[t].inputs]
        BY <3>3, StepViews
      <4> QED
        BY <1>0, <2>4, <3>1, <3>3, <4>1 DEF Keeps
    <3> QED
      BY <3>2, <3>3
  <2> QED
    BY <1>1, <2>1, <2>2, <2>3, <2>4
<1>7. \A u \in Tier : task'[u].solo => Alone(u)' /\ Current(task[u], latest)'
  BY <1>2, <1>4, <1>5 DEF Current
<1> QED
  BY <1>6, <1>7 DEF SoloInv

LEMMA SolitudeHolds == Spec => []SoloInv
<1>1. Init => SoloInv
  BY DEF Init, SoloInv, NoTask
<1>2. TypeOK /\ SourceInv /\ SoloInv /\ [Next]_vars => SoloInv'
  <2> SUFFICES ASSUME TypeOK, SourceInv, SoloInv, [Next]_vars PROVE SoloInv'
    OBVIOUS
  <2>1. CASE \E t \in Tier : Step(t)
    BY <2>1, StepSoloInv
  <2>2. CASE Reconfigure \/ Tick \/ UNCHANGED vars
    <3>1. UNCHANGED <<latest, views, task, runs>>
      BY <2>2 DEF Reconfigure, Tick, vars, store
    <3>2. SoloInv' <=> SoloInv
      BY <3>1 DEF SoloInv, Alone, Active, Current, Run
    <3> QED
      BY <3>2
  <2> QED
    BY <2>1, <2>2 DEF Next
<1> QED
  BY <1>1, <1>2, TypeCorrect, SourcesStaySound, PTL DEF Spec

\* A run that no other tier's run overlapped leaves views that rest on what
\* the other tiers had published last when it published its own scan.
THEOREM SoloRunsAreCurrent == Spec => SoloRunIsCurrent
<1> DEFINE A == \A t \in Tier : latest'[t] # latest[t] /\ task[t].solo =>
       \A v \in View : \A i \in Needs[v] :
         /\ views[v] # None /\ views[v].by = t /\ views[v].run = Run(t)
         /\ views[v].inputs[i].state = "hydrated"
         => /\ latest[Owner[i]] # None
            /\ views[v].inputs[i].run = latest[Owner[i]].run
<1>1. SoloInv => A
  <2> SUFFICES ASSUME SoloInv, NEW t \in Tier, task[t].solo, NEW v \in View,
                      NEW i \in Needs[v], views[v] # None, views[v].by = t,
                      views[v].run = Run(t), views[v].inputs[i].state = "hydrated"
               PROVE  /\ latest[Owner[i]] # None
                      /\ views[v].inputs[i].run = latest[Owner[i]].run
    OBVIOUS
  <2>1. i \in Input
    BY ProductAssumption DEF Product
  <2>2. views[v].inputs = task[t].inputs /\ Current(task[t], latest)
    BY DEF SoloInv
  <2> QED
    BY <2>1, <2>2 DEF Current
<1> QED
  BY <1>1, SolitudeHolds, PTL DEF SoloRunIsCurrent
=============================================================================
