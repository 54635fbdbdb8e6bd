--------------------------- MODULE ObserverProofs ---------------------------
(* Proofs about Observer: however many scans and observers overlap, whatever  *)
(* is lost, late or refused, the published object is one that the next        *)
(* observer accepts (StoreIsSound), shows as a success only an attempt whose  *)
(* records are whole (SuccessIsWhole), and never unlearns (NothingUnlearned). *)
(* And about what Survey puts beside it: no rule judges a stack wrongly for   *)
(* what was cut, refused or late (VerdictsAreSound), and the figures of the   *)
(* reads, of a day and of the rubric say what was so (FiguresAreTrue).        *)
EXTENDS Survey, Integers, FiniteSets, FiniteSetTheorems, SequenceTheorems, WellFoundedInduction, TLAPS

-----------------------------------------------------------------------------
(* Numbers: a bounded set of them has a greatest.                             *)

LEMMA LeastNumber ==
  ASSUME NEW T \in SUBSET Nat, T # {}
  PROVE  \E m \in T : \A n \in T : m <= n
<1>1. \E m \in T : \A n \in T : ~(<<n, m>> \in OpToRel(<, Nat))
  BY NatLessThanWellFounded, WFMin
<1>2. \E m \in T : \A n \in T : ~(n < m)
  BY <1>1 DEF OpToRel
<1>3. QED
  BY <1>2

LEMMA GreatestNumber ==
  ASSUME NEW T \in SUBSET Nat, NEW bound \in Nat, T # {}, \A n \in T : n <= bound
  PROVE  \E m \in T : \A n \in T : n <= m
<1> DEFINE U == {bound - n : n \in T}
<1>1. \A n \in T : n \in Nat /\ n <= bound /\ bound - n \in Nat
  OBVIOUS
<1>2. U \in SUBSET Nat /\ U # {}
  BY <1>1
<1>3. PICK u \in U : \A v \in U : u <= v
  BY <1>2, LeastNumber
<1>4. PICK m \in T : u = bound - m
  OBVIOUS
<1>5. \A n \in T : bound - m <= bound - n
  BY <1>3, <1>4
<1>6. QED
  BY <1>1, <1>4, <1>5

-----------------------------------------------------------------------------
(* The recorders: what the log says of an attempt.                            *)

\* A record says of its attempt what was so when it was made, or is so still.
Truthful(e) ==
  LET r == att[e.attempt] IN
  /\ e.sequence \in 1 .. r.sequence /\ e.at <= clock
  /\ e.kind = "inventory_result" => r.inventory # "none"
  /\ e.kind = "view_write_result" <=> e.view # None
  /\ e.view # None => e.view \in r.views
  /\ e.kind = "attempt_finished" =>
       /\ r.phase = "over" /\ e.sequence = r.sequence
       /\ e.ok => r.result = "success"

\* No record is made twice: by its number, as the inventory's, as a view's.
Distinct(e, f) ==
  e.attempt = f.attempt =>
    /\ e.sequence = f.sequence => e = f
    /\ e.kind = "inventory_result" /\ f.kind = "inventory_result" => e = f
    /\ e.view = f.view /\ e.view # None => e = f

\* Every view that was written has used a number of its own.
Numbered(a) ==
  \A v \in att[a].views : \E n \in 1 .. att[a].sequence :
    \A e \in log : e.attempt = a /\ e.sequence = n => e.view = v

Recorded ==
  /\ RecordersTypeOK
  /\ \A a \in Attempt :
       /\ att[a].phase = "none" =>
            att[a].sequence = 0 /\ att[a].views = {} /\ att[a].inventory = "none"
       /\ att[a].phase # "none" => att[a].tier \in Tier /\ att[a].started <= clock
       /\ Numbered(a)
  /\ \A e \in log : Truthful(e)
  /\ \A e, f \in log : Distinct(e, f)

LEMMA RecordedAtFirst == Init => Recorded
<1> SUFFICES ASSUME Init PROVE Recorded
  OBVIOUS
<1>1. /\ clock = 0 /\ att = [a \in Attempt |-> Fresh] /\ log = {} /\ faults \in Nat
  BY DEF Init, InitRecorders
<1>2. Fresh \in Recorder
  BY DEF Fresh, Recorder
<1>3. RecordersTypeOK
  BY <1>1, <1>2 DEF RecordersTypeOK
<1>4. \A a \in Attempt : /\ att[a].phase = "none" /\ att[a].sequence = 0
                        /\ att[a].views = {} /\ att[a].inventory = "none"
  BY <1>1 DEF Fresh
<1>5. QED
  BY <1>1, <1>3, <1>4 DEF Recorded, Numbered

\* What _record leaves when it is called as scan.py calls it.
LEMMA RecordKeeps ==
  ASSUME Recorded, NEW a \in Attempt, NEW after \in Recorder, NEW kind \in Kind,
         NEW ok \in BOOLEAN, NEW view \in View \cup {None},
         Record(a, after, kind, ok, view),
         att[a].phase # "over",
         att[a].phase = "none" =>
           after.sequence = 0 /\ after.tier \in Tier /\ after.started <= clock,
         att[a].phase = "running" =>
           /\ after.sequence = att[a].sequence /\ after.tier = att[a].tier
           /\ after.started = att[a].started,
         after.phase # "none",
         att[a].inventory # "none" => after.inventory # "none",
         kind = "inventory_result" => att[a].inventory = "none" /\ after.inventory # "none",
         kind = "view_write_result" <=> view # None,
         view # None => view \notin att[a].views,
         after.views = att[a].views \cup (IF view = None THEN {} ELSE {view}),
         kind = "attempt_finished" => after.phase = "over" /\ (ok => after.result = "success")
  PROVE  Recorded'
<1>1. /\ clock \in Nat /\ faults \in Nat /\ att \in [Attempt -> Recorder] /\ log \in SUBSET Event
  BY DEF Recorded, RecordersTypeOK
<1>2. after.sequence = att[a].sequence /\ att[a].sequence \in Nat /\ after.late \in {0, 1}
  BY <1>1 DEF Recorded, Recorder
<1>3. PICK n \in Nat : n = att[a].sequence + 1 /\ n >= 1
  BY <1>2
<1>4. PICK now \in Nat : /\ now = IF clock < after.late THEN 0 ELSE clock - after.late
                        /\ now <= clock
  BY <1>1, <1>2
<1> DEFINE event == [attempt |-> a, sequence |-> n, kind |-> kind, ok |-> ok,
                     view |-> view, at |-> now]
           left == [after EXCEPT !.sequence = n]
<1>5. /\ att' = [att EXCEPT ![a] = left]
      /\ log' = log \/ log' = log \cup {event}
      /\ clock' = clock /\ faults' \in Nat
  BY <1>1, <1>2, <1>3, <1>4 DEF Record
<1>6. event \in Event /\ left \in Recorder
  BY DEF Event, Recorder
<1>7. RecordersTypeOK'
  BY <1>1, <1>5, <1>6 DEF RecordersTypeOK
<1>8. /\ left.sequence = n /\ left.phase = after.phase /\ left.tier = after.tier
      /\ left.started = after.started /\ left.views = after.views
      /\ left.inventory = after.inventory /\ left.result = after.result
  BY DEF Recorder
<1>9. att'[a] = left /\ \A b \in Attempt \ {a} : att'[b] = att[b]
  BY <1>1, <1>5, <1>6
<1>10. /\ event.attempt = a /\ event.sequence = n /\ event.kind = kind
       /\ event.ok = ok /\ event.view = view /\ event.at = now
  OBVIOUS
<1>11. /\ att[a].views \subseteq left.views
       /\ \A v \in left.views : v \in att[a].views \/ v = view
       /\ view # None => view \in left.views
  BY <1>8
<1> HIDE DEF left, event
<1>12. \A e \in log : e \in Event /\ e.attempt \in Attempt /\ e.sequence \in Nat
  BY <1>1 DEF Event
<1>13. ASSUME NEW e \in log, e.attempt = a
       PROVE  e.sequence \in 1 .. att[a].sequence /\ e.sequence # n
              /\ e.kind # "attempt_finished"
  BY <1>2, <1>3, <1>12, <1>13 DEF Recorded, Truthful
<1>14. ASSUME NEW e \in log' PROVE Truthful(e)'
  <2>1. CASE e \in log
    <3>1. Truthful(e)
      BY <2>1 DEF Recorded
    <3>2. CASE e.attempt = a
      <4>1. /\ e.sequence \in 1 .. att[a].sequence /\ e.at <= clock
            /\ e.kind = "inventory_result" => att[a].inventory # "none"
            /\ e.kind = "view_write_result" <=> e.view # None
            /\ e.view # None => e.view \in att[a].views
        BY <3>1, <3>2 DEF Truthful
      <4>2. QED
        BY <1>2, <1>3, <1>5, <1>8, <1>9, <1>11, <1>13, <2>1, <3>2, <4>1 DEF Truthful
    <3>3. CASE e.attempt # a
      BY <1>5, <1>9, <1>12, <2>1, <3>1, <3>3 DEF Truthful
    <3>4. QED
      BY <3>2, <3>3
  <2>2. CASE e = event
    BY <1>3, <1>4, <1>5, <1>8, <1>9, <1>10, <1>11, <2>2 DEF Truthful
  <2>3. QED
    BY <1>5, <2>1, <2>2
<1>15. ASSUME NEW e \in log PROVE Distinct(e, event) /\ Distinct(event, e)
  <2>1. CASE e.attempt # a
    BY <1>10, <2>1 DEF Distinct
  <2>2. CASE e.attempt = a
    <3>1. Truthful(e)
      BY DEF Recorded
    <3>2. e.sequence # n
      BY <1>13, <2>2
    <3>3. ~(e.kind = "inventory_result" /\ kind = "inventory_result")
      BY <2>2, <3>1 DEF Truthful
    <3>4. ~(e.view = view /\ view # None)
      BY <2>2, <3>1 DEF Truthful
    <3>5. QED
      BY <1>10, <3>2, <3>3, <3>4 DEF Distinct
  <2>3. QED
    BY <2>1, <2>2
<1>16. \A e, f \in log' : Distinct(e, f)
  <2>1. Distinct(event, event)
    BY DEF Distinct
  <2>2. QED
    BY <1>5, <1>15, <2>1 DEF Recorded
<1>17. \A b \in Attempt : Numbered(b)'
  <2>1. ASSUME NEW b \in Attempt, b # a PROVE Numbered(b)'
    BY <1>5, <1>9, <1>10, <2>1 DEF Recorded, Numbered
  <2>2. ASSUME NEW v \in left.views
        PROVE  \E m \in 1 .. n : \A e \in log' : e.attempt = a /\ e.sequence = m => e.view = v
    <3>1. CASE v \in att[a].views
      <4>1. PICK m \in 1 .. att[a].sequence :
              \A e \in log : e.attempt = a /\ e.sequence = m => e.view = v
        BY <3>1 DEF Recorded, Numbered
      <4>2. m \in 1 .. n /\ m # n
        BY <1>2, <1>3
      <4>3. QED
        BY <1>5, <1>10, <4>1, <4>2
    <3>2. CASE v = view
      <4>1. \A e \in log' : e.attempt = a /\ e.sequence = n => e.view = v
        BY <1>5, <1>10, <1>13, <3>2
      <4>2. QED
        BY <1>3, <4>1
    <3>3. QED
      BY <1>11, <2>2, <3>1, <3>2
  <2>3. Numbered(a)'
    BY <1>8, <1>9, <2>2 DEF Numbered
  <2>4. QED
    BY <2>1, <2>3
<1>18. ASSUME NEW b \in Attempt
       PROVE  /\ att'[b].phase = "none" =>
                   att'[b].sequence = 0 /\ att'[b].views = {} /\ att'[b].inventory = "none"
              /\ att'[b].phase # "none" => att'[b].tier \in Tier /\ att'[b].started <= clock'
  <2>1. CASE b = a
    <3>1. att[a].phase \in {"none", "running"}
      BY <1>1 DEF Recorder
    <3>2. after.tier \in Tier /\ after.started <= clock
      BY <3>1 DEF Recorded
    <3>3. QED
      BY <1>5, <1>8, <1>9, <2>1, <3>2
  <2>2. CASE b # a
    BY <1>5, <1>9, <2>2 DEF Recorded
  <2>3. QED
    BY <2>1, <2>2
<1>19. QED
  BY <1>7, <1>14, <1>16, <1>17, <1>18 DEF Recorded, Distinct
LEMMA ScanStep == Recorded /\ Scan => Recorded'
<1> SUFFICES ASSUME Recorded, Scan PROVE Recorded'
  OBVIOUS
<1> USE AttemptAssumption DEF Kind
<1>1. /\ clock \in Nat /\ faults \in Nat /\ att \in [Attempt -> Recorder] /\ log \in SUBSET Event
  BY DEF Recorded, RecordersTypeOK
<1>2. ASSUME NEW a \in Attempt, NEW t \in Tier, Start(a, t) PROVE Recorded'
  <2> DEFINE after == [Fresh EXCEPT !.phase = "running", !.tier = t, !.started = clock]
  <2>1. after \in Recorder
    BY <1>1 DEF Fresh, Recorder
  <2>2. /\ after.sequence = 0 /\ after.tier = t /\ after.started = clock
        /\ after.phase = "running" /\ after.views = {}
    BY DEF Fresh
  <2>3. Record(a, after, "attempt_started", TRUE, None) /\ att[a].phase = "none"
    BY <1>2 DEF Start
  <2>4. att[a].views = {} /\ att[a].inventory = "none" /\ clock <= clock
    BY <1>1, <2>3 DEF Recorded
  <2> HIDE DEF after
  <2>5. QED
    BY <2>1, <2>2, <2>3, <2>4, RecordKeeps
<1>3. ASSUME NEW a \in Attempt, Inventory(a) PROVE Recorded'
  <2>1. PICK ok \in BOOLEAN :
          Record(a, [att[a] EXCEPT !.inventory = IF ok THEN "read" ELSE "failed"],
                 "inventory_result", ok, None)
    BY <1>3 DEF Inventory
  <2> DEFINE after == [att[a] EXCEPT !.inventory = IF ok THEN "read" ELSE "failed"]
  <2>2. att[a].phase = "running" /\ att[a].inventory = "none"
    BY <1>3 DEF Inventory
  <2>3. after \in Recorder
    BY <1>1 DEF Recorder
  <2>4. /\ after.sequence = att[a].sequence /\ after.tier = att[a].tier
        /\ after.started = att[a].started /\ after.phase = "running"
        /\ after.views = att[a].views /\ after.inventory # "none"
    BY <1>1, <2>2 DEF Recorder
  <2>5. Record(a, after, "inventory_result", ok, None)
    BY <2>1
  <2> HIDE DEF after
  <2>6. QED
    BY <2>2, <2>3, <2>4, <2>5, RecordKeeps
<1>4. ASSUME NEW a \in Attempt, NEW v \in View, ViewWrite(a, v) PROVE Recorded'
  <2>1. PICK ok \in BOOLEAN :
          Record(a, [att[a] EXCEPT !.views = @ \cup {v}, !.result = IF ok THEN @ ELSE "failed"],
                 "view_write_result", ok, v)
    BY <1>4 DEF ViewWrite
  <2> DEFINE after == [att[a] EXCEPT !.views = @ \cup {v},
                                     !.result = IF ok THEN @ ELSE "failed"]
  <2>2. att[a].phase = "running" /\ v \notin att[a].views /\ v # None
    BY <1>4 DEF ViewWrite
  <2>3. after \in Recorder
    BY <1>1 DEF Recorder
  <2>4. /\ after.sequence = att[a].sequence /\ after.tier = att[a].tier
        /\ after.started = att[a].started /\ after.phase = "running"
        /\ after.views = att[a].views \cup {v} /\ after.inventory = att[a].inventory
    BY <1>1, <2>2 DEF Recorder
  <2>5. Record(a, after, "view_write_result", ok, v)
    BY <2>1
  <2> HIDE DEF after
  <2>6. QED
    BY <2>2, <2>3, <2>4, <2>5, RecordKeeps
<1>5. ASSUME NEW a \in Attempt, Finish(a) PROVE Recorded'
  <2>1. PICK ok \in BOOLEAN :
          Record(a, [att[a] EXCEPT !.phase = "over",
                                   !.result = IF ok THEN "success" ELSE "failed"],
                 "attempt_finished", ok, None)
    BY <1>5 DEF Finish
  <2> DEFINE after == [att[a] EXCEPT !.phase = "over",
                                     !.result = IF ok THEN "success" ELSE "failed"]
  <2>2. att[a].phase = "running"
    BY <1>5 DEF Finish
  <2>3. after \in Recorder
    BY <1>1 DEF Recorder
  <2>4. /\ after.sequence = att[a].sequence /\ after.tier = att[a].tier
        /\ after.started = att[a].started /\ after.phase = "over"
        /\ after.views = att[a].views /\ after.inventory = att[a].inventory
        /\ ok => after.result = "success"
    BY <1>1, <2>2 DEF Recorder
  <2>5. Record(a, after, "attempt_finished", ok, None)
    BY <2>1
  <2> HIDE DEF after
  <2>6. QED
    BY <2>2, <2>3, <2>4, <2>5, RecordKeeps

\* What is in the log does not depend on whether a task dies or what its clock says.
<1>6. ASSUME NEW a \in Attempt, NEW r \in Recorder, att' = [att EXCEPT ![a] = r],
             att[a].phase = "running", r.phase \in {"running", "over"},
             r.sequence = att[a].sequence, r.views = att[a].views, r.tier = att[a].tier,
             r.inventory = att[a].inventory, r.started = att[a].started,
             UNCHANGED <<clock, log>>, faults' \in Nat
      PROVE  Recorded'
  <2>1. att'[a] = r /\ \A b \in Attempt \ {a} : att'[b] = att[b]
    BY <1>1, <1>6
  <2>2. RecordersTypeOK'
    BY <1>1, <1>6 DEF RecordersTypeOK
  <2>3. \A e \in log : e.attempt \in Attempt /\ (e.attempt = a => e.kind # "attempt_finished")
    BY <1>1, <1>6 DEF Recorded, Truthful, Event
  <2>4. ASSUME NEW e \in log PROVE Truthful(e)'
    <3>1. Truthful(e)
      BY DEF Recorded
    <3>2. CASE e.attempt = a
      BY <1>6, <2>1, <2>3, <3>1, <3>2 DEF Truthful
    <3>3. CASE e.attempt # a
      BY <1>6, <2>1, <2>3, <3>1, <3>3 DEF Truthful
    <3>4. QED
      BY <3>2, <3>3
  <2>5. \A b \in Attempt : Numbered(b)'
    BY <1>6, <2>1 DEF Recorded, Numbered
  <2>6. ASSUME NEW b \in Attempt
        PROVE  /\ att'[b].phase = "none" =>
                    att'[b].sequence = 0 /\ att'[b].views = {} /\ att'[b].inventory = "none"
               /\ att'[b].phase # "none" => att'[b].tier \in Tier /\ att'[b].started <= clock'
    BY <1>6, <2>1 DEF Recorded
  <2>7. \A e, f \in log' : Distinct(e, f)
    BY <1>6 DEF Recorded
  <2>8. QED
    BY <1>6, <2>2, <2>4, <2>5, <2>6, <2>7 DEF Recorded, Distinct
<1>7. ASSUME NEW a \in Attempt, Kill(a) PROVE Recorded'
  <2> DEFINE r == [att[a] EXCEPT !.phase = "over", !.result = "failed"]
  <2>1. att' = [att EXCEPT ![a] = r] /\ att[a].phase = "running"
    BY <1>1, <1>7 DEF Kill, Recorder
  <2>2. /\ r \in Recorder /\ r.phase = "over" /\ r.sequence = att[a].sequence
        /\ r.views = att[a].views /\ r.tier = att[a].tier
        /\ r.inventory = att[a].inventory /\ r.started = att[a].started
    BY <1>1 DEF Recorder
  <2>3. UNCHANGED <<clock, log>> /\ faults' \in Nat
    BY <1>1, <1>7 DEF Kill
  <2> HIDE DEF r
  <2>4. QED
    BY <1>6, <2>1, <2>2, <2>3
<1>8. ASSUME NEW a \in Attempt, SetBack(a) PROVE Recorded'
  <2> DEFINE r == [att[a] EXCEPT !.late = 1]
  <2>1. att' = [att EXCEPT ![a] = r] /\ att[a].phase = "running"
    BY <1>1, <1>8 DEF SetBack, Recorder
  <2>2. /\ r \in Recorder /\ r.phase = "running" /\ r.sequence = att[a].sequence
        /\ r.views = att[a].views /\ r.tier = att[a].tier
        /\ r.inventory = att[a].inventory /\ r.started = att[a].started
    BY <1>1, <2>1 DEF Recorder
  <2>3. UNCHANGED <<clock, log>> /\ faults' \in Nat
    BY <1>1, <1>8 DEF SetBack
  <2> HIDE DEF r
  <2>4. QED
    BY <1>6, <2>1, <2>2, <2>3
<1>9. ASSUME Tick PROVE Recorded'
  <2>1. clock' = clock + 1 /\ UNCHANGED <<att, log, faults>>
    BY <1>9 DEF Tick
  <2>2. RecordersTypeOK'
    BY <1>1, <2>1 DEF RecordersTypeOK
  <2>3. ASSUME NEW e \in log PROVE Truthful(e)'
    <3>1. Truthful(e) /\ e.at \in Nat
      BY <1>1 DEF Recorded, Event
    <3>2. QED
      BY <1>1, <2>1, <3>1 DEF Truthful
  <2>4. ASSUME NEW b \in Attempt
        PROVE  /\ Numbered(b)'
               /\ att'[b].phase = "none" =>
                    att'[b].sequence = 0 /\ att'[b].views = {} /\ att'[b].inventory = "none"
               /\ att'[b].phase # "none" => att'[b].tier \in Tier /\ att'[b].started <= clock'
    <3>1. att[b].started \in Nat
      BY <1>1 DEF Recorder
    <3>2. QED
      BY <1>1, <2>1, <3>1 DEF Recorded, Numbered
  <2>5. QED
    BY <2>1, <2>2, <2>3, <2>4 DEF Recorded, Distinct
<1>10. QED
  BY <1>2, <1>3, <1>4, <1>5, <1>7, <1>8, <1>9 DEF Scan
-----------------------------------------------------------------------------
(* The operators of the reduction.                                            *)

\* A legal prefix holds the records up to a gap of the traces that are not refused.
LEMMA PrefixIs ==
  ASSUME NEW events, NEW conflict
  PROVE  \A e : e \in LegalPrefix(events, conflict) <=>
           /\ e \in events /\ e.attempt \notin conflict
           /\ 1 .. e.sequence \subseteq {f.sequence : f \in Of(e.attempt, events)}
  BY DEF LegalPrefix, Contiguous, Of

\* What is judged of an attempt depends on its own records only.
LEMMA OwnRecords ==
  ASSUME NEW E, NEW F, NEW a, Of(a, E) = Of(a, F)
  PROVE  Illegal(a, E) <=> Illegal(a, F)
<1>1. Contiguous(a, E) = Contiguous(a, F)
  BY DEF Contiguous
<1>2. QED
  BY <1>1 DEF Illegal

\* A set of attempts is one attempt, or there is none, or a tie.
LEMMA OneOrTied ==
  ASSUME NEW S \in SUBSET Attempt
  PROVE  /\ Cardinality(S) = 1 => S # {} /\ \A a, b \in S : a = b
         /\ Cardinality(S) # 1 => S = {} \/ \E a, b \in S : a # b
<1>1. IsFiniteSet(S)
  BY AttemptAssumption, FS_Subset
<1>2. Cardinality(S) = 1 <=> \E a : S = {a}
  BY <1>1, FS_Singleton
<1>3. ASSUME S # {}, \A a, b \in S : a = b PROVE \E a : S = {a}
  <2>1. PICK a : a \in S
    BY <1>3
  <2>2. S = {a}
    BY <1>3, <2>1
  <2>3. QED
    BY <2>2
<1>4. ASSUME NEW a, S = {a} PROVE S # {} /\ \A b, c \in S : b = c
  BY <1>4
<1>5. QED
  BY <1>2, <1>3, <1>4, Zenon

LEMMA LogIs ==
  ASSUME Recorded, NEW e \in log
  PROVE  /\ e \in Event /\ e.attempt \in Attempt /\ e.sequence \in Nat \ {0} /\ e.ok \in BOOLEAN
         /\ e.sequence \in 1 .. att[e.attempt].sequence
         /\ Started(e.attempt) \in Nat /\ Started(e.attempt) <= clock
         /\ TierOf(e.attempt) \in Tier
<1>1. /\ e \in Event /\ e.attempt \in Attempt /\ e.sequence \in Nat /\ e.ok \in BOOLEAN
      /\ clock \in Nat /\ att[e.attempt] \in Recorder
  BY DEF Recorded, RecordersTypeOK, Event
<1>2. e.sequence \in 1 .. att[e.attempt].sequence
  BY DEF Recorded, Truthful
<1>3. att[e.attempt].phase # "none"
  BY <1>1, <1>2 DEF Recorded
<1>4. QED
  BY <1>1, <1>2, <1>3 DEF Recorded, Started, TierOf, Recorder

\* There is a latest start.
LEMMA LatestStart ==
  ASSUME Recorded, NEW E \in SUBSET log, E # {}
  PROVE  \E e \in E : \A f \in E : Started(f.attempt) <= Started(e.attempt)
<1> DEFINE T == {Started(e.attempt) : e \in E}
<1>1. clock \in Nat
  BY DEF Recorded, RecordersTypeOK
<1>2. \A e \in E : Started(e.attempt) \in Nat /\ Started(e.attempt) <= clock
  BY LogIs
<1>3. T \in SUBSET Nat /\ T # {} /\ \A n \in T : n <= clock
  BY <1>2
<1>4. PICK m \in T : \A n \in T : n <= m
  BY <1>1, <1>3, GreatestNumber
<1>5. QED
  BY <1>4

\* Latest of records of which each attempt has one: the latest, unless there is
\* none or a tie.
LEMMA LatestIs ==
  ASSUME Recorded, NEW E \in SUBSET log,
         \A e, f \in E : e.attempt = f.attempt => e = f
  PROVE  \/ /\ Latest(E) = None
            /\ \/ E = {}
               \/ \E g, h \in E :
                    /\ g.attempt # h.attempt /\ Started(g.attempt) = Started(h.attempt)
                    /\ \A e \in E : Started(e.attempt) <= Started(g.attempt)
         \/ /\ Latest(E) \in E
            /\ \A e \in E :
                 \/ e = Latest(E)
                 \/ Started(e.attempt) < Started(Latest(E).attempt)
<1> DEFINE newest == {e \in E : \A f \in E : Started(f.attempt) <= Started(e.attempt)}
           A == {e.attempt : e \in newest}
<1>1. \A e \in E : e.attempt \in Attempt /\ Started(e.attempt) \in Nat /\ e.sequence \in Nat
  BY LogIs
<1>2. A \in SUBSET Attempt
  BY <1>1
<1>3. E # {} => newest # {}
  BY LatestStart
<1>4. Latest(E) = IF Cardinality(A) # 1 THEN None
                  ELSE CHOOSE e \in newest : \A f \in newest : f.sequence <= e.sequence
  BY DEF Latest
<1>5. CASE Cardinality(A) # 1
  <2>1. A = {} \/ \E a, b \in A : a # b
    BY <1>2, <1>5, OneOrTied
  <2>2. CASE A = {}
    BY <1>3, <1>4, <1>5, <2>2
  <2>3. CASE \E a, b \in A : a # b
    <3>1. PICK g \in newest : \E h \in newest : g.attempt # h.attempt
      BY <2>3
    <3>2. PICK h \in newest : g.attempt # h.attempt
      BY <3>1
    <3>3. Started(g.attempt) = Started(h.attempt)
      BY <1>1
    <3>4. QED
      BY <1>4, <1>5, <3>2, <3>3
  <2>4. QED
    BY <2>1, <2>2, <2>3
<1>6. CASE Cardinality(A) = 1
  <2>1. A # {} /\ \A a, b \in A : a = b
    BY <1>2, <1>6, OneOrTied
  <2>2. PICK e \in newest : \A f \in newest : f = e
    BY <2>1
  <2>3. \A f \in newest : f.sequence <= e.sequence
    BY <1>1, <2>2
  <2>4. Latest(E) \in newest
    BY <1>4, <1>6, <2>3
  <2>5. Latest(E) = e
    BY <2>2, <2>4
  <2>6. ASSUME NEW f \in E, f # e
        PROVE  Started(f.attempt) < Started(e.attempt)
    <3>1. f \notin newest
      BY <2>2, <2>6
    <3>2. PICK k \in E : ~(Started(k.attempt) <= Started(f.attempt))
      BY <3>1
    <3>3. Started(k.attempt) <= Started(e.attempt)
      OBVIOUS
    <3>4. QED
      BY <1>1, <3>2, <3>3
  <2>7. QED
    BY <2>5, <2>6
<1>7. QED
  BY <1>5, <1>6
-----------------------------------------------------------------------------
(* What holds of every projection, stored or remembered.                      *)

Accepted(p) ==
  /\ p.completed # None => p.completed <= p.generated
  /\ p.state = "complete" => p.completed # None
  /\ p.generated <= clock

Whole(p) ==
  p.attemptRow.state = "success" =>
    LET a == p.attemptRow.attempt IN
    /\ att[a].phase = "over" /\ att[a].result = "success"
    /\ {e.sequence : e \in Of(a, p.events)} = 1 .. att[a].sequence
    /\ att[a].views \subseteq {e.view : e \in Of(a, p.events)}

\* The last success is one of the records, in a prefix that is not refused.
Remembered(t, p) ==
  p.lastInventory # None =>
    /\ t \notin Unread
    /\ p.lastInventory \in LegalPrefix(p.events, Refused(p.events, p.conflict))
    /\ p.lastInventory.kind = "inventory_result" /\ p.lastInventory.ok

Good(t, p) ==
  /\ p \in Projection
  /\ p.events \in SUBSET log /\ \A e \in p.events : TierOf(e.attempt) = t
  /\ Accepted(p) /\ Whole(p) /\ Remembered(t, p)

\* What an observer has in memory comes from the log and from the store.
Informed(m) ==
  /\ m \in Memory /\ m.records \in SUBSET log /\ m.now <= clock
  /\ \A t \in Tier : m.prior[t] # None => Good(t, m.prior[t])

LEMMA MergeIs ==
  ASSUME Recorded, NEW m, Informed(m)
  PROVE  LET g == Merge(m) IN
         /\ g.now = m.now /\ g.end \in {None, m.now}
         /\ g.events \in SUBSET log
         /\ g.conflict \in SUBSET {e.attempt : e \in g.events}
         /\ \A a \in Attempt : Illegal(a, g.events) => a \in g.conflict
                             \/ a \notin {e.attempt : e \in g.events}
         /\ g.prefix = LegalPrefix(g.events, g.conflict)
         /\ g.state \in {"complete", "partial", "unavailable"} /\ g.spoilt \in BOOLEAN
         /\ g.state = "complete" => g.end = m.now
         /\ \A t \in Tier : m.prior[t] # None =>
              /\ \A e \in m.prior[t].events :
                   Started(e.attempt) >= m.now - Lookback =>
                     /\ e \in g.events
                     /\ e.attempt \in m.prior[t].conflict => e.attempt \in g.conflict
              /\ \A e \in g.events : e \in Vouches(m.prior[t]) => e \in g.trusted
<1> DEFINE priors == {m.prior[t] : t \in Tier} \ {None}
           events == {e \in m.records \cup UNION {p.events : p \in priors} :
                        Started(e.attempt) >= m.now - Lookback}
           flagged == UNION {p.conflict : p \in priors}
           conflict == Refused(events, flagged)
           g == Merge(m)
<1>1. /\ g.now = m.now /\ g.end = (IF m.state = "unavailable" THEN None ELSE m.now)
      /\ g.events = events /\ g.conflict = conflict
      /\ g.prefix = LegalPrefix(events, conflict)
      /\ g.trusted = (IF m.state = "complete" /\ ~m.invalid THEN events
                      ELSE UNION {Vouches(p) : p \in priors})
      /\ g.spoilt = (conflict # {} \/ m.invalid)
      /\ g.state = (IF g.spoilt THEN "partial" ELSE m.state)
  BY DEF Merge
<1> HIDE DEF g
<1>2. /\ m.state \in {"complete", "partial", "unavailable"} /\ m.invalid \in BOOLEAN
      /\ m.records \in SUBSET log
  BY DEF Informed, Memory
<1>3. \A t \in Tier : m.prior[t] # None => m.prior[t] \in priors
  OBVIOUS
<1>4. \A p \in priors : p.events \in SUBSET log
  BY DEF Informed, Good
<1>5. events \in SUBSET log
  BY <1>2, <1>4
<1>6. conflict = {a \in {e.attempt : e \in events} : a \in flagged \/ Illegal(a, events)}
  BY DEF Refused
<1> HIDE DEF conflict
<1>7. ASSUME NEW t \in Tier, m.prior[t] # None
      PROVE  /\ \A e \in m.prior[t].events :
                  Started(e.attempt) >= m.now - Lookback =>
                    /\ e \in events
                    /\ e.attempt \in m.prior[t].conflict => e.attempt \in conflict
             /\ \A e \in events : e \in Vouches(m.prior[t]) => e \in g.trusted
  <2>1. m.prior[t] \in priors
    BY <1>3, <1>7
  <2>2. m.prior[t].conflict \subseteq flagged /\ m.prior[t].events \subseteq UNION {p.events : p \in priors}
    BY <2>1
  <2>3. \A e \in events : e \in Vouches(m.prior[t]) => e \in g.trusted
    BY <1>1, <2>1
  <2>4. QED
    BY <1>6, <2>2, <2>3
<1>8. \A a \in Attempt : Illegal(a, events) => a \in conflict \/ a \notin {e.attempt : e \in events}
  BY <1>6
<1>9. conflict \in SUBSET {e.attempt : e \in events}
  BY <1>6
<1> HIDE DEF events, priors
<1>10. QED
  BY <1>1, <1>2, <1>5, <1>7, <1>8, <1>9 DEF g

\* The window and the label: later than what was there, and readable.
LEMMA WindowIs ==
  ASSUME Recorded, NEW m, Informed(m), NEW t \in Tier,
         NEW p, p = Project(Merge(m), t, m.prior[t])
  PROVE  /\ p.completed \in Nat \cup {None}
         /\ p.state \in {"complete", "partial", "unavailable"}
         /\ p.generated \in Nat /\ p.generated >= m.now
         /\ Accepted(p)
         /\ m.prior[t] # None =>
              /\ p.generated >= m.prior[t].generated
              /\ m.prior[t].completed # None =>
                   p.completed # None /\ p.completed >= m.prior[t].completed
<1> DEFINE g == Merge(m)
           prior == m.prior[t]
           window == Window(g, prior)
<1>1. /\ p.generated = Generated(g, prior)
      /\ p.completed = window.completed /\ p.state = window.state
  BY DEF Project
<1>2. /\ g.now = m.now /\ g.end \in {None, m.now} /\ g.spoilt \in BOOLEAN
      /\ g.state \in {"complete", "partial", "unavailable"}
      /\ g.state = "complete" => g.end = m.now
  BY MergeIs
<1>3. m.now \in Nat /\ m.now <= clock /\ clock \in Nat /\ None \notin Nat
  BY NoneAssumption DEF Informed, Memory, Recorded, RecordersTypeOK
<1>4. prior # None =>
        /\ prior.generated \in Nat /\ prior.completed \in Nat \cup {None}
        /\ prior.state \in {"complete", "partial", "unavailable"}
        /\ Accepted(prior)
  BY DEF Informed, Good, Projection
<1> HIDE DEF g, prior
<1>5. /\ p.generated = (IF prior = None \/ prior.generated <= m.now THEN m.now
                        ELSE prior.generated)
  BY <1>1, <1>2 DEF Generated
<1>6. \/ /\ prior # None /\ prior.completed # None
         /\ g.end = None \/ prior.completed > g.end
         /\ p.completed = prior.completed
         /\ p.state = (IF g.spoilt THEN "partial" ELSE prior.state)
      \/ /\ ~(/\ prior # None /\ prior.completed # None
              /\ g.end = None \/ prior.completed > g.end)
         /\ p.completed = g.end /\ p.state = g.state
  BY <1>1 DEF Window
<1>7. QED
  BY <1>2, <1>3, <1>4, <1>5, <1>6 DEF Accepted, prior

\* What is in the projection's records and of whom.
LEMMA RecordsAre ==
  ASSUME Recorded, NEW m, Informed(m), NEW t \in Tier,
         NEW p, p = Project(Merge(m), t, m.prior[t])
  PROVE  LET g == Merge(m) IN
         /\ p.events = {e \in g.events : TierOf(e.attempt) = t}
         /\ p.events \in SUBSET log
         /\ p.conflict = g.conflict \cap {e.attempt : e \in p.events}
         /\ \A e \in p.events : Of(e.attempt, p.events) = Of(e.attempt, g.events)
         /\ m.prior[t] # None =>
              \A e \in m.prior[t].events :
                Started(e.attempt) >= p.generated - Lookback =>
                  /\ e \in p.events
                  /\ e.attempt \in m.prior[t].conflict => e.attempt \in p.conflict
<1> DEFINE g == Merge(m)
<1>1. /\ p.events = {e \in g.events : TierOf(e.attempt) = t}
      /\ p.conflict = g.conflict \cap {e.attempt : e \in p.events}
  BY DEF Project
<1>2. g.events \in SUBSET log /\ g.conflict \in SUBSET {e.attempt : e \in g.events}
  BY MergeIs
<1>3. \A e \in p.events : Of(e.attempt, p.events) = Of(e.attempt, g.events)
  BY <1>1 DEF Of
<1>4. ASSUME m.prior[t] # None, NEW e \in m.prior[t].events,
             Started(e.attempt) >= p.generated - Lookback
      PROVE  /\ e \in p.events
             /\ e.attempt \in m.prior[t].conflict => e.attempt \in p.conflict
  <2>1. e \in log /\ TierOf(e.attempt) = t
    BY <1>4 DEF Informed, Good
  <2>2. Started(e.attempt) >= m.now - Lookback
    <3>1. p.generated \in Nat /\ p.generated >= m.now
      BY WindowIs
    <3>2. Started(e.attempt) \in Nat /\ m.now \in Nat /\ Lookback \in Nat
      BY <2>1, LogIs, ObserverAssumption DEF Informed, Memory
    <3>3. QED
      BY <1>4, <3>1, <3>2
  <2>3. e \in g.events /\ (e.attempt \in m.prior[t].conflict => e.attempt \in g.conflict)
    BY <1>4, <2>2, MergeIs
  <2>4. QED
    BY <1>1, <2>1, <2>3
<1>5. QED
  BY <1>1, <1>2, <1>3, <1>4

\* The inventory's successes of a tier that this observation trusts.
Successes(g, t) ==
  {e \in g.events \cap g.prefix \cap g.trusted :
     TierOf(e.attempt) = t /\ e.ok /\ e.kind = "inventory_result"}

LEMMA LastInventoryIs ==
  ASSUME Recorded, NEW m, Informed(m), NEW t \in Tier,
         NEW p, p = Project(Merge(m), t, m.prior[t])
  PROVE  /\ p.lastInventory = IF t \in Unread THEN None ELSE Latest(Successes(Merge(m), t))
         /\ Successes(Merge(m), t) \in SUBSET p.events
         /\ Successes(Merge(m), t) \in SUBSET log
         /\ \A e, f \in Successes(Merge(m), t) : e.attempt = f.attempt => e = f
<1> DEFINE g == Merge(m)
           events == {e \in g.events : TierOf(e.attempt) = t}
           successes == {e \in events \cap g.prefix \cap g.trusted : e.ok}
<1>1. p.lastInventory = IF t \in Unread THEN None
                        ELSE Latest({e \in successes : e.kind = "inventory_result"})
  BY DEF Project
<1>2. {e \in successes : e.kind = "inventory_result"} = Successes(g, t)
  BY DEF Successes
<1>3. Successes(g, t) \in SUBSET p.events
  BY RecordsAre DEF Successes
<1>4. Successes(g, t) \in SUBSET log
  BY <1>3, RecordsAre
<1>5. ASSUME NEW e \in Successes(g, t), NEW f \in Successes(g, t), e.attempt = f.attempt
      PROVE  e = f
  <2>1. e.kind = "inventory_result" /\ f.kind = "inventory_result"
    BY DEF Successes
  <2>2. Distinct(e, f)
    BY <1>4 DEF Recorded
  <2>3. QED
    BY <1>5, <2>1, <2>2 DEF Distinct
<1>6. QED
  BY <1>1, <1>2, <1>3, <1>4, <1>5

\* What is remembered as a success is in a prefix that is not refused.
LEMMA SuccessIsRemembered ==
  ASSUME Recorded, NEW m, Informed(m), NEW t \in Tier,
         NEW p, p = Project(Merge(m), t, m.prior[t])
  PROVE  /\ p.lastInventory \in Event \cup {None}
         /\ Remembered(t, p)
<1> DEFINE g == Merge(m)
           C == Successes(g, t)
           e == p.lastInventory
<1>1. CASE e = None
  BY <1>1 DEF Remembered
<1>2. CASE e # None
  <2>1. t \notin Unread /\ e = Latest(C)
    BY <1>2, LastInventoryIs
  <2>2. e \in C
    BY <1>2, <2>1, LastInventoryIs, LatestIs
  <2>3. /\ e \in p.events /\ e \in log /\ e \in g.prefix /\ e \in g.events
        /\ e.kind = "inventory_result" /\ e.ok
    BY <2>2, LastInventoryIs DEF Successes
  <2>4. Of(e.attempt, p.events) = Of(e.attempt, g.events)
    BY <2>3, RecordsAre
  <2>5. /\ e.attempt \notin g.conflict
        /\ 1 .. e.sequence \subseteq {f.sequence : f \in Of(e.attempt, g.events)}
    <3>1. e \in LegalPrefix(g.events, g.conflict)
      BY <2>3, MergeIs
    <3>2. QED
      BY <3>1, PrefixIs
  <2>6. ~Illegal(e.attempt, g.events)
    <3>1. e.attempt \in Attempt
      BY <2>3, LogIs
    <3>2. QED
      BY <2>3, <2>5, <3>1, MergeIs
  <2>7. ~Illegal(e.attempt, p.events)
    BY <2>4, <2>6, OwnRecords
  <2>8. e.attempt \notin p.conflict
    BY <2>5, RecordsAre
  <2>9. e.attempt \notin Refused(p.events, p.conflict)
    BY <2>7, <2>8 DEF Refused
  <2>10. e \in LegalPrefix(p.events, Refused(p.events, p.conflict))
    BY <2>3, <2>4, <2>5, <2>9, PrefixIs
  <2>11. e \in Event
    BY <2>3, LogIs
  <2>12. QED
    BY <2>1, <2>3, <2>10, <2>11 DEF Remembered
<1>3. QED
  BY <1>1, <1>2

\* A success that is remembered is trusted by any later observation that still
\* has its records and does not refuse its trace.
LEMMA SuccessIsTrusted ==
  ASSUME Recorded, NEW m, Informed(m), NEW t \in Tier,
         NEW p, p = Project(Merge(m), t, m.prior[t]),
         m.prior[t] # None, NEW e, e = m.prior[t].lastInventory, e # None,
         Started(e.attempt) >= p.generated - Lookback,
         e.attempt \notin p.conflict
  PROVE  t \notin Unread /\ e \in Successes(Merge(m), t)
<1> DEFINE g == Merge(m)
           q == m.prior[t]
<1>1. /\ Good(t, q) /\ q.events \in SUBSET log
      /\ \A f \in q.events : TierOf(f.attempt) = t
  BY DEF Informed, Good
<1>2. /\ t \notin Unread /\ e.kind = "inventory_result" /\ e.ok
      /\ e \in LegalPrefix(q.events, Refused(q.events, q.conflict))
  BY <1>1 DEF Good, Remembered
<1>3. /\ e \in q.events
      /\ 1 .. e.sequence \subseteq {f.sequence : f \in Of(e.attempt, q.events)}
  BY <1>2, PrefixIs
<1>4. \A f \in Of(e.attempt, q.events) : f \in Of(e.attempt, g.events)
  <2>1. ASSUME NEW f \in q.events, f.attempt = e.attempt PROVE f \in g.events
    <3>1. Started(f.attempt) >= p.generated - Lookback
      BY <2>1
    <3>2. f \in p.events
      BY <3>1, RecordsAre
    <3>3. QED
      BY <3>2, RecordsAre
  <2>2. QED
    BY <2>1 DEF Of
<1>5. e \in g.events /\ e \in p.events /\ TierOf(e.attempt) = t
  BY <1>1, <1>3, RecordsAre
<1>6. e.attempt \notin g.conflict
  BY <1>5, RecordsAre
<1>7. 1 .. e.sequence \subseteq {f.sequence : f \in Of(e.attempt, g.events)}
  BY <1>3, <1>4
<1>8. e \in LegalPrefix(g.events, g.conflict)
  BY <1>5, <1>6, <1>7, PrefixIs
<1>9. e \in g.prefix
  BY <1>8, MergeIs
<1>10. e \in Vouches(q)
  BY <1>2 DEF Vouches
<1>11. e \in g.trusted
  BY <1>5, <1>10, MergeIs
<1>12. QED
  BY <1>2, <1>5, <1>9, <1>11 DEF Successes

LEMMA SuccessIsKept ==
  ASSUME Recorded, NEW m, Informed(m), NEW t \in Tier,
         NEW p, p = Project(Merge(m), t, m.prior[t]),
         m.prior[t] # None, NEW e, e = m.prior[t].lastInventory, e # None,
         Started(e.attempt) >= p.generated - Lookback
  PROVE  LET f == p.lastInventory IN
         \/ f # None /\ (f = e \/ Started(f.attempt) > Started(e.attempt))
         \/ e.attempt \in p.conflict
         \/ \E g, h \in p.events :
              /\ g.attempt # h.attempt /\ Started(g.attempt) = Started(h.attempt)
              /\ Started(g.attempt) >= Started(e.attempt)
              /\ \A i \in {g, h} : i.kind = "inventory_result" /\ i.ok
<1> DEFINE C == Successes(Merge(m), t)
<1>1. SUFFICES ASSUME e.attempt \notin p.conflict
               PROVE  LET f == p.lastInventory IN
                      \/ f # None /\ (f = e \/ Started(f.attempt) > Started(e.attempt))
                      \/ \E g, h \in p.events :
                           /\ g.attempt # h.attempt /\ Started(g.attempt) = Started(h.attempt)
                           /\ Started(g.attempt) >= Started(e.attempt)
                           /\ \A i \in {g, h} : i.kind = "inventory_result" /\ i.ok
  OBVIOUS
<1>2. t \notin Unread /\ e \in C
  BY <1>1, SuccessIsTrusted
<1>3. /\ p.lastInventory = Latest(C) /\ C \in SUBSET p.events /\ C \in SUBSET log
      /\ \A f, g \in C : f.attempt = g.attempt => f = g
  BY <1>2, LastInventoryIs
<1>4. CASE Latest(C) = None
  <2>1. PICK g \in C : \E h \in C :
           /\ g.attempt # h.attempt /\ Started(g.attempt) = Started(h.attempt)
           /\ \A f \in C : Started(f.attempt) <= Started(g.attempt)
    <3>1. Latest(C) \notin C
      BY <1>3, <1>4, LogIs, NoneAssumption
    <3>2. QED
      BY <1>2, <1>3, <3>1, LatestIs
  <2>2. PICK h \in C : g.attempt # h.attempt /\ Started(g.attempt) = Started(h.attempt)
    BY <2>1
  <2>3. Started(g.attempt) >= Started(e.attempt)
    <3>1. Started(g.attempt) \in Nat /\ Started(e.attempt) \in Nat
      BY <1>2, <1>3, LogIs
    <3>2. QED
      BY <1>2, <2>1, <3>1
  <2>4. \A i \in C : i.kind = "inventory_result" /\ i.ok
    BY DEF Successes
  <2>5. QED
    BY <1>3, <2>2, <2>3, <2>4
<1>5. CASE Latest(C) # None
  <2>1. Latest(C) \in C /\ (e = Latest(C) \/ Started(e.attempt) < Started(Latest(C).attempt))
    BY <1>2, <1>3, <1>5, LatestIs
  <2>2. Started(Latest(C).attempt) \in Nat /\ Started(e.attempt) \in Nat
    BY <1>2, <1>3, <2>1, LogIs
  <2>3. QED
    BY <1>3, <1>5, <2>1, <2>2
<1>6. QED
  BY <1>4, <1>5

\* The row of the newest attempt: a success is of one attempt, whose records
\* are all there up to its end.
LEMMA RowIsWhole ==
  ASSUME Recorded, NEW m, Informed(m), NEW t \in Tier,
         NEW p, p = Project(Merge(m), t, m.prior[t])
  PROVE  p.attemptRow \in Row /\ Whole(p)
<1> DEFINE g == Merge(m)
           events == {e \in g.events : TierOf(e.attempt) = t}
           attempts == {e.attempt : e \in events}
           newest == {a \in attempts : \A b \in attempts : Started(b) <= Started(a)}
           chosen == CHOOSE a \in newest : TRUE
           overlapped == \/ Cardinality(newest) > 1
                         \/ \E a \in attempts : Overlaps(g, a, Started(chosen))
<1>1. p.attemptRow = IF attempts = {} THEN Unobserved
                     ELSE [state |-> AttemptState(g, chosen, overlapped),
                           attempt |-> IF Cardinality(newest) > 1 THEN None ELSE chosen]
  BY DEF Project
<1>2. p.events = events /\ events \in SUBSET log
  BY RecordsAre
<1>3. attempts \in SUBSET Attempt
  BY <1>2, LogIs
<1>4. CASE attempts = {}
  <2>1. p.attemptRow = [state |-> "unknown", attempt |-> None]
    BY <1>1, <1>4 DEF Unobserved
  <2>2. QED
    BY <2>1 DEF Row, RowState, Whole
<1>5. CASE attempts # {}
  <2>1. chosen \in attempts
    <3>1. PICK e \in events : \A f \in events : Started(f.attempt) <= Started(e.attempt)
      BY <1>2, <1>5, LatestStart
    <3>2. e.attempt \in newest
      BY <3>1
    <3>3. chosen \in newest
      BY <3>2
    <3>4. QED
      BY <3>3
  <2>2. PICK a \in Attempt : a = chosen /\ a \in attempts
    BY <1>3, <2>1
  <2>3. /\ p.attemptRow.state = AttemptState(g, a, overlapped)
        /\ p.attemptRow.attempt = IF Cardinality(newest) > 1 THEN None ELSE a
        /\ p.attemptRow = [state |-> AttemptState(g, a, overlapped),
                           attempt |-> IF Cardinality(newest) > 1 THEN None ELSE a]
    <3>1. p.attemptRow = [state |-> AttemptState(g, chosen, overlapped),
                          attempt |-> IF Cardinality(newest) > 1 THEN None ELSE chosen]
      BY <1>1, <1>5
    <3> HIDE DEF overlapped, chosen, newest
    <3>2. QED
      BY <2>2, <3>1
  <2>4. AttemptState(g, a, overlapped) \in RowState
    BY DEF AttemptState, RowState
  <2>5. p.attemptRow \in Row
    BY <2>3, <2>4 DEF Row
  <2>6. ASSUME p.attemptRow.state = "success"
        PROVE  /\ att[a].phase = "over" /\ att[a].result = "success"
               /\ {e.sequence : e \in Of(a, events)} = 1 .. att[a].sequence
               /\ att[a].views \subseteq {e.view : e \in Of(a, events)}
               /\ p.attemptRow.attempt = a
    <3> DEFINE last == {e \in g.prefix : e.attempt = a /\ e.kind = "attempt_finished"}
    <3>1. /\ ~overlapped /\ a \notin g.conflict
          /\ \E e \in last : e.ok
      BY <2>3, <2>6 DEF AttemptState
    <3>2. PICK end \in last : end.ok
      BY <3>1
    <3>3. /\ end \in g.events /\ end.attempt = a /\ end.kind = "attempt_finished"
          /\ 1 .. end.sequence \subseteq {f.sequence : f \in Of(a, g.events)}
      <4>1. end \in LegalPrefix(g.events, g.conflict) /\ end.attempt = a
        BY MergeIs
      <4>2. QED
        BY <4>1, PrefixIs
    <3>4. g.events \in SUBSET log
      BY MergeIs
    <3>5. Truthful(end) /\ end.attempt = a
      BY <3>3, <3>4 DEF Recorded
    <3>6. /\ att[a].phase = "over" /\ att[a].result = "success"
          /\ end.sequence = att[a].sequence
      BY <3>2, <3>3, <3>5 DEF Truthful
    <3>7. Of(a, events) = Of(a, g.events)
      BY <2>2 DEF Of
    <3>8. \A e \in Of(a, events) : e.sequence \in 1 .. att[a].sequence /\ e \in log /\ e.attempt = a
      <4>1. \A e \in Of(a, events) : e \in log /\ e.attempt = a
        BY <1>2 DEF Of
      <4>2. QED
        BY <4>1, LogIs
    <3>9. {e.sequence : e \in Of(a, events)} = 1 .. att[a].sequence
      BY <3>3, <3>6, <3>7, <3>8
    <3>10. att[a].views \subseteq {e.view : e \in Of(a, events)}
      <4>1. ASSUME NEW v \in att[a].views PROVE \E e \in Of(a, events) : e.view = v
        <5>1. PICK n \in 1 .. att[a].sequence :
                \A e \in log : e.attempt = a /\ e.sequence = n => e.view = v
          BY DEF Recorded, Numbered
        <5>2. PICK e \in Of(a, events) : e.sequence = n
          BY <3>9
        <5>3. QED
          BY <3>8, <5>1, <5>2
      <4>2. QED
        BY <4>1
    <3>11. p.attemptRow.attempt = a
      BY <2>3, <3>1
    <3>12. QED
      BY <3>6, <3>9, <3>10, <3>11
  <2>7. QED
    BY <1>2, <2>5, <2>6 DEF Whole
<1>6. QED
  BY <1>4, <1>5

LEMMA ProjectionIs ==
  ASSUME Recorded, NEW m, Informed(m), NEW t \in Tier,
         NEW p, p = Project(Merge(m), t, m.prior[t])
  PROVE  Good(t, p)
<1> DEFINE g == Merge(m)
           events == {e \in g.events : TierOf(e.attempt) = t}
           attempts == {e.attempt : e \in events}
           successes == {e \in events \cap g.prefix \cap g.trusted : e.ok}
           newest == {a \in attempts : \A b \in attempts : Started(b) <= Started(a)}
           chosen == CHOOSE a \in newest : TRUE
           overlapped == \/ Cardinality(newest) > 1
                         \/ \E a \in attempts : Overlaps(g, a, Started(chosen))
           Writes(v) == {e \in events : e.view = v}
           latest == [v \in View |-> Latest(Writes(v))]
<1>1. /\ p.lastView = [v \in View |-> Latest(successes \cap Writes(v))]
      /\ p.inventoryRow = IF attempts = {} THEN "unknown"
                          ELSE IF overlapped THEN "ambiguous" ELSE InventoryState(g, chosen)
      /\ p.viewRow = [v \in View |->
                        IF Writes(v) = {} THEN "unknown"
                        ELSE IF latest[v] = None THEN "ambiguous"
                        ELSE ViewState(g, latest[v])]
  BY DEF Project
<1>2. \E window, lastInventory, attemptRow :
        p = [generated |-> Generated(g, m.prior[t]),
             completed |-> window.completed, state |-> window.state,
             events |-> events, conflict |-> g.conflict \cap attempts,
             lastInventory |-> lastInventory, lastView |-> p.lastView,
             attemptRow |-> attemptRow, inventoryRow |-> p.inventoryRow,
             viewRow |-> p.viewRow]
  BY DEF Project
<1>3. p.events = events /\ events \in SUBSET log /\ p.conflict \in SUBSET Attempt
  BY RecordsAre, LogIs
<1>4. p.lastView \in [View -> Event \cup {None}]
  <2>1. ASSUME NEW v \in View PROVE Latest(successes \cap Writes(v)) \in Event \cup {None}
    <3>1. successes \cap Writes(v) \in SUBSET log
      BY <1>3
    <3>2. \A e, f \in successes \cap Writes(v) : e.attempt = f.attempt => e = f
      <4>1. \A e, f \in log : Distinct(e, f)
        BY DEF Recorded
      <4>2. v # None
        BY AttemptAssumption
      <4>3. QED
        BY <3>1, <4>1, <4>2 DEF Distinct
    <3>3. \/ Latest(successes \cap Writes(v)) = None
          \/ Latest(successes \cap Writes(v)) \in successes \cap Writes(v)
      BY <3>1, <3>2, LatestIs
    <3>4. QED
      BY <3>1, <3>3, LogIs
  <2>2. QED
    BY <1>1, <2>1
<1>5. p.inventoryRow \in RowState
  BY <1>1 DEF InventoryState, RowState
<1>6. p.viewRow \in [View -> RowState]
  BY <1>1 DEF ViewState, RowState
<1>7. p.attemptRow \in Row /\ Whole(p)
  BY RowIsWhole
<1>8. p.lastInventory \in Event \cup {None} /\ Remembered(t, p)
  BY SuccessIsRemembered
<1>9. /\ p.completed \in Nat \cup {None}
      /\ p.state \in {"complete", "partial", "unavailable"}
      /\ p.generated \in Nat /\ Accepted(p)
  BY WindowIs
<1>10. p.events \in SUBSET Event
  BY <1>3, LogIs
<1> HIDE DEF g, events, attempts, successes
<1>11. p \in Projection
  BY <1>2, <1>3, <1>4, <1>5, <1>6, <1>7, <1>8, <1>9, <1>10 DEF Projection
<1>12. \A e \in p.events : TierOf(e.attempt) = t
  BY RecordsAre
<1>13. QED
  BY <1>3, <1>7, <1>8, <1>9, <1>11, <1>12 DEF Good
-----------------------------------------------------------------------------
(* The inductive invariant.                                                   *)

IInv ==
  /\ Recorded
  /\ store \in [Tier -> Projection \cup {None}]
  /\ \A t \in Tier : store[t] # None => Good(t, store[t])
  /\ obs \in [Observing -> Memory]
  /\ \A o \in Observing :
       /\ Informed(obs[o]) /\ obs[o].tries <= 2
       /\ obs[o].pc = "reread" => obs[o].tier \in Tier
  /\ runs \in Nat
  /\ runs = 0 => /\ \A t \in Tier : store[t] \in {None, First}
                 /\ \A o \in Observing : obs[o] = Idle

LEMMA IdleIsInformed ==
  ASSUME Recorded
  PROVE  Informed(Idle) /\ Idle.tries = 0 /\ Idle.pc = "idle"
<1>1. /\ Idle.records = {} /\ Idle.now = 0 /\ Idle.prior = [t \in Tier |-> None]
      /\ Idle.tries = 0 /\ Idle.pc = "idle"
  BY DEF Idle
<1>2. Idle \in Memory
  BY DEF Idle, Memory
<1>3. clock \in Nat
  BY DEF Recorded, RecordersTypeOK
<1>4. QED
  BY <1>1, <1>2, <1>3 DEF Informed

LEMMA FirstIsGood ==
  ASSUME Recorded, NEW t \in Tier
  PROVE  Good(t, First)
<1>1. /\ First.generated = 0 /\ First.completed = 0 /\ First.events = {}
      /\ First.lastInventory = None /\ First.attemptRow = Unobserved
      /\ First.state = "partial"
  BY DEF First
<1>2. First \in Projection
  BY DEF First, Projection, Unobserved, Row, RowState
<1>3. clock \in Nat
  BY DEF Recorded, RecordersTypeOK
<1>4. Accepted(First)
  BY <1>1, <1>3 DEF Accepted
<1>5. Whole(First)
  BY <1>1 DEF Whole, Unobserved
<1>6. Remembered(t, First)
  BY <1>1 DEF Remembered
<1>7. QED
  BY <1>1, <1>2, <1>4, <1>5, <1>6 DEF Good

LEMMA InvariantAtFirst == Init => IInv
<1> SUFFICES ASSUME Init PROVE IInv
  OBVIOUS
<1>1. Recorded
  BY RecordedAtFirst
<1>2. /\ store \in [Tier -> {None, First}] /\ obs = [o \in Observing |-> Idle] /\ runs = 0
  BY DEF Init
<1>3. \A t \in Tier : Good(t, First)
  BY <1>1, FirstIsGood
<1>4. \A t \in Tier : store[t] # None => Good(t, store[t])
  BY <1>2, <1>3
<1>5. store \in [Tier -> Projection \cup {None}]
  BY <1>2, <1>3 DEF Good
<1>6. Informed(Idle) /\ Idle.tries = 0 /\ Idle.pc = "idle" /\ Idle \in Memory
  BY <1>1, IdleIsInformed DEF Informed
<1>7. QED
  BY <1>1, <1>2, <1>4, <1>5, <1>6 DEF IInv

\* What is good stays so while no recorder moves.
LEMMA GoodStays ==
  ASSUME UNCHANGED <<clock, att, log>>
  PROVE  /\ Recorded /\ faults' \in Nat => Recorded'
         /\ \A t, p : Good(t, p) => Good(t, p)'
         /\ \A m : Informed(m) => Informed(m)'
<1>1. \A t, p : Good(t, p) => Good(t, p)'
  BY DEF Good, Accepted, Whole, Remembered, TierOf, Of, LegalPrefix, Contiguous, Refused, Illegal
<1>2. \A m : Informed(m) => Informed(m)'
  BY <1>1 DEF Informed
<1>3. Recorded /\ faults' \in Nat => Recorded'
  BY DEF Recorded, RecordersTypeOK, Truthful, Distinct, Numbered
<1>4. QED
  BY <1>1, <1>2, <1>3

\* An observer's step changes its own memory and the store.
LEMMA ObserverStep ==
  ASSUME IInv, UNCHANGED <<clock, att, log>>, faults' \in Nat, runs' \in Nat \ {0},
         NEW o \in Observing, NEW m, Informed(m), m.tries <= 2,
         m.pc = "reread" => m.tier \in Tier, Become(o, m),
         store' \in [Tier -> Projection \cup {None}],
         \A t \in Tier : store'[t] # None => Good(t, store'[t])
  PROVE  IInv'
<1>1. /\ Recorded /\ obs \in [Observing -> Memory]
      /\ \A q \in Observing :
           /\ Informed(obs[q]) /\ obs[q].tries <= 2
           /\ obs[q].pc = "reread" => obs[q].tier \in Tier
  BY DEF IInv
<1>2. Recorded' /\ (\A t, p : Good(t, p) => Good(t, p)') /\ \A n : Informed(n) => Informed(n)'
  BY <1>1, GoodStays
<1>3. obs' = [obs EXCEPT ![o] = m] /\ m \in Memory
  BY DEF Become, Informed
<1>4. obs' \in [Observing -> Memory]
  BY <1>1, <1>3
<1>5. ASSUME NEW q \in Observing
      PROVE  /\ Informed(obs[q])' /\ obs'[q].tries <= 2
             /\ obs'[q].pc = "reread" => obs'[q].tier \in Tier
  <2>1. obs'[q] = m \/ obs'[q] = obs[q]
    BY <1>1, <1>3
  <2>2. Informed(obs'[q])
    BY <1>1, <2>1
  <2>3. ASSUME NEW t \in Tier, obs'[q].prior[t] # None PROVE Good(t, obs[q].prior[t])'
    <3>1. Good(t, obs'[q].prior[t])
      BY <2>2, <2>3 DEF Informed
    <3>2. QED
      BY <3>1 DEF Good, Accepted, Whole, Remembered, TierOf, Of, LegalPrefix, Contiguous,
                  Refused, Illegal
  <2>4. Informed(obs[q])'
    BY <2>2, <2>3 DEF Informed
  <2>5. QED
    BY <1>1, <2>1, <2>4
<1>6. \A t \in Tier : store'[t] # None => Good(t, store[t])'
  BY DEF Good, Accepted, Whole, Remembered, TierOf, Of, LegalPrefix, Contiguous, Refused, Illegal
<1>7. QED
  BY <1>2, <1>4, <1>5, <1>6 DEF IInv

\* A memory that is done with a tier is as well informed.
LEMMA DoneIsInformed ==
  ASSUME Recorded, NEW m, Informed(m), NEW t \in Tier
  PROVE  /\ Informed(Done(m, t)) /\ Done(m, t).tries <= 2 /\ Done(m, t).pc # "reread"
         /\ \A p : Good(t, p) /\ m.todo # {t} =>
              LET n == [Done(m, t) EXCEPT !.prior[t] = p] IN
              Informed(n) /\ n.tries <= 2 /\ n.pc # "reread"
<1>1. m \in Memory
  BY DEF Informed
<1>2. CASE m.todo = {t}
  BY <1>2, IdleIsInformed DEF Done
<1>3. CASE m.todo # {t}
  <2> DEFINE d == [m EXCEPT !.todo = @ \ {t}, !.tier = None, !.tries = 0, !.pc = "publish"]
  <2>1. Done(m, t) = d
    BY <1>3 DEF Done
  <2>2. d \in Memory
    <3>1. m.todo \ {t} \in SUBSET Tier
      BY <1>1 DEF Memory
    <3>2. [m EXCEPT !.todo = m.todo \ {t}] \in Memory
      BY <1>1, <3>1 DEF Memory
    <3>3. \A n \in Memory : [n EXCEPT !.tier = None] \in Memory
      BY DEF Memory
    <3>4. \A n \in Memory : [n EXCEPT !.tries = 0] \in Memory
      BY DEF Memory
    <3>5. \A n \in Memory : [n EXCEPT !.pc = "publish"] \in Memory
      BY DEF Memory
    <3>6. QED
      BY <3>2, <3>3, <3>4, <3>5
  <2>3. /\ d.records = m.records /\ d.now = m.now /\ d.prior = m.prior
        /\ d.tries = 0 /\ d.pc = "publish" /\ d.tries <= 2 /\ d.pc # "reread"
    BY <1>1 DEF Memory
  <2> HIDE DEF d
  <2>4. Informed(d)
    BY <2>2, <2>3 DEF Informed
  <2>5. ASSUME NEW p, Good(t, p)
        PROVE  /\ Informed([d EXCEPT !.prior[t] = p])
               /\ [d EXCEPT !.prior[t] = p].tries <= 2
               /\ [d EXCEPT !.prior[t] = p].pc # "reread"
    <3> DEFINE n == [d EXCEPT !.prior[t] = p]
    <3>1. p \in Projection
      BY <2>5 DEF Good
    <3>2. n \in Memory
      BY <2>2, <3>1 DEF Memory
    <3>3. /\ n.records = d.records /\ n.now = d.now /\ n.prior = [d.prior EXCEPT ![t] = p]
          /\ n.tries = d.tries /\ n.pc = d.pc
      BY <2>2 DEF Memory
    <3>4. d.prior \in [Tier -> Projection \cup {None}]
      BY <2>2 DEF Memory
    <3> HIDE DEF n
    <3>5. \A u \in Tier : n.prior[u] # None => Good(u, n.prior[u])
      BY <2>4, <2>5, <3>3, <3>4 DEF Informed
    <3>6. Informed(n) /\ n.tries <= 2 /\ n.pc # "reread"
      BY <2>3, <2>4, <3>2, <3>3, <3>5 DEF Informed
    <3>7. QED
      BY <3>6 DEF n
  <2>6. QED
    BY <2>1, <2>3, <2>4, <2>5
<1>4. QED
  BY <1>2, <1>3

\* What a query finds is of the log.
LEMMA FoundIsInformed ==
  ASSUME Recorded, NEW now \in 0 .. clock, NEW records \in SUBSET log,
         NEW state \in {"complete", "partial", "unavailable"}, NEW invalid \in BOOLEAN
  PROVE  LET m == [Idle EXCEPT !.pc = "read", !.now = now, !.state = state,
                     !.records = records, !.invalid = invalid]
         IN  Informed(m) /\ m.tries <= 2 /\ m.pc # "reread"
<1> DEFINE m == [Idle EXCEPT !.pc = "read", !.now = now, !.state = state,
                   !.records = records, !.invalid = invalid]
<1>1. clock \in Nat /\ log \in SUBSET Event
  BY DEF Recorded, RecordersTypeOK
<1>2. Idle \in Memory /\ Idle.prior = [t \in Tier |-> None] /\ Idle.tries = 0
  BY IdleIsInformed DEF Informed, Idle
<1>3. now \in Nat /\ now <= clock /\ records \in SUBSET Event
  BY <1>1
<1>4. m \in Memory
  <2>1. \A n \in Memory : [n EXCEPT !.pc = "read"] \in Memory
    BY DEF Memory
  <2>2. \A n \in Memory : [n EXCEPT !.now = now] \in Memory
    BY <1>3 DEF Memory
  <2>3. \A n \in Memory : [n EXCEPT !.state = state] \in Memory
    BY DEF Memory
  <2>4. \A n \in Memory : [n EXCEPT !.records = records] \in Memory
    BY <1>3 DEF Memory
  <2>5. \A n \in Memory : [n EXCEPT !.invalid = invalid] \in Memory
    BY DEF Memory
  <2>6. QED
    BY <1>2, <2>1, <2>2, <2>3, <2>4, <2>5
<1>5. /\ m.pc = "read" /\ m.now = now /\ m.records = records
      /\ m.prior = Idle.prior /\ m.tries = Idle.tries
  BY <1>2 DEF Memory
<1> HIDE DEF m
<1>6. Informed(m) /\ m.tries <= 2 /\ m.pc # "reread"
  BY <1>2, <1>3, <1>4, <1>5 DEF Informed
<1>7. QED
  BY <1>6 DEF m

LEMMA QueryStep ==
  ASSUME IInv, NEW o \in Observing, Query(o)
  PROVE  IInv'
<1>1. /\ Recorded /\ runs \in Nat /\ faults \in Nat /\ clock \in Nat
      /\ store \in [Tier -> Projection \cup {None}]
      /\ \A t \in Tier : store[t] # None => Good(t, store[t])
  BY DEF IInv, Recorded, RecordersTypeOK
<1>2. /\ UNCHANGED <<clock, att, log, store>> /\ runs' \in Nat \ {0} /\ faults' \in Nat
  <2>1. UNCHANGED <<clock, att, log, store>> /\ runs' = runs + 1
    BY DEF Query
  <2>2. faults' = faults \/ faults' = faults + 1
    BY DEF Query
  <2>3. QED
    BY <1>1, <2>1, <2>2
<1>3. PICK now \in 0 .. clock :
        \E state \in {"complete", "partial", "unavailable"} :
        \E records \in SUBSET log : \E invalid \in BOOLEAN :
          Become(o, [Idle EXCEPT !.pc = "read", !.now = now, !.state = state,
                       !.records = records, !.invalid = invalid])
  <2>1. \A n : Until(n) \in SUBSET log
    BY DEF Until
  <2>2. \A n : Delivered(n) \in SUBSET (SUBSET log)
    BY <2>1 DEF Delivered
  <2>3. QED
    BY <2>1, <2>2 DEF Query, Answer
<1>4. PICK state \in {"complete", "partial", "unavailable"} :
        \E records \in SUBSET log : \E invalid \in BOOLEAN :
          Become(o, [Idle EXCEPT !.pc = "read", !.now = now, !.state = state,
                       !.records = records, !.invalid = invalid])
  BY <1>3
<1>5. PICK records \in SUBSET log : \E invalid \in BOOLEAN :
        Become(o, [Idle EXCEPT !.pc = "read", !.now = now, !.state = state,
                     !.records = records, !.invalid = invalid])
  BY <1>4
<1>6. PICK invalid \in BOOLEAN :
        Become(o, [Idle EXCEPT !.pc = "read", !.now = now, !.state = state,
                     !.records = records, !.invalid = invalid])
  BY <1>5
<1> DEFINE m == [Idle EXCEPT !.pc = "read", !.now = now, !.state = state,
                   !.records = records, !.invalid = invalid]
<1>7. Informed(m) /\ m.tries <= 2 /\ m.pc # "reread"
  BY <1>1, FoundIsInformed
<1>8. Become(o, m)
  BY <1>6
<1> HIDE DEF m
<1>9. QED
  BY <1>1, <1>2, <1>7, <1>8, ObserverStep

\* An observer that is at work has begun a run.
LEMMA AtWork ==
  ASSUME IInv, NEW o \in Observing, obs[o].pc # "idle"
  PROVE  runs \in Nat \ {0}
BY DEF IInv, Idle

LEMMA ReadPriorsStep ==
  ASSUME IInv, NEW o \in Observing, ReadPriors(o)
  PROVE  IInv'
<1>1. /\ Recorded /\ runs \in Nat /\ faults \in Nat
      /\ store \in [Tier -> Projection \cup {None}]
      /\ \A t \in Tier : store[t] # None => Good(t, store[t])
      /\ Informed(obs[o]) /\ obs[o].tries <= 2 /\ obs[o] \in Memory
  BY DEF IInv, Recorded, RecordersTypeOK
<1>2. obs[o].pc = "read" /\ UNCHANGED <<clock, att, log, store, runs>> /\ faults' \in Nat
  BY <1>1 DEF ReadPriors
<1>3. runs' \in Nat \ {0}
  BY <1>2, AtWork
<1>4. PICK m : m = obs[o]
  OBVIOUS
<1>5. PICK unreadable \in SUBSET Tier : \E failed \in SUBSET unreadable :
        LET prior == [t \in Tier |-> IF t \in unreadable THEN None ELSE store[t]]
            missing == \E t \in Tier : prior[t] = None
        IN
        Become(o, IF failed = Tier THEN Idle
                  ELSE [m EXCEPT
                    !.pc = "publish", !.todo = Tier \ failed, !.prior = prior,
                    !.state = IF missing /\ @ = "complete" THEN "partial" ELSE @])
  BY <1>4 DEF ReadPriors
<1> DEFINE prior == [t \in Tier |-> IF t \in unreadable THEN None ELSE store[t]]
           missing == \E t \in Tier : prior[t] = None
<1>6. PICK failed \in SUBSET unreadable :
        Become(o, IF failed = Tier THEN Idle
                  ELSE [m EXCEPT
                    !.pc = "publish", !.todo = Tier \ failed, !.prior = prior,
                    !.state = IF missing /\ @ = "complete" THEN "partial" ELSE @])
  BY <1>5
<1>7. CASE failed = Tier
  <2>1. Become(o, Idle) /\ Informed(Idle) /\ Idle.tries <= 2 /\ Idle.pc # "reread"
    BY <1>1, <1>6, <1>7, IdleIsInformed
  <2>2. QED
    BY <1>1, <1>2, <1>3, <2>1, ObserverStep
<1>8. CASE failed # Tier
  <2>1. PICK state : state = IF missing /\ m.state = "complete" THEN "partial" ELSE m.state
    OBVIOUS
  <2>2. /\ state \in {"complete", "partial", "unavailable"} /\ Tier \ failed \in SUBSET Tier
        /\ prior \in [Tier -> Projection \cup {None}]
        /\ \A t \in Tier : prior[t] # None => Good(t, prior[t])
    BY <1>1, <1>4, <2>1 DEF Memory
  <2>3. PICK q : q = prior
    OBVIOUS
  <2> DEFINE n == [m EXCEPT !.pc = "publish", !.todo = Tier \ failed, !.prior = q, !.state = state]
  <2>4. Become(o, n)
    BY <1>6, <1>8, <2>1, <2>3
  <2>5. m \in Memory
    BY <1>1, <1>4
  <2>6. n \in Memory
    <3>1. \A k \in Memory : [k EXCEPT !.pc = "publish"] \in Memory
      BY DEF Memory
    <3>2. \A k \in Memory : [k EXCEPT !.todo = Tier \ failed] \in Memory
      BY DEF Memory
    <3>3. \A k \in Memory : [k EXCEPT !.prior = q] \in Memory
      BY <2>2, <2>3 DEF Memory
    <3>4. \A k \in Memory : [k EXCEPT !.state = state] \in Memory
      BY <2>2 DEF Memory
    <3>5. QED
      BY <2>5, <3>1, <3>2, <3>3, <3>4
  <2>7. /\ n.pc = "publish" /\ n.records = m.records /\ n.now = m.now /\ n.prior = q
        /\ n.tries = m.tries
    BY <2>5 DEF Memory
  <2> HIDE DEF n
  <2>8. Informed(n)
    BY <1>1, <1>4, <2>2, <2>3, <2>6, <2>7 DEF Informed
  <2>9. QED
    BY <1>1, <1>2, <1>3, <1>4, <2>4, <2>7, <2>8, ObserverStep
<1>9. QED
  BY <1>7, <1>8

\* A put: what is stored is what was remembered, merged with what was found.
LEMMA PublishIs ==
  ASSUME IInv, NEW o \in Observing, NEW t \in Tier, Publish(o, t)
  PROVE  /\ UNCHANGED <<clock, att, log, faults, runs>>
         /\ \/ UNCHANGED store
            \/ /\ store[t] = obs[o].prior[t]
               /\ store' = [store EXCEPT ![t] = Project(Merge(obs[o]), t, obs[o].prior[t])]
BY DEF Publish, Reads, recorders

LEMMA PublishStep ==
  ASSUME IInv, NEW o \in Observing, NEW t \in Tier, Publish(o, t)
  PROVE  IInv'
<1>1. /\ Recorded /\ faults \in Nat
      /\ store \in [Tier -> Projection \cup {None}]
      /\ \A u \in Tier : store[u] # None => Good(u, store[u])
      /\ Informed(obs[o]) /\ obs[o].tries <= 2 /\ obs[o] \in Memory
  BY DEF IInv, Recorded, RecordersTypeOK
<1>2. /\ UNCHANGED <<clock, att, log, faults, runs>>
      /\ \/ UNCHANGED store
         \/ store' = [store EXCEPT ![t] = Project(Merge(obs[o]), t, obs[o].prior[t])]
  BY PublishIs
<1>3. obs[o].pc = "publish"
  BY DEF Publish
<1>4. runs' \in Nat \ {0} /\ faults' \in Nat
  BY <1>1, <1>2, <1>3, AtWork
<1>5. PICK m : m = obs[o]
  OBVIOUS
<1>6. PICK p : p = Project(Merge(m), t, m.prior[t])
  OBVIOUS
<1>7. Good(t, p) /\ p \in Projection
  BY <1>1, <1>5, <1>6, ProjectionIs DEF Good
<1>8. /\ store' \in [Tier -> Projection \cup {None}]
      /\ \A u \in Tier : store'[u] # None => Good(u, store'[u])
  BY <1>1, <1>2, <1>5, <1>6, <1>7
<1>9. \/ /\ m.todo # {t}
         /\ Become(o, [Done(m, t) EXCEPT !.prior[t] = p])
      \/ Become(o, Done(m, t)) \/ Become(o, Idle)
      \/ Become(o, [m EXCEPT !.pc = "reread", !.tier = t, !.tries = @ + 1]) /\ m.tries # 2
  BY <1>5, <1>6 DEF Publish
<1>10. CASE m.todo # {t} /\ Become(o, [Done(m, t) EXCEPT !.prior[t] = p])
  <2> DEFINE n == [Done(m, t) EXCEPT !.prior[t] = p]
  <2>1. Informed(n) /\ n.tries <= 2 /\ n.pc # "reread"
    BY <1>1, <1>5, <1>7, <1>10, DoneIsInformed
  <2>2. Become(o, n)
    BY <1>10
  <2> HIDE DEF n
  <2>3. QED
    BY <1>2, <1>4, <1>8, <2>1, <2>2, ObserverStep
<1>11. CASE Become(o, Done(m, t))
  <2>1. Informed(Done(m, t)) /\ Done(m, t).tries <= 2 /\ Done(m, t).pc # "reread"
    BY <1>1, <1>5, DoneIsInformed
  <2>2. QED
    BY <1>2, <1>4, <1>8, <1>11, <2>1, ObserverStep
<1>12. CASE Become(o, Idle)
  <2>1. Informed(Idle) /\ Idle.tries <= 2 /\ Idle.pc # "reread"
    BY <1>1, IdleIsInformed
  <2>2. QED
    BY <1>2, <1>4, <1>8, <1>12, <2>1, ObserverStep
<1>13. CASE /\ Become(o, [m EXCEPT !.pc = "reread", !.tier = t, !.tries = @ + 1])
            /\ m.tries # 2
  <2> DEFINE n == [m EXCEPT !.pc = "reread", !.tier = t, !.tries = @ + 1]
  <2>1. m \in Memory /\ m.tries \in 0 .. 3 /\ m.tries + 1 \in 0 .. 3 /\ m.tries + 1 <= 2
    BY <1>1, <1>5, <1>13 DEF Memory
  <2>2. n \in Memory
    <3>1. \A k \in Memory : [k EXCEPT !.pc = "reread"] \in Memory
      BY DEF Memory
    <3>2. \A k \in Memory : [k EXCEPT !.tier = t] \in Memory
      BY DEF Memory
    <3>3. \A k \in Memory : [k EXCEPT !.tries = m.tries + 1] \in Memory
      BY <2>1 DEF Memory
    <3>4. QED
      BY <2>1, <3>1, <3>2, <3>3
  <2>3. /\ n.pc = "reread" /\ n.tier = t /\ n.tries <= 2
        /\ n.records = m.records /\ n.now = m.now /\ n.prior = m.prior
    BY <2>1 DEF Memory
  <2>4. Become(o, n)
    BY <1>13
  <2> HIDE DEF n
  <2>5. Informed(n)
    BY <1>1, <1>5, <2>2, <2>3 DEF Informed
  <2>6. QED
    BY <1>2, <1>4, <1>8, <2>3, <2>4, <2>5, ObserverStep
<1>14. QED
  BY <1>9, <1>10, <1>11, <1>12, <1>13

LEMMA RereadStep ==
  ASSUME IInv, NEW o \in Observing, Reread(o)
  PROVE  IInv'
<1>1. /\ Recorded /\ faults \in Nat
      /\ store \in [Tier -> Projection \cup {None}]
      /\ \A u \in Tier : store[u] # None => Good(u, store[u])
      /\ Informed(obs[o]) /\ obs[o].tries <= 2 /\ obs[o] \in Memory
      /\ obs[o].pc = "reread" => obs[o].tier \in Tier
  BY DEF IInv, Recorded, RecordersTypeOK
<1>2. UNCHANGED <<clock, att, log, faults, store, runs>> /\ obs[o].pc = "reread"
  BY DEF Reread, Reads, recorders
<1>3. runs' \in Nat \ {0} /\ faults' \in Nat
  BY <1>1, <1>2, AtWork
<1>4. PICK m : m = obs[o]
  OBVIOUS
<1>5. PICK t \in Tier : t = m.tier
  BY <1>1, <1>2, <1>4
<1>6. PICK p : p = store[t]
  OBVIOUS
<1>7. \/ Become(o, [m EXCEPT !.pc = "publish", !.prior[t] = p])
      \/ Become(o, Done(m, t))
  BY <1>4, <1>5, <1>6 DEF Reread
<1>8. CASE Become(o, Done(m, t))
  <2>1. Informed(Done(m, t)) /\ Done(m, t).tries <= 2 /\ Done(m, t).pc # "reread"
    BY <1>1, <1>4, DoneIsInformed
  <2>2. QED
    BY <1>1, <1>2, <1>3, <1>8, <2>1, ObserverStep
<1>9. CASE Become(o, [m EXCEPT !.pc = "publish", !.prior[t] = p])
  <2> DEFINE n == [m EXCEPT !.pc = "publish", !.prior[t] = p]
  <2>1. m \in Memory /\ p \in Projection \cup {None}
    BY <1>1, <1>4, <1>6
  <2>2. n \in Memory
    <3>1. \A k \in Memory : [k EXCEPT !.pc = "publish"] \in Memory
      BY DEF Memory
    <3>2. \A k \in Memory : [k EXCEPT !.prior[t] = p] \in Memory
      BY <2>1 DEF Memory
    <3>3. QED
      BY <2>1, <3>1, <3>2
  <2>3. /\ n.pc = "publish" /\ n.records = m.records /\ n.now = m.now
        /\ n.tries = m.tries /\ n.prior = [m.prior EXCEPT ![t] = p]
        /\ m.prior \in [Tier -> Projection \cup {None}]
    BY <2>1 DEF Memory
  <2>4. Become(o, n)
    BY <1>9
  <2> HIDE DEF n
  <2>5. \A u \in Tier : n.prior[u] # None => Good(u, n.prior[u])
    BY <1>1, <1>4, <1>6, <2>3 DEF Informed
  <2>6. Informed(n)
    BY <1>1, <1>4, <2>2, <2>3, <2>5 DEF Informed
  <2>7. QED
    BY <1>1, <1>2, <1>3, <1>4, <2>3, <2>4, <2>6, ObserverStep
<1>10. QED
  BY <1>7, <1>8, <1>9

\* The first projection and an idle memory stay good for as long as records are.
LEMMA FirstStaysGood ==
  Recorded' => (Informed(Idle) /\ \A t \in Tier : Good(t, First))'
<1>1. Recorded => Informed(Idle) /\ \A t \in Tier : Good(t, First)
  BY IdleIsInformed, FirstIsGood
<1>2. QED
  BY <1>1, PTL

\* Recorders move before any observer: what is stored is the first projection.
LEMMA RecordersStep ==
  ASSUME IInv, runs = 0, Scan, UNCHANGED observers
  PROVE  IInv'
<1>1. Recorded /\ Recorded' /\ UNCHANGED <<store, obs, runs>>
  BY ScanStep DEF IInv, observers
<1>2. /\ \A t \in Tier : store[t] \in {None, First}
      /\ \A o \in Observing : obs[o] = Idle
      /\ store \in [Tier -> Projection \cup {None}] /\ obs \in [Observing -> Memory]
      /\ Idle.tries <= 2 /\ Idle.pc # "reread"
  BY <1>1, IdleIsInformed DEF IInv
<1>3. (Informed(Idle) /\ \A t \in Tier : Good(t, First))'
  BY <1>1, FirstStaysGood
<1>4. \A t \in Tier : store'[t] # None => Good(t, store[t])'
  <2>1. ASSUME NEW t \in Tier, store'[t] # None PROVE Good(t, store[t])'
    <3>1. store'[t] = First /\ Good(t, First)'
      BY <1>1, <1>2, <1>3, <2>1
    <3>2. QED
      BY <3>1 DEF Good, Accepted, Whole, Remembered, TierOf, Of, LegalPrefix, Contiguous,
                  Refused, Illegal
  <2>2. QED
    BY <2>1
<1>5. \A o \in Observing : Informed(obs[o])'
  <2>1. ASSUME NEW o \in Observing PROVE Informed(obs[o])'
    <3>1. obs'[o] = Idle /\ Informed(Idle)' /\ \A t \in Tier : Idle.prior[t] = None
      BY <1>1, <1>2, <1>3 DEF Idle
    <3>2. \A t \in Tier : obs'[o].prior[t] = None
      BY <3>1
    <3>3. obs'[o] \in Memory /\ obs'[o].records \in SUBSET log' /\ obs'[o].now <= clock'
      BY <3>1 DEF Informed
    <3>4. QED
      BY <3>2, <3>3 DEF Informed
  <2>2. QED
    BY <2>1
<1>6. \A o \in Observing : obs'[o] = Idle
  BY <1>1, <1>2
<1>7. QED
  BY <1>1, <1>2, <1>4, <1>5, <1>6 DEF IInv

LEMMA InvariantKeeps == IInv /\ [Next]_vars => IInv'
<1> SUFFICES ASSUME IInv, [Next]_vars PROVE IInv'
  OBVIOUS
<1>1. CASE runs = 0 /\ Scan /\ UNCHANGED observers
  BY <1>1, RecordersStep
<1>2. CASE Observe
  <2>1. PICK o \in Observing :
          \/ ReadPriors(o) \/ Query(o) \/ (\E t \in Tier : Publish(o, t)) \/ Reread(o)
    BY <1>2 DEF Observe
  <2>2. QED
    BY <2>1, ReadPriorsStep, QueryStep, PublishStep, RereadStep
<1>3. CASE UNCHANGED vars
  <2>1. UNCHANGED <<clock, att, log>> /\ UNCHANGED <<faults, store, obs, runs>>
    BY <1>3 DEF vars, observers, recorders
  <2>2. faults' \in Nat /\ Recorded'
    BY <2>1, GoodStays DEF IInv, Recorded, RecordersTypeOK
  <2>3. ASSUME NEW t \in Tier, store'[t] # None PROVE Good(t, store[t])'
    <3>1. Good(t, store[t])
      BY <2>1, <2>3 DEF IInv
    <3>2. QED
      BY <2>1, <3>1 DEF Good, Accepted, Whole, Remembered, TierOf, Of, LegalPrefix,
                        Contiguous, Refused, Illegal
  <2>4. ASSUME NEW o \in Observing PROVE Informed(obs[o])'
    <3>1. Informed(obs[o])
      BY DEF IInv
    <3>2. ASSUME NEW t \in Tier, obs'[o].prior[t] # None PROVE Good(t, obs[o].prior[t])'
      <4>1. Good(t, obs'[o].prior[t])
        BY <2>1, <3>1, <3>2 DEF Informed
      <4>2. QED
        BY <2>1, <4>1 DEF Good, Accepted, Whole, Remembered, TierOf, Of, LegalPrefix,
                          Contiguous, Refused, Illegal
    <3>3. QED
      BY <2>1, <3>1, <3>2 DEF Informed
  <2>5. QED
    BY <2>1, <2>2, <2>3, <2>4 DEF IInv
<1>4. QED
  BY <1>1, <1>2, <1>3 DEF Next

-----------------------------------------------------------------------------
(* Theorems.                                                                  *)

\* Every observer run keeps the invariant.
THEOREM Invariance == Spec => []IInv
<1>1. Init => IInv
  BY InvariantAtFirst
<1>2. IInv /\ [Next]_vars => IInv'
  BY InvariantKeeps
<1>3. QED
  BY <1>1, <1>2, PTL DEF Spec

\* Every stored projection has its shape, and the observer after accepts it: its
\* interval ends no later than its label, and no label is of a time to come
\* (reduce_projections, which refuses a prior that says otherwise).
THEOREM StoreStaysSound == Spec => []StoreIsSound
<1>1. IInv => StoreIsSound
  BY DEF IInv, Recorded, StoreIsSound, TypeOK, NextReaderAccepts, Stored, Good, Accepted
<1>2. QED
  BY <1>1, Invariance, PTL

\* A tier shows success only of an attempt that did succeed and whose every
\* record arrived: a lost record, a killed task, a query cut off or a trace that is
\* refused never reads as a success (_legal_prefix, the attempt row).
THEOREM SuccessesAreWhole == Spec => []SuccessIsWhole
<1>1. IInv => SuccessIsWhole
  BY DEF IInv, SuccessIsWhole, Stored, Good, Whole
<1>2. QED
  BY <1>1, Invariance, PTL

\* No observer unlearns what another had published: records and conflicts within
\* the window, the interval and the label, the last success (publish).
THEOREM NothingIsUnlearned == Spec => NothingUnlearned
<1>1. ASSUME IInv, [Next]_vars, ~UNCHANGED store
      PROVE  EvidenceKept /\ WatermarkKept /\ LastSuccessKept
  <2>1. PICK o \in Observing : \E t \in Tier : Publish(o, t)
    BY <1>1 DEF Next, vars, observers, Observe, ReadPriors, Query, Reread, Reads
  <2>2. PICK t \in Tier : Publish(o, t)
    BY <2>1
  <2>3. PICK m : m = obs[o]
    OBVIOUS
  <2>4. PICK p : p = Project(Merge(m), t, m.prior[t])
    OBVIOUS
  <2>5. /\ UNCHANGED <<clock, att, log>> /\ store[t] = m.prior[t]
        /\ store' = [store EXCEPT ![t] = p]
    BY <1>1, <2>2, <2>3, <2>4, PublishIs
  <2>6. /\ Recorded /\ Informed(m) /\ store \in [Tier -> Projection \cup {None}]
        /\ \A u \in Tier : store[u] # None => Good(u, store[u])
    BY <1>1, <2>3 DEF IInv
  <2>7. Good(t, p) /\ p # None
    BY <2>4, <2>6, ProjectionIs, NoneAssumption DEF Good
  <2>8. store'[t] = p /\ \A u \in Tier : u # t => store'[u] = store[u]
    BY <2>5, <2>6
  <2>9. EvidenceKept
    <3>1. store[t] # None => \A e \in store[t].events :
            Started(e.attempt) >= p.generated - Lookback =>
              /\ e \in p.events
              /\ e.attempt \in store[t].conflict => e.attempt \in p.conflict
      BY <2>4, <2>5, <2>6, RecordsAre
    <3>2. QED
      BY <2>7, <2>8, <3>1 DEF EvidenceKept
  <2>10. WatermarkKept
    <3>1. store[t] # None =>
            /\ p.generated >= store[t].generated
            /\ store[t].completed # None => p.completed # None /\ p.completed >= store[t].completed
      BY <2>4, <2>5, <2>6, WindowIs
    <3>2. \A u \in Tier : store[u] # None =>
            store[u].generated \in Nat /\ store[u].completed \in Nat \cup {None}
      BY <2>6 DEF Projection
    <3>3. QED
      BY <2>8, <3>1, <3>2 DEF WatermarkKept
  <2>11. LastSuccessKept
    <3>1. ASSUME store[t] # None, NEW e, e = store[t].lastInventory, e # None,
                 Started(e.attempt) >= p.generated - Lookback
          PROVE  LET f == p.lastInventory IN
                 \/ f # None /\ (f = e \/ Started(f.attempt) > Started(e.attempt))
                 \/ e.attempt \in p.conflict
                 \/ \E g, h \in p.events :
                      /\ g.attempt # h.attempt /\ Started(g.attempt) = Started(h.attempt)
                      /\ Started(g.attempt) >= Started(e.attempt)
                      /\ \A i \in {g, h} : i.kind = "inventory_result" /\ i.ok
      BY <2>4, <2>5, <2>6, <3>1, SuccessIsKept
    <3>2. ASSUME NEW u \in Tier, store[u] # None, NEW e, e = store[u].lastInventory, e # None,
                 Started(e.attempt) >= store'[u].generated - Lookback
          PROVE  LET f == store'[u].lastInventory IN
                 \/ f # None /\ (f = e \/ Started(f.attempt) > Started(e.attempt))
                 \/ e.attempt \in store'[u].conflict
                 \/ \E g, h \in store'[u].events :
                      /\ g.attempt # h.attempt /\ Started(g.attempt) = Started(h.attempt)
                      /\ Started(g.attempt) >= Started(e.attempt)
                      /\ \A i \in {g, h} : i.kind = "inventory_result" /\ i.ok
      <4>1. CASE u = t
        BY <2>8, <3>1, <3>2, <4>1
      <4>2. CASE u # t
        BY <2>8, <3>2, <4>2
      <4>3. QED
        BY <4>1, <4>2
    <3>3. QED
      BY <3>2 DEF LastSuccessKept
  <2>12. QED
    BY <2>9, <2>10, <2>11
<1>2. IInv /\ [Next]_vars => [EvidenceKept /\ WatermarkKept /\ LastSuccessKept]_store
  BY <1>1
<1>3. QED
  BY <1>2, Invariance, PTL DEF Spec, NothingUnlearned

-----------------------------------------------------------------------------
(* LabelVerdicts.                                                             *)

SampleType == [value : Nat, exact : BOOLEAN, population : {"none", "small", "big"}]
InputType ==
  [state : {"none", "complete", "partial", "unavailable"},
   reason : Labels!Reasons \cup {"none", "truncated"}, names : BOOLEAN, overflow : BOOLEAN,
   samples : SUBSET SampleType]
TaskType ==
  [pc : {"names", "keys", "streams", "config", "spans", "fit", "done"},
   kept : Seq(Labels!Labels), counts : Seq(Nat), at : Nat \ {0}, late : BOOLEAN,
   truncated : BOOLEAN, successful : BOOLEAN, odd : Nat, partial : BOOLEAN, overflow : BOOLEAN,
   failure : Labels!Reasons \cup {"none"}]
EnvelopeType ==
  [data : {"present", "empty", "unknown"}, state : {"complete", "partial", "unavailable"},
   reason : Labels!Reasons \cup {"none", "truncated"}, cut : BOOLEAN,
   inputs : [Labels!Inputs -> InputType]]

LabelsTyped ==
  /\ signal \in {"metrics", "logs", "traces", "profiles"} /\ bounds \in Bounds
  /\ world \in Labels!World /\ first \in Labels!World
  /\ task \in TaskType /\ envelope \in EnvelopeType
  /\ Len(task.counts) = Len(task.kept) /\ task.at <= Len(task.kept) + 1 /\ task.odd < task.at
  /\ task.pc \in {"streams", "config"} => signal = "logs"
  /\ task.pc = "spans" => signal = "traces"
  /\ misreads \in 0 .. MaxMisreads /\ growth \in 0 .. MaxGrowth

\* Nothing on a stack becomes less while it is measured.
NoLess(v, w) ==
  /\ \A l \in Labels!Labels : /\ v.label[l].count <= w.label[l].count
                              /\ v.label[l].odd <= w.label[l].odd
                              /\ v.label[l].big => w.label[l].big
  /\ v.spans <= w.spans /\ v.series <= w.series /\ v.wide <= w.wide /\ v.risky <= w.risky

\* A value that has an odd shape is one; those of __name__ have none, and only traces have spans.
Sane(w) ==
  /\ \A l \in Labels!Labels : w.label[l].odd > 0 => w.label[l].count > 0
  /\ w.label["__name__"].odd = 0
  /\ signal # "traces" => w.spans = 0

LabelsGrow == NoLess(first, world) /\ Sane(first) /\ Sane(world)

\* What the samples of an input have seen was there, and is since; and where an input is whole, what
\* they have not seen was not there in the beginning.
Tells(i, x) ==
  /\ i = "missing_identity" =>
       \A s \in x.samples :
         /\ s.value \in {0, 1}
         /\ s.value = 0 => world.label["service_name"].count > 0
         /\ s.value = 1 /\ ~ x.names => first.label["service_name"].count = 0
  /\ i = "distinct_values" =>
       \A s \in x.samples :
         /\ signal = "logs" => s.population = "none"
         /\ signal = "profiles" => ~ s.exact /\ \E l \in Labels!Labels : s.value <= world.label[l].count
         /\ s.population = "big" =>
              \E l \in Labels!Labels : s.value <= world.label[l].count /\ world.label[l].big
  /\ i = "shape_count" =>
       \A s \in x.samples :
         /\ s.value > 0 => world.spans > 0 \/ \E l \in Labels!Labels : world.label[l].odd > 0
         /\ s.value = 0 /\ x.state = "complete" =>
              first.spans = 0 /\ \A l \in Labels!Labels : first.label[l].odd = 0
  /\ i = "metric_series" =>
       \A s \in x.samples : first.series <= s.value /\ s.value <= world.series
  /\ i = "labels_per_stream" =>
       x.state # "complete" /\ \A s \in x.samples : s.value <= world.wide
  /\ i = "otlp_churn_labels" =>
       x.state # "complete" /\ \A s \in x.samples : s.value > 0 => world.risky > 0
  /\ i = "drilldown_missing" => x.samples = {}

LabelsTell == \A i \in Labels!Inputs : Tells(i, envelope.inputs[i])

\* There is a sample of the label, with all that it had in the beginning, unless not all was read.
Covers(l, samples) ==
  \E s \in samples :
    \/ s.population = "none"
    \/ first.label[l].count <= s.value /\ (first.label[l].big => s.population = "big")

Values == envelope.inputs["distinct_values"]

\* Half way through the keys: those behind have been read, as far as nothing was in the way.
LabelsRead ==
  task.pc = "keys" =>
    /\ ~ task.truncated => \A l \in Labels!There(first) : \E i \in DOMAIN task.kept : task.kept[i] = l
    /\ task.truncated => task.partial
    /\ signal # "metrics" => task.truncated
    /\ task.overflow => task.failure # "none"
    /\ Values.state = "complete" => ~ task.truncated
    /\ signal = "metrics" => \A i \in 1 .. task.at - 1 : Covers(task.kept[i], Values.samples)
    /\ ~ task.partial /\ task.failure = "none" /\ task.odd = 0 =>
         \A i \in 1 .. task.at - 1 : first.label[task.kept[i]].odd = 0
    /\ task.odd > 0 => \E l \in Labels!Labels : world.label[l].odd > 0

\* All the values of metrics that there were have been read where they are said to be whole.
LabelsCovered ==
  task.pc \in {"fit", "done"} /\ signal = "metrics" /\ Values.state = "complete" =>
    \A l \in Labels!There(first) : Covers(l, Values.samples)

\* What the validator looks at, of one input.
WellFormed(x) ==
  x.state # "none" =>
    /\ Labels!Coherent(x)
    /\ x.names \/ x.overflow => x.state = "partial"
    /\ x.overflow => x.reason = "overflow"

LabelsForm ==
  /\ \A i \in Labels!Inputs : WellFormed(envelope.inputs[i])
  /\ Labels!Coherent(envelope)
  /\ envelope.state = "unavailable" => envelope.data = "unknown" /\ task.pc \in {"names", "done"}
  /\ envelope.cut => envelope.state = "partial"
  /\ envelope.data = "empty" =>
       /\ task.pc \in {"fit", "done"} /\ envelope.state = "complete" /\ task.kept = <<>>
       /\ Labels!There(first) = {}
       /\ \A i \in Labels!Inputs : envelope.inputs[i] = Labels!NoInput
  /\ task.pc = "names" => task = Labels!Start /\ envelope = Labels!Unmeasured

LabelsInv ==
  LabelsTyped /\ LabelsGrow /\ LabelsTell /\ LabelsRead /\ LabelsCovered /\ LabelsForm

LEMMA LabelsAre == Labels!Labels = {"__name__", "pod", "service_name"}
<1>1. DOMAIN Labels!Order = {1, 2, 3}
  BY DEF Labels!Order
<1> QED
  BY <1>1 DEF Labels!Labels, Labels!Order

LEMMA SignalsAre == DOMAIN Labels!Rules = {"metrics", "logs", "traces", "profiles"}
BY DEF Labels!Rules

LEMMA WorldIs ==
  ASSUME NEW w
  PROVE  w \in Labels!World <=>
           /\ w = [label |-> w.label, spans |-> w.spans, series |-> w.series,
                   wide |-> w.wide, risky |-> w.risky]
           /\ w.label \in [Labels!Labels -> Labels!Label]
           /\ w.spans \in 0 .. 1 /\ w.series \in 1 .. Warn /\ w.wide \in 0 .. 1 /\ w.risky \in 0 .. 1
BY DEF Labels!World

\* The world to begin with.
LEMMA WorldsAreSane ==
  ASSUME LabelConstants, signal \in {"metrics", "logs", "traces", "profiles"},
         NEW w \in Labels!Worlds(signal)
  PROVE  w \in Labels!World /\ Sane(w) /\ NoLess(w, w)
<1>0. Warn \in Nat /\ Warn >= 2
  BY DEF LabelConstants
<1>1. w \in Labels!World
  BY DEF Labels!Worlds
<1>2. /\ w.label \in [Labels!Labels -> Labels!Label]
      /\ w.spans \in 0 .. 1 /\ w.series \in 1 .. Warn /\ w.wide \in 0 .. 1 /\ w.risky \in 0 .. 1
  BY <1>1, WorldIs
<1>3. /\ w.label["pod"] = Labels!NoLabel \/ w.label["pod"].count \in Warn - 1 .. Warn
      /\ w.label["service_name"] = Labels!NoLabel \/ w.label["service_name"].odd = 0
      /\ w.label["__name__"] = Labels!NoLabel \/ w.label["__name__"].odd = 0
      /\ signal # "traces" => w.spans = 0
  BY DEF Labels!Worlds
<1>4. Labels!NoLabel.odd = 0
  BY DEF Labels!NoLabel
<1>5. Sane(w)
  BY <1>0, <1>2, <1>3, <1>4, LabelsAre DEF Sane, Labels!Label
<1>6. NoLess(w, w)
  BY <1>0, <1>2 DEF NoLess, Labels!Label
<1> QED
  BY <1>1, <1>5, <1>6

LEMMA LabelsBegin ==
  ASSUME LabelConstants, Labels!Init PROVE LabelsInv
<1>0. /\ signal \in {"metrics", "logs", "traces", "profiles"} /\ bounds \in Bounds
      /\ world \in Labels!Worlds(signal) /\ first = world
      /\ task = Labels!Start /\ envelope = Labels!Unmeasured /\ misreads = 0 /\ growth = 0
  BY SignalsAre DEF Labels!Init
<1>1. world \in Labels!World /\ Sane(world) /\ NoLess(world, world)
  BY <1>0, WorldsAreSane
<1>2. task \in TaskType /\ Len(task.counts) = 0 /\ Len(task.kept) = 0 /\ task.at = 1 /\ task.odd = 0
      /\ task.pc = "names" /\ task.kept = <<>>
  BY <1>0 DEF Labels!Start, TaskType
<1>3. Labels!NoInput \in InputType /\ Labels!NoInput.samples = {} /\ Labels!NoInput.state = "none"
  BY DEF Labels!NoInput, InputType
<1>4. /\ envelope \in EnvelopeType /\ envelope.data = "unknown" /\ envelope.state = "unavailable"
      /\ envelope.reason = "missing_input" /\ envelope.cut = FALSE
      /\ \A i \in Labels!Inputs : envelope.inputs[i] = Labels!NoInput
  BY <1>0, <1>3 DEF Labels!Unmeasured, EnvelopeType, Labels!Reasons
<1>5. LabelsTyped
  BY <1>0, <1>1, <1>2, <1>4 DEF LabelsTyped, LabelConstants
<1>6. LabelsGrow
  BY <1>0, <1>1 DEF LabelsGrow
<1>7. LabelsTell
  BY <1>3, <1>4 DEF LabelsTell, Tells
<1>8. LabelsRead /\ LabelsCovered
  BY <1>2 DEF LabelsRead, LabelsCovered
<1>9. LabelsForm
  BY <1>0, <1>2, <1>3, <1>4 DEF LabelsForm, WellFormed, Labels!Coherent
<1> QED
  BY <1>5, <1>6, <1>7, <1>8, <1>9 DEF LabelsInv
\* What more of a stack leaves true.
LEMMA MoreIsNoLess ==
  ASSUME LabelConstants, NEW w \in Labels!World, NEW v,
         Sane(w),
         \/ \E l \in Labels!Labels \ {"__name__"}, b \in Labels!Label :
              /\ v = [w EXCEPT !.label[l] = b]
              /\ w.label[l].count <= b.count /\ w.label[l].odd <= b.odd /\ (w.label[l].big => b.big)
              /\ b.odd > 0 => b.count > 0
         \/ w.series < Warn /\ v = [w EXCEPT !.series = @ + 1]
         \/ v = [w EXCEPT !.wide = 1]
         \/ signal = "traces" /\ v = [w EXCEPT !.spans = 1]
  PROVE  v \in Labels!World /\ NoLess(w, v) /\ Sane(v)
<1>0. Warn \in Nat /\ Warn >= 2
  BY DEF LabelConstants
<1>1. /\ w.label \in [Labels!Labels -> Labels!Label]
      /\ w.spans \in 0 .. 1 /\ w.series \in 1 .. Warn /\ w.wide \in 0 .. 1 /\ w.risky \in 0 .. 1
  BY WorldIs
<1>2. CASE \E l \in Labels!Labels \ {"__name__"}, b \in Labels!Label :
             /\ v = [w EXCEPT !.label[l] = b]
             /\ w.label[l].count <= b.count /\ w.label[l].odd <= b.odd /\ (w.label[l].big => b.big)
             /\ b.odd > 0 => b.count > 0
  <2>1. PICK l \in Labels!Labels \ {"__name__"}, b \in Labels!Label :
             /\ v = [w EXCEPT !.label[l] = b]
             /\ w.label[l].count <= b.count /\ w.label[l].odd <= b.odd /\ (w.label[l].big => b.big)
             /\ b.odd > 0 => b.count > 0
    BY <1>2
  <2>2. /\ v.label = [w.label EXCEPT ![l] = b]
        /\ v.spans = w.spans /\ v.series = w.series /\ v.wide = w.wide /\ v.risky = w.risky
        /\ v = [label |-> v.label, spans |-> v.spans, series |-> v.series, wide |-> v.wide, risky |-> v.risky]
    BY <2>1 DEF Labels!World
  <2>3. v \in Labels!World
    BY <1>1, <2>1, <2>2, WorldIs
  <2>4. \A m \in Labels!Labels : v.label[m] = IF m = l THEN b ELSE w.label[m]
    BY <1>1, <2>2
  <2>5. NoLess(w, v)
    BY <1>0, <1>1, <2>1, <2>2, <2>4 DEF NoLess, Labels!Label
  <2> QED
    BY <2>1, <2>2, <2>3, <2>4, <2>5, LabelsAre DEF Sane
<1>3. CASE w.series < Warn /\ v = [w EXCEPT !.series = @ + 1]
  <2>1. /\ v.label = w.label /\ v.spans = w.spans /\ v.series = w.series + 1
        /\ v.wide = w.wide /\ v.risky = w.risky
        /\ v = [label |-> v.label, spans |-> v.spans, series |-> v.series, wide |-> v.wide, risky |-> v.risky]
    BY <1>3 DEF Labels!World
  <2>2. v \in Labels!World
    BY <1>0, <1>1, <1>3, <2>1, WorldIs
  <2> QED
    BY <1>0, <1>1, <2>1, <2>2 DEF Sane, NoLess, Labels!Label
<1>4. CASE v = [w EXCEPT !.wide = 1]
  <2>1. /\ v.label = w.label /\ v.spans = w.spans /\ v.series = w.series /\ v.wide = 1 /\ v.risky = w.risky
        /\ v = [label |-> v.label, spans |-> v.spans, series |-> v.series, wide |-> v.wide, risky |-> v.risky]
    BY <1>4 DEF Labels!World
  <2>2. v \in Labels!World
    BY <1>0, <1>1, <2>1, WorldIs
  <2> QED
    BY <1>0, <1>1, <2>1, <2>2 DEF Sane, NoLess, Labels!Label
<1>5. CASE signal = "traces" /\ v = [w EXCEPT !.spans = 1]
  <2>1. /\ v.label = w.label /\ v.spans = 1 /\ v.series = w.series /\ v.wide = w.wide /\ v.risky = w.risky
        /\ v = [label |-> v.label, spans |-> v.spans, series |-> v.series, wide |-> v.wide, risky |-> v.risky]
    BY <1>5 DEF Labels!World
  <2>2. v \in Labels!World
    BY <1>0, <1>1, <2>1, WorldIs
  <2> QED
    BY <1>0, <1>1, <1>5, <2>1, <2>2 DEF Sane, NoLess, Labels!Label
<1> QED
  BY <1>2, <1>3, <1>4, <1>5

LEMMA LessIsTransitive ==
  ASSUME LabelConstants, NEW u \in Labels!World, NEW v \in Labels!World, NEW w \in Labels!World,
         NoLess(u, v), NoLess(v, w)
  PROVE  NoLess(u, w)
<1>1. \A x \in {u, v, w} :
        /\ x.label \in [Labels!Labels -> Labels!Label]
        /\ x.spans \in 0 .. 1 /\ x.series \in Int /\ x.wide \in 0 .. 1 /\ x.risky \in 0 .. 1
  BY WorldIs DEF LabelConstants
<1> QED
  BY <1>1 DEF NoLess, Labels!Label

LEMMA WorldTyped ==
  ASSUME LabelConstants, NEW w \in Labels!World
  PROVE  /\ w.label \in [Labels!Labels -> Labels!Label]
         /\ w.spans \in 0 .. 1 /\ w.series \in Int /\ w.wide \in 0 .. 1 /\ w.risky \in 0 .. 1
<1>1. Warn \in Nat
  BY DEF LabelConstants
<1> QED
  BY <1>1 DEF Labels!World

\* What has been told stays true.
LEMMA TellsStays ==
  ASSUME LabelConstants, NEW i, NEW x \in InputType, LabelsTyped, world' \in Labels!World,
         NoLess(world, world'), first' = first, signal' = signal, Tells(i, x)
  PROVE  Tells(i, x)'
<1>1. \A w \in {first, world, world'} :
        /\ w.label \in [Labels!Labels -> Labels!Label]
        /\ w.spans \in 0 .. 1 /\ w.series \in Int /\ w.wide \in 0 .. 1 /\ w.risky \in 0 .. 1
  <2>1. first \in Labels!World /\ world \in Labels!World
    BY DEF LabelsTyped
  <2> QED
    BY <2>1, WorldTyped
<1>2. /\ x.samples \subseteq SampleType
      /\ \A s \in x.samples : s.value \in Nat
  BY DEF InputType, SampleType
<1>3. \A l \in Labels!Labels :
        /\ world.label[l].count \in Int /\ world'.label[l].count \in Int
        /\ world.label[l].odd \in Int /\ world'.label[l].odd \in Int
        /\ world.label[l].count <= world'.label[l].count /\ world.label[l].odd <= world'.label[l].odd
        /\ (world.label[l].big => world'.label[l].big)
  BY <1>1 DEF NoLess, Labels!Label
<1>4. world.spans <= world'.spans /\ world.series <= world'.series
      /\ world.wide <= world'.wide /\ world.risky <= world'.risky
  BY DEF NoLess
<1>5. "service_name" \in Labels!Labels
  BY LabelsAre
<1>6. ASSUME i = "missing_identity" PROVE Tells(i, x)'
  BY <1>2, <1>3, <1>5, <1>6 DEF Tells
<1>7. ASSUME i = "distinct_values" PROVE Tells(i, x)'
  <2>1. \A s \in x.samples :
          /\ signal = "logs" => s.population = "none"
          /\ signal = "profiles" => ~ s.exact /\ \E l \in Labels!Labels : s.value <= world.label[l].count
          /\ s.population = "big" =>
              \E l \in Labels!Labels : s.value <= world.label[l].count /\ world.label[l].big
    BY <1>7 DEF Tells
  <2>2. ASSUME NEW s \in x.samples, NEW l \in Labels!Labels, s.value <= world.label[l].count
        PROVE  s.value <= world'.label[l].count /\ (world.label[l].big => world'.label[l].big)
    BY <1>2, <1>3, <2>2
  <2>3. \A s \in x.samples :
          /\ signal = "profiles" => \E l \in Labels!Labels : s.value <= world'.label[l].count
          /\ s.population = "big" =>
              \E l \in Labels!Labels : s.value <= world'.label[l].count /\ world'.label[l].big
    BY <2>1, <2>2
  <2> QED
    BY <1>7, <2>1, <2>3 DEF Tells
<1>8. ASSUME i = "shape_count" PROVE Tells(i, x)'
  <2>1. \A s \in x.samples :
          s.value > 0 => world'.spans > 0 \/ \E l \in Labels!Labels : world'.label[l].odd > 0
    BY <1>1, <1>3, <1>4, <1>8 DEF Tells
  <2> QED
    BY <1>8, <2>1 DEF Tells
<1>9. ASSUME i = "metric_series" PROVE Tells(i, x)'
  BY <1>1, <1>2, <1>4, <1>9 DEF Tells
<1>10. ASSUME i = "labels_per_stream" PROVE Tells(i, x)'
  BY <1>1, <1>2, <1>4, <1>10 DEF Tells
<1>11. ASSUME i = "otlp_churn_labels" PROVE Tells(i, x)'
  BY <1>1, <1>2, <1>4, <1>11 DEF Tells
<1>12. ASSUME i = "drilldown_missing" PROVE Tells(i, x)'
  BY <1>12 DEF Tells
<1> QED
  BY <1>6, <1>7, <1>8, <1>9, <1>10, <1>11, <1>12 DEF Tells

LEMMA GrowKeeps ==
  ASSUME LabelConstants, LabelsInv, Labels!Grow PROVE LabelsInv'
<1>0. /\ LabelsTyped /\ LabelsGrow /\ LabelsTell /\ LabelsRead /\ LabelsCovered /\ LabelsForm
      /\ Warn \in Nat /\ Warn >= 2 /\ MaxCount \in Nat /\ Warn <= MaxCount /\ MaxGrowth \in Nat
  BY DEF LabelsInv, LabelConstants
<1>1. /\ growth < MaxGrowth /\ growth' = growth + 1
      /\ signal' = signal /\ bounds' = bounds /\ first' = first /\ task' = task
      /\ envelope' = envelope /\ misreads' = misreads
      /\ task.pc \notin {"fit", "done"}
  BY DEF Labels!Grow
<1>2. /\ world \in Labels!World /\ Sane(world) /\ NoLess(first, world) /\ first \in Labels!World /\ Sane(first)
      /\ growth \in 0 .. MaxGrowth
  BY <1>0 DEF LabelsTyped, LabelsGrow
<1>3. /\ world.label \in [Labels!Labels -> Labels!Label]
      /\ "pod" \in Labels!Labels \ {"__name__"} /\ "service_name" \in Labels!Labels \ {"__name__"}
  BY <1>2, WorldIs, LabelsAre
<1> DEFINE pod == world.label["pod"]
           service == world.label["service_name"]
<1>4. /\ pod \in Labels!Label /\ service \in Labels!Label
      /\ pod.count \in 0 .. MaxCount /\ pod.odd \in 0 .. 1 /\ pod.big \in BOOLEAN
      /\ service.count \in 0 .. MaxCount /\ service.odd \in 0 .. 1 /\ service.big \in BOOLEAN
      /\ pod.odd > 0 => pod.count > 0
      /\ service.odd > 0 => service.count > 0
  BY <1>2, <1>3 DEF Labels!Label, Sane
<1>5. world' \in Labels!World /\ NoLess(world, world') /\ Sane(world')
  <2>1. \/ pod.count < MaxCount /\ world' = [world EXCEPT !.label["pod"].count = @ + 1]
        \/ service.count = 0 /\ world' = [world EXCEPT !.label["service_name"].count = 1]
        \/ pod.count > 0 /\ world' = [world EXCEPT !.label["pod"].odd = 1]
        \/ pod.count > 0 /\ world' = [world EXCEPT !.label["pod"].big = TRUE]
        \/ world.series < Warn /\ world' = [world EXCEPT !.series = @ + 1]
        \/ world' = [world EXCEPT !.wide = 1]
        \/ signal = "traces" /\ world' = [world EXCEPT !.spans = 1]
    BY DEF Labels!Grow
  <2>2. CASE pod.count < MaxCount /\ world' = [world EXCEPT !.label["pod"].count = @ + 1]
    <3> DEFINE b == [pod EXCEPT !.count = @ + 1]
    <3>1. b \in Labels!Label /\ b.count = pod.count + 1 /\ b.odd = pod.odd /\ b.big = pod.big
      BY <1>0, <1>4, <2>2 DEF Labels!Label
    <3>2. world' = [world EXCEPT !.label["pod"] = b]
      BY <2>2
    <3> HIDE DEF b
    <3> QED
      BY <1>0, <1>2, <1>3, <1>4, <3>1, <3>2, MoreIsNoLess
  <2>3. CASE service.count = 0 /\ world' = [world EXCEPT !.label["service_name"].count = 1]
    <3> DEFINE b == [service EXCEPT !.count = 1]
    <3>1. b \in Labels!Label /\ b.count = 1 /\ b.odd = service.odd /\ b.big = service.big
      BY <1>0, <1>4, <2>3 DEF Labels!Label
    <3>2. world' = [world EXCEPT !.label["service_name"] = b]
      BY <2>3
    <3> HIDE DEF b
    <3> QED
      BY <1>0, <1>2, <1>3, <1>4, <2>3, <3>1, <3>2, MoreIsNoLess
  <2>4. CASE pod.count > 0 /\ world' = [world EXCEPT !.label["pod"].odd = 1]
    <3> DEFINE b == [pod EXCEPT !.odd = 1]
    <3>1. b \in Labels!Label /\ b.count = pod.count /\ b.odd = 1 /\ b.big = pod.big
      BY <1>0, <1>4, <2>4 DEF Labels!Label
    <3>2. world' = [world EXCEPT !.label["pod"] = b]
      BY <2>4
    <3> HIDE DEF b
    <3> QED
      BY <1>0, <1>2, <1>3, <1>4, <2>4, <3>1, <3>2, MoreIsNoLess
  <2>5. CASE pod.count > 0 /\ world' = [world EXCEPT !.label["pod"].big = TRUE]
    <3> DEFINE b == [pod EXCEPT !.big = TRUE]
    <3>1. b \in Labels!Label /\ b.count = pod.count /\ b.odd = pod.odd /\ b.big = TRUE
      BY <1>0, <1>4, <2>5 DEF Labels!Label
    <3>2. world' = [world EXCEPT !.label["pod"] = b]
      BY <2>5
    <3>3. /\ pod.count <= b.count /\ pod.odd <= b.odd /\ (pod.big => b.big)
          /\ b.odd > 0 => b.count > 0
      BY <1>4, <3>1
    <3> HIDE DEF b
    <3> QED
      BY <1>2, <1>3, <3>1, <3>2, <3>3, MoreIsNoLess
  <2>6. CASE \/ world.series < Warn /\ world' = [world EXCEPT !.series = @ + 1]
             \/ world' = [world EXCEPT !.wide = 1]
             \/ signal = "traces" /\ world' = [world EXCEPT !.spans = 1]
    BY <1>0, <1>2, <2>6, MoreIsNoLess
  <2> QED
    BY <2>1, <2>2, <2>3, <2>4, <2>5, <2>6
<1>6. LabelsTyped'
  <2>1. growth' \in 0 .. MaxGrowth
    BY <1>0, <1>1, <1>2
  <2> QED
    BY <1>0, <1>1, <1>5, <2>1 DEF LabelsTyped
<1>7. LabelsGrow'
  <2>1. NoLess(first, world')
    BY <1>0, <1>2, <1>5, LessIsTransitive
  <2>2. Sane(first)' /\ Sane(world)'
    BY <1>1, <1>2, <1>5 DEF Sane
  <2> QED
    BY <1>1, <2>1, <2>2 DEF LabelsGrow, NoLess
<1>8. LabelsTell'
  <2>1. \A i \in Labels!Inputs : envelope.inputs[i] \in InputType
    BY <1>0 DEF LabelsTyped, EnvelopeType
  <2>2. ASSUME NEW i \in Labels!Inputs PROVE Tells(i, envelope.inputs[i])'
    <3> DEFINE x == envelope.inputs[i]
    <3>1. x \in InputType /\ Tells(i, x) /\ x' = x
      BY <1>0, <1>1, <2>1 DEF LabelsTell
    <3> HIDE DEF x
    <3>2. Tells(i, x)'
      BY <1>0, <1>1, <1>5, <3>1, TellsStays DEF Tells
    <3> QED
      BY <3>2 DEF x
  <2> QED
    BY <2>2 DEF LabelsTell
<1>9. LabelsRead'
  <2>1. \A l \in Labels!Labels : world.label[l].odd > 0 => world'.label[l].odd > 0
    <3>1. world'.label \in [Labels!Labels -> Labels!Label]
      BY <1>5, WorldIs
    <3> QED
      BY <1>3, <1>5, <3>1 DEF NoLess, Labels!Label
  <2> QED
    BY <1>0, <1>1, <2>1 DEF LabelsRead, Covers, Values, Labels!There
<1>10. LabelsCovered' /\ LabelsForm'
  BY <1>0, <1>1 DEF LabelsCovered, LabelsForm, Covers, Values, WellFormed, Labels!There, Labels!Coherent
<1> QED
  BY <1>6, <1>7, <1>8, <1>9, <1>10 DEF LabelsInv

LEMMA SampleIs ==
  ASSUME NEW value \in Nat, NEW exact \in BOOLEAN, NEW population \in {"none", "small", "big"}
  PROVE  /\ Labels!Sample(value, exact, population) \in SampleType
         /\ Labels!Sample(value, exact, population).value = value
         /\ Labels!Sample(value, exact, population).exact = exact
         /\ Labels!Sample(value, exact, population).population = population
BY DEF Labels!Sample, SampleType

LEMMA MissingIs ==
  /\ Labels!Missing \in InputType /\ Labels!Missing.state = "unavailable" /\ Labels!Missing.samples = {}
  /\ Labels!Missing.names = FALSE /\ Labels!Missing.overflow = FALSE
  /\ WellFormed(Labels!Missing)
  /\ Labels!NoInput \in InputType /\ Labels!NoInput.state = "none" /\ Labels!NoInput.samples = {}
BY DEF Labels!Missing, Labels!Input, Labels!NoInput, InputType, Labels!Reasons, WellFormed, Labels!Coherent

\* A read that raises is late, or not, and changes nothing else.
LEMMA RaisesIs ==
  ASSUME LabelConstants, LabelsTyped, NEW t, NEW reason \in Labels!Reasons, Labels!Raises(t, reason)
  PROVE  /\ misreads' \in 0 .. MaxMisreads
         /\ t \in TaskType /\ t.pc = task.pc /\ t.kept = task.kept /\ t.counts = task.counts
         /\ t.at = task.at /\ t.truncated = task.truncated /\ t.successful = task.successful
         /\ t.odd = task.odd /\ t.partial = task.partial /\ t.overflow = task.overflow
         /\ t.failure = task.failure
<1>1. misreads' \in 0 .. MaxMisreads
  BY DEF Labels!Raises, LabelsTyped, LabelConstants
<1>2. t = task \/ \E late \in BOOLEAN : t = [task EXCEPT !.late = late]
  BY DEF Labels!Raises
<1>3. task \in TaskType
  BY DEF LabelsTyped
<1> QED
  BY <1>1, <1>2, <1>3 DEF TaskType

LEMMA WarnedIs ==
  ASSUME LabelConstants, LabelsTyped, NEW warned \in BOOLEAN, Labels!Warned(warned)
  PROVE  misreads' \in 0 .. MaxMisreads
BY DEF Labels!Warned, LabelsTyped, LabelConstants

\* What a step of the measuring leaves alone.
LEMMA BecomeKeeps ==
  ASSUME LabelConstants, LabelsInv, NEW t \in TaskType, NEW p \in EnvelopeType, Labels!Become(t, p),
         misreads' \in 0 .. MaxMisreads,
         Len(t.counts) = Len(t.kept), t.at <= Len(t.kept) + 1, t.odd < t.at,
         t.pc \in {"streams", "config"} => signal = "logs",
         t.pc = "spans" => signal = "traces"
  PROVE  /\ LabelsTyped' /\ LabelsGrow'
         /\ task' = t /\ envelope' = p
         /\ signal' = signal /\ bounds' = bounds /\ world' = world /\ first' = first
<1>1. /\ task' = t /\ envelope' = p
      /\ signal' = signal /\ bounds' = bounds /\ world' = world /\ first' = first /\ growth' = growth
  BY DEF Labels!Become
<1>2. LabelsTyped'
  BY <1>1 DEF LabelsTyped, LabelsInv
<1>3. LabelsGrow'
  BY <1>1 DEF LabelsGrow, LabelsInv, NoLess, Sane
<1> QED
  BY <1>1, <1>2, <1>3

\* Of the inputs, only those that change have to be looked at.
LEMMA InputsKeep ==
  ASSUME LabelsInv, world' = world, first' = first, signal' = signal,
         \A i \in Labels!Inputs :
           \/ envelope'.inputs[i] = envelope.inputs[i]
           \/ Tells(i, envelope'.inputs[i]) /\ WellFormed(envelope'.inputs[i])
  PROVE  /\ LabelsTell'
         /\ \A i \in Labels!Inputs : WellFormed(envelope'.inputs[i])
<1>1. ASSUME NEW i \in Labels!Inputs
      PROVE  Tells(i, envelope'.inputs[i]) /\ WellFormed(envelope'.inputs[i])
  BY DEF LabelsInv, LabelsTell, LabelsForm
<1>2. ASSUME NEW i \in Labels!Inputs PROVE Tells(i, envelope.inputs[i])'
  <2>1. Tells(i, envelope'.inputs[i])
    BY <1>1
  <2> QED
    BY <2>1 DEF Tells
<1> QED
  BY <1>1, <1>2 DEF LabelsTell

\* Before the measuring is done the envelope is not empty, but where there was nothing to measure.
LEMMA FormKeeps ==
  ASSUME LabelsInv, task.pc \notin {"names", "done"}, task'.pc # "names",
         envelope.data # "empty", envelope'.data # "empty", envelope'.state # "unavailable",
         Labels!Coherent(envelope'), envelope'.cut => envelope'.state = "partial",
         \A i \in Labels!Inputs : WellFormed(envelope'.inputs[i])
  PROVE  LabelsForm'
BY DEF LabelsForm, WellFormed, Labels!Coherent

\* Further on in the reads.
LEMMA FurtherIs ==
  ASSUME signal \in {"metrics", "logs", "traces", "profiles"}
  PROVE  /\ Labels!Further[signal] \in {"fit", "streams", "spans"}
         /\ Labels!Further[signal] = "streams" => signal = "logs"
         /\ Labels!Further[signal] = "spans" => signal = "traces"
         /\ signal = "metrics" => Labels!Further[signal] = "fit"
BY DEF Labels!Further

LEMMA NamesFailKeeps ==
  ASSUME LabelConstants, LabelsInv, Labels!NamesFail PROVE LabelsInv'
<1>0. LabelsTyped /\ LabelsForm /\ LabelsTell /\ task.pc = "names"
  BY DEF LabelsInv, Labels!NamesFail
<1>1. PICK t \in {task, [task EXCEPT !.late = TRUE]}, reason \in Labels!Reasons :
        /\ Labels!Raises(t, reason)
        /\ Labels!Become([t EXCEPT !.pc = "done"],
              [envelope EXCEPT !.state = Labels!StateOf(reason),
                               !.reason = IF reason = "overflow" THEN "truncated" ELSE reason])
  BY DEF Labels!NamesFail
<1> DEFINE u == [t EXCEPT !.pc = "done"]
           p == [envelope EXCEPT !.state = Labels!StateOf(reason),
                                 !.reason = IF reason = "overflow" THEN "truncated" ELSE reason]
<1>2. /\ misreads' \in 0 .. MaxMisreads /\ t \in TaskType /\ t.kept = task.kept /\ t.counts = task.counts
      /\ t.at = task.at /\ t.odd = task.odd
  BY <1>0, <1>1, RaisesIs
<1>3. u \in TaskType /\ u.pc = "done" /\ u.kept = task.kept /\ u.counts = task.counts
      /\ u.at = task.at /\ u.odd = task.odd
  BY <1>2 DEF TaskType
<1>4. /\ p \in EnvelopeType /\ p.inputs = envelope.inputs /\ p.data = envelope.data /\ p.cut = envelope.cut
      /\ p.state \in {"partial", "unavailable"}
      /\ p.reason # "none"
      /\ p.state = "unavailable" => p.reason \in {"missing_input", "deadline"}
  BY <1>0, <1>1 DEF LabelsTyped, EnvelopeType, Labels!StateOf, Labels!Cut, Labels!Reasons
<1>5. Labels!Become(u, p)
  BY <1>1
<1> HIDE DEF u, p
<1>6. Len(u.counts) = Len(u.kept) /\ u.at <= Len(u.kept) + 1 /\ u.odd < u.at
  BY <1>0, <1>3 DEF LabelsTyped
<1>7. /\ LabelsTyped' /\ LabelsGrow' /\ task' = u /\ envelope' = p
      /\ signal' = signal /\ world' = world /\ first' = first
  BY <1>2, <1>3, <1>4, <1>5, <1>6, BecomeKeeps
<1>8. envelope = Labels!Unmeasured /\ envelope.data = "unknown" /\ envelope.cut = FALSE
      /\ \A i \in Labels!Inputs : envelope.inputs[i] = Labels!NoInput
  BY <1>0 DEF LabelsForm, Labels!Unmeasured
<1>9. LabelsTell' /\ \A i \in Labels!Inputs : WellFormed(envelope'.inputs[i])
  BY <1>4, <1>7, InputsKeep
<1>10. LabelsRead' /\ LabelsCovered'
  <2>1. "distinct_values" \in Labels!Inputs
    BY DEF Labels!Inputs
  <2>2. envelope'.inputs["distinct_values"].state # "complete"
    BY <1>4, <1>7, <1>8, <2>1, MissingIs
  <2> QED
    BY <1>3, <1>7, <2>2 DEF LabelsRead, LabelsCovered, Values
<1>11. LabelsForm'
  BY <1>3, <1>4, <1>7, <1>8, <1>9 DEF LabelsForm, Labels!Coherent, WellFormed
<1> QED
  BY <1>7, <1>9, <1>10, <1>11 DEF LabelsInv

\* A sequence of one label, if it is there.
Lists(a, l, S) ==
  /\ a \in Seq(Labels!Labels) /\ Len(a) \in 0 .. 1
  /\ l \in S => Len(a) = 1 /\ a[1] = l
  /\ \A j \in 1 .. Len(a) : a[j] \in S

LEMMA ListedIs ==
  ASSUME NEW i \in 1 .. 3
  PROVE  Lists(Labels!Listed(i), Labels!Order[i], Labels!There(world))
<1>1. Labels!There(world) \subseteq Labels!Labels
  BY DEF Labels!There
<1> DEFINE l == Labels!Order[i]
<1> HIDE DEF l
<1>2. CASE l \in Labels!There(world)
  <2>1. Labels!Listed(i) = <<l>>
    BY <1>2 DEF Labels!Listed, l
  <2> QED
    BY <1>1, <1>2, <2>1 DEF l, Lists
<1>3. CASE l \notin Labels!There(world)
  <2>1. Labels!Listed(i) = <<>>
    BY <1>3 DEF Labels!Listed, l
  <2> QED
    BY <1>3, <2>1 DEF l, Lists
<1> QED
  BY <1>2, <1>3

\* Of two sequences of labels.
LEMMA JoinIs ==
  ASSUME NEW a \in Seq(Labels!Labels), NEW b \in Seq(Labels!Labels)
  PROVE  /\ a \o b \in Seq(Labels!Labels) /\ Len(a \o b) = Len(a) + Len(b)
         /\ \A i \in 1 .. Len(a) : i \in 1 .. Len(a \o b) /\ (a \o b)[i] = a[i]
         /\ \A i \in 1 .. Len(b) : Len(a) + i \in 1 .. Len(a \o b) /\ (a \o b)[Len(a) + i] = b[i]
         /\ \A i \in 1 .. Len(a \o b) :
              \/ i \in 1 .. Len(a) /\ (a \o b)[i] = a[i]
              \/ i - Len(a) \in 1 .. Len(b) /\ (a \o b)[i] = b[i - Len(a)]
OBVIOUS

\* All of the labels of a set, and no others.
NamesOf(e, S) ==
  /\ e \in Seq(Labels!Labels) /\ Len(e) <= 3
  /\ \A l \in S : \E i \in 1 .. Len(e) : e[i] = l
  /\ \A i \in 1 .. Len(e) : e[i] \in S

LEMMA JoinsAre ==
  ASSUME NEW S, NEW x, NEW y, NEW z, S \subseteq {x, y, z},
         NEW a, NEW b, NEW c, Lists(a, x, S), Lists(b, y, S), Lists(c, z, S)
  PROVE  NamesOf(a \o b \o c, S)
<1>10. /\ a \in Seq(Labels!Labels) /\ Len(a) \in 0 .. 1
       /\ b \in Seq(Labels!Labels) /\ Len(b) \in 0 .. 1
       /\ c \in Seq(Labels!Labels) /\ Len(c) \in 0 .. 1
       /\ x \in S => Len(a) = 1 /\ a[1] = x
       /\ y \in S => Len(b) = 1 /\ b[1] = y
       /\ z \in S => Len(c) = 1 /\ c[1] = z
       /\ \A i \in 1 .. Len(a) : a[i] \in S
       /\ \A i \in 1 .. Len(b) : b[i] \in S
       /\ \A i \in 1 .. Len(c) : c[i] \in S
  BY DEF Lists
<1> DEFINE d == a \o b
           e == d \o c
<1>1. /\ d \in Seq(Labels!Labels) /\ Len(d) = Len(a) + Len(b)
      /\ \A i \in 1 .. Len(a) : i \in 1 .. Len(d) /\ d[i] = a[i]
      /\ \A i \in 1 .. Len(b) : Len(a) + i \in 1 .. Len(d) /\ d[Len(a) + i] = b[i]
      /\ \A i \in 1 .. Len(d) :
           \/ i \in 1 .. Len(a) /\ d[i] = a[i]
           \/ i - Len(a) \in 1 .. Len(b) /\ d[i] = b[i - Len(a)]
  BY <1>10, JoinIs
<1> HIDE DEF d
<1>2. /\ e \in Seq(Labels!Labels) /\ Len(e) = Len(d) + Len(c)
      /\ \A i \in 1 .. Len(d) : i \in 1 .. Len(e) /\ e[i] = d[i]
      /\ \A i \in 1 .. Len(c) : Len(d) + i \in 1 .. Len(e) /\ e[Len(d) + i] = c[i]
      /\ \A i \in 1 .. Len(e) :
           \/ i \in 1 .. Len(d) /\ e[i] = d[i]
           \/ i - Len(d) \in 1 .. Len(c) /\ e[i] = c[i - Len(d)]
  BY <1>10, <1>1, JoinIs
<1> HIDE DEF e
<1>0. /\ Len(a) \in 0 .. 1 /\ Len(b) \in 0 .. 1 /\ Len(c) \in 0 .. 1
      /\ Len(d) = Len(a) + Len(b) /\ Len(e) = Len(a) + Len(b) + Len(c)
  BY <1>10, <1>1, <1>2
<1>3. ASSUME x \in S PROVE \E i \in 1 .. Len(e) : e[i] = x
  <2>1. 1 \in 1 .. Len(e) /\ e[1] = x
    BY <1>10, <1>1, <1>2, <1>3
  <2> QED
    BY <2>1
<1>4. ASSUME y \in S PROVE \E i \in 1 .. Len(e) : e[i] = y
  <2>1. Len(a) + 1 \in 1 .. Len(e) /\ e[Len(a) + 1] = y
    <3>1. 1 \in 1 .. Len(b) /\ b[1] = y
      BY <1>10, <1>4
    <3>2. Len(a) + 1 \in 1 .. Len(d) /\ d[Len(a) + 1] = y
      BY <1>10, <1>1, <3>1
    <3> QED
      BY <1>10, <1>2, <3>2
  <2> QED
    BY <2>1
<1>5. ASSUME z \in S PROVE \E i \in 1 .. Len(e) : e[i] = z
  <2>1. Len(d) + 1 \in 1 .. Len(e) /\ e[Len(d) + 1] = z
    <3>1. 1 \in 1 .. Len(c) /\ c[1] = z
      BY <1>10, <1>5
    <3> QED
      BY <1>10, <1>2, <3>1
  <2> QED
    BY <2>1
<1>6. \A i \in 1 .. Len(d) : d[i] \in S
  BY <1>10, <1>1
<1>7. \A i \in 1 .. Len(e) : e[i] \in S
  BY <1>10, <1>2, <1>6
<1>8. Len(e) <= 3
  BY <1>10, <1>0
<1>9. \A l \in S : \E i \in 1 .. Len(e) : e[i] = l
  BY <1>3, <1>4, <1>5
<1>12. NamesOf(e, S)
  BY <1>2, <1>7, <1>8, <1>9 DEF NamesOf
<1> QED
  BY <1>12 DEF d, e

\* The names are those of the labels that there are.
LEMMA LabelNamesAre ==
  NamesOf(Labels!Listed(1) \o Labels!Listed(2) \o Labels!Listed(3), Labels!There(world))
<1>1. Labels!There(world) \subseteq {Labels!Order[1], Labels!Order[2], Labels!Order[3]}
  BY LabelsAre DEF Labels!There, Labels!Order
<1>2. /\ Lists(Labels!Listed(1), Labels!Order[1], Labels!There(world))
      /\ Lists(Labels!Listed(2), Labels!Order[2], Labels!There(world))
      /\ Lists(Labels!Listed(3), Labels!Order[3], Labels!There(world))
  BY ListedIs
<1> QED
  BY <1>1, <1>2, JoinsAre, Zenon

\* What of the names is kept.
LEMMA KeptIs ==
  ASSUME NEW names \in Seq(Labels!Labels), NEW room \in Nat
  PROVE  LET kept == SubSeq(names, 1, Labels!Lesser(Len(names), room)) IN
         /\ kept \in Seq(Labels!Labels) /\ Len(kept) <= Len(names)
         /\ Len(names) <= room => kept = names
         /\ \A i \in 1 .. Len(kept) : kept[i] = names[i]
         /\ DOMAIN kept = 1 .. Len(kept)
<1> DEFINE n == Labels!Lesser(Len(names), room)
           kept == SubSeq(names, 1, n)
<1>1. n \in 0 .. Len(names) /\ (Len(names) <= room => n = Len(names))
  BY DEF Labels!Lesser
<1> HIDE DEF n
<1>2. \A i \in 1 .. n : names[i] \in Labels!Labels
  BY <1>1
<1>3. /\ kept \in Seq(Labels!Labels) /\ Len(kept) = (IF 1 <= n THEN n - 1 + 1 ELSE 0)
      /\ \A i \in 1 .. n - 1 + 1 : kept[i] = names[1 + i - 1]
  BY <1>1, <1>2, SubSeqProperties
<1>4. n = Len(names) => kept = names
  BY SubSeqFull
<1> HIDE DEF kept
<1>5. /\ kept \in Seq(Labels!Labels) /\ Len(kept) = n
      /\ \A i \in 1 .. n : kept[i] = names[i]
  BY <1>1, <1>3
<1>6. /\ kept \in Seq(Labels!Labels) /\ Len(kept) <= Len(names)
      /\ Len(names) <= room => kept = names
      /\ \A i \in 1 .. Len(kept) : kept[i] = names[i]
      /\ DOMAIN kept = 1 .. Len(kept)
  BY <1>1, <1>4, <1>5
<1> QED
  BY <1>6 DEF kept, n

LEMMA ReadNamesKeeps ==
  ASSUME LabelConstants, LabelsInv, Labels!ReadNames PROVE LabelsInv'
<1>0. /\ LabelsTyped /\ LabelsForm /\ LabelsTell /\ LabelsGrow /\ task.pc = "names"
      /\ signal \in {"metrics", "logs", "traces", "profiles"}
  BY DEF LabelsInv, Labels!ReadNames, LabelsTyped
<1> DEFINE names == Labels!Listed(1) \o Labels!Listed(2) \o Labels!Listed(3)
           room == Labels!Lesser(bounds.names, bounds.rows)
           kept == SubSeq(names, 1, Labels!Lesser(Len(names), room))
           cut(warned) == signal # "metrics" \/ warned \/ Len(names) >= bounds.names \/ Len(names) > room
           sample == Labels!Sample(IF \E i \in DOMAIN kept : kept[i] = "service_name" THEN 0 ELSE 1, TRUE, "none")
           t(truncated) ==
             [task EXCEPT !.pc = IF names = <<>> THEN Labels!Further[signal] ELSE "keys",
                          !.kept = kept, !.truncated = truncated, !.partial = truncated,
                          !.counts = [i \in DOMAIN kept |-> world.label[kept[i]].count]]
           ins(truncated) ==
             [envelope.inputs EXCEPT
                !["missing_identity"] = Labels!Input(Labels!Whole(truncated), Labels!Why(truncated), truncated, FALSE, {sample}),
                !["distinct_values"] = IF signal = "traces" THEN Labels!NoInput
                                       ELSE Labels!Input(Labels!Whole(truncated), Labels!Why(truncated), truncated, FALSE, {}),
                !["metric_series"] = IF signal = "metrics" THEN Labels!Missing ELSE Labels!NoInput,
                !["shape_count"] = Labels!Missing]
           p(truncated) ==
             [envelope EXCEPT
                !.data = IF names # <<>> THEN "present" ELSE IF truncated THEN "unknown" ELSE "empty",
                !.state = Labels!Whole(truncated), !.reason = Labels!Why(truncated),
                !.cut = Len(names) > Len(kept),
                !.inputs = IF names = <<>> THEN @ ELSE
                  [envelope.inputs EXCEPT
                     !["missing_identity"] = Labels!Input(Labels!Whole(truncated), Labels!Why(truncated), truncated, FALSE, {sample}),
                     !["distinct_values"] = IF signal = "traces" THEN Labels!NoInput
                                            ELSE Labels!Input(Labels!Whole(truncated), Labels!Why(truncated), truncated, FALSE, {}),
                     !["metric_series"] = IF signal = "metrics" THEN Labels!Missing ELSE Labels!NoInput,
                     !["shape_count"] = Labels!Missing]]
<1>1. PICK warned \in BOOLEAN : Labels!Warned(warned) /\ Labels!Become(t(cut(warned)), p(cut(warned)))
  BY DEF Labels!ReadNames
<1>2. misreads' \in 0 .. MaxMisreads
  BY <1>0, <1>1, WarnedIs
<1>3. /\ names \in Seq(Labels!Labels) /\ Len(names) <= 3
      /\ \A l \in Labels!There(world) : \E i \in 1 .. Len(names) : names[i] = l
      /\ \A i \in 1 .. Len(names) : names[i] \in Labels!There(world)
  BY LabelNamesAre DEF NamesOf
<1> HIDE DEF names
<1>4. /\ kept \in Seq(Labels!Labels) /\ Len(kept) <= Len(names)
      /\ Len(names) <= room => kept = names
      /\ \A i \in 1 .. Len(kept) : kept[i] = names[i]
      /\ DOMAIN kept = 1 .. Len(kept)
  <2>1. bounds.names \in Nat /\ bounds.rows \in Nat
    BY <1>0 DEF LabelConstants, LabelsTyped
  <2>2. room \in Nat
    BY <2>1 DEF Labels!Lesser
  <2> HIDE DEF room
  <2> QED
    BY <1>3, <2>2, KeptIs
<1> HIDE DEF kept, room
<1>5. PICK truncated \in BOOLEAN :
        /\ ~ truncated => signal = "metrics" /\ kept = names
        /\ Len(names) > Len(kept) => truncated
        /\ Labels!Become(t(truncated), p(truncated))
  <2>1. cut(warned) \in BOOLEAN
    OBVIOUS
  <2>2. /\ ~ cut(warned) => signal = "metrics" /\ kept = names
        /\ Len(names) > Len(kept) => cut(warned)
    <3>1. room \in Nat
      <4>1. bounds.names \in Nat /\ bounds.rows \in Nat
        BY <1>0 DEF LabelConstants, LabelsTyped
      <4> QED
        BY <4>1 DEF Labels!Lesser, room
    <3> QED
      BY <1>3, <1>4, <3>1
  <2> HIDE DEF cut, t, p
  <2> QED
    BY <1>1, <2>1, <2>2
<1> HIDE DEF cut
<1>7. /\ envelope = Labels!Unmeasured /\ task = Labels!Start
      /\ \A i \in Labels!Inputs : envelope.inputs[i] = Labels!NoInput
  BY <1>0 DEF LabelsForm, Labels!Unmeasured
<1>8. world.label \in [Labels!Labels -> Labels!Label] /\ first.label \in [Labels!Labels -> Labels!Label]
  BY <1>0, WorldIs DEF LabelsTyped
<1> DEFINE numbers == [i \in DOMAIN kept |-> world.label[kept[i]].count]
<1>9. numbers \in Seq(Nat) /\ Len(numbers) = Len(kept)
  <2>1. \A i \in 1 .. Len(kept) : world.label[kept[i]].count \in Nat
    BY <1>4, <1>8 DEF Labels!Label
  <2>2. numbers \in [1 .. Len(kept) -> Nat]
    BY <1>4, <2>1
  <2>3. Len(kept) \in Nat
    BY <1>4
  <2> QED
    BY <2>2, <2>3
<1>10. Labels!Further[signal] \in {"fit", "streams", "spans"}
       /\ (signal = "metrics" => Labels!Further[signal] = "fit")
       /\ (Labels!Further[signal] = "streams" => signal = "logs")
       /\ (Labels!Further[signal] = "spans" => signal = "traces")
  BY <1>0, FurtherIs
<1>11. /\ t(truncated) \in TaskType
       /\ t(truncated).pc = IF names = <<>> THEN Labels!Further[signal] ELSE "keys"
       /\ t(truncated).kept = kept /\ t(truncated).counts = numbers
       /\ t(truncated).at = 1 /\ t(truncated).odd = 0
       /\ t(truncated).truncated = truncated /\ t(truncated).partial = truncated
       /\ t(truncated).overflow = FALSE /\ t(truncated).failure = "none"
  <2> HIDE DEF numbers
  <2>1. t(truncated) = [task EXCEPT !.pc = IF names = <<>> THEN Labels!Further[signal] ELSE "keys",
                          !.kept = kept, !.truncated = truncated, !.partial = truncated,
                          !.counts = numbers]
    BY DEF numbers
  <2>2. task \in TaskType /\ task.at = 1 /\ task.odd = 0 /\ task.overflow = FALSE /\ task.failure = "none"
    BY <1>0, <1>7 DEF LabelsTyped, Labels!Start
  <2> DEFINE pc == IF names = <<>> THEN Labels!Further[signal] ELSE "keys"
  <2>3. pc \in {"fit", "streams", "spans", "keys"}
    BY <1>10
  <2> HIDE DEF pc
  <2>4. t(truncated) = [task EXCEPT !.pc = pc, !.kept = kept, !.truncated = truncated, !.partial = truncated,
                                    !.counts = numbers]
    BY <2>1 DEF pc
  <2> HIDE DEF t
  <2>5. t(truncated).pc = pc
    BY <2>2, <2>4 DEF TaskType
  <2> QED
    BY <1>4, <1>9, <2>2, <2>3, <2>4, <2>5 DEF TaskType, pc
<1> DEFINE u == t(truncated)
<1>12. sample \in SampleType /\ sample.value = IF \E i \in 1 .. Len(kept) : kept[i] = "service_name" THEN 0 ELSE 1
  <2> DEFINE v == IF \E i \in DOMAIN kept : kept[i] = "service_name" THEN 0 ELSE 1
  <2>1. v \in Nat /\ v = IF \E i \in 1 .. Len(kept) : kept[i] = "service_name" THEN 0 ELSE 1
    BY <1>4
  <2> HIDE DEF v
  <2>2. Labels!Sample(v, TRUE, "none") \in SampleType /\ Labels!Sample(v, TRUE, "none").value = v
    BY <2>1, SampleIs
  <2> QED
    BY <2>1, <2>2 DEF v
<1> HIDE DEF sample, numbers
<1> DEFINE stateIs == Labels!Whole(truncated)
           whyIs == Labels!Why(truncated)
           named == Labels!Input(stateIs, whyIs, truncated, FALSE, {sample})
           told == Labels!Input(stateIs, whyIs, truncated, FALSE, {})
<1>13. /\ stateIs = IF truncated THEN "partial" ELSE "complete"
       /\ whyIs = IF truncated THEN "truncated" ELSE "none"
       /\ stateIs \in {"partial", "complete"} /\ whyIs \in Labels!Reasons \cup {"none", "truncated"}
  BY <1>5 DEF Labels!Whole, Labels!Why
<1> HIDE DEF stateIs, whyIs
<1>14. /\ named \in InputType /\ named.state = stateIs /\ named.reason = whyIs /\ named.names = truncated
       /\ named.overflow = FALSE /\ named.samples = {sample}
       /\ told \in InputType /\ told.state = stateIs /\ told.reason = whyIs /\ told.names = truncated
       /\ told.overflow = FALSE /\ told.samples = {}
  <2>1. {sample} \in SUBSET SampleType /\ {} \in SUBSET SampleType
    BY <1>12
  <2>2. /\ named \in InputType /\ named.state = stateIs /\ named.reason = whyIs /\ named.names = truncated
        /\ named.overflow = FALSE /\ named.samples = {sample}
    BY <1>13, <2>1 DEF InputType, Labels!Input
  <2>3. /\ told \in InputType /\ told.state = stateIs /\ told.reason = whyIs /\ told.names = truncated
        /\ told.overflow = FALSE /\ told.samples = {}
    BY <1>13, <2>1 DEF InputType, Labels!Input
  <2> QED
    BY <2>2, <2>3
<1>15. Labels!Missing \in InputType /\ Labels!NoInput \in InputType
  BY MissingIs
<1>16. envelope.inputs \in [Labels!Inputs -> InputType]
  BY <1>0 DEF LabelsTyped, EnvelopeType
<1>17. {"missing_identity", "distinct_values", "metric_series", "shape_count"} \subseteq Labels!Inputs
  BY DEF Labels!Inputs
<1> HIDE DEF named, told
<1>18. ins(truncated) = [envelope.inputs EXCEPT
                !["missing_identity"] = named,
                !["distinct_values"] = IF signal = "traces" THEN Labels!NoInput ELSE told,
                !["metric_series"] = IF signal = "metrics" THEN Labels!Missing ELSE Labels!NoInput,
                !["shape_count"] = Labels!Missing]
  BY DEF named, told, stateIs, whyIs
<1> HIDE DEF ins
<1>19. /\ ins(truncated) \in [Labels!Inputs -> InputType]
       /\ ins(truncated)["missing_identity"] = named
       /\ ins(truncated)["distinct_values"] = IF signal = "traces" THEN Labels!NoInput ELSE told
       /\ ins(truncated)["metric_series"] = IF signal = "metrics" THEN Labels!Missing ELSE Labels!NoInput
       /\ ins(truncated)["shape_count"] = Labels!Missing
       /\ \A i \in Labels!Inputs \ {"missing_identity", "distinct_values", "metric_series", "shape_count"} :
            ins(truncated)[i] = Labels!NoInput
  BY <1>7, <1>14, <1>15, <1>16, <1>17, <1>18
<1> DEFINE q == p(truncated)
<1>20. /\ q \in EnvelopeType
       /\ q.data = IF names # <<>> THEN "present" ELSE IF truncated THEN "unknown" ELSE "empty"
       /\ q.state = stateIs /\ q.reason = whyIs
       /\ q.cut = (Len(names) > Len(kept))
       /\ q.inputs = IF names = <<>> THEN envelope.inputs ELSE ins(truncated)
  <2>1. q = [envelope EXCEPT
                !.data = IF names # <<>> THEN "present" ELSE IF truncated THEN "unknown" ELSE "empty",
                !.state = stateIs, !.reason = whyIs,
                !.cut = Len(names) > Len(kept),
                !.inputs = IF names = <<>> THEN @ ELSE ins(truncated)]
    BY DEF stateIs, whyIs, ins
  <2>2. envelope \in EnvelopeType /\ (Len(names) > Len(kept)) \in BOOLEAN
    BY <1>0 DEF LabelsTyped
  <2> HIDE DEF q, p
  <2> QED
    BY <1>13, <1>16, <1>19, <2>1, <2>2 DEF EnvelopeType
<1> HIDE DEF t, p, u, q
<1>21. /\ LabelsTyped' /\ LabelsGrow' /\ task' = u /\ envelope' = q
       /\ signal' = signal /\ world' = world /\ first' = first
  <2>1. u \in TaskType /\ Len(u.counts) = Len(u.kept) /\ u.at <= Len(u.kept) + 1 /\ u.odd < u.at
        /\ (u.pc \in {"streams", "config"} => signal = "logs")
        /\ (u.pc = "spans" => signal = "traces")
    BY <1>4, <1>9, <1>10, <1>11 DEF u
  <2>2. Labels!Become(u, q)
    BY <1>5 DEF u, q
  <2> QED
    BY <1>2, <1>20, <2>1, <2>2, BecomeKeeps
<1>22. Labels!There(first) \subseteq Labels!There(world) /\ Labels!There(world) \subseteq Labels!Labels
  BY <1>0, <1>8 DEF Labels!There, LabelsGrow, NoLess, Labels!Label
<1>23. Tells("missing_identity", named) /\ WellFormed(named)
  <2>1. ASSUME sample.value = 0 PROVE world.label["service_name"].count > 0
    BY <1>3, <1>4, <1>12, <2>1 DEF Labels!There
  <2>2. ASSUME sample.value = 1, ~ truncated PROVE first.label["service_name"].count = 0
    <3>1. "service_name" \notin Labels!There(world)
      BY <1>3, <1>4, <1>5, <1>12, <2>2
    <3>2. "service_name" \notin Labels!There(first) /\ "service_name" \in Labels!Labels
      BY <1>22, <3>1, LabelsAre
    <3> QED
      BY <1>8, <3>2 DEF Labels!There, Labels!Label
  <2>3. sample.value \in {0, 1}
    BY <1>12
  <2>4. Tells("missing_identity", named)
    BY <1>14, <2>1, <2>2, <2>3 DEF Tells
  <2> QED
    BY <1>13, <1>14, <2>4 DEF WellFormed, Labels!Coherent
<1>24. Tells("distinct_values", told) /\ WellFormed(told)
  BY <1>13, <1>14 DEF WellFormed, Labels!Coherent, Tells
<1>25. /\ Tells("metric_series", Labels!Missing) /\ Tells("shape_count", Labels!Missing)
       /\ WellFormed(Labels!Missing)
  BY MissingIs DEF Tells
<1>26. LabelsTell' /\ \A i \in Labels!Inputs : WellFormed(envelope'.inputs[i])
  <2>1. \A i \in Labels!Inputs :
           \/ envelope'.inputs[i] = envelope.inputs[i]
           \/ Tells(i, envelope'.inputs[i]) /\ WellFormed(envelope'.inputs[i])
    BY <1>7, <1>19, <1>20, <1>21, <1>23, <1>24, <1>25
  <2> QED
    BY <1>21, <2>1, InputsKeep
<1>27. names = <<>> <=> Labels!There(world) = {}
  BY <1>3
<1>28. LabelsRead'
  <2> SUFFICES ASSUME task'.pc = "keys" PROVE LabelsRead'
    BY DEF LabelsRead
  <2>1. names # <<>> /\ task'.kept = kept /\ task'.truncated = truncated /\ task'.partial = truncated
        /\ task'.overflow = FALSE /\ task'.failure = "none" /\ task'.at = 1 /\ task'.odd = 0
    BY <1>10, <1>11, <1>21 DEF u
  <2>2. \/ envelope'.inputs["distinct_values"].state = "none"
        \/ envelope'.inputs["distinct_values"].state = stateIs
    BY <1>14, <1>19, <1>20, <1>21, <2>1, MissingIs
  <2>3. ~ truncated => \A l \in Labels!There(first) : \E i \in DOMAIN kept : kept[i] = l
    BY <1>3, <1>4, <1>5, <1>22
  <2>4. envelope'.inputs["distinct_values"].state = "complete" => ~ truncated
    BY <1>13, <2>2
  <2> QED
    BY <1>5, <1>21, <2>1, <2>3, <2>4 DEF LabelsRead, Values, Labels!There
<1>29. LabelsCovered'
  <2>1. ASSUME task'.pc \in {"fit", "done"} PROVE envelope'.inputs["distinct_values"].state = "none"
    <3>1. names = <<>>
      BY <1>11, <1>21, <2>1 DEF u
    <3> QED
      BY <1>7, <1>17, <1>20, <1>21, <3>1, MissingIs
  <2> QED
    BY <2>1 DEF LabelsCovered, Values
<1>30. LabelsForm'
  <2>1. Labels!Coherent(envelope)' /\ envelope'.state # "unavailable"
    BY <1>13, <1>20, <1>21 DEF Labels!Coherent
  <2>2. envelope'.cut => envelope'.state = "partial"
    BY <1>5, <1>13, <1>20, <1>21
  <2>3. ASSUME envelope'.data = "empty"
        PROVE  /\ task'.pc \in {"fit", "done"} /\ envelope'.state = "complete" /\ task'.kept = <<>>
               /\ Labels!There(first) = {}
               /\ \A i \in Labels!Inputs : envelope'.inputs[i] = Labels!NoInput
    <3>1. names = <<>> /\ ~ truncated
      BY <1>20, <1>21, <2>3
    <3> QED
      BY <1>5, <1>7, <1>10, <1>11, <1>13, <1>20, <1>21, <1>22, <1>27, <3>1 DEF u
  <2>4. task'.pc # "names"
    BY <1>10, <1>11, <1>21 DEF u
  <2> QED
    BY <1>21, <1>26, <2>1, <2>2, <2>3, <2>4 DEF LabelsForm, WellFormed, Labels!Coherent, Labels!There
<1> QED
  BY <1>21, <1>26, <1>28, <1>29, <1>30 DEF LabelsInv

LEMMA AtKeyIs ==
  ASSUME LabelConstants, LabelsInv, Labels!AtKey
  PROVE  /\ task.pc = "keys" /\ task.at \in 1 .. Len(task.kept)
         /\ DOMAIN task.kept = 1 .. Len(task.kept)
         /\ Labels!Key = task.kept[task.at] /\ Labels!Key \in Labels!Labels
         /\ task.counts[task.at] \in Nat
         /\ world.label[Labels!Key] \in Labels!Label /\ first.label[Labels!Key] \in Labels!Label
         /\ first.label[Labels!Key].count <= world.label[Labels!Key].count
         /\ first.label[Labels!Key].odd <= world.label[Labels!Key].odd
         /\ first.label[Labels!Key].big => world.label[Labels!Key].big
         /\ Labels!Key = "__name__" => first.label[Labels!Key].odd = 0
         /\ envelope.data # "empty" /\ envelope.state # "unavailable"
<1>0. LabelsTyped /\ LabelsGrow /\ LabelsForm /\ task.pc = "keys" /\ task.at <= Len(task.kept)
  BY DEF LabelsInv, Labels!AtKey
<1>1. /\ task.kept \in Seq(Labels!Labels) /\ task.counts \in Seq(Nat) /\ task.at \in Nat \ {0}
      /\ Len(task.counts) = Len(task.kept)
  BY <1>0 DEF LabelsTyped, TaskType
<1>2. task.at \in 1 .. Len(task.kept) /\ task.counts[task.at] \in Nat
      /\ task.kept[task.at] \in Labels!Labels /\ DOMAIN task.kept = 1 .. Len(task.kept)
  BY <1>0, <1>1
<1>3. world.label \in [Labels!Labels -> Labels!Label] /\ first.label \in [Labels!Labels -> Labels!Label]
  BY <1>0, WorldIs DEF LabelsTyped
<1>4. Labels!Key = task.kept[task.at]
  BY DEF Labels!Key
<1>5. /\ world.label[Labels!Key] \in Labels!Label /\ first.label[Labels!Key] \in Labels!Label
      /\ Labels!Key \in Labels!Labels
  BY <1>2, <1>3, <1>4
<1>6. /\ first.label[Labels!Key].count <= world.label[Labels!Key].count
      /\ first.label[Labels!Key].odd <= world.label[Labels!Key].odd
      /\ first.label[Labels!Key].big => world.label[Labels!Key].big
      /\ Labels!Key = "__name__" => first.label[Labels!Key].odd = 0
  BY <1>0, <1>5 DEF LabelsGrow, NoLess, Sane
<1>7. envelope.data # "empty" /\ envelope.state # "unavailable"
  BY <1>0 DEF LabelsForm
<1> QED
  BY <1>0, <1>2, <1>4, <1>5, <1>6, <1>7

\* What a step from one key to the next has to be.
LEMMA KeysStep ==
  ASSUME LabelConstants, LabelsInv, Labels!AtKey,
         NEW t \in TaskType, NEW p \in EnvelopeType, Labels!Become(t, p), misreads' \in 0 .. MaxMisreads,
         t.pc = "keys", t.kept = task.kept, t.counts = task.counts, t.at = task.at + 1,
         t.truncated = task.truncated, t.odd \in task.odd .. task.odd + 1,
         task.partial => t.partial, t.failure = "none" => task.failure = "none",
         t.overflow => t.failure # "none",
         t.odd > task.odd => world.label[Labels!Key].odd > 0,
         ~ t.partial /\ t.failure = "none" /\ t.odd = task.odd => first.label[Labels!Key].odd = 0,
         Values.samples \subseteq p.inputs["distinct_values"].samples,
         p.inputs["distinct_values"].state = Values.state,
         signal = "metrics" => Covers(Labels!Key, p.inputs["distinct_values"].samples),
         p.data = envelope.data, p.cut = envelope.cut, Labels!Coherent(p), p.state # "unavailable",
         envelope.state = "partial" => p.state = "partial",
         \A i \in Labels!Inputs :
           p.inputs[i] = envelope.inputs[i] \/ (Tells(i, p.inputs[i]) /\ WellFormed(p.inputs[i]))
  PROVE  LabelsInv'
<1>0. /\ LabelsTyped /\ LabelsForm /\ LabelsRead /\ task.pc = "keys"
      /\ task.at \in 1 .. Len(task.kept) /\ DOMAIN task.kept = 1 .. Len(task.kept)
      /\ Labels!Key = task.kept[task.at] /\ Labels!Key \in Labels!Labels
      /\ envelope.data # "empty"
  BY AtKeyIs DEF LabelsInv
<1>1. /\ task.at \in Nat /\ task.odd \in Nat /\ Len(task.kept) \in Nat /\ task.odd < task.at
      /\ Len(task.counts) = Len(task.kept)
  BY <1>0 DEF LabelsTyped, TaskType
<1>2. /\ LabelsTyped' /\ LabelsGrow' /\ task' = t /\ envelope' = p
      /\ signal' = signal /\ world' = world /\ first' = first
  <2>1. Len(t.counts) = Len(t.kept) /\ t.at <= Len(t.kept) + 1 /\ t.odd < t.at
    BY <1>0, <1>1
  <2>2. t.pc \notin {"streams", "config", "spans"}
    OBVIOUS
  <2> QED
    BY <2>1, <2>2, BecomeKeeps
<1>3. LabelsTell' /\ \A i \in Labels!Inputs : WellFormed(envelope'.inputs[i])
  BY <1>2, InputsKeep
<1>4. LabelsForm'
  <2>1. envelope'.cut => envelope'.state = "partial"
    BY <1>0, <1>2 DEF LabelsForm
  <2>2. Labels!Coherent(envelope')
    BY <1>2
  <2> QED
    BY <1>0, <1>2, <1>3, <2>1, <2>2, FormKeeps
<1>5. LabelsCovered'
  BY <1>2 DEF LabelsCovered
<1>6. Values' = p.inputs["distinct_values"]
  BY <1>2 DEF Values
<1>7. LabelsRead'
  <2>1. /\ ~ task.truncated => \A l \in Labels!There(first) : \E i \in DOMAIN task.kept : task.kept[i] = l
        /\ task.truncated => task.partial
        /\ signal # "metrics" => task.truncated
        /\ Values.state = "complete" => ~ task.truncated
        /\ signal = "metrics" => \A i \in 1 .. task.at - 1 : Covers(task.kept[i], Values.samples)
        /\ ~ task.partial /\ task.failure = "none" /\ task.odd = 0 =>
             \A i \in 1 .. task.at - 1 : first.label[task.kept[i]].odd = 0
        /\ task.odd > 0 => \E l \in Labels!Labels : world.label[l].odd > 0
    BY <1>0 DEF LabelsRead
  <2>2. ASSUME signal = "metrics" PROVE \A i \in 1 .. t.at - 1 : Covers(t.kept[i], Values'.samples)
    <3>1. ASSUME NEW l, Covers(l, Values.samples) PROVE Covers(l, Values'.samples)
      BY <1>6, <3>1 DEF Covers
    <3>2. ASSUME NEW i \in 1 .. t.at - 1 PROVE i \in 1 .. task.at - 1 \/ i = task.at
      BY <1>0, <1>1
    <3> QED
      BY <1>0, <1>6, <2>1, <2>2, <3>1, <3>2
  <2>3. ASSUME ~ t.partial, t.failure = "none", t.odd = 0
        PROVE  \A i \in 1 .. t.at - 1 : first.label[t.kept[i]].odd = 0
    <3>1. task.odd = 0 /\ t.odd = task.odd
      BY <1>1, <2>3
    <3>2. ASSUME NEW i \in 1 .. t.at - 1 PROVE i \in 1 .. task.at - 1 \/ i = task.at
      BY <1>0, <1>1
    <3> QED
      BY <1>0, <2>1, <2>3, <3>1, <3>2
  <2>4. t.odd > 0 => \E l \in Labels!Labels : world.label[l].odd > 0
    BY <1>0, <1>1, <2>1
  <2>5. /\ ~ t.truncated => \A l \in Labels!There(first) : \E i \in DOMAIN t.kept : t.kept[i] = l
        /\ t.truncated => t.partial
        /\ signal # "metrics" => t.truncated
        /\ p.inputs["distinct_values"].state = "complete" => ~ t.truncated
    BY <2>1
  <2>6. Labels!There(first)' = Labels!There(first)
    BY <1>2 DEF Labels!There
  <2>7. signal = "metrics" => \A i \in 1 .. t.at - 1 : Covers(t.kept[i], Values.samples)'
    BY <1>2, <2>2 DEF Covers
  <2> QED
    BY <1>2, <1>6, <2>3, <2>4, <2>5, <2>6, <2>7 DEF LabelsRead
<1> QED
  BY <1>2, <1>3, <1>4, <1>5, <1>7 DEF LabelsInv

\* Of a label.
LEMMA CountedIs ==
  ASSUME LabelsInv, NEW q \in EnvelopeType, q.inputs["distinct_values"] = Values,
         NEW s \in SampleType,
         signal = "logs" => s.population = "none",
         signal = "profiles" => ~ s.exact /\ \E l \in Labels!Labels : s.value <= world.label[l].count,
         s.population = "big" => \E l \in Labels!Labels : s.value <= world.label[l].count /\ world.label[l].big
  PROVE  LET c == Labels!Counted(q, s) IN
         /\ c \in EnvelopeType
         /\ c.data = q.data /\ c.state = q.state /\ c.reason = q.reason /\ c.cut = q.cut
         /\ c.inputs["distinct_values"].samples = Values.samples \cup {s}
         /\ c.inputs["distinct_values"].state = Values.state
         /\ \A i \in Labels!Inputs \ {"distinct_values"} : c.inputs[i] = q.inputs[i]
         /\ Tells("distinct_values", c.inputs["distinct_values"])
         /\ WellFormed(c.inputs["distinct_values"])
<1> DEFINE c == Labels!Counted(q, s)
           v == [Values EXCEPT !.samples = @ \cup {s}]
<1>0. "distinct_values" \in Labels!Inputs
  BY DEF Labels!Inputs
<1>1. Values \in InputType /\ Tells("distinct_values", Values) /\ WellFormed(Values)
  BY <1>0 DEF LabelsInv, LabelsTell, LabelsForm, LabelsTyped, EnvelopeType, Values
<1>2. /\ v \in InputType /\ v.samples = Values.samples \cup {s} /\ v.state = Values.state
      /\ v.reason = Values.reason /\ v.names = Values.names /\ v.overflow = Values.overflow
  BY <1>1 DEF InputType
<1>3. c = [q EXCEPT !.inputs["distinct_values"] = v]
  BY DEF Labels!Counted
<1> HIDE DEF c, v
<1>4. /\ c \in EnvelopeType
      /\ c.data = q.data /\ c.state = q.state /\ c.reason = q.reason /\ c.cut = q.cut
      /\ c.inputs = [q.inputs EXCEPT !["distinct_values"] = v]
  BY <1>0, <1>2, <1>3 DEF EnvelopeType
<1>5. c.inputs["distinct_values"] = v /\ \A i \in Labels!Inputs \ {"distinct_values"} : c.inputs[i] = q.inputs[i]
  BY <1>0, <1>4 DEF EnvelopeType
<1>6. Tells("distinct_values", v)
  BY <1>1, <1>2 DEF Tells
<1>7. WellFormed(v)
  BY <1>1, <1>2 DEF WellFormed, Labels!Coherent
<1> QED
  BY <1>2, <1>4, <1>5, <1>6, <1>7 DEF c

LEMMA SkipKeyKeeps ==
  ASSUME LabelConstants, LabelsInv, Labels!SkipKey PROVE LabelsInv'
<1> DEFINE t == [task EXCEPT !.at = @ + 1, !.partial = TRUE]
           s == Labels!Sample(task.counts[task.at], TRUE, "none")
           c == Labels!Counted(envelope, s)
           p == IF signal # "metrics" THEN envelope
                ELSE [c EXCEPT !.state = IF task.failure = "none" THEN "partial" ELSE @,
                               !.reason = IF task.failure = "none" THEN "truncated" ELSE @]
<1>0. Labels!AtKey /\ misreads' = misreads /\ Labels!Become(t, p) /\ LabelsTyped /\ LabelsForm /\ LabelsRead
  BY DEF Labels!SkipKey, LabelsInv
<1>1. misreads' \in 0 .. MaxMisreads /\ task \in TaskType /\ envelope \in EnvelopeType
  BY <1>0 DEF LabelsTyped
<1>2. /\ task.counts[task.at] \in Nat /\ task.pc = "keys" /\ envelope.data # "empty"
      /\ envelope.state # "unavailable"
  BY <1>0, AtKeyIs
<1>3. /\ t \in TaskType /\ t.pc = "keys" /\ t.kept = task.kept /\ t.counts = task.counts
      /\ t.at = task.at + 1 /\ t.truncated = task.truncated /\ t.odd = task.odd /\ t.partial = TRUE
      /\ t.overflow = task.overflow /\ t.failure = task.failure /\ task.odd \in Nat
  <2> DEFINE a == task.at + 1
  <2>1. a \in Nat \ {0}
    BY <1>1 DEF TaskType
  <2>2. t = [task EXCEPT !.at = a, !.partial = TRUE] /\ a = task.at + 1
    OBVIOUS
  <2> HIDE DEF a, t
  <2> QED
    BY <1>1, <1>2, <2>1, <2>2 DEF TaskType
<1>4. s \in SampleType /\ s.population = "none"
  BY <1>2, SampleIs
<1>5. Labels!Coherent(envelope) /\ (task.overflow => task.failure # "none")
  BY <1>0, <1>2 DEF LabelsForm, LabelsRead
<1> HIDE DEF t, s
<1>6. CASE signal # "metrics"
  <2>1. p = envelope
    BY <1>6
  <2> HIDE DEF p
  <2> QED
    BY <1>0, <1>1, <1>2, <1>3, <1>5, <1>6, <2>1, KeysStep DEF Values
<1>7. CASE signal = "metrics"
  <2>1. /\ c \in EnvelopeType
        /\ c.data = envelope.data /\ c.state = envelope.state /\ c.reason = envelope.reason
        /\ c.cut = envelope.cut
        /\ c.inputs["distinct_values"].samples = Values.samples \cup {s}
        /\ c.inputs["distinct_values"].state = Values.state
        /\ \A i \in Labels!Inputs \ {"distinct_values"} : c.inputs[i] = envelope.inputs[i]
        /\ Tells("distinct_values", c.inputs["distinct_values"])
        /\ WellFormed(c.inputs["distinct_values"])
    <3>1. envelope.inputs["distinct_values"] = Values
      BY DEF Values
    <3> QED
      BY <1>1, <1>4, <1>7, <3>1, CountedIs
  <2>2. p = [c EXCEPT !.state = IF task.failure = "none" THEN "partial" ELSE @,
                      !.reason = IF task.failure = "none" THEN "truncated" ELSE @]
    BY <1>7
  <2> HIDE DEF c, p
  <2>3. /\ p \in EnvelopeType /\ p.data = c.data /\ p.cut = c.cut /\ p.inputs = c.inputs
        /\ p.state = IF task.failure = "none" THEN "partial" ELSE c.state
        /\ p.reason = IF task.failure = "none" THEN "truncated" ELSE c.reason
    BY <2>1, <2>2 DEF EnvelopeType
  <2>4. Labels!Coherent(p) /\ p.state # "unavailable" /\ (envelope.state = "partial" => p.state = "partial")
    BY <1>2, <1>5, <2>1, <2>3 DEF Labels!Coherent
  <2>5. Covers(Labels!Key, p.inputs["distinct_values"].samples)
    BY <1>4, <2>1, <2>3 DEF Covers
  <2>6. \A i \in Labels!Inputs :
           p.inputs[i] = envelope.inputs[i] \/ (Tells(i, p.inputs[i]) /\ WellFormed(p.inputs[i]))
    BY <2>1, <2>3
  <2>7. /\ Values.samples \subseteq p.inputs["distinct_values"].samples
        /\ p.inputs["distinct_values"].state = Values.state
        /\ p.data = envelope.data /\ p.cut = envelope.cut
    BY <2>1, <2>3
  <2> QED
    BY <1>0, <1>1, <1>3, <1>5, <2>3, <2>4, <2>5, <2>6, <2>7, KeysStep
<1> QED
  BY <1>6, <1>7

LEMMA KeyFailsKeeps ==
  ASSUME LabelConstants, LabelsInv, Labels!KeyFails PROVE LabelsInv'
<1>0. Labels!AtKey /\ LabelsTyped /\ LabelsForm /\ LabelsRead
  BY DEF Labels!KeyFails, LabelsInv
<1> DEFINE over(reason) == task.overflow \/ reason = "overflow"
           input(reason) == Labels!Input(Labels!StateOf(reason), reason, task.truncated /\ reason \in Labels!Cut,
                                         reason = "overflow", {})
           fell(reason) == [envelope EXCEPT !.state = "partial",
                              !.reason = IF signal = "metrics" /\ over(reason) THEN "overflow" ELSE reason]
           named(reason) == IF Labels!Key # "__name__" THEN fell(reason)
                            ELSE [fell(reason) EXCEPT !.inputs["metric_series"] = input(reason)]
           s == Labels!Sample(task.counts[task.at], TRUE, "none")
           u(v, reason) == [v EXCEPT !.at = @ + 1, !.overflow = over(reason), !.failure = reason,
                                     !.partial = @ \/ signal = "metrics"]
           p(reason) == IF signal = "metrics" THEN Labels!Counted(named(reason), s) ELSE fell(reason)
<1>1. PICK v \in {task, [task EXCEPT !.late = TRUE]}, reason \in Labels!Reasons :
        Labels!Raises(v, reason) /\ Labels!Become(u(v, reason), p(reason))
  BY DEF Labels!KeyFails
<1>2. /\ misreads' \in 0 .. MaxMisreads
      /\ v \in TaskType /\ v.pc = task.pc /\ v.kept = task.kept /\ v.counts = task.counts
      /\ v.at = task.at /\ v.truncated = task.truncated
      /\ v.odd = task.odd /\ v.partial = task.partial
  BY <1>0, <1>1, RaisesIs
<1>3. /\ task.counts[task.at] \in Nat /\ task.pc = "keys" /\ envelope.data # "empty"
      /\ envelope.state # "unavailable" /\ envelope \in EnvelopeType /\ task \in TaskType
  BY <1>0, AtKeyIs DEF LabelsTyped
<1> DEFINE t == u(v, reason)
<1>4. /\ t \in TaskType /\ t.pc = "keys" /\ t.kept = task.kept /\ t.counts = task.counts
      /\ t.at = task.at + 1 /\ t.truncated = task.truncated /\ t.odd = task.odd
      /\ t.failure = reason /\ task.odd \in Nat
  <2> DEFINE a == v.at + 1
             o == over(reason)
             b == v.partial \/ signal = "metrics"
  <2>1. a \in Nat \ {0} /\ o \in BOOLEAN /\ b \in BOOLEAN
    BY <1>2 DEF TaskType
  <2>2. t = [v EXCEPT !.at = a, !.overflow = o, !.failure = reason, !.partial = b] /\ a = task.at + 1
    BY <1>2
  <2> HIDE DEF a, b, o, t
  <2> QED
    BY <1>2, <1>3, <2>1, <2>2 DEF TaskType
<1>5. task.partial => t.partial
  BY <1>2 DEF TaskType
<1>6. reason # "none"
  BY DEF Labels!Reasons
<1> DEFINE f == fell(reason)
           x == input(reason)
           n == named(reason)
           e == p(reason)
<1>7. Labels!Become(t, e)
  BY <1>1
<1>8. s \in SampleType /\ s.population = "none"
  BY <1>3, SampleIs
<1> HIDE DEF t, s
<1>9. /\ f \in EnvelopeType /\ f.data = envelope.data /\ f.cut = envelope.cut /\ f.inputs = envelope.inputs
      /\ f.state = "partial" /\ f.reason \in Labels!Reasons
  BY <1>3 DEF EnvelopeType, Labels!Reasons
<1>10. /\ x \in InputType /\ x.state \in {"partial", "unavailable"} /\ x.reason = reason /\ x.samples = {}
       /\ x.names \/ x.overflow => x.state = "partial"
       /\ x.overflow => x.reason = "overflow"
       /\ x.state = "unavailable" => reason = "missing_input"
  <2>1. Labels!StateOf(reason) = IF reason \in {"deadline", "overflow"} THEN "partial" ELSE "unavailable"
    BY DEF Labels!StateOf, Labels!Cut
  <2>2. (task.truncated /\ reason \in Labels!Cut) \in BOOLEAN /\ (reason = "overflow") \in BOOLEAN
    OBVIOUS
  <2>3. {} \in SUBSET SampleType
    OBVIOUS
  <2>4. x = [state |-> Labels!StateOf(reason), reason |-> reason, names |-> task.truncated /\ reason \in Labels!Cut,
             overflow |-> reason = "overflow", samples |-> {}]
    BY DEF Labels!Input
  <2> HIDE DEF x
  <2>5. /\ x.state = Labels!StateOf(reason) /\ x.reason = reason
        /\ x.names = (task.truncated /\ reason \in Labels!Cut)
        /\ x.overflow = (reason = "overflow") /\ x.samples = {}
    BY <2>4
  <2>6. x \in InputType
    BY <2>1, <2>2, <2>3, <2>4 DEF InputType
  <2> QED
    BY <2>1, <2>5, <2>6 DEF Labels!Cut, Labels!Reasons
<1>11. Tells("metric_series", x) /\ WellFormed(x)
  BY <1>6, <1>10 DEF Tells, WellFormed, Labels!Coherent
<1> HIDE DEF fell, f, x
<1>12. /\ n \in EnvelopeType /\ n.data = envelope.data /\ n.cut = envelope.cut
       /\ n.state = "partial" /\ n.reason \in Labels!Reasons
       /\ n.inputs = IF Labels!Key # "__name__" THEN envelope.inputs
                     ELSE [envelope.inputs EXCEPT !["metric_series"] = x]
  <2>1. n = IF Labels!Key # "__name__" THEN f ELSE [f EXCEPT !.inputs["metric_series"] = x]
    BY DEF f, x
  <2> HIDE DEF n
  <2> QED
    BY <1>9, <1>10, <2>1 DEF EnvelopeType
<1>13. /\ n.inputs["distinct_values"] = Values
       /\ \A i \in Labels!Inputs \ {"metric_series"} : n.inputs[i] = envelope.inputs[i]
       /\ n.inputs["metric_series"] = envelope.inputs["metric_series"] \/ n.inputs["metric_series"] = x
  BY <1>3, <1>12 DEF EnvelopeType, Values, Labels!Inputs
<1> HIDE DEF n, named
<1>14. CASE signal # "metrics"
  <2>1. e = f
    BY <1>14 DEF f
  <2> HIDE DEF e, p
  <2>2. Labels!Coherent(e)
    BY <1>9, <2>1 DEF Labels!Coherent, Labels!Reasons
  <2> QED
    BY <1>0, <1>2, <1>4, <1>5, <1>6, <1>7, <1>9, <1>14, <2>1, <2>2, KeysStep DEF Values
<1>15. CASE signal = "metrics"
  <2>1. e = Labels!Counted(n, s)
    BY <1>15 DEF n
  <2> HIDE DEF e, p
  <2>2. /\ e \in EnvelopeType
        /\ e.data = n.data /\ e.state = n.state /\ e.reason = n.reason /\ e.cut = n.cut
        /\ e.inputs["distinct_values"].samples = Values.samples \cup {s}
        /\ e.inputs["distinct_values"].state = Values.state
        /\ \A i \in Labels!Inputs \ {"distinct_values"} : e.inputs[i] = n.inputs[i]
        /\ Tells("distinct_values", e.inputs["distinct_values"])
        /\ WellFormed(e.inputs["distinct_values"])
    BY <1>8, <1>12, <1>13, <1>15, <2>1, CountedIs
  <2>3. \A i \in Labels!Inputs :
           e.inputs[i] = envelope.inputs[i] \/ (Tells(i, e.inputs[i]) /\ WellFormed(e.inputs[i]))
    BY <1>11, <1>13, <2>2
  <2>4. Labels!Coherent(e) /\ e.state = "partial"
    BY <1>12, <2>2 DEF Labels!Coherent, Labels!Reasons
  <2>5. Covers(Labels!Key, e.inputs["distinct_values"].samples)
    BY <1>8, <2>2 DEF Covers
  <2>6. /\ Values.samples \subseteq e.inputs["distinct_values"].samples
        /\ e.inputs["distinct_values"].state = Values.state
        /\ e.data = envelope.data /\ e.cut = envelope.cut /\ e.state # "unavailable"
        /\ e \in EnvelopeType
    BY <1>12, <2>2, <2>4
  <2> HIDE DEF u
  <2> QED
    BY <1>0, <1>2, <1>4, <1>5, <1>6, <1>7, <2>3, <2>4, <2>5, <2>6, KeysStep
<1> QED
  BY <1>14, <1>15

LEMMA OddSeenIs ==
  ASSUME LabelConstants, LabelsInv, Labels!AtKey, NEW o \in Labels!OddSeen
  PROVE  /\ o \in 0 .. 1
         /\ o > 0 => world.label[Labels!Key].odd > 0
         /\ o = 0 /\ world.label[Labels!Key].count <= bounds.values => first.label[Labels!Key].odd = 0
         /\ Labels!Key = "__name__" => first.label[Labels!Key].odd = 0
         /\ bounds.values \in Nat /\ world.label[Labels!Key].count \in Nat
<1>1. /\ world.label[Labels!Key] \in Labels!Label /\ first.label[Labels!Key] \in Labels!Label
      /\ first.label[Labels!Key].odd <= world.label[Labels!Key].odd
      /\ Labels!Key = "__name__" => first.label[Labels!Key].odd = 0
  BY AtKeyIs
<1>2. /\ world.label[Labels!Key].odd \in 0 .. 1 /\ first.label[Labels!Key].odd \in 0 .. 1
      /\ world.label[Labels!Key].count \in Nat
  BY <1>1 DEF Labels!Label, LabelConstants
<1>3. bounds.values \in Nat
  BY DEF LabelConstants, LabelsInv, LabelsTyped
<1>4. CASE Labels!Key = "__name__" /\ signal = "metrics"
  BY <1>1, <1>2, <1>3, <1>4 DEF Labels!OddSeen
<1>5. CASE ~ (Labels!Key = "__name__" /\ signal = "metrics") /\ world.label[Labels!Key].count > bounds.values
  BY <1>1, <1>2, <1>3, <1>5 DEF Labels!OddSeen
<1>6. CASE ~ (Labels!Key = "__name__" /\ signal = "metrics") /\ ~ (world.label[Labels!Key].count > bounds.values)
  <2>1. o = world.label[Labels!Key].odd
    BY <1>6 DEF Labels!OddSeen
  <2> QED
    BY <1>1, <1>2, <1>3, <2>1
<1> QED
  BY <1>4, <1>5, <1>6

LEMMA ValuesKeep ==
  ASSUME LabelConstants, LabelsInv, Labels!Values PROVE LabelsInv'
<1>0. Labels!AtKey /\ LabelsTyped /\ LabelsForm /\ LabelsRead /\ signal # "metrics" /\ misreads' = misreads
  BY DEF Labels!Values, LabelsInv, Labels!Answers
<1> DEFINE s == Labels!Sample(Labels!Lesser(world.label[Labels!Key].count, bounds.values), FALSE, "none")
           c == Labels!Counted(envelope, s)
           p == IF signal = "traces" THEN envelope ELSE c
           u(o) == [task EXCEPT !.at = @ + 1, !.successful = TRUE, !.partial = TRUE, !.odd = @ + o]
<1>1. PICK o \in Labels!OddSeen : Labels!Become(u(o), p)
  BY DEF Labels!Values
<1>2. /\ task.pc = "keys" /\ envelope.data # "empty" /\ Labels!Key \in Labels!Labels
      /\ envelope.state # "unavailable" /\ envelope \in EnvelopeType /\ task \in TaskType
      /\ misreads' \in 0 .. MaxMisreads
  BY <1>0, AtKeyIs DEF LabelsTyped
<1>3. /\ o \in 0 .. 1 /\ (o > 0 => world.label[Labels!Key].odd > 0)
      /\ bounds.values \in Nat /\ world.label[Labels!Key].count \in Nat
  BY <1>0, OddSeenIs
<1> DEFINE t == u(o)
<1>4. /\ t \in TaskType /\ t.pc = "keys" /\ t.kept = task.kept /\ t.counts = task.counts
      /\ t.at = task.at + 1 /\ t.truncated = task.truncated /\ t.odd = task.odd + o /\ t.partial = TRUE
      /\ t.overflow = task.overflow /\ t.failure = task.failure /\ task.odd \in Nat
  <2> DEFINE a == task.at + 1
             b == task.odd + o
  <2>1. a \in Nat \ {0} /\ b \in Nat /\ task.odd \in Nat
    BY <1>2, <1>3 DEF TaskType
  <2>2. t = [task EXCEPT !.at = a, !.successful = TRUE, !.partial = TRUE, !.odd = b]
        /\ a = task.at + 1 /\ b = task.odd + o
    OBVIOUS
  <2> HIDE DEF a, b, t
  <2> QED
    BY <1>2, <2>1, <2>2 DEF TaskType
<1>5. /\ s \in SampleType /\ s.population = "none" /\ s.exact = FALSE
      /\ s.value <= world.label[Labels!Key].count
  <2> DEFINE n == Labels!Lesser(world.label[Labels!Key].count, bounds.values)
  <2>1. n \in Nat /\ n <= world.label[Labels!Key].count
    BY <1>3 DEF Labels!Lesser
  <2> HIDE DEF n
  <2>2. s = Labels!Sample(n, FALSE, "none")
    BY DEF n
  <2> HIDE DEF s
  <2> QED
    BY <2>1, <2>2, SampleIs
<1>6. Labels!Become(t, p)
  BY <1>1
<1> HIDE DEF s, u, t
<1>7. /\ c \in EnvelopeType
      /\ c.data = envelope.data /\ c.state = envelope.state /\ c.reason = envelope.reason
      /\ c.cut = envelope.cut
      /\ c.inputs["distinct_values"].samples = Values.samples \cup {s}
      /\ c.inputs["distinct_values"].state = Values.state
      /\ \A i \in Labels!Inputs \ {"distinct_values"} : c.inputs[i] = envelope.inputs[i]
      /\ Tells("distinct_values", c.inputs["distinct_values"])
      /\ WellFormed(c.inputs["distinct_values"])
  <2>1. envelope.inputs["distinct_values"] = Values
    BY DEF Values
  <2>2. signal = "profiles" => ~ s.exact /\ \E l \in Labels!Labels : s.value <= world.label[l].count
    BY <1>2, <1>5
  <2> QED
    BY <1>2, <1>5, <2>1, <2>2, CountedIs
<1> HIDE DEF c
<1>8. /\ p \in EnvelopeType
      /\ p.data = envelope.data /\ p.state = envelope.state /\ p.reason = envelope.reason
      /\ p.cut = envelope.cut
      /\ Values.samples \subseteq p.inputs["distinct_values"].samples
      /\ p.inputs["distinct_values"].state = Values.state
      /\ \A i \in Labels!Inputs :
           p.inputs[i] = envelope.inputs[i] \/ (Tells(i, p.inputs[i]) /\ WellFormed(p.inputs[i]))
  BY <1>2, <1>7 DEF Values
<1> HIDE DEF p
<1>9. Labels!Coherent(p) /\ (task.overflow => task.failure # "none")
  BY <1>0, <1>2, <1>8 DEF LabelsForm, LabelsRead, Labels!Coherent
<1>10. t.odd \in task.odd .. task.odd + 1 /\ (t.odd > task.odd => world.label[Labels!Key].odd > 0)
  BY <1>3, <1>4
<1> QED
  BY <1>0, <1>2, <1>4, <1>6, <1>8, <1>9, <1>10, KeysStep

LEMMA SeriesKeep ==
  ASSUME LabelConstants, LabelsInv, Labels!Series PROVE LabelsInv'
<1>0. Labels!AtKey /\ LabelsTyped /\ LabelsForm /\ LabelsRead /\ signal = "metrics"
  BY DEF Labels!Series, LabelsInv
<1> DEFINE label == world.label[Labels!Key]
           s == Labels!Sample(label.count, TRUE, IF label.big THEN "big" ELSE "small")
           part_of(warned) == warned \/ label.count >= bounds.values
           x(partial) == Labels!Input(Labels!Whole(partial \/ task.truncated), Labels!Why(partial \/ task.truncated),
                                      task.truncated, FALSE, {Labels!Sample(world.series, ~ partial, "none")})
           lowered(partial) == IF partial /\ task.failure = "none"
                               THEN [envelope EXCEPT !.state = "partial", !.reason = "truncated"] ELSE envelope
           named(partial) == IF Labels!Key # "__name__" THEN lowered(partial)
                             ELSE [lowered(partial) EXCEPT !.inputs["metric_series"] = x(partial)]
           u(partial, o) == [task EXCEPT !.at = @ + 1, !.successful = @ \/ Labels!Key # "__name__",
                                         !.partial = @ \/ partial, !.odd = @ + o]
<1>1. PICK warned \in BOOLEAN, o \in Labels!OddSeen :
        Labels!Warned(warned) /\ Labels!Become(u(part_of(warned), o), Labels!Counted(named(part_of(warned)), s))
  BY DEF Labels!Series
<1>2. /\ task.pc = "keys" /\ envelope.data # "empty" /\ Labels!Key \in Labels!Labels
      /\ envelope.state # "unavailable" /\ envelope \in EnvelopeType /\ task \in TaskType
      /\ label \in Labels!Label /\ first.label[Labels!Key].count <= label.count
      /\ first.label[Labels!Key].big => label.big
  BY <1>0, AtKeyIs DEF LabelsTyped
<1>3. misreads' \in 0 .. MaxMisreads
  BY <1>0, <1>1, WarnedIs
<1>4. /\ o \in 0 .. 1 /\ (o > 0 => label.odd > 0)
      /\ o = 0 /\ label.count <= bounds.values => first.label[Labels!Key].odd = 0
      /\ bounds.values \in Nat /\ label.count \in Nat
  BY <1>0, OddSeenIs
<1>5. PICK partial \in BOOLEAN :
        /\ ~ partial => label.count <= bounds.values
        /\ Labels!Become(u(partial, o), Labels!Counted(named(partial), s))
  <2>1. part_of(warned) \in BOOLEAN /\ (~ part_of(warned) => label.count <= bounds.values)
    BY <1>4
  <2> HIDE DEF u, named, s, part_of
  <2> QED
    BY <1>1, <2>1
<1> DEFINE t == u(partial, o)
<1>6. /\ t \in TaskType /\ t.pc = "keys" /\ t.kept = task.kept /\ t.counts = task.counts
      /\ t.at = task.at + 1 /\ t.truncated = task.truncated /\ t.odd = task.odd + o
      /\ t.partial = (task.partial \/ partial)
      /\ t.overflow = task.overflow /\ t.failure = task.failure /\ task.odd \in Nat
  <2> DEFINE a == task.at + 1
             b == task.odd + o
             d == task.successful \/ Labels!Key # "__name__"
             e == task.partial \/ partial
  <2>1. a \in Nat \ {0} /\ b \in Nat /\ task.odd \in Nat /\ d \in BOOLEAN /\ e \in BOOLEAN
    BY <1>2, <1>4 DEF TaskType
  <2>2. t = [task EXCEPT !.at = a, !.successful = d, !.partial = e, !.odd = b]
        /\ a = task.at + 1 /\ b = task.odd + o
    OBVIOUS
  <2> HIDE DEF a, b, d, t
  <2>3. /\ t \in TaskType /\ t.pc = "keys" /\ t.kept = task.kept /\ t.counts = task.counts
        /\ t.at = task.at + 1 /\ t.truncated = task.truncated /\ t.odd = task.odd + o /\ t.partial = e
        /\ t.overflow = task.overflow /\ t.failure = task.failure /\ task.odd \in Nat
    <3> HIDE DEF e
    <3> QED
      BY <1>2, <2>1, <2>2 DEF TaskType
  <2> QED
    BY <2>3
<1>7. /\ s \in SampleType /\ s.value = label.count /\ s.population = IF label.big THEN "big" ELSE "small"
  <2> DEFINE n == IF label.big THEN "big" ELSE "small"
  <2>1. n \in {"none", "small", "big"}
    OBVIOUS
  <2> HIDE DEF n
  <2>2. s = Labels!Sample(label.count, TRUE, n)
    BY DEF n
  <2>3. s \in SampleType /\ s.value = label.count /\ s.population = n
    <3> DEFINE k == label.count
    <3>1. k \in Nat /\ s = Labels!Sample(k, TRUE, n)
      BY <1>4, <2>2
    <3> HIDE DEF s, k, label
    <3>2. s \in SampleType /\ s.value = k /\ s.population = n
      BY <2>1, <3>1 DEF Labels!Sample, SampleType
    <3> QED
      BY <3>2 DEF k
  <2> QED
    BY <2>3 DEF n
<1> DEFINE f == lowered(partial)
           y == x(partial)
           n == named(partial)
           p == Labels!Counted(n, s)
<1>8. Labels!Become(t, p)
  BY <1>5
<1> HIDE DEF s, u, t
<1>9. /\ f \in EnvelopeType /\ f.data = envelope.data /\ f.cut = envelope.cut /\ f.inputs = envelope.inputs
      /\ \/ f.state = "partial" /\ f.reason = "truncated"
         \/ f.state = envelope.state /\ f.reason = envelope.reason
  BY <1>2 DEF EnvelopeType
<1>10. /\ y \in InputType /\ y.samples = {Labels!Sample(world.series, ~ partial, "none")}
       /\ Tells("metric_series", y) /\ WellFormed(y)
  <2> DEFINE z == Labels!Sample(world.series, ~ partial, "none")
             whole == Labels!Whole(partial \/ task.truncated)
             why == Labels!Why(partial \/ task.truncated)
  <2>1. world.series \in Nat /\ first.series <= world.series /\ world.series <= world.series
    BY <1>0, WorldIs DEF LabelsTyped, LabelsInv, LabelsGrow, NoLess, LabelConstants
  <2>2. z \in SampleType /\ z.value = world.series
    <3> DEFINE k == ~ partial
    <3>1. k \in BOOLEAN
      OBVIOUS
    <3> HIDE DEF k
    <3> QED
      BY <2>1, <3>1, SampleIs DEF k
  <2>3. /\ task.truncated \in BOOLEAN
        /\ \/ whole = "partial" /\ why = "truncated"
           \/ whole = "complete" /\ why = "none" /\ ~ task.truncated
    BY <1>2 DEF TaskType, Labels!Whole, Labels!Why
  <2> HIDE DEF z, whole, why
  <2>4. y = [state |-> whole, reason |-> why, names |-> task.truncated, overflow |-> FALSE, samples |-> {z}]
    BY DEF Labels!Input, z, whole, why
  <2> HIDE DEF x, y
  <2>5. y \in InputType /\ y.state = whole /\ y.reason = why /\ y.names = task.truncated
        /\ y.overflow = FALSE /\ y.samples = {z}
    BY <2>2, <2>3, <2>4 DEF InputType
  <2>6. Tells("metric_series", y)
    BY <2>1, <2>2, <2>5 DEF Tells
  <2>7. WellFormed(y)
    BY <2>3, <2>5 DEF WellFormed, Labels!Coherent
  <2> QED
    BY <2>5, <2>6, <2>7 DEF z
<1> HIDE DEF lowered, f, x, y
<1>11. /\ n \in EnvelopeType /\ n.data = envelope.data /\ n.cut = envelope.cut
       /\ n.state = f.state /\ n.reason = f.reason
       /\ n.inputs = IF Labels!Key # "__name__" THEN envelope.inputs
                     ELSE [envelope.inputs EXCEPT !["metric_series"] = y]
  <2>1. n = IF Labels!Key # "__name__" THEN f ELSE [f EXCEPT !.inputs["metric_series"] = y]
    BY DEF f, y
  <2> HIDE DEF n
  <2> QED
    BY <1>9, <1>10, <2>1 DEF EnvelopeType
<1>12. /\ n.inputs["distinct_values"] = Values
       /\ \A i \in Labels!Inputs \ {"metric_series"} : n.inputs[i] = envelope.inputs[i]
       /\ n.inputs["metric_series"] = envelope.inputs["metric_series"] \/ n.inputs["metric_series"] = y
  BY <1>2, <1>11 DEF EnvelopeType, Values, Labels!Inputs
<1> HIDE DEF n, named, label
<1>13. s.population = "big" => \E l \in Labels!Labels : s.value <= world.label[l].count /\ world.label[l].big
  BY <1>2, <1>4, <1>7 DEF label
<1>14. /\ p \in EnvelopeType
       /\ p.data = n.data /\ p.state = n.state /\ p.reason = n.reason /\ p.cut = n.cut
       /\ p.inputs["distinct_values"].samples = Values.samples \cup {s}
       /\ p.inputs["distinct_values"].state = Values.state
       /\ \A i \in Labels!Inputs \ {"distinct_values"} : p.inputs[i] = n.inputs[i]
       /\ Tells("distinct_values", p.inputs["distinct_values"])
       /\ WellFormed(p.inputs["distinct_values"])
  BY <1>0, <1>7, <1>11, <1>12, <1>13, CountedIs
<1> HIDE DEF p
<1>15. \A i \in Labels!Inputs :
           p.inputs[i] = envelope.inputs[i] \/ (Tells(i, p.inputs[i]) /\ WellFormed(p.inputs[i]))
  BY <1>10, <1>12, <1>14
<1>16. Labels!Coherent(p) /\ p.state # "unavailable" /\ (envelope.state = "partial" => p.state = "partial")
  BY <1>0, <1>2, <1>9, <1>11, <1>14 DEF LabelsForm, Labels!Coherent
<1>17. Covers(Labels!Key, p.inputs["distinct_values"].samples)
  BY <1>2, <1>4, <1>7, <1>14 DEF Covers, Labels!Label
<1>18. /\ t.odd \in task.odd .. task.odd + 1 /\ (t.odd > task.odd => world.label[Labels!Key].odd > 0)
       /\ (task.partial => t.partial)
       /\ (t.overflow => t.failure # "none")
       /\ (~ t.partial /\ t.failure = "none" /\ t.odd = task.odd => first.label[Labels!Key].odd = 0)
  <2>1. task.overflow => task.failure # "none"
    BY <1>0, <1>2 DEF LabelsRead
  <2>2. task.partial \in BOOLEAN
    BY <1>2 DEF TaskType
  <2> QED
    BY <1>4, <1>5, <1>6, <2>1, <2>2 DEF label
<1>19. /\ Values.samples \subseteq p.inputs["distinct_values"].samples
       /\ p.inputs["distinct_values"].state = Values.state
       /\ p.data = envelope.data /\ p.cut = envelope.cut /\ p \in EnvelopeType
  BY <1>11, <1>14
<1> QED
  BY <1>0, <1>3, <1>6, <1>8, <1>15, <1>16, <1>17, <1>18, <1>19, KeysStep

\* What a step after the keys has to be.
LEMMA LaterStep ==
  ASSUME LabelConstants, LabelsInv, task.pc \notin {"names", "done"}, envelope.data # "empty",
         NEW t \in TaskType, NEW p \in EnvelopeType, Labels!Become(t, p), misreads' \in 0 .. MaxMisreads,
         t.pc \in {"streams", "config", "spans", "fit", "done"},
         t.pc \in {"streams", "config"} => signal = "logs",
         t.pc = "spans" => signal = "traces",
         t.kept = task.kept, t.counts = task.counts, t.at = task.at, t.odd = task.odd,
         p.data # "empty", Labels!Coherent(p), p.state # "unavailable", p.cut => p.state = "partial",
         signal = "metrics" /\ p.inputs["distinct_values"].state = "complete" =>
           \A l \in Labels!There(first) : Covers(l, p.inputs["distinct_values"].samples),
         \A i \in Labels!Inputs :
           p.inputs[i] = envelope.inputs[i] \/ (Tells(i, p.inputs[i]) /\ WellFormed(p.inputs[i]))
  PROVE  LabelsInv'
<1>1. /\ LabelsTyped' /\ LabelsGrow' /\ task' = t /\ envelope' = p
      /\ signal' = signal /\ world' = world /\ first' = first
  <2>1. Len(t.counts) = Len(t.kept) /\ t.at <= Len(t.kept) + 1 /\ t.odd < t.at
    BY DEF LabelsInv, LabelsTyped
  <2> QED
    BY <2>1, BecomeKeeps
<1>2. LabelsTell' /\ \A i \in Labels!Inputs : WellFormed(envelope'.inputs[i])
  BY <1>1, InputsKeep
<1>3. LabelsForm'
  BY <1>1, <1>2, FormKeeps
<1>4. LabelsRead'
  BY <1>1 DEF LabelsRead
<1>5. LabelsCovered'
  <2>1. \A l, S : Covers(l, S)' <=> Covers(l, S')
    BY <1>1 DEF Covers
  <2> QED
    BY <1>1 DEF LabelsCovered, Values, Covers, Labels!There
<1> QED
  BY <1>1, <1>2, <1>3, <1>4, <1>5 DEF LabelsInv

\* What has been read of all the keys.
LEMMA ShapesAre ==
  ASSUME LabelConstants, LabelsInv, task.pc = "keys", task.at > Len(task.kept)
  PROVE  LET q == Labels!Shapes(envelope) IN
         /\ q \in EnvelopeType
         /\ q.data = envelope.data /\ q.state = envelope.state /\ q.reason = envelope.reason
         /\ q.cut = envelope.cut
         /\ \A i \in Labels!Inputs \ {"shape_count"} : q.inputs[i] = envelope.inputs[i]
         /\ \/ q.inputs["shape_count"] = envelope.inputs["shape_count"]
            \/ Tells("shape_count", q.inputs["shape_count"]) /\ WellFormed(q.inputs["shape_count"])
<1>0. /\ LabelsTyped /\ LabelsRead /\ LabelsGrow /\ task \in TaskType /\ envelope \in EnvelopeType
      /\ "shape_count" \in Labels!Inputs
  BY DEF LabelsInv, LabelsTyped, Labels!Inputs
<1> DEFINE partial == task.partial \/ task.failure # "none"
           reason == IF task.overflow THEN "overflow" ELSE IF task.failure # "none" THEN task.failure
                     ELSE Labels!Why(partial)
           z == Labels!Sample(task.odd, ~ partial, "none")
           x == Labels!Input(Labels!Whole(partial), reason, task.truncated, task.overflow, {z})
           y == Labels!Input(Labels!StateOf(task.failure), task.failure, FALSE, task.overflow, {})
           q == Labels!Shapes(envelope)
<1>1. /\ task.odd \in Nat /\ task.truncated \in BOOLEAN /\ task.overflow \in BOOLEAN
      /\ task.partial \in BOOLEAN /\ task.failure \in Labels!Reasons \cup {"none"}
      /\ task.at \in Nat /\ task.kept \in Seq(Labels!Labels)
  BY <1>0 DEF TaskType
<1>2. /\ task.overflow => task.failure # "none"
      /\ task.truncated => task.partial
      /\ task.odd > 0 => \E l \in Labels!Labels : world.label[l].odd > 0
  BY <1>0 DEF LabelsRead
<1>3. ASSUME ~ partial, task.odd = 0
      PROVE  first.spans = 0 /\ \A l \in Labels!Labels : first.label[l].odd = 0
  <2>1. /\ \A l \in Labels!There(first) : \E i \in DOMAIN task.kept : task.kept[i] = l
        /\ \A i \in 1 .. task.at - 1 : first.label[task.kept[i]].odd = 0
        /\ signal = "metrics"
    BY <1>0, <1>2, <1>3 DEF LabelsRead
  <2>2. \A i \in DOMAIN task.kept : i \in 1 .. task.at - 1
    BY <1>1
  <2>3. \A l \in Labels!There(first) : first.label[l].odd = 0
    BY <2>1, <2>2
  <2>4. first.label \in [Labels!Labels -> Labels!Label] /\ first.spans \in 0 .. 1
    BY <1>0, WorldIs DEF LabelsTyped
  <2>5. ASSUME NEW l \in Labels!Labels, l \notin Labels!There(first) PROVE first.label[l].odd = 0
    <3>1. first.label[l] \in Labels!Label /\ ~ (first.label[l].count > 0)
      BY <2>4, <2>5 DEF Labels!There
    <3>2. first.label[l].odd \in 0 .. 1 /\ (first.label[l].odd > 0 => first.label[l].count > 0)
      BY <1>0, <3>1 DEF LabelsGrow, Sane, Labels!Label
    <3> QED
      BY <3>1, <3>2
  <2>6. first.spans = 0
    BY <1>0, <2>1 DEF LabelsGrow, Sane
  <2> QED
    BY <2>3, <2>5, <2>6
<1> HIDE DEF partial
<1>4. partial \in BOOLEAN /\ (task.partial => partial) /\ (task.failure # "none" => partial)
  BY <1>1 DEF partial
<1>5. z \in SampleType /\ z.value = task.odd
  <2> DEFINE k == ~ partial
  <2>1. k \in BOOLEAN
    OBVIOUS
  <2>2. z = Labels!Sample(task.odd, k, "none")
    OBVIOUS
  <2> HIDE DEF k, z
  <2> QED
    BY <1>1, <2>1, <2>2 DEF Labels!Sample, SampleType
<1> HIDE DEF z
<1>6. /\ x \in InputType /\ x.state = IF partial THEN "partial" ELSE "complete"
      /\ x.samples = {z} /\ WellFormed(x)
  <2> DEFINE w == Labels!Whole(partial)
  <2>1. /\ reason \in Labels!Reasons \cup {"none", "truncated"}
        /\ partial => reason # "none"
        /\ ~ partial => reason = "none"
        /\ task.overflow => reason = "overflow"
    BY <1>1, <1>2, <1>4 DEF Labels!Why, Labels!Reasons
  <2>2. w = IF partial THEN "partial" ELSE "complete"
    BY DEF Labels!Whole
  <2> HIDE DEF reason, w
  <2>3. x = [state |-> w, reason |-> reason, names |-> task.truncated, overflow |-> task.overflow, samples |-> {z}]
    BY DEF Labels!Input, w
  <2> HIDE DEF x
  <2>4. x \in InputType /\ x.state = w /\ x.reason = reason /\ x.names = task.truncated
        /\ x.overflow = task.overflow /\ x.samples = {z}
    BY <1>1, <1>5, <2>1, <2>2, <2>3 DEF InputType
  <2>5. WellFormed(x)
    BY <1>1, <1>2, <1>4, <2>1, <2>2, <2>4 DEF WellFormed, Labels!Coherent
  <2> QED
    BY <2>2, <2>4, <2>5
<1>7. Tells("shape_count", x)
  <2>1. x.state = "complete" => ~ partial
    BY <1>4, <1>6
  <2> QED
    BY <1>1, <1>2, <1>3, <1>5, <1>6, <2>1 DEF Tells, partial
<1>8. ASSUME task.failure # "none", ~ task.overflow
      PROVE  y \in InputType /\ y.samples = {} /\ WellFormed(y) /\ Tells("shape_count", y)
  <2>1. /\ task.failure \in Labels!Reasons
        /\ Labels!StateOf(task.failure) = IF task.failure \in {"deadline", "overflow"} THEN "partial" ELSE "unavailable"
    BY <1>1, <1>8 DEF Labels!StateOf, Labels!Cut
  <2>2. y = [state |-> Labels!StateOf(task.failure), reason |-> task.failure, names |-> FALSE,
             overflow |-> FALSE, samples |-> {}]
    BY <1>1, <1>8 DEF Labels!Input
  <2> HIDE DEF y
  <2>3. y \in InputType /\ y.state = Labels!StateOf(task.failure) /\ y.reason = task.failure
        /\ y.names = FALSE /\ y.overflow = FALSE /\ y.samples = {}
    BY <2>1, <2>2 DEF InputType
  <2>4. WellFormed(y)
    BY <2>1, <2>3 DEF WellFormed, Labels!Coherent, Labels!Reasons
  <2> QED
    BY <2>3, <2>4 DEF Tells
<1> HIDE DEF x, y
<1>9. q = IF task.successful \/ task.overflow THEN [envelope EXCEPT !.inputs["shape_count"] = x]
          ELSE IF task.failure = "none" THEN envelope
          ELSE [envelope EXCEPT !.inputs["shape_count"] = y]
  BY DEF Labels!Shapes, x, y, z, partial
<1> HIDE DEF q
<1>10. CASE task.successful \/ task.overflow
  <2>1. q = [envelope EXCEPT !.inputs["shape_count"] = x]
    BY <1>9, <1>10
  <2>2. /\ q \in EnvelopeType
        /\ q.data = envelope.data /\ q.state = envelope.state /\ q.reason = envelope.reason
        /\ q.cut = envelope.cut
        /\ \A i \in Labels!Inputs \ {"shape_count"} : q.inputs[i] = envelope.inputs[i]
        /\ q.inputs["shape_count"] = x
    BY <1>0, <1>6, <2>1 DEF EnvelopeType
  <2> QED
    BY <1>6, <1>7, <2>2 DEF q
<1>11. CASE ~ (task.successful \/ task.overflow) /\ task.failure = "none"
  <2>1. q = envelope
    BY <1>9, <1>11
  <2> QED
    BY <1>0, <2>1 DEF q
<1>12. CASE ~ (task.successful \/ task.overflow) /\ task.failure # "none"
  <2>1. q = [envelope EXCEPT !.inputs["shape_count"] = y]
    BY <1>9, <1>12
  <2>2. y \in InputType /\ WellFormed(y) /\ Tells("shape_count", y)
    BY <1>8, <1>12
  <2>3. /\ q \in EnvelopeType
        /\ q.data = envelope.data /\ q.state = envelope.state /\ q.reason = envelope.reason
        /\ q.cut = envelope.cut
        /\ \A i \in Labels!Inputs \ {"shape_count"} : q.inputs[i] = envelope.inputs[i]
        /\ q.inputs["shape_count"] = y
    BY <1>0, <2>1, <2>2 DEF EnvelopeType
  <2> QED
    BY <2>2, <2>3 DEF q
<1> QED
  BY <1>10, <1>11, <1>12

\* That some of the values were not read.
LEMMA DistinctIs ==
  ASSUME LabelConstants, LabelsInv, task.pc = "keys",
         NEW q \in EnvelopeType, q.inputs["distinct_values"] = Values
  PROVE  LET p == Labels!Distinct(q) IN
         /\ p \in EnvelopeType
         /\ p.data = q.data /\ p.state = q.state /\ p.reason = q.reason /\ p.cut = q.cut
         /\ \A i \in Labels!Inputs \ {"distinct_values"} : p.inputs[i] = q.inputs[i]
         /\ p.inputs["distinct_values"].state = "complete" => p.inputs["distinct_values"] = Values
         /\ \/ p.inputs["distinct_values"] = Values
            \/ Tells("distinct_values", p.inputs["distinct_values"]) /\ WellFormed(p.inputs["distinct_values"])
<1>0. /\ LabelsTyped /\ LabelsTell /\ task \in TaskType /\ envelope \in EnvelopeType
      /\ "distinct_values" \in Labels!Inputs
  BY DEF LabelsInv, LabelsTyped, Labels!Inputs
<1>1. Values \in InputType /\ Tells("distinct_values", Values)
      /\ task.overflow \in BOOLEAN /\ task.failure \in Labels!Reasons \cup {"none"}
  BY <1>0 DEF LabelsTell, EnvelopeType, Values, TaskType
<1> DEFINE why == IF task.overflow THEN "overflow"
                  ELSE IF task.failure # "none" THEN task.failure ELSE "truncated"
           v == [Values EXCEPT !.state = "partial", !.overflow = task.overflow, !.reason = why]
           p == Labels!Distinct(q)
<1>2. /\ why \in Labels!Reasons \cup {"truncated"} /\ why # "none"
      /\ task.overflow => why = "overflow"
  BY <1>1 DEF Labels!Reasons
<1> HIDE DEF why
<1>3. /\ v \in InputType /\ v.state = "partial" /\ v.overflow = task.overflow /\ v.reason = why
      /\ v.samples = Values.samples /\ v.names = Values.names
  BY <1>1, <1>2 DEF InputType
<1>4. p = q \/ p = [q EXCEPT !.inputs["distinct_values"] = v]
  BY <1>0 DEF Labels!Distinct, why, Values, EnvelopeType
<1> HIDE DEF v
<1>5. Tells("distinct_values", v) /\ WellFormed(v)
  BY <1>1, <1>2, <1>3 DEF Tells, WellFormed, Labels!Coherent
<1> HIDE DEF p
<1>6. CASE p = q
  BY <1>6 DEF p
<1>7. CASE p = [q EXCEPT !.inputs["distinct_values"] = v]
  <2>1. /\ p \in EnvelopeType
        /\ p.data = q.data /\ p.state = q.state /\ p.reason = q.reason /\ p.cut = q.cut
        /\ \A i \in Labels!Inputs \ {"distinct_values"} : p.inputs[i] = q.inputs[i]
        /\ p.inputs["distinct_values"] = v
    BY <1>0, <1>3, <1>7 DEF EnvelopeType
  <2> QED
    BY <1>3, <1>5, <2>1 DEF p
<1> QED
  BY <1>4, <1>6, <1>7

LEMMA KeysDoneKeeps ==
  ASSUME LabelConstants, LabelsInv, Labels!KeysDone PROVE LabelsInv'
<1> DEFINE t == [task EXCEPT !.pc = Labels!Further[signal]]
           q == Labels!Shapes(envelope)
           p == Labels!Distinct(q)
<1>0. /\ LabelsTyped /\ LabelsForm /\ LabelsRead /\ task.pc = "keys" /\ task.at > Len(task.kept)
      /\ misreads' = misreads /\ Labels!Become(t, p) /\ task \in TaskType
      /\ misreads' \in 0 .. MaxMisreads /\ signal \in {"metrics", "logs", "traces", "profiles"}
  BY DEF Labels!KeysDone, LabelsInv, LabelsTyped
<1>1. /\ q \in EnvelopeType
      /\ q.data = envelope.data /\ q.state = envelope.state /\ q.reason = envelope.reason
      /\ q.cut = envelope.cut
      /\ \A i \in Labels!Inputs \ {"shape_count"} : q.inputs[i] = envelope.inputs[i]
      /\ \/ q.inputs["shape_count"] = envelope.inputs["shape_count"]
         \/ Tells("shape_count", q.inputs["shape_count"]) /\ WellFormed(q.inputs["shape_count"])
  BY <1>0, ShapesAre
<1> HIDE DEF q
<1>2. "distinct_values" \in Labels!Inputs \ {"shape_count"}
  BY DEF Labels!Inputs
<1>3. q.inputs["distinct_values"] = Values
  BY <1>1, <1>2 DEF Values
<1>4. /\ p \in EnvelopeType
      /\ p.data = q.data /\ p.state = q.state /\ p.reason = q.reason /\ p.cut = q.cut
      /\ \A i \in Labels!Inputs \ {"distinct_values"} : p.inputs[i] = q.inputs[i]
      /\ p.inputs["distinct_values"].state = "complete" => p.inputs["distinct_values"] = Values
      /\ \/ p.inputs["distinct_values"] = Values
         \/ Tells("distinct_values", p.inputs["distinct_values"]) /\ WellFormed(p.inputs["distinct_values"])
  BY <1>0, <1>1, <1>3, DistinctIs
<1> HIDE DEF p
<1>5. /\ Labels!Further[signal] \in {"fit", "streams", "spans"}
      /\ Labels!Further[signal] = "streams" => signal = "logs"
      /\ Labels!Further[signal] = "spans" => signal = "traces"
  BY <1>0, FurtherIs
<1>6. /\ t \in TaskType /\ t.pc = Labels!Further[signal] /\ t.kept = task.kept /\ t.counts = task.counts
      /\ t.at = task.at /\ t.odd = task.odd
  BY <1>0, <1>5 DEF TaskType
<1> HIDE DEF t
<1>7. \A i \in Labels!Inputs :
           p.inputs[i] = envelope.inputs[i] \/ (Tells(i, p.inputs[i]) /\ WellFormed(p.inputs[i]))
  BY <1>1, <1>2, <1>4 DEF Values
<1>8. ASSUME signal = "metrics", p.inputs["distinct_values"].state = "complete"
      PROVE  \A l \in Labels!There(first) : Covers(l, p.inputs["distinct_values"].samples)
  <2>1. Values.state = "complete" /\ p.inputs["distinct_values"] = Values
    BY <1>4, <1>8
  <2>2. /\ \A l \in Labels!There(first) : \E i \in DOMAIN task.kept : task.kept[i] = l
        /\ \A i \in 1 .. task.at - 1 : Covers(task.kept[i], Values.samples)
    BY <1>0, <1>8, <2>1 DEF LabelsRead
  <2>3. \A i \in DOMAIN task.kept : i \in 1 .. task.at - 1
    BY <1>0 DEF TaskType
  <2> QED
    BY <2>1, <2>2, <2>3
<1>9. /\ envelope.data # "empty" /\ envelope.state # "unavailable" /\ Labels!Coherent(envelope)
      /\ envelope.cut => envelope.state = "partial"
  BY <1>0 DEF LabelsForm
<1>10. /\ p.data # "empty" /\ Labels!Coherent(p) /\ p.state # "unavailable"
       /\ p.cut => p.state = "partial"
  BY <1>1, <1>4, <1>9 DEF Labels!Coherent
<1> QED
  BY <1>0, <1>4, <1>5, <1>6, <1>7, <1>8, <1>9, <1>10, LaterStep

\* An input that was not read to its end, or whose names were not.
LEMMA PartIs ==
  ASSUME NEW state \in {"partial", "unavailable"}, NEW reason \in Labels!Reasons \cup {"truncated"}, NEW samples \in SUBSET SampleType,
         state = "unavailable" => reason \in {"missing_input", "deadline"}
  PROVE  LET x == Labels!Input(state, reason, FALSE, FALSE, samples) IN
         /\ x \in InputType /\ WellFormed(x)
         /\ x.state = state /\ x.samples = samples
<1> DEFINE x == Labels!Input(state, reason, FALSE, FALSE, samples)
<1>1. x = [state |-> state, reason |-> reason, names |-> FALSE, overflow |-> FALSE, samples |-> samples]
  BY DEF Labels!Input
<1> HIDE DEF x
<1>2. /\ x \in InputType /\ x.state = state /\ x.reason = reason /\ x.names = FALSE
      /\ x.overflow = FALSE /\ x.samples = samples
  BY <1>1 DEF InputType
<1>3. WellFormed(x)
  BY <1>2 DEF WellFormed, Labels!Coherent, Labels!Reasons
<1> QED
  BY <1>2, <1>3 DEF x

LEMMA NamesCut ==
  ASSUME NEW reason \in Labels!Reasons \cup {"truncated"}, NEW samples \in SUBSET SampleType
  PROVE  LET x == Labels!Input("partial", reason, TRUE, FALSE, samples) IN
         /\ x \in InputType /\ WellFormed(x)
         /\ x.state = "partial" /\ x.samples = samples
<1> DEFINE x == Labels!Input("partial", reason, TRUE, FALSE, samples)
<1>1. x = [state |-> "partial", reason |-> reason, names |-> TRUE, overflow |-> FALSE, samples |-> samples]
  BY DEF Labels!Input
<1> HIDE DEF x
<1>2. /\ x \in InputType /\ x.state = "partial" /\ x.reason = reason /\ x.names = TRUE
      /\ x.overflow = FALSE /\ x.samples = samples
  BY <1>1 DEF InputType
<1>3. WellFormed(x)
  BY <1>2 DEF WellFormed, Labels!Coherent, Labels!Reasons
<1> QED
  BY <1>2, <1>3 DEF x

\* An input of which nothing was read.
LEMMA PartlyIs ==
  ASSUME NEW reason, reason \in Labels!Reasons \cup {"truncated"}
  PROVE  LET x == Labels!Input("partial", reason, FALSE, FALSE, {}) IN
         x \in InputType /\ WellFormed(x) /\ x.state = "partial" /\ x.samples = {}
<1> DEFINE x == Labels!Input("partial", reason, FALSE, FALSE, {})
<1>1. x = [state |-> "partial", reason |-> reason, names |-> FALSE, overflow |-> FALSE, samples |-> {}]
  BY DEF Labels!Input
<1> HIDE DEF x
<1>2. /\ x \in InputType /\ x.state = "partial" /\ x.reason = reason /\ x.names = FALSE
      /\ x.overflow = FALSE /\ x.samples = {}
  BY <1>1 DEF InputType, Labels!Reasons
<1>3. WellFormed(x)
  BY <1>2 DEF WellFormed, Labels!Coherent, Labels!Reasons
<1> QED
  BY <1>2, <1>3 DEF x

LEMMA UnreadIs ==
  ASSUME NEW reason, reason \in {"missing_input", "deadline"}
  PROVE  LET x == Labels!Input("unavailable", reason, FALSE, FALSE, {}) IN
         x \in InputType /\ WellFormed(x) /\ x.state = "unavailable" /\ x.samples = {}
<1> DEFINE x == Labels!Input("unavailable", reason, FALSE, FALSE, {})
<1>1. x = [state |-> "unavailable", reason |-> reason, names |-> FALSE, overflow |-> FALSE, samples |-> {}]
  BY DEF Labels!Input
<1> HIDE DEF x
<1>2. /\ x \in InputType /\ x.state = "unavailable" /\ x.reason = reason /\ x.names = FALSE
      /\ x.overflow = FALSE /\ x.samples = {}
  BY <1>1 DEF InputType, Labels!Reasons
<1>3. WellFormed(x)
  BY <1>2 DEF WellFormed, Labels!Coherent, Labels!Reasons
<1> QED
  BY <1>2, <1>3 DEF x

\* The envelope, lowered.
LEMMA LowerIs ==
  ASSUME NEW q \in EnvelopeType, NEW reason \in Labels!Reasons \cup {"truncated"}
  PROVE  LET p == Labels!Lower(q, reason) IN
         /\ p \in EnvelopeType /\ p.data = q.data /\ p.cut = q.cut /\ p.inputs = q.inputs
         /\ p.state = "partial" /\ p.reason # "none"
<1> DEFINE why == IF q.reason \in Labels!Reasons THEN q.reason ELSE reason
           p == Labels!Lower(q, reason)
<1>1. why \in Labels!Reasons \cup {"truncated"} /\ why # "none"
  BY DEF Labels!Reasons
<1>2. p = [q EXCEPT !.state = "partial", !.reason = why]
  BY DEF Labels!Lower
<1> HIDE DEF why, p
<1>3. /\ p \in EnvelopeType /\ p.data = q.data /\ p.cut = q.cut /\ p.inputs = q.inputs
      /\ p.state = "partial" /\ p.reason = why
  BY <1>1, <1>2 DEF EnvelopeType
<1> QED
  BY <1>1, <1>3 DEF p

LEMMA SetInput ==
  ASSUME NEW q \in EnvelopeType, NEW i \in Labels!Inputs, NEW x \in InputType
  PROVE  LET p == [q EXCEPT !.inputs[i] = x] IN
         /\ p \in EnvelopeType /\ p.data = q.data /\ p.cut = q.cut /\ p.state = q.state /\ p.reason = q.reason
         /\ p.inputs[i] = x /\ \A j \in Labels!Inputs \ {i} : p.inputs[j] = q.inputs[j]
BY DEF EnvelopeType

\* The task goes on to something else.
LEMMA SetStage ==
  ASSUME NEW v \in TaskType, NEW pc \in {"names", "keys", "streams", "config", "spans", "fit", "done"}
  PROVE  LET t == [v EXCEPT !.pc = pc] IN
         /\ t \in TaskType /\ t.pc = pc /\ t.kept = v.kept /\ t.counts = v.counts
         /\ t.at = v.at /\ t.odd = v.odd
BY DEF TaskType

LEMMA StreamsKeep ==
  ASSUME LabelConstants, LabelsInv, Labels!Streams PROVE LabelsInv'
<1>0. /\ LabelsTyped /\ LabelsForm /\ task.pc = "streams" /\ signal = "logs" /\ task \in TaskType
      /\ envelope \in EnvelopeType /\ envelope.data # "empty" /\ misreads \in 0 .. MaxMisreads
      /\ "labels_per_stream" \in Labels!Inputs
  BY DEF LabelsInv, LabelsTyped, LabelsForm, Labels!Streams, Labels!Inputs
<1>1. CASE \E v \in {task, [task EXCEPT !.late = TRUE]}, reason \in Labels!Reasons :
             /\ Labels!Raises(v, reason)
             /\ LET why == IF reason = "overflow" THEN "truncated" ELSE reason
                    state == IF reason \in Labels!Cut THEN "partial" ELSE "unavailable"
                IN  Labels!Become([v EXCEPT !.pc = "config"],
                           [Labels!Lower(envelope, why) EXCEPT !.inputs["labels_per_stream"] =
                               Labels!Input(state, why, FALSE, FALSE, {})])
  <2> DEFINE whyOf(reason) == IF reason = "overflow" THEN "truncated" ELSE reason
             stateOf(reason) == IF reason \in Labels!Cut THEN "partial" ELSE "unavailable"
  <2>1. PICK v \in {task, [task EXCEPT !.late = TRUE]}, reason \in Labels!Reasons :
          /\ Labels!Raises(v, reason)
          /\ Labels!Become([v EXCEPT !.pc = "config"],
                 [Labels!Lower(envelope, whyOf(reason)) EXCEPT !.inputs["labels_per_stream"] =
                     Labels!Input(stateOf(reason), whyOf(reason), FALSE, FALSE, {})])
    BY <1>1
  <2> DEFINE why == whyOf(reason)
             state == stateOf(reason)
             x == Labels!Input(state, why, FALSE, FALSE, {})
             q == Labels!Lower(envelope, why)
             p == [q EXCEPT !.inputs["labels_per_stream"] = x]
             t == [v EXCEPT !.pc = "config"]
  <2>2. Labels!Become(t, p)
    BY <2>1
  <2>3. /\ why \in Labels!Reasons \cup {"truncated"} /\ state \in {"partial", "unavailable"}
        /\ state = "unavailable" => why \in {"missing_input", "deadline"}
    BY <2>1 DEF Labels!Reasons, Labels!Cut
  <2> HIDE DEF whyOf, stateOf, why, state
  <2>4. /\ v \in TaskType /\ v.pc = task.pc /\ v.kept = task.kept /\ v.counts = task.counts
        /\ v.at = task.at /\ v.odd = task.odd /\ misreads' \in 0 .. MaxMisreads
    BY <1>0, <2>1, RaisesIs
  <2>5. /\ x \in InputType /\ WellFormed(x) /\ x.state = state /\ x.samples = {}
    <3>1. CASE state = "partial"
      BY <2>3, <3>1, PartlyIs
    <3>2. CASE state = "unavailable"
      BY <2>3, <3>2, UnreadIs
    <3> QED
      BY <2>3, <3>1, <3>2
  <2> HIDE DEF x
  <2>6. /\ q \in EnvelopeType /\ q.data = envelope.data /\ q.inputs = envelope.inputs
        /\ q.state = "partial" /\ q.reason # "none"
    BY <1>0, <2>3, LowerIs
  <2> HIDE DEF q
  <2>7. /\ p \in EnvelopeType /\ p.data = envelope.data /\ p.state = "partial" /\ p.reason # "none"
        /\ p.inputs["labels_per_stream"] = x
        /\ \A j \in Labels!Inputs \ {"labels_per_stream"} : p.inputs[j] = envelope.inputs[j]
    BY <1>0, <2>5, <2>6, SetInput
  <2>8. /\ t \in TaskType /\ t.pc = "config" /\ t.kept = task.kept /\ t.counts = task.counts
        /\ t.at = task.at /\ t.odd = task.odd
    BY <2>4, SetStage
  <2> HIDE DEF p, t
  <2>9. Tells("labels_per_stream", x)
    BY <2>3, <2>5 DEF Tells
  <2>10. \A i \in Labels!Inputs :
           p.inputs[i] = envelope.inputs[i] \/ (Tells(i, p.inputs[i]) /\ WellFormed(p.inputs[i]))
    BY <2>5, <2>7, <2>9
  <2>11. Labels!Coherent(p) /\ p.state # "unavailable"
    BY <2>7 DEF Labels!Coherent
  <2> QED
    BY <1>0, <2>2, <2>4, <2>7, <2>8, <2>10, <2>11, LaterStep
<1>2. CASE /\ Labels!Answers
           /\ LET some == Labels!There(world) # {}
              IN  Labels!Become([task EXCEPT !.pc = "config"],
                         [Labels!Lower(envelope, "truncated") EXCEPT
                             !.data = IF some THEN "present" ELSE @,
                             !.inputs["labels_per_stream"] = Labels!Input("partial", "truncated", TRUE, FALSE,
                                 IF some THEN {Labels!Sample(world.wide, FALSE, "none")} ELSE {})])
  <2> DEFINE some == Labels!There(world) # {}
             z == Labels!Sample(world.wide, FALSE, "none")
             seen == IF some THEN {z} ELSE {}
             x == Labels!Input("partial", "truncated", TRUE, FALSE, seen)
             q == Labels!Lower(envelope, "truncated")
             d == IF some THEN "present" ELSE q.data
             p == [q EXCEPT !.data = d, !.inputs["labels_per_stream"] = x]
             t == [task EXCEPT !.pc = "config"]
  <2>1. Labels!Become(t, p) /\ misreads' = misreads
    BY <1>2 DEF Labels!Answers
  <2>2. world.wide \in Nat
    BY <1>0, WorldIs DEF LabelsTyped
  <2>3. z \in SampleType /\ z.value = world.wide
    BY <2>2, SampleIs
  <2> HIDE DEF z
  <2>4. seen \in SUBSET SampleType /\ \A y \in seen : y.value = world.wide
    BY <2>3
  <2> HIDE DEF seen
  <2>5. /\ x \in InputType /\ WellFormed(x) /\ x.state = "partial" /\ x.samples = seen
    BY <2>4, NamesCut
  <2> HIDE DEF x
  <2>6. /\ q \in EnvelopeType /\ q.data = envelope.data /\ q.inputs = envelope.inputs
        /\ q.state = "partial" /\ q.reason # "none"
    BY <1>0, LowerIs
  <2> HIDE DEF q
  <2>7. d \in {"present", "empty", "unknown"} /\ d # "empty"
    BY <1>0, <2>6 DEF EnvelopeType
  <2> HIDE DEF d, some
  <2>8. /\ p \in EnvelopeType /\ p.data = d /\ p.state = "partial" /\ p.reason # "none"
        /\ p.inputs["labels_per_stream"] = x
        /\ \A j \in Labels!Inputs \ {"labels_per_stream"} : p.inputs[j] = envelope.inputs[j]
    BY <1>0, <2>5, <2>6, <2>7 DEF EnvelopeType
  <2>9. /\ t \in TaskType /\ t.pc = "config" /\ t.kept = task.kept /\ t.counts = task.counts
        /\ t.at = task.at /\ t.odd = task.odd
    BY <1>0, SetStage
  <2> HIDE DEF p, t
  <2>10. Tells("labels_per_stream", x)
    BY <2>2, <2>4, <2>5 DEF Tells
  <2>11. \A i \in Labels!Inputs :
           p.inputs[i] = envelope.inputs[i] \/ (Tells(i, p.inputs[i]) /\ WellFormed(p.inputs[i]))
    BY <2>5, <2>8, <2>10
  <2>12. Labels!Coherent(p) /\ p.state # "unavailable"
    BY <2>8 DEF Labels!Coherent
  <2> QED
    BY <1>0, <2>1, <2>7, <2>8, <2>9, <2>11, <2>12, LaterStep
<1> QED
  BY <1>1, <1>2 DEF Labels!Streams

LEMMA ConfigKeeps ==
  ASSUME LabelConstants, LabelsInv, Labels!Config PROVE LabelsInv'
<1> DEFINE Set(q, x, y) == [q EXCEPT !.inputs["otlp_churn_labels"] = x, !.inputs["drilldown_missing"] = y]
<1>0. /\ LabelsTyped /\ LabelsForm /\ task.pc = "config" /\ signal = "logs" /\ task \in TaskType
      /\ envelope \in EnvelopeType /\ envelope.data # "empty" /\ envelope.state # "unavailable"
      /\ misreads \in 0 .. MaxMisreads
      /\ Labels!Coherent(envelope) /\ (envelope.cut => envelope.state = "partial")
      /\ "otlp_churn_labels" \in Labels!Inputs /\ "drilldown_missing" \in Labels!Inputs
  BY DEF LabelsInv, LabelsTyped, LabelsForm, Labels!Config, Labels!Inputs
<1>1. ASSUME NEW v \in TaskType, v.kept = task.kept, v.counts = task.counts, v.at = task.at, v.odd = task.odd,
             misreads' \in 0 .. MaxMisreads, NEW x \in InputType, NEW y \in InputType,
             Tells("otlp_churn_labels", x), WellFormed(x), Tells("drilldown_missing", y), WellFormed(y),
             Labels!Become([v EXCEPT !.pc = "fit"], Set(envelope, x, y))
      PROVE  LabelsInv'
  <2> DEFINE t == [v EXCEPT !.pc = "fit"]
             p == Set(envelope, x, y)
  <2>1. /\ t \in TaskType /\ t.pc = "fit" /\ t.kept = task.kept /\ t.counts = task.counts
        /\ t.at = task.at /\ t.odd = task.odd
    BY <1>1, SetStage
  <2>2. /\ p \in EnvelopeType /\ p.data = envelope.data /\ p.state = envelope.state /\ p.reason = envelope.reason
        /\ p.cut = envelope.cut
        /\ p.inputs["otlp_churn_labels"] = x /\ p.inputs["drilldown_missing"] = y
        /\ \A j \in Labels!Inputs \ {"otlp_churn_labels", "drilldown_missing"} : p.inputs[j] = envelope.inputs[j]
    BY <1>0, <1>1 DEF EnvelopeType
  <2>3. Labels!Become(t, p)
    BY <1>1
  <2> HIDE DEF t, p, Set
  <2>4. Labels!Coherent(p)
    BY <1>0, <2>2 DEF Labels!Coherent
  <2>5. \A i \in Labels!Inputs :
           p.inputs[i] = envelope.inputs[i] \/ (Tells(i, p.inputs[i]) /\ WellFormed(p.inputs[i]))
    BY <1>1, <2>2
  <2> QED
    BY <1>0, <1>1, <2>1, <2>2, <2>3, <2>4, <2>5, LaterStep
<1>2. /\ Labels!Missing \in InputType /\ WellFormed(Labels!Missing)
      /\ Tells("otlp_churn_labels", Labels!Missing) /\ Tells("drilldown_missing", Labels!Missing)
  BY MissingIs DEF Tells
<1>3. CASE \E v \in {task, [task EXCEPT !.late = TRUE]}, reason \in Labels!Reasons :
             /\ Labels!Raises(v, reason)
             /\ LET input == IF reason = "deadline" THEN Labels!Input("partial", "deadline", FALSE, FALSE, {})
                             ELSE Labels!Missing
                IN  Labels!Become([v EXCEPT !.pc = "fit"], Set(envelope, input, input))
  <2> DEFINE x(reason) == IF reason = "deadline" THEN Labels!Input("partial", "deadline", FALSE, FALSE, {})
                          ELSE Labels!Missing
  <2>1. PICK v \in {task, [task EXCEPT !.late = TRUE]}, reason \in Labels!Reasons :
          Labels!Raises(v, reason) /\ Labels!Become([v EXCEPT !.pc = "fit"], Set(envelope, x(reason), x(reason)))
    BY <1>3
  <2>2. /\ v \in TaskType /\ v.kept = task.kept /\ v.counts = task.counts
        /\ v.at = task.at /\ v.odd = task.odd /\ misreads' \in 0 .. MaxMisreads
    BY <1>0, <2>1, RaisesIs
  <2>3. /\ x(reason) \in InputType /\ WellFormed(x(reason))
        /\ Tells("otlp_churn_labels", x(reason)) /\ Tells("drilldown_missing", x(reason))
    <3> DEFINE y == Labels!Input("partial", "deadline", FALSE, FALSE, {})
    <3>1. y \in InputType /\ WellFormed(y) /\ y.state = "partial" /\ y.samples = {}
      BY PartlyIs DEF Labels!Reasons
    <3> HIDE DEF y
    <3>2. Tells("otlp_churn_labels", y) /\ Tells("drilldown_missing", y)
      BY <3>1 DEF Tells
    <3>3. x(reason) = y \/ x(reason) = Labels!Missing
      BY DEF y
    <3> QED
      BY <1>2, <3>1, <3>2, <3>3
  <2> HIDE DEF x, Set
  <2> QED
    BY <1>1, <2>1, <2>2, <2>3
<1>4. CASE /\ Labels!Answers
           /\ Labels!Become([task EXCEPT !.pc = "fit"],
                Set(envelope, IF world.risky = 0 THEN Labels!Missing
                              ELSE Labels!Input("partial", "truncated", FALSE, FALSE, {Labels!Sample(1, FALSE, "none")}),
                    Labels!Missing))
  <2> DEFINE z == Labels!Sample(1, FALSE, "none")
             y == Labels!Input("partial", "truncated", FALSE, FALSE, {z})
             x == IF world.risky = 0 THEN Labels!Missing ELSE y
  <2>1. misreads' \in 0 .. MaxMisreads /\ Labels!Become([task EXCEPT !.pc = "fit"], Set(envelope, x, Labels!Missing))
    BY <1>0, <1>4 DEF Labels!Answers
  <2>2. world.risky \in 0 .. 1
    BY <1>0, WorldIs DEF LabelsTyped
  <2>3. z \in SampleType
    BY SampleIs
  <2> HIDE DEF z
  <2>4. y \in InputType /\ WellFormed(y) /\ y.state = "partial"
    <3> DEFINE seen == {z}
    <3>1. seen \in SUBSET SampleType /\ y = Labels!Input("partial", "truncated", FALSE, FALSE, seen)
      BY <2>3
    <3> HIDE DEF seen, y
    <3> QED
      BY <3>1, PartIs
  <2>5. /\ x \in InputType /\ WellFormed(x)
        /\ x.state # "complete" /\ (x.samples = {} \/ world.risky > 0)
    <3> HIDE DEF y
    <3> QED
      BY <2>2, <2>4, MissingIs
  <2> HIDE DEF x
  <2>6. Tells("otlp_churn_labels", x)
    BY <2>5 DEF Tells
  <2> HIDE DEF Set
  <2> QED
    BY <1>0, <1>1, <1>2, <2>1, <2>5, <2>6
<1> QED
  BY <1>3, <1>4 DEF Labels!Config

LEMMA SpansKeep ==
  ASSUME LabelConstants, LabelsInv, Labels!Spans PROVE LabelsInv'
<1> DEFINE shape == IF envelope.inputs["shape_count"] = Labels!NoInput THEN Labels!Missing
                    ELSE envelope.inputs["shape_count"]
           seen == {s.value : s \in shape.samples}
<1>0. /\ LabelsTyped /\ LabelsForm /\ LabelsTell /\ task.pc = "spans" /\ signal = "traces" /\ task \in TaskType
      /\ envelope \in EnvelopeType /\ envelope.data # "empty" /\ misreads \in 0 .. MaxMisreads
      /\ "span_names" \in Labels!Inputs /\ "shape_count" \in Labels!Inputs
  BY DEF LabelsInv, LabelsTyped, LabelsForm, Labels!Spans, Labels!Inputs
<1>1. ASSUME NEW v \in TaskType, v.kept = task.kept, v.counts = task.counts, v.at = task.at, v.odd = task.odd,
             misreads' \in 0 .. MaxMisreads, NEW x \in InputType, NEW y \in InputType,
             WellFormed(x), Tells("shape_count", y), WellFormed(y),
             NEW p \in EnvelopeType, p.data # "empty", p.state = "partial", p.reason # "none",
             p.inputs["span_names"] = x, p.inputs["shape_count"] = y,
             \A j \in Labels!Inputs \ {"span_names", "shape_count"} : p.inputs[j] = envelope.inputs[j],
             Labels!Become([v EXCEPT !.pc = "fit"], p)
      PROVE  LabelsInv'
  <2> DEFINE t == [v EXCEPT !.pc = "fit"]
  <2>1. /\ t \in TaskType /\ t.pc = "fit" /\ t.kept = task.kept /\ t.counts = task.counts
        /\ t.at = task.at /\ t.odd = task.odd
    BY <1>1, SetStage
  <2>2. Labels!Become(t, p)
    BY <1>1
  <2> HIDE DEF t
  <2>3. Labels!Coherent(p) /\ p.state # "unavailable"
    BY <1>1 DEF Labels!Coherent
  <2>4. Tells("span_names", x)
    BY DEF Tells
  <2>5. \A i \in Labels!Inputs :
           p.inputs[i] = envelope.inputs[i] \/ (Tells(i, p.inputs[i]) /\ WellFormed(p.inputs[i]))
    BY <1>1, <2>4
  <2> QED
    BY <1>0, <1>1, <2>1, <2>2, <2>3, <2>5, LaterStep
<1>2. /\ shape \in InputType /\ WellFormed(shape)
      /\ \A s \in shape.samples :
           s.value > 0 => world.spans > 0 \/ \E l \in Labels!Labels : world.label[l].odd > 0
  <2>1. /\ envelope.inputs["shape_count"] \in InputType /\ WellFormed(envelope.inputs["shape_count"])
        /\ Tells("shape_count", envelope.inputs["shape_count"])
    BY <1>0 DEF LabelsForm, LabelsTell, EnvelopeType
  <2> QED
    BY <2>1, MissingIs DEF Tells
<1>3. /\ shape.state \in {"none", "complete", "partial", "unavailable"}
      /\ shape.reason \in Labels!Reasons \cup {"none", "truncated"} /\ shape.names \in BOOLEAN
      /\ shape.overflow \in BOOLEAN /\ shape.samples \in SUBSET SampleType
  BY <1>2 DEF InputType
<1>4. CASE \E v \in {task, [task EXCEPT !.late = TRUE]}, reason \in Labels!Reasons :
               /\ Labels!Raises(v, reason)
               /\ LET overflow == shape.overflow \/ reason = "overflow"
                      why == IF overflow THEN "overflow" ELSE reason
                  IN  Labels!Become([v EXCEPT !.pc = "fit"],
                             [envelope EXCEPT
                                 !.state = "partial", !.reason = why,
                                 !.inputs["span_names"] =
                                     Labels!Input(Labels!StateOf(reason), reason, FALSE, reason = "overflow", {}),
                                 !.inputs["shape_count"] =
                                     [shape EXCEPT !.state = "partial", !.reason = why, !.overflow = overflow]])
  <2> DEFINE over(reason) == shape.overflow \/ reason = "overflow"
             whyOf(reason) == IF over(reason) THEN "overflow" ELSE reason
  <2>1. PICK v \in {task, [task EXCEPT !.late = TRUE]}, reason \in Labels!Reasons :
               /\ Labels!Raises(v, reason)
               /\ Labels!Become([v EXCEPT !.pc = "fit"],
                             [envelope EXCEPT
                                 !.state = "partial", !.reason = whyOf(reason),
                                 !.inputs["span_names"] =
                                     Labels!Input(Labels!StateOf(reason), reason, FALSE, reason = "overflow", {}),
                                 !.inputs["shape_count"] =
                                     [shape EXCEPT !.state = "partial", !.reason = whyOf(reason),
                                                   !.overflow = over(reason)]])
    BY <1>4
  <2> DEFINE overflow == over(reason)
             why == whyOf(reason)
             state == Labels!StateOf(reason)
             large == reason = "overflow"
             x == Labels!Input(state, reason, FALSE, large, {})
             y == [shape EXCEPT !.state = "partial", !.reason = why, !.overflow = overflow]
             p == [envelope EXCEPT !.state = "partial", !.reason = why, !.inputs["span_names"] = x,
                                   !.inputs["shape_count"] = y]
  <2>2. Labels!Become([v EXCEPT !.pc = "fit"], p)
    BY <2>1
  <2>3. /\ v \in TaskType /\ v.kept = task.kept /\ v.counts = task.counts
        /\ v.at = task.at /\ v.odd = task.odd /\ misreads' \in 0 .. MaxMisreads
    BY <1>0, <2>1, RaisesIs
  <2>4. /\ overflow \in BOOLEAN /\ why \in Labels!Reasons /\ (overflow => why = "overflow")
    BY <1>3 DEF Labels!Reasons
  <2>5. /\ state \in {"partial", "unavailable"} /\ (reason = "overflow" => state = "partial")
        /\ state = "unavailable" => reason \in {"missing_input", "deadline"}
    BY DEF Labels!Reasons, Labels!StateOf, Labels!Cut
  <2>6. large \in BOOLEAN /\ (large <=> reason = "overflow")
    OBVIOUS
  <2> HIDE DEF shape, over, whyOf, overflow, why, state, large
  <2>7. x \in InputType /\ WellFormed(x)
    <3>1. x = [state |-> state, reason |-> reason, names |-> FALSE, overflow |-> large, samples |-> {}]
      BY DEF Labels!Input
    <3> HIDE DEF x
    <3>2. /\ x \in InputType /\ x.state = state /\ x.reason = reason /\ x.names = FALSE
          /\ x.overflow = large /\ x.samples = {}
      BY <2>5, <2>6, <3>1 DEF InputType
    <3> QED
      BY <2>5, <2>6, <3>2 DEF WellFormed, Labels!Coherent, Labels!Reasons
  <2>8. /\ y \in InputType /\ y.state = "partial" /\ y.reason = why /\ y.overflow = overflow
        /\ y.samples = shape.samples
    BY <1>2, <2>4 DEF InputType
  <2> HIDE DEF x, y
  <2>9. WellFormed(y)
    BY <2>4, <2>8 DEF WellFormed, Labels!Coherent, Labels!Reasons
  <2>10. Tells("shape_count", y)
    BY <1>2, <2>8 DEF Tells
  <2>11. /\ p \in EnvelopeType /\ p.data = envelope.data /\ p.state = "partial" /\ p.reason = why
         /\ p.inputs["span_names"] = x /\ p.inputs["shape_count"] = y
         /\ \A j \in Labels!Inputs \ {"span_names", "shape_count"} : p.inputs[j] = envelope.inputs[j]
    BY <1>0, <2>4, <2>7, <2>8 DEF EnvelopeType
  <2> HIDE DEF p
  <2>12. why # "none"
    BY <2>4 DEF Labels!Reasons
  <2> QED
    BY <1>0, <1>1, <2>2, <2>3, <2>7, <2>8, <2>9, <2>10, <2>11, <2>12
<1>5. CASE /\ Labels!Answers
           /\ LET why == IF shape.overflow THEN "overflow"
                         ELSE IF shape.reason \in {"deadline", "missing_input"} THEN shape.reason ELSE "truncated"
                  count == world.spans + IF seen = {} THEN 0 ELSE CHOOSE n \in seen : TRUE
                  full == Len(task.kept) >= Labels!Lesser(bounds.names, bounds.rows)
              IN  \E some \in {world.spans = 1, TRUE} :
                  Labels!Become([task EXCEPT !.pc = "fit"],
                         [Labels!Lower(envelope, "truncated") EXCEPT
                             !.data = IF some THEN "present" ELSE @, !.cut = @ \/ full,
                             !.inputs["span_names"] = Labels!Input("partial", "truncated", FALSE, FALSE,
                                 {Labels!Sample(IF some THEN 1 ELSE 0, FALSE, "none")}),
                             !.inputs["shape_count"] =
                                 Labels!Input("partial", why, shape.names, shape.overflow,
                                              {Labels!Sample(count, FALSE, "none")})])
  <2> DEFINE why == IF shape.overflow THEN "overflow"
                    ELSE IF shape.reason \in {"deadline", "missing_input"} THEN shape.reason ELSE "truncated"
             count == world.spans + IF seen = {} THEN 0 ELSE CHOOSE n \in seen : TRUE
             full == Len(task.kept) >= Labels!Lesser(bounds.names, bounds.rows)
             q == Labels!Lower(envelope, "truncated")
             zx(some) == Labels!Sample(IF some THEN 1 ELSE 0, FALSE, "none")
             xOf(some) == Labels!Input("partial", "truncated", FALSE, FALSE, {zx(some)})
             z == Labels!Sample(count, FALSE, "none")
             y == Labels!Input("partial", why, shape.names, shape.overflow, {z})
             pOf(some) == [q EXCEPT !.data = IF some THEN "present" ELSE @, !.cut = @ \/ full,
                                    !.inputs["span_names"] = xOf(some), !.inputs["shape_count"] = y]
  <2>1. /\ misreads' = misreads
        /\ \E some \in {world.spans = 1, TRUE} : Labels!Become([task EXCEPT !.pc = "fit"], pOf(some))
    BY <1>5 DEF Labels!Answers
  <2>2. PICK some \in {world.spans = 1, TRUE} : Labels!Become([task EXCEPT !.pc = "fit"], pOf(some))
    BY <2>1
  <2>3. world.spans \in 0 .. 1 /\ world.spans \in Nat
    BY <1>0, WorldIs DEF LabelsTyped
  <2>4. count \in Nat /\ (count > 0 => world.spans > 0 \/ \E l \in Labels!Labels : world.label[l].odd > 0)
    <3> HIDE DEF shape
    <3>1. CASE seen = {}
      BY <2>3, <3>1
    <3>2. CASE seen # {}
      <4>1. PICK n \in seen : n = CHOOSE m \in seen : TRUE
        BY <3>2
      <4>2. n \in Nat /\ (n > 0 => world.spans > 0 \/ \E l \in Labels!Labels : world.label[l].odd > 0)
        BY <1>2, <1>3 DEF SampleType
      <4>3. count = world.spans + n
        BY <3>2, <4>1
      <4> HIDE DEF count, seen
      <4> QED
        BY <2>3, <4>2, <4>3
    <3> QED
      BY <3>1, <3>2
  <2> HIDE DEF seen, count, full
  <2>5. why \in Labels!Reasons \cup {"truncated"} /\ why # "none" /\ (shape.overflow => why = "overflow")
    BY DEF Labels!Reasons
  <2>6. z \in SampleType /\ z.value = count
    BY <2>4, SampleIs
  <2>7. y \in InputType /\ WellFormed(y) /\ Tells("shape_count", y)
    <3>1. y = [state |-> "partial", reason |-> why, names |-> shape.names, overflow |-> shape.overflow,
               samples |-> {z}]
      BY DEF Labels!Input
    <3> HIDE DEF shape, y, why, z
    <3>2. /\ y \in InputType /\ y.state = "partial" /\ y.reason = why /\ y.overflow = shape.overflow
          /\ y.samples = {z}
      BY <1>3, <2>5, <2>6, <3>1 DEF InputType
    <3>3. WellFormed(y)
      BY <2>5, <3>2 DEF WellFormed, Labels!Coherent, Labels!Reasons
    <3>4. Tells("shape_count", y)
      BY <2>4, <2>6, <3>2 DEF Tells
    <3> QED
      BY <3>2, <3>3, <3>4
  <2> HIDE DEF shape, why, z, y
  <2>8. zx(some) \in SampleType
    BY SampleIs
  <2> HIDE DEF zx
  <2>9. xOf(some) \in InputType /\ WellFormed(xOf(some))
    <3> DEFINE those == {zx(some)}
               x == xOf(some)
    <3>1. those \in SUBSET SampleType /\ x = Labels!Input("partial", "truncated", FALSE, FALSE, those)
      BY <2>8
    <3> HIDE DEF those, x, xOf
    <3>2. x \in InputType /\ WellFormed(x)
      BY <3>1, PartIs
    <3> QED
      BY <3>2 DEF x
  <2> HIDE DEF xOf
  <2>10. /\ q \in EnvelopeType /\ q.data = envelope.data /\ q.inputs = envelope.inputs
         /\ q.state = "partial" /\ q.reason # "none"
    BY <1>0, LowerIs
  <2> HIDE DEF q
  <2>11. /\ pOf(some) \in EnvelopeType /\ pOf(some).data # "empty" /\ pOf(some).state = "partial"
         /\ pOf(some).reason # "none"
         /\ pOf(some).inputs["span_names"] = xOf(some) /\ pOf(some).inputs["shape_count"] = y
         /\ \A j \in Labels!Inputs \ {"span_names", "shape_count"} : pOf(some).inputs[j] = envelope.inputs[j]
    <3> DEFINE d == IF some THEN "present" ELSE q.data
               c == q.cut \/ full
    <3>1. pOf(some) = [q EXCEPT !.data = d, !.cut = c, !.inputs["span_names"] = xOf(some),
                                !.inputs["shape_count"] = y]
      OBVIOUS
    <3>2. d \in {"present", "unknown"}
      BY <1>0, <2>10 DEF EnvelopeType
    <3>3. c \in BOOLEAN
      OBVIOUS
    <3> DEFINE x == xOf(some)
               p == pOf(some)
    <3>4. x \in InputType /\ y \in InputType /\ q \in EnvelopeType
      BY <2>7, <2>9, <2>10
    <3>5. p = [q EXCEPT !.data = d, !.cut = c, !.inputs["span_names"] = x, !.inputs["shape_count"] = y]
      BY <3>1
    <3> HIDE DEF d, c, x, p
    <3>6. /\ p \in EnvelopeType /\ p.data = d /\ p.state = q.state /\ p.reason = q.reason
          /\ p.inputs["span_names"] = x /\ p.inputs["shape_count"] = y
          /\ \A j \in Labels!Inputs \ {"span_names", "shape_count"} : p.inputs[j] = q.inputs[j]
      BY <1>0, <3>2, <3>3, <3>4, <3>5 DEF EnvelopeType
    <3>7. /\ p \in EnvelopeType /\ p.data # "empty" /\ p.state = "partial" /\ p.reason # "none"
          /\ p.inputs["span_names"] = x /\ p.inputs["shape_count"] = y
          /\ \A j \in Labels!Inputs \ {"span_names", "shape_count"} : p.inputs[j] = envelope.inputs[j]
      BY <2>10, <3>2, <3>6
    <3> HIDE DEF pOf
    <3> QED
      BY <3>7 DEF x, p
  <2> HIDE DEF pOf
  <2> QED
    BY <1>0, <1>1, <2>1, <2>2, <2>7, <2>9, <2>11
<1> QED
  BY <1>4, <1>5 DEF Labels!Spans

\* An input of a payload that was cut to fit.
LEMMA TrimmedIs ==
  ASSUME NEW i \in Labels!Inputs, NEW x \in InputType, WellFormed(x), Tells(i, x)
  PROVE  LET y == Labels!Trimmed(x) IN
         y \in InputType /\ WellFormed(y) /\ Tells(i, y) /\ y.state # "complete"
<1> DEFINE y == Labels!Trimmed(x)
<1>1. /\ x.state \in {"none", "complete", "partial", "unavailable"}
      /\ x.reason \in Labels!Reasons \cup {"none", "truncated"} /\ x.names \in BOOLEAN
      /\ x.overflow \in BOOLEAN /\ x.samples \in SUBSET SampleType
  BY DEF InputType
<1>2. CASE x.state \in {"none", "unavailable"}
  BY <1>2 DEF Labels!Trimmed
<1>3. CASE x.state \notin {"none", "unavailable"}
  <2> DEFINE why == IF x.reason \in Labels!Reasons THEN x.reason ELSE "truncated"
  <2>1. why \in Labels!Reasons \cup {"truncated"} /\ why # "none" /\ (x.reason = "overflow" => why = "overflow")
    BY DEF Labels!Reasons
  <2>2. y = [[x EXCEPT !.state = "partial", !.reason = why] EXCEPT !.names = TRUE]
    BY <1>3 DEF Labels!Trimmed, Labels!Lower
  <2> HIDE DEF why, y
  <2>3. /\ y \in InputType /\ y.state = "partial" /\ y.reason = why /\ y.names = TRUE
        /\ y.overflow = x.overflow /\ y.samples = x.samples
    BY <2>1, <2>2 DEF InputType
  <2>4. WellFormed(y)
    BY <1>3, <2>1, <2>3 DEF WellFormed, Labels!Coherent, Labels!Reasons
  <2>5. Tells(i, y)
    BY <2>3 DEF Tells
  <2> QED
    BY <2>3, <2>4, <2>5 DEF y
<1> QED
  BY <1>2, <1>3

LEMMA FitKeeps ==
  ASSUME LabelConstants, LabelsInv, Labels!Fit PROVE LabelsInv'
<1> DEFINE t == [task EXCEPT !.pc = "done"]
<1>0. /\ LabelsTyped /\ LabelsForm /\ LabelsTell /\ LabelsCovered /\ task.pc = "fit" /\ task \in TaskType
      /\ envelope \in EnvelopeType /\ misreads \in 0 .. MaxMisreads /\ MaxMisreads \in Nat
  BY DEF LabelsInv, LabelsTyped, Labels!Fit, LabelConstants
<1>1. /\ t \in TaskType /\ t.pc = "done" /\ t.kept = task.kept /\ t.counts = task.counts
      /\ t.at = task.at /\ t.odd = task.odd
  BY <1>0, SetStage
<1>2. CASE UNCHANGED misreads /\ Labels!Become(t, envelope)
  <2>1. Labels!Become(t, envelope) /\ misreads' \in 0 .. MaxMisreads
    BY <1>0, <1>2
  <2> HIDE DEF t
  <2>2. Len(t.counts) = Len(t.kept) /\ t.at <= Len(t.kept) + 1 /\ t.odd < t.at
    BY <1>0, <1>1 DEF LabelsTyped
  <2>3. /\ LabelsTyped' /\ LabelsGrow' /\ task' = t /\ envelope' = envelope
        /\ signal' = signal /\ bounds' = bounds /\ world' = world /\ first' = first
    BY <1>0, <1>1, <2>1, <2>2, BecomeKeeps
  <2>4. LabelsTell' /\ \A i \in Labels!Inputs : WellFormed(envelope'.inputs[i])
    BY <2>3, InputsKeep
  <2>5. LabelsRead'
    BY <1>1, <2>3 DEF LabelsRead
  <2>6. LabelsCovered'
    BY <1>0, <1>1, <2>3 DEF LabelsCovered, Values, Covers, Labels!There
  <2>7. LabelsForm'
    BY <1>0, <1>1, <2>3 DEF LabelsForm, WellFormed, Labels!Coherent, Labels!There
  <2> QED
    BY <2>3, <2>4, <2>5, <2>6, <2>7 DEF LabelsInv
<1>3. CASE /\ task.kept # <<>> /\ misreads < MaxMisreads /\ misreads' = misreads + 1
           /\ Labels!Become(t, [Labels!Lower(envelope, "truncated") EXCEPT
                                   !.cut = TRUE,
                                   !.inputs = [i \in Labels!Inputs |-> Labels!Trimmed(envelope.inputs[i])]])
  <2> DEFINE q == Labels!Lower(envelope, "truncated")
             ins == [i \in Labels!Inputs |-> Labels!Trimmed(envelope.inputs[i])]
             p == [q EXCEPT !.cut = TRUE, !.inputs = ins]
  <2>1. Labels!Become(t, p) /\ misreads' \in 0 .. MaxMisreads /\ task.kept # <<>>
    BY <1>0, <1>3
  <2>2. envelope.data # "empty"
    BY <1>0, <2>1 DEF LabelsForm
  <2>3. /\ q \in EnvelopeType /\ q.data = envelope.data /\ q.state = "partial" /\ q.reason # "none"
    BY <1>0, LowerIs
  <2>4. ASSUME NEW i \in Labels!Inputs
        PROVE  /\ ins[i] \in InputType /\ WellFormed(ins[i]) /\ Tells(i, ins[i]) /\ ins[i].state # "complete"
    <3>1. /\ envelope.inputs[i] \in InputType /\ WellFormed(envelope.inputs[i]) /\ Tells(i, envelope.inputs[i])
      BY <1>0 DEF LabelsForm, LabelsTell, EnvelopeType
    <3>2. ins[i] = Labels!Trimmed(envelope.inputs[i])
      OBVIOUS
    <3> HIDE DEF ins
    <3> QED
      BY <3>1, <3>2, TrimmedIs
  <2>5. ins = [i \in Labels!Inputs |-> ins[i]]
    OBVIOUS
  <2>6. ins \in [Labels!Inputs -> InputType]
    <3> HIDE DEF ins
    <3> QED
      BY <2>4, <2>5
  <2> HIDE DEF q, ins, t
  <2>7. /\ p \in EnvelopeType /\ p.data = envelope.data /\ p.state = "partial" /\ p.reason # "none"
        /\ p.inputs = ins
    BY <2>3, <2>6 DEF EnvelopeType
  <2> HIDE DEF p
  <2>8. Labels!Coherent(p) /\ p.state # "unavailable"
    BY <2>7 DEF Labels!Coherent
  <2>9. \A i \in Labels!Inputs : Tells(i, p.inputs[i]) /\ WellFormed(p.inputs[i])
    BY <2>4, <2>7
  <2>10. p.inputs["distinct_values"].state # "complete"
    BY <2>4, <2>7 DEF Labels!Inputs
  <2> QED
    BY <1>0, <1>1, <2>1, <2>2, <2>7, <2>8, <2>9, <2>10, LaterStep
<1> QED
  BY <1>2, <1>3 DEF Labels!Fit

\* Every step of the measuring, and every step that leaves it alone.
LEMMA LabelsMoveKeeps ==
  ASSUME LabelConstants, LabelsInv, Labels!Next \/ UNCHANGED <<task, labelVars>> PROVE LabelsInv'
<1>1. CASE UNCHANGED <<task, labelVars>>
  <2>1. /\ signal' = signal /\ bounds' = bounds /\ world' = world /\ first' = first /\ task' = task
        /\ envelope' = envelope /\ misreads' = misreads /\ growth' = growth
    BY <1>1 DEF labelVars
  <2>2. LabelsTyped' /\ LabelsGrow'
    BY <2>1 DEF LabelsInv, LabelsTyped, LabelsGrow, NoLess, Sane
  <2>3. LabelsTell'
    BY <2>1 DEF LabelsInv, LabelsTell, Tells
  <2>4. LabelsRead' /\ LabelsCovered'
    BY <2>1 DEF LabelsInv, LabelsRead, LabelsCovered, Values, Covers, Labels!There
  <2>5. LabelsForm'
    BY <2>1 DEF LabelsInv, LabelsForm, WellFormed, Labels!Coherent, Labels!There
  <2> QED
    BY <2>2, <2>3, <2>4, <2>5 DEF LabelsInv
<1>2. CASE Labels!Next
  BY <1>2, GrowKeeps, NamesFailKeeps, ReadNamesKeeps, SkipKeyKeeps, KeyFailsKeeps, ValuesKeep, SeriesKeep,
     KeysDoneKeeps, StreamsKeep, ConfigKeeps, SpansKeep, FitKeeps DEF Labels!Next
<1> QED
  BY <1>1, <1>2

\* The rules of a signal.
LEMMA RulesAre ==
  ASSUME signal \in {"metrics", "logs", "traces", "profiles"}, NEW rule \in Labels!Rules[signal]
  PROVE  /\ rule.input \in Labels!Inputs
         /\ rule.input = "distinct_values" =>
              rule.warn = Warn /\ signal # "traces" /\ (rule.floor <=> signal # "profiles")
         /\ rule.input # "distinct_values" => ~ rule.floor
         /\ rule.input = "missing_identity" => rule.kind = "absence" /\ rule.warn = 1
         /\ rule.input \in {"shape_count", "labels_per_stream", "otlp_churn_labels"} => rule.warn = 1
         /\ rule.input = "metric_series" => rule.warn = Warn
<1>1. CASE signal = "metrics"
  BY <1>1 DEF Labels!Rules, Labels!Rule, Labels!Identity, Labels!Shape, Labels!Inputs
<1>2. CASE signal = "logs"
  BY <1>2 DEF Labels!Rules, Labels!Rule, Labels!Identity, Labels!Shape, Labels!Inputs
<1>3. CASE signal = "traces"
  BY <1>3 DEF Labels!Rules, Labels!Rule, Labels!Identity, Labels!Shape, Labels!Inputs
<1>4. CASE signal = "profiles"
  BY <1>4 DEF Labels!Rules, Labels!Rule, Labels!Identity, Labels!Shape, Labels!Inputs
<1> QED
  BY <1>1, <1>2, <1>3, <1>4

LEMMA ViolatedIs ==
  ASSUME NEW rule, NEW w
  PROVE  /\ rule.input = "distinct_values" =>
              (Labels!Violated(rule, w) <=>
                 \E l \in Labels!Labels : w.label[l].count >= rule.warn /\ (rule.floor => w.label[l].big))
         /\ rule.input = "missing_identity" =>
              (Labels!Violated(rule, w) <=> w.label["service_name"].count = 0)
         /\ rule.input = "shape_count" =>
              (Labels!Violated(rule, w) <=> w.spans > 0 \/ \E l \in Labels!Labels : w.label[l].odd > 0)
         /\ rule.input = "metric_series" => (Labels!Violated(rule, w) <=> w.series >= rule.warn)
         /\ rule.input = "labels_per_stream" => (Labels!Violated(rule, w) <=> w.wide > 0)
         /\ rule.input = "otlp_churn_labels" => (Labels!Violated(rule, w) <=> w.risky > 0)
         /\ rule.input = "drilldown_missing" => ~ Labels!Violated(rule, w)
<1>1. ASSUME rule.input = "distinct_values"
      PROVE  Labels!Violated(rule, w) <=>
                 \E l \in Labels!Labels : w.label[l].count >= rule.warn /\ (rule.floor => w.label[l].big)
  BY <1>1 DEF Labels!Violated
<1>2. ASSUME rule.input = "missing_identity"
      PROVE  Labels!Violated(rule, w) <=> w.label["service_name"].count = 0
  BY <1>2 DEF Labels!Violated
<1>3. ASSUME rule.input = "shape_count"
      PROVE  Labels!Violated(rule, w) <=> w.spans > 0 \/ \E l \in Labels!Labels : w.label[l].odd > 0
  BY <1>3 DEF Labels!Violated
<1>4. ASSUME rule.input = "metric_series"
      PROVE  Labels!Violated(rule, w) <=> w.series >= rule.warn
  BY <1>4 DEF Labels!Violated
<1>5. ASSUME rule.input = "labels_per_stream"
      PROVE  Labels!Violated(rule, w) <=> w.wide > 0
  BY <1>5 DEF Labels!Violated
<1>6. ASSUME rule.input = "otlp_churn_labels"
      PROVE  Labels!Violated(rule, w) <=> w.risky > 0
  BY <1>6 DEF Labels!Violated
<1>7. ASSUME rule.input = "drilldown_missing"
      PROVE  ~ Labels!Violated(rule, w)
  BY <1>7 DEF Labels!Violated
<1> QED
  BY <1>1, <1>2, <1>3, <1>4, <1>5, <1>6, <1>7

\* What the verdicts rest on.
LEMMA SeenIs ==
  ASSUME LabelConstants, LabelsInv, NEW rule \in Labels!Rules[signal]
  PROVE  LET x == envelope.inputs[rule.input] IN
         /\ x \in InputType /\ Tells(rule.input, x) /\ Labels!In(rule) = x
         /\ \A s \in x.samples : s.value \in Nat
         /\ world.label \in [Labels!Labels -> Labels!Label] /\ first.label \in [Labels!Labels -> Labels!Label]
         /\ world.spans \in Nat /\ first.spans \in Nat /\ world.series \in Nat /\ first.series \in Nat
         /\ world.wide \in Nat /\ world.risky \in Nat
         /\ Warn \in Nat /\ Warn >= 2 /\ MaxCount \in Nat
         /\ \A l \in Labels!Labels : world.label[l].count \in Nat /\ first.label[l].count \in Nat
                                     /\ world.label[l].odd \in Nat /\ first.label[l].odd \in Nat
<1>1. rule.input \in Labels!Inputs
  BY RulesAre DEF LabelsInv, LabelsTyped
<1>2. /\ envelope.inputs[rule.input] \in InputType /\ Tells(rule.input, envelope.inputs[rule.input])
  BY <1>1 DEF LabelsInv, LabelsTyped, LabelsTell, EnvelopeType
<1>3. \A s \in envelope.inputs[rule.input].samples : s.value \in Nat
  BY <1>2 DEF InputType, SampleType
<1>4. Warn \in Nat /\ Warn >= 2 /\ MaxCount \in Nat
  BY DEF LabelConstants
<1>5. /\ world.label \in [Labels!Labels -> Labels!Label] /\ first.label \in [Labels!Labels -> Labels!Label]
      /\ world.spans \in 0 .. 1 /\ first.spans \in 0 .. 1 /\ world.series \in 1 .. Warn /\ first.series \in 1 .. Warn
      /\ world.wide \in 0 .. 1 /\ world.risky \in 0 .. 1
  BY WorldIs DEF LabelsInv, LabelsTyped
<1>6. \A l \in Labels!Labels : world.label[l].count \in Nat /\ first.label[l].count \in Nat
                               /\ world.label[l].odd \in Nat /\ first.label[l].odd \in Nat
  BY <1>4, <1>5 DEF Labels!Label
<1> QED
  BY <1>2, <1>3, <1>4, <1>5, <1>6 DEF Labels!In

\* What has nothing against it, and nothing unseen, was not violated all the time.
LEMMA NothingMissed ==
  ASSUME LabelConstants, LabelsInv, task.pc = "done", NEW rule \in Labels!Rules[signal],
         ~ Labels!Unknown(rule), ~ Labels!Blind(rule), ~ Labels!Uncertain(rule), Labels!Violating(rule) = {}
  PROVE  ~ (Labels!Violated(rule, first) /\ Labels!Violated(rule, world))
<1> DEFINE x == envelope.inputs[rule.input]
<1>0. signal \in {"metrics", "logs", "traces", "profiles"}
  BY DEF LabelsInv, LabelsTyped
<1>1. /\ x \in InputType /\ Tells(rule.input, x) /\ Labels!In(rule) = x
      /\ \A s \in x.samples : s.value \in Nat
      /\ first.label \in [Labels!Labels -> Labels!Label]
      /\ first.series \in Nat /\ Warn \in Nat /\ Warn >= 2
      /\ \A l \in Labels!Labels : first.label[l].count \in Nat
  BY SeenIs
<1>2. x.state = "complete"
  BY <1>1 DEF Labels!Unknown, Labels!Uncertain, InputType
<1>3. /\ x.samples # {} /\ (rule.kind = "absence" => ~ x.names)
      /\ rule.floor => \A s \in x.samples : s.population # "none"
  BY <1>1 DEF Labels!Blind
<1>4. \A s \in x.samples : (rule.floor => s.population = "big") => ~ s.value >= rule.warn
  BY <1>1 DEF Labels!Violating, Labels!Eligible
<1>5. \A s \in x.samples : (rule.floor => s.population = "big") => s.exact
  BY <1>1, <1>4 DEF Labels!Uncertain, Labels!Violating, Labels!Eligible
<1> HIDE DEF x
<1>6. CASE rule.input = "distinct_values"
  <2>0. rule.warn = Warn /\ signal # "traces" /\ (rule.floor <=> signal # "profiles")
    BY <1>0, <1>6, RulesAre
  <2>1. CASE signal = "profiles"
    BY <1>1, <1>3, <1>5, <1>6, <2>0, <2>1 DEF Tells
  <2>2. CASE signal = "logs"
    BY <1>1, <1>3, <1>6, <2>0, <2>2 DEF Tells
  <2>3. CASE signal = "metrics"
    <3>1. \A l \in Labels!There(first) : Covers(l, x.samples)
      BY <1>2, <1>6, <2>3 DEF LabelsInv, LabelsCovered, Values, x
    <3>2. SUFFICES ASSUME NEW l \in Labels!Labels, first.label[l].count >= Warn, first.label[l].big PROVE FALSE
      BY <1>6, <2>0, <2>3, ViolatedIs
    <3>3. l \in Labels!There(first)
      BY <1>1, <3>2 DEF Labels!There
    <3>4. PICK s \in x.samples :
            s.population = "none" \/ (first.label[l].count <= s.value /\ (first.label[l].big => s.population = "big"))
      BY <3>1, <3>3 DEF Covers
    <3> QED
      BY <1>1, <1>3, <1>4, <2>0, <2>3, <3>2, <3>4
  <2> QED
    BY <1>0, <2>0, <2>1, <2>2, <2>3
<1>7. CASE rule.input = "missing_identity"
  <2>1. rule.warn = 1 /\ ~ rule.floor
    BY <1>0, <1>7, RulesAre
  <2>2. world.label["service_name"].count > 0
    BY <1>1, <1>3, <1>4, <1>7, <2>1 DEF Tells
  <2>3. world.label["service_name"].count \in Nat
    BY SeenIs, LabelsAre
  <2> QED
    BY <1>7, <2>2, <2>3, ViolatedIs
<1>8. CASE rule.input = "shape_count"
  <2>1. rule.warn = 1 /\ ~ rule.floor
    BY <1>0, <1>8, RulesAre
  <2>2. PICK s \in x.samples : s.value = 0
    BY <1>1, <1>3, <1>4, <2>1
  <2>3. first.spans = 0 /\ \A l \in Labels!Labels : first.label[l].odd = 0
    BY <1>1, <1>2, <1>8, <2>2 DEF Tells
  <2> QED
    BY <1>8, <2>3, ViolatedIs
<1>9. CASE rule.input = "metric_series"
  <2>1. rule.warn = Warn /\ ~ rule.floor
    BY <1>0, <1>9, RulesAre
  <2>2. PICK s \in x.samples : s.value \in Nat /\ s.value < Warn
    BY <1>1, <1>3, <1>4, <2>1
  <2>3. first.series <= s.value
    BY <1>1, <1>9, <2>2 DEF Tells
  <2> QED
    BY <1>1, <1>9, <2>1, <2>2, <2>3, ViolatedIs
<1>10. CASE rule.input \in {"labels_per_stream", "otlp_churn_labels"}
  BY <1>1, <1>2, <1>10 DEF Tells
<1>11. CASE rule.input = "drilldown_missing"
  BY <1>11, ViolatedIs
<1>12. CASE rule.input = "span_names"
  <2>1. rule.input # "span_names"
    BY <1>0 DEF Labels!Rules, Labels!Rule, Labels!Identity, Labels!Shape
  <2> QED
    BY <1>12, <2>1
<1> QED
  BY <1>0, <1>6, <1>7, <1>8, <1>9, <1>10, <1>11, <1>12, RulesAre DEF Labels!Inputs

\* What was seen to violate a rule did so in the beginning or does so now.
LEMMA NothingInvented ==
  ASSUME LabelConstants, LabelsInv, NEW rule \in Labels!Rules[signal],
         ~ Labels!Blind(rule), Labels!Violating(rule) # {}
  PROVE  Labels!Violated(rule, first) \/ Labels!Violated(rule, world)
<1> DEFINE x == envelope.inputs[rule.input]
<1>0. signal \in {"metrics", "logs", "traces", "profiles"}
  BY DEF LabelsInv, LabelsTyped
<1>1. /\ x \in InputType /\ Tells(rule.input, x) /\ Labels!In(rule) = x
      /\ \A s \in x.samples : s.value \in Nat
      /\ world.series \in Nat /\ world.wide \in Nat /\ world.risky \in Nat /\ Warn \in Nat /\ Warn >= 2
      /\ \A l \in Labels!Labels : world.label[l].count \in Nat
  BY SeenIs
<1>2. PICK s \in x.samples : (rule.floor => s.population = "big") /\ s.value >= rule.warn
  BY <1>1 DEF Labels!Violating, Labels!Eligible
<1>3. /\ rule.kind = "absence" => ~ x.names
      /\ rule.floor => s.population # "none"
  BY <1>1, <1>2 DEF Labels!Blind
<1>4. s.value \in Nat
  BY <1>1
<1> HIDE DEF x
<1>6. CASE rule.input = "distinct_values"
  <2>0. rule.warn = Warn /\ signal # "traces" /\ (rule.floor <=> signal # "profiles")
    BY <1>0, <1>6, RulesAre
  <2>1. PICK l \in Labels!Labels : s.value <= world.label[l].count /\ (rule.floor => world.label[l].big)
    BY <1>1, <1>2, <1>3, <1>6, <2>0 DEF Tells
  <2>2. world.label[l].count >= rule.warn
    BY <1>1, <1>2, <1>4, <2>0, <2>1
  <2> QED
    BY <1>6, <2>1, <2>2, ViolatedIs
<1>7. CASE rule.input = "missing_identity"
  <2>1. rule.warn = 1 /\ rule.kind = "absence"
    BY <1>0, <1>7, RulesAre
  <2>2. first.label["service_name"].count = 0
    BY <1>1, <1>2, <1>3, <1>4, <1>7, <2>1 DEF Tells
  <2> QED
    BY <1>7, <2>2, ViolatedIs
<1>8. CASE rule.input \in {"shape_count", "labels_per_stream", "otlp_churn_labels"}
  <2>1. rule.warn = 1 /\ s.value > 0
    BY <1>0, <1>2, <1>4, <1>8, RulesAre
  <2> QED
    BY <1>1, <1>2, <1>4, <1>8, <2>1, ViolatedIs DEF Tells
<1>9. CASE rule.input = "metric_series"
  <2>1. rule.warn = Warn
    BY <1>0, <1>9, RulesAre
  <2>2. s.value <= world.series
    BY <1>1, <1>9, <1>2 DEF Tells
  <2> QED
    BY <1>1, <1>2, <1>4, <1>9, <2>1, <2>2, ViolatedIs
<1>11. CASE rule.input = "drilldown_missing"
  BY <1>1, <1>2, <1>11 DEF Tells
<1>12. CASE rule.input = "span_names"
  <2>1. rule.input # "span_names"
    BY <1>0 DEF Labels!Rules, Labels!Rule, Labels!Identity, Labels!Shape
  <2> QED
    BY <1>12, <2>1
<1> QED
  BY <1>0, <1>6, <1>7, <1>8, <1>9, <1>11, <1>12, RulesAre DEF Labels!Inputs

LEMMA VerdictsFollow ==
  ASSUME LabelConstants, LabelsInv PROVE Labels!VerdictsAreSound
<1> SUFFICES ASSUME task.pc = "done"
    PROVE  /\ \A rule \in Labels!Rules[signal] :
               /\ Labels!Verdict(rule) = "pass" => ~ (Labels!Violated(rule, first) /\ Labels!Violated(rule, world))
               /\ Labels!Verdict(rule) = "not_applicable" =>
                      Labels!There(first) = {} \/ ~ (Labels!Violated(rule, first) /\ Labels!Violated(rule, world))
               /\ Labels!Verdict(rule) = "fail" =>
                      Labels!In(rule).overflow \/ Labels!Violated(rule, first) \/ Labels!Violated(rule, world)
           /\ Labels!Accepted
  BY DEF Labels!VerdictsAreSound
<1>1. Labels!Accepted
  <2>1. LabelsForm
    BY DEF LabelsInv
  <2>2. Labels!NoInput.state = "none" /\ Labels!NoInput.samples = {}
    BY MissingIs
  <2> QED
    BY <2>1, <2>2 DEF LabelsForm, Labels!Accepted, WellFormed
<1>2. ASSUME NEW rule \in Labels!Rules[signal]
      PROVE  /\ Labels!Verdict(rule) = "pass" => ~ (Labels!Violated(rule, first) /\ Labels!Violated(rule, world))
             /\ Labels!Verdict(rule) = "not_applicable" =>
                    Labels!There(first) = {} \/ ~ (Labels!Violated(rule, first) /\ Labels!Violated(rule, world))
             /\ Labels!Verdict(rule) = "fail" =>
                    Labels!In(rule).overflow \/ Labels!Violated(rule, first) \/ Labels!Violated(rule, world)
  <2>1. ASSUME Labels!Verdict(rule) \in {"pass", "not_applicable"}, envelope.data # "empty"
        PROVE  ~ (Labels!Violated(rule, first) /\ Labels!Violated(rule, world))
    <3>1. /\ ~ Labels!Unknown(rule) /\ ~ Labels!Blind(rule) /\ ~ Labels!Uncertain(rule)
          /\ Labels!Violating(rule) = {}
      BY <2>1 DEF Labels!Verdict
    <3> QED
      BY <3>1, NothingMissed
  <2>2. Labels!Verdict(rule) = "pass" => envelope.data # "empty"
    BY DEF Labels!Verdict
  <2>3. envelope.data = "empty" => Labels!There(first) = {}
    BY DEF LabelsInv, LabelsForm
  <2>4. Labels!Verdict(rule) = "fail" =>
          Labels!In(rule).overflow \/ (~ Labels!Blind(rule) /\ Labels!Violating(rule) # {})
    BY DEF Labels!Verdict
  <2> QED
    BY <2>1, <2>2, <2>3, <2>4, NothingInvented
<1> QED
  BY <1>1, <1>2

LEMMA LabelsTypeFollows ==
  ASSUME LabelConstants, LabelsInv PROVE Labels!TypeOK
<1>1. /\ LabelsTyped /\ task \in TaskType /\ envelope \in EnvelopeType
      /\ signal \in {"metrics", "logs", "traces", "profiles"}
  BY DEF LabelsInv, LabelsTyped
<1>2. /\ task.pc \in {"names", "keys", "streams", "config", "spans", "fit", "done"}
      /\ task.at \in 1 .. Len(task.kept) + 1 /\ task.odd \in 0 .. Len(task.kept)
      /\ task.counts \in Seq(Nat) /\ task.failure \in Labels!Reasons \cup {"none"}
  <2>1. /\ task.pc \in {"names", "keys", "streams", "config", "spans", "fit", "done"}
        /\ task.kept \in Seq(Labels!Labels) /\ task.counts \in Seq(Nat) /\ task.at \in Nat \ {0} /\ task.odd \in Nat
        /\ task.failure \in Labels!Reasons \cup {"none"}
    BY <1>1 DEF TaskType
  <2>2. task.at <= Len(task.kept) + 1 /\ task.odd < task.at /\ Len(task.kept) \in Nat
    BY <1>1, <2>1 DEF LabelsTyped
  <2> QED
    BY <2>1, <2>2
<1>3. ASSUME NEW i \in Labels!Inputs, NEW s \in envelope.inputs[i].samples
      PROVE  s.value \in Nat /\ s.exact \in BOOLEAN /\ s.population \in {"none", "small", "big"}
  <2>1. envelope.inputs[i] \in InputType
    BY <1>1 DEF EnvelopeType
  <2>2. s \in SampleType
    BY <2>1 DEF InputType
  <2> QED
    BY <2>2 DEF SampleType
<1>4. envelope.data \in {"present", "empty", "unknown"}
  BY <1>1 DEF EnvelopeType
<1> QED
  BY <1>1, <1>2, <1>3, <1>4, SignalsAre DEF Labels!TypeOK, LabelsTyped

-----------------------------------------------------------------------------
(* The readers of StackReads: what each makes of an answer.                    *)

\* The reasons that a reader gives; none of them is that there is no credential.
ReadFaults ==
  {"transport_error", "unreadable", "invalid_response", "unsafe_schema", "invalid_schema", "no_datasource",
   "ambiguous", "invalid_uid", "checks_unreadable", "probes_unreadable"}
NotRead == {Views!No(x) : x \in ReadFaults}

\* The first check that applies gives the reason.
LEMMA FirstIs ==
  ASSUME NEW checks, NEW counted, NEW n \in Nat, DOMAIN checks = 1 .. n
  PROVE  \/ Views!FirstOf(checks, counted) = counted /\ \A i \in 1 .. n : ~checks[i][1]
         \/ \E i \in 1 .. n : checks[i][1] /\ Views!FirstOf(checks, counted) = Views!No(checks[i][2])
<1> DEFINE hits == {i \in 1 .. n : checks[i][1]}
<1>1. CASE hits = {}
  BY <1>1 DEF Views!FirstOf
<1>2. CASE hits # {}
  <2>1. PICK m \in hits : \A j \in hits : m <= j
    <3>1. hits \in SUBSET Nat
      OBVIOUS
    <3> HIDE DEF hits
    <3> QED
      BY <1>2, <3>1, LeastNumber
  <2>2. Views!Min(hits) \in hits
    BY <2>1 DEF Views!Min
  <2> QED
    BY <1>2, <2>2 DEF Views!FirstOf
<1> QED
  BY <1>1, <1>2

LEMMA FirstCheck ==
  ASSUME NEW checks, NEW counted, NEW n \in Nat, DOMAIN checks = 1 .. n,
         \A i \in 1 .. n : checks[i][2] \in ReadFaults
  PROVE  \/ Views!FirstOf(checks, counted) = counted /\ \A i \in 1 .. n : ~checks[i][1]
         \/ Views!FirstOf(checks, counted) \in NotRead
BY FirstIs DEF NotRead

LEMMA ReportsAre ==
  ASSUME NEW a, NEW read \in {Views!Reports(a), Views!Playlists(a)}
  PROVE  \/ read \in NotRead
         \/ /\ read = Views!Count(Views!Number(a), 0)
            /\ ~(Views!Lost(a))
            /\ ~(a.status # 200)
            /\ ~(Views!Garbled(a))
            /\ ~(~Views!Whole(a))
            /\ ~(Views!Unsafe(a))
            /\ ~(Views!Holds(a, {"blank", "scalar"}))
<1> DEFINE checks == <<
      <<Views!Lost(a), "transport_error">>, <<a.status # 200, "unreadable">>, <<Views!Garbled(a), "transport_error">>,
      <<~Views!Whole(a), "invalid_response">>, <<Views!Unsafe(a), "unsafe_schema">>,
      <<Views!Holds(a, {"blank", "scalar"}), "invalid_response">>>>
<1> DEFINE counted == Views!Count(Views!Number(a), 0)
<1>1. DOMAIN checks = 1 .. 6 /\ \A i \in 1 .. 6 : checks[i][2] \in ReadFaults
  BY DEF ReadFaults
<1>2. read = Views!FirstOf(checks, counted)
  BY DEF Views!Reports, Views!Playlists
<1>3. \/ read \in NotRead
      \/ read = counted /\ \A i \in 1 .. 6 : ~checks[i][1]
  <2> HIDE DEF checks, counted
  <2> QED
    BY <1>1, <1>2, FirstCheck
<1>4. ASSUME \A i \in 1 .. 6 : ~checks[i][1]
      PROVE  ~checks[1][1] /\ ~checks[2][1] /\ ~checks[3][1] /\ ~checks[4][1] /\ ~checks[5][1] /\ ~checks[6][1]
  <2> HIDE DEF checks
  <2> QED
    BY <1>4
<1> QED
  BY <1>3, <1>4

LEMMA FaroAppsAre ==
  ASSUME NEW a
  PROVE  \/ Views!FaroApps(a) \in NotRead
         \/ /\ Views!FaroApps(a) = Views!Count(Views!Number(a), Views!Plain(a))
            /\ ~(Views!Lost(a))
            /\ ~(a.status # 200)
            /\ ~(Views!Garbled(a))
            /\ ~(~Views!Whole(a) \/ Views!Holds(a, {"scalar"}))
<1> DEFINE checks == <<
      <<Views!Lost(a), "transport_error">>, <<a.status # 200, "unreadable">>, <<Views!Garbled(a), "transport_error">>,
      <<~Views!Whole(a) \/ Views!Holds(a, {"scalar"}), "invalid_response">>>>
<1> DEFINE counted == Views!Count(Views!Number(a), Views!Plain(a))
<1>1. DOMAIN checks = 1 .. 4 /\ \A i \in 1 .. 4 : checks[i][2] \in ReadFaults
  BY DEF ReadFaults
<1>2. Views!FaroApps(a) = Views!FirstOf(checks, counted)
  BY DEF Views!FaroApps
<1>3. \/ Views!FaroApps(a) \in NotRead
      \/ Views!FaroApps(a) = counted /\ \A i \in 1 .. 4 : ~checks[i][1]
  <2> HIDE DEF checks, counted
  <2> QED
    BY <1>1, <1>2, FirstCheck
<1>4. ASSUME \A i \in 1 .. 4 : ~checks[i][1]
      PROVE  ~checks[1][1] /\ ~checks[2][1] /\ ~checks[3][1] /\ ~checks[4][1]
  <2> HIDE DEF checks
  <2> QED
    BY <1>4
<1> QED
  BY <1>3, <1>4

LEMMA SloInventoryAre ==
  ASSUME NEW a
  PROVE  \/ Views!SloInventory(a) \in NotRead
         \/ /\ Views!SloInventory(a) = Views!Count(Views!Number(a), Views!Plain(a))
            /\ ~(Views!Lost(a))
            /\ ~(~Views!Ok(a))
            /\ ~(Views!Garbled(a))
            /\ ~(Views!Unsafe(a))
            /\ ~(~Views!Whole(a) \/ Views!Holds(a, {"scalar"}))
<1> DEFINE checks == <<
      <<Views!Lost(a), "transport_error">>, <<~Views!Ok(a), "unreadable">>, <<Views!Garbled(a), "transport_error">>,
      <<Views!Unsafe(a), "unsafe_schema">>, <<~Views!Whole(a) \/ Views!Holds(a, {"scalar"}), "unreadable">>>>
<1> DEFINE counted == Views!Count(Views!Number(a), Views!Plain(a))
<1>1. DOMAIN checks = 1 .. 5 /\ \A i \in 1 .. 5 : checks[i][2] \in ReadFaults
  BY DEF ReadFaults
<1>2. Views!SloInventory(a) = Views!FirstOf(checks, counted)
  BY DEF Views!SloInventory
<1>3. \/ Views!SloInventory(a) \in NotRead
      \/ Views!SloInventory(a) = counted /\ \A i \in 1 .. 5 : ~checks[i][1]
  <2> HIDE DEF checks, counted
  <2> QED
    BY <1>1, <1>2, FirstCheck
<1>4. ASSUME \A i \in 1 .. 5 : ~checks[i][1]
      PROVE  ~checks[1][1] /\ ~checks[2][1] /\ ~checks[3][1] /\ ~checks[4][1] /\ ~checks[5][1]
  <2> HIDE DEF checks
  <2> QED
    BY <1>4
<1> QED
  BY <1>3, <1>4

LEMMA CloudAccountsAre ==
  ASSUME NEW a
  PROVE  \/ Views!CloudAccounts(a) \in NotRead
         \/ /\ Views!CloudAccounts(a) = Views!Count(Views!Number(a), 0)
            /\ ~(Views!Lost(a))
            /\ ~(a.status # 200)
            /\ ~(Views!Garbled(a))
            /\ ~(a.shape \notin {"whole", "null"})
            /\ ~(Views!Unsafe(a))
            /\ ~(Views!Holds(a, {"blank", "scalar"}))
<1> DEFINE checks == <<
      <<Views!Lost(a), "transport_error">>, <<a.status # 200, "unreadable">>, <<Views!Garbled(a), "transport_error">>,
      <<a.shape \notin {"whole", "null"}, "invalid_response">>, <<Views!Unsafe(a), "unsafe_schema">>,
      <<Views!Holds(a, {"blank", "scalar"}), "invalid_response">>>>
<1> DEFINE counted == Views!Count(Views!Number(a), 0)
<1>1. DOMAIN checks = 1 .. 6 /\ \A i \in 1 .. 6 : checks[i][2] \in ReadFaults
  BY DEF ReadFaults
<1>2. Views!CloudAccounts(a) = Views!FirstOf(checks, counted)
  BY DEF Views!CloudAccounts
<1>3. \/ Views!CloudAccounts(a) \in NotRead
      \/ Views!CloudAccounts(a) = counted /\ \A i \in 1 .. 6 : ~checks[i][1]
  <2> HIDE DEF checks, counted
  <2> QED
    BY <1>1, <1>2, FirstCheck
<1>4. ASSUME \A i \in 1 .. 6 : ~checks[i][1]
      PROVE  ~checks[1][1] /\ ~checks[2][1] /\ ~checks[3][1] /\ ~checks[4][1] /\ ~checks[5][1] /\ ~checks[6][1]
  <2> HIDE DEF checks
  <2> QED
    BY <1>4
<1> QED
  BY <1>3, <1>4

LEMMA MlJobsAre ==
  ASSUME NEW a
  PROVE  \/ Views!MlJobs(a) \in NotRead
         \/ /\ Views!MlJobs(a) = Views!Count(Views!Number(a), 0)
            /\ ~(Views!Lost(a))
            /\ ~(a.status # 200)
            /\ ~(Views!Garbled(a))
            /\ ~(~Views!Whole(a) \/ Views!Holds(a, {"scalar"}))
            /\ ~(Views!Holds(a, {"secret"}))
            /\ ~(Views!Holds(a, {"blank"}))
<1> DEFINE checks == <<
      <<Views!Lost(a), "transport_error">>, <<a.status # 200, "unreadable">>, <<Views!Garbled(a), "transport_error">>,
      <<~Views!Whole(a) \/ Views!Holds(a, {"scalar"}), "invalid_response">>, <<Views!Holds(a, {"secret"}), "unsafe_schema">>,
      <<Views!Holds(a, {"blank"}), "invalid_response">>>>
<1> DEFINE counted == Views!Count(Views!Number(a), 0)
<1>1. DOMAIN checks = 1 .. 6 /\ \A i \in 1 .. 6 : checks[i][2] \in ReadFaults
  BY DEF ReadFaults
<1>2. Views!MlJobs(a) = Views!FirstOf(checks, counted)
  BY DEF Views!MlJobs
<1>3. \/ Views!MlJobs(a) \in NotRead
      \/ Views!MlJobs(a) = counted /\ \A i \in 1 .. 6 : ~checks[i][1]
  <2> HIDE DEF checks, counted
  <2> QED
    BY <1>1, <1>2, FirstCheck
<1>4. ASSUME \A i \in 1 .. 6 : ~checks[i][1]
      PROVE  ~checks[1][1] /\ ~checks[2][1] /\ ~checks[3][1] /\ ~checks[4][1] /\ ~checks[5][1] /\ ~checks[6][1]
  <2> HIDE DEF checks
  <2> QED
    BY <1>4
<1> QED
  BY <1>3, <1>4

LEMMA IrmIntegrationsAre ==
  ASSUME NEW a
  PROVE  \/ Views!IrmIntegrations(a) \in NotRead
         \/ /\ Views!IrmIntegrations(a) = Views!Count(Views!Number(a), 0)
            /\ ~(Views!Lost(a))
            /\ ~(a.status # 200)
            /\ ~(Views!Garbled(a))
            /\ ~(~Views!Whole(a) \/ Views!Holds(a, Views!Objects \ {"plain", "other"}))
<1> DEFINE checks == <<
      <<Views!Lost(a), "transport_error">>, <<a.status # 200, "unreadable">>, <<Views!Garbled(a), "transport_error">>,
      <<~Views!Whole(a) \/ Views!Holds(a, Views!Objects \ {"plain", "other"}), "invalid_response">>>>
<1> DEFINE counted == Views!Count(Views!Number(a), 0)
<1>1. DOMAIN checks = 1 .. 4 /\ \A i \in 1 .. 4 : checks[i][2] \in ReadFaults
  BY DEF ReadFaults
<1>2. Views!IrmIntegrations(a) = Views!FirstOf(checks, counted)
  BY DEF Views!IrmIntegrations
<1>3. \/ Views!IrmIntegrations(a) \in NotRead
      \/ Views!IrmIntegrations(a) = counted /\ \A i \in 1 .. 4 : ~checks[i][1]
  <2> HIDE DEF checks, counted
  <2> QED
    BY <1>1, <1>2, FirstCheck
<1>4. ASSUME \A i \in 1 .. 4 : ~checks[i][1]
      PROVE  ~checks[1][1] /\ ~checks[2][1] /\ ~checks[3][1] /\ ~checks[4][1]
  <2> HIDE DEF checks
  <2> QED
    BY <1>4
<1> QED
  BY <1>3, <1>4

LEMMA IrmAlertGroupsAre ==
  ASSUME NEW a
  PROVE  \/ Views!IrmAlertGroups(a) \in NotRead
         \/ /\ Views!IrmAlertGroups(a) = [Views!Count(Views!Number(a), 0) EXCEPT !.exact = Views!Whole(a)]
            /\ ~(Views!Lost(a))
            /\ ~(a.status # 200)
            /\ ~(Views!Garbled(a))
            /\ ~(a.shape \notin {"whole", "paged"})
<1> DEFINE checks == <<
      <<Views!Lost(a), "transport_error">>, <<a.status # 200, "unreadable">>, <<Views!Garbled(a), "transport_error">>,
      <<a.shape \notin {"whole", "paged"}, "invalid_response">>>>
<1> DEFINE counted == [Views!Count(Views!Number(a), 0) EXCEPT !.exact = Views!Whole(a)]
<1>1. DOMAIN checks = 1 .. 4 /\ \A i \in 1 .. 4 : checks[i][2] \in ReadFaults
  BY DEF ReadFaults
<1>2. Views!IrmAlertGroups(a) = Views!FirstOf(checks, counted)
  BY DEF Views!IrmAlertGroups
<1>3. \/ Views!IrmAlertGroups(a) \in NotRead
      \/ Views!IrmAlertGroups(a) = counted /\ \A i \in 1 .. 4 : ~checks[i][1]
  <2> HIDE DEF checks, counted
  <2> QED
    BY <1>1, <1>2, FirstCheck
<1>4. ASSUME \A i \in 1 .. 4 : ~checks[i][1]
      PROVE  ~checks[1][1] /\ ~checks[2][1] /\ ~checks[3][1] /\ ~checks[4][1]
  <2> HIDE DEF checks
  <2> QED
    BY <1>4
<1> QED
  BY <1>3, <1>4

LEMMA SyntheticUidAre ==
  ASSUME NEW a
  PROVE  \/ Views!SyntheticUid(a) \in NotRead
         \/ /\ Views!SyntheticUid(a) = Views!Count(0, 0)
            /\ ~(Views!Lost(a))
            /\ ~(~Views!Ok(a))
            /\ ~(Views!Garbled(a))
            /\ ~(~Views!Whole(a))
            /\ ~(a.matches = 0)
            /\ ~(a.matches > 1)
            /\ ~(a.odd)
<1> DEFINE checks == <<
      <<Views!Lost(a), "transport_error">>, <<~Views!Ok(a), "unreadable">>, <<Views!Garbled(a), "transport_error">>,
      <<~Views!Whole(a), "unreadable">>,
      <<a.matches = 0, "no_datasource">>, <<a.matches > 1, "ambiguous">>,
      <<a.odd, "invalid_uid">>>>
<1> DEFINE counted == Views!Count(0, 0)
<1>1. DOMAIN checks = 1 .. 7 /\ \A i \in 1 .. 7 : checks[i][2] \in ReadFaults
  BY DEF ReadFaults
<1>2. Views!SyntheticUid(a) = Views!FirstOf(checks, counted)
  BY DEF Views!SyntheticUid
<1>3. \/ Views!SyntheticUid(a) \in NotRead
      \/ Views!SyntheticUid(a) = counted /\ \A i \in 1 .. 7 : ~checks[i][1]
  <2> HIDE DEF checks, counted
  <2> QED
    BY <1>1, <1>2, FirstCheck
<1>4. ASSUME \A i \in 1 .. 7 : ~checks[i][1]
      PROVE  ~checks[1][1] /\ ~checks[2][1] /\ ~checks[3][1] /\ ~checks[4][1] /\ ~checks[5][1] /\ ~checks[6][1] /\ ~checks[7][1]
  <2> HIDE DEF checks
  <2> QED
    BY <1>4
<1> QED
  BY <1>3, <1>4

LEMMA SyntheticAre ==
  ASSUME NEW given
  PROVE  \/ Views!Synthetic(given) \in NotRead
         \/ /\ Views!Synthetic(given) = Views!Count(Views!Number(given[2]), Views!Plain(given[2]))
            /\ ~(\E i \in 2 .. 3 : ~Views!Whole(given[i]))
            /\ ~(\E i \in 2 .. 3 : Views!Holds(given[i], {"blank", "scalar"}))
<1> DEFINE checks == <<
      <<\E i \in 2 .. 3 : ~Views!Whole(given[i]), "invalid_schema">>,
      <<\E i \in 2 .. 3 : Views!Holds(given[i], {"blank", "scalar"}), "invalid_schema">>>>
<1> DEFINE counted == Views!Count(Views!Number(given[2]), Views!Plain(given[2]))
<1>1. DOMAIN checks = 1 .. 2 /\ \A i \in 1 .. 2 : checks[i][2] \in ReadFaults
  BY DEF ReadFaults
<1>2. Views!Synthetic(given) = Views!FirstOf(checks, counted)
  BY DEF Views!Synthetic
<1>3. \/ Views!Synthetic(given) \in NotRead
      \/ Views!Synthetic(given) = counted /\ \A i \in 1 .. 2 : ~checks[i][1]
  <2> HIDE DEF checks, counted
  <2> QED
    BY <1>1, <1>2, FirstCheck
<1>4. ASSUME \A i \in 1 .. 2 : ~checks[i][1]
      PROVE  ~checks[1][1] /\ ~checks[2][1]
  <2> HIDE DEF checks
  <2> QED
    BY <1>4
<1> QED
  BY <1>3, <1>4

LEMMA SyntheticListAre ==
  ASSUME NEW a, NEW what \in {"checks_unreadable", "probes_unreadable"}
  PROVE  \/ Views!SyntheticList(a, what) \in NotRead
         \/ /\ Views!SyntheticList(a, what) = Views!Count(0, 0)
            /\ Views!Ok(a) /\ ~Views!Garbled(a)
<1> DEFINE checks ==
      <<<<Views!Lost(a), "transport_error">>, <<~Views!Ok(a), what>>, <<Views!Garbled(a), "transport_error">>>>
<1> DEFINE counted == Views!Count(0, 0)
<1>1. DOMAIN checks = 1 .. 3 /\ \A i \in 1 .. 3 : checks[i][2] \in ReadFaults
  BY DEF ReadFaults
<1>2. Views!SyntheticList(a, what) = Views!FirstOf(checks, counted)
  BY DEF Views!SyntheticList
<1>3. \/ Views!SyntheticList(a, what) \in NotRead
      \/ Views!SyntheticList(a, what) = counted /\ \A i \in 1 .. 3 : ~checks[i][1]
  <2> HIDE DEF checks, counted
  <2> QED
    BY <1>1, <1>2, FirstCheck
<1>4. ASSUME \A i \in 1 .. 3 : ~checks[i][1]
      PROVE  Views!Ok(a) /\ ~Views!Garbled(a)
  <2>1. ~checks[2][1] /\ ~checks[3][1]
    <3> HIDE DEF checks
    <3> QED
      BY <1>4
  <2> QED
    BY <2>1
<1> QED
  BY <1>3, <1>4

AnswerType ==
  [status : Nat, shape : {"whole", "null", "paged", "garbled"}, items : Seq(Views!Objects),
   matches : Nat, odd : BOOLEAN]

\* What an available record says of the answer that it was made of.
CountsOf(r, a) ==
  /\ r.count = Len(a.items)
  /\ \/ r.exact = TRUE /\ a.shape \in {"whole", "null"}
     \/ r.exact = FALSE /\ task.product = "irm_alert_groups" /\ a.shape = "paged"
  /\ task.product \in {"reports", "playlists", "slo", "cloud_accounts"} => ~Views!Holds(a, {"keyed", "secret"})
  /\ task.product = "ml_jobs" => ~Views!Holds(a, {"secret"})

Filed(r) ==
  /\ r.available = TRUE /\ r.reason = "none" /\ r.count \in Nat /\ r.exact \in BOOLEAN
  /\ task.product # "irm_alert_groups" => r.exact = TRUE

LEMMA RefusedAre ==
  ASSUME NEW r \in NotRead
  PROVE  r.available = FALSE /\ r.reason \in ReadFaults
BY DEF NotRead, Views!No, Views!NoRecord

\* A reader that is asked once: what it makes of the answer.
LEMMA SimpleReadings ==
  ASSUME NEW a \in AnswerType, task.product \in Views!Products \ {"synthetic"}
  PROVE  LET r == Views!Reading(<<a>>) IN
         r \in NotRead \/ (Filed(r) /\ a.status = 200 /\ CountsOf(r, a))
<1> DEFINE Agrees(r) == r \in NotRead \/ (Filed(r) /\ a.status = 200 /\ CountsOf(r, a))
<1>1. Len(<<a>>) = 1 /\ <<a>>[1] = a
  OBVIOUS
<1>2. ASSUME NEW r, NEW m, r = Views!Count(Views!Number(a), m), a.status = 200, a.shape \in {"whole", "null"},
             task.product \in {"reports", "playlists", "slo", "cloud_accounts"} => ~Views!Holds(a, {"keyed", "secret"}),
             task.product = "ml_jobs" => ~Views!Holds(a, {"secret"})
      PROVE  Agrees(r)
  <2>1. Filed(r) /\ r.count = Len(a.items) /\ r.exact = TRUE
    <3>1. r.available = TRUE /\ r.reason = "none" /\ r.count = Len(a.items) /\ r.exact = TRUE
      BY <1>2 DEF Views!Count, Views!Number
    <3>2. Len(a.items) \in Nat
      BY DEF AnswerType
    <3> QED
      BY <3>1, <3>2 DEF Filed
  <2>2. CountsOf(r, a)
    BY <1>2, <2>1 DEF CountsOf
  <2> QED
    BY <1>2, <2>1, <2>2
<1>3. CASE task.product = "reports"
  <2>1. Views!Reading(<<a>>) = Views!Reports(a)
    BY <1>1, <1>3 DEF Views!Reading, Views!product
  <2> QED
    BY <1>2, <1>3, <2>1, ReportsAre DEF Views!Whole, Views!Unsafe, Views!Ok, Views!Garbled
<1>4. CASE task.product = "playlists"
  <2>1. Views!Reading(<<a>>) = Views!Playlists(a)
    BY <1>1, <1>4 DEF Views!Reading, Views!product
  <2> QED
    BY <1>2, <1>4, <2>1, ReportsAre DEF Views!Whole, Views!Unsafe, Views!Ok, Views!Garbled
<1>5. CASE task.product = "faro_apps"
  <2>1. Views!Reading(<<a>>) = Views!FaroApps(a)
    BY <1>1, <1>5 DEF Views!Reading, Views!product
  <2> QED
    BY <1>2, <1>5, <2>1, FaroAppsAre DEF Views!Whole, Views!Unsafe, Views!Ok, Views!Garbled
<1>6. CASE task.product = "slo"
  <2>1. Views!Reading(<<a>>) = Views!SloInventory(a)
    BY <1>1, <1>6 DEF Views!Reading, Views!product
  <2> QED
    BY <1>2, <1>6, <2>1, SloInventoryAre DEF Views!Whole, Views!Unsafe, Views!Ok, Views!Garbled
<1>7. CASE task.product = "cloud_accounts"
  <2>1. Views!Reading(<<a>>) = Views!CloudAccounts(a)
    BY <1>1, <1>7 DEF Views!Reading, Views!product
  <2> QED
    BY <1>2, <1>7, <2>1, CloudAccountsAre DEF Views!Whole, Views!Unsafe, Views!Ok, Views!Garbled
<1>8. CASE task.product = "ml_jobs"
  <2>1. Views!Reading(<<a>>) = Views!MlJobs(a)
    BY <1>1, <1>8 DEF Views!Reading, Views!product
  <2> QED
    BY <1>2, <1>8, <2>1, MlJobsAre DEF Views!Whole, Views!Unsafe, Views!Ok, Views!Garbled
<1>9. CASE task.product = "irm_integrations"
  <2>1. Views!Reading(<<a>>) = Views!IrmIntegrations(a)
    BY <1>1, <1>9 DEF Views!Reading, Views!product
  <2> QED
    BY <1>2, <1>9, <2>1, IrmIntegrationsAre DEF Views!Whole, Views!Unsafe, Views!Ok, Views!Garbled
<1>10. CASE task.product = "irm_alert_groups"
  <2>1. Views!Reading(<<a>>) = Views!IrmAlertGroups(a)
    BY <1>1, <1>10 DEF Views!Reading, Views!product
  <2>2. ASSUME NEW r, r = [Views!Count(Views!Number(a), 0) EXCEPT !.exact = Views!Whole(a)],
               a.shape \in {"whole", "paged"}
        PROVE  Filed(r) /\ CountsOf(r, a)
    <3>1. r.available = TRUE /\ r.reason = "none" /\ r.count = Len(a.items) /\ r.exact = (a.shape = "whole")
      BY <2>2 DEF Views!Count, Views!Number, Views!Whole
    <3>2. Len(a.items) \in Nat
      BY DEF AnswerType
    <3> QED
      BY <1>10, <2>2, <3>1, <3>2 DEF Filed, CountsOf
  <2>3. Agrees(Views!IrmAlertGroups(a))
    BY <2>2, IrmAlertGroupsAre
  <2> QED
    BY <2>1, <2>3
<1> QED
  BY <1>3, <1>4, <1>5, <1>6, <1>7, <1>8, <1>9, <1>10 DEF Views!Products

\* The reader of synthetic monitoring: its first two answers may only be refused.
LEMMA SyntheticReadings ==
  ASSUME NEW given, NEW n, n = Len(given), n \in 1 .. 3, \A i \in 1 .. n : given[i] \in AnswerType,
         task.product = "synthetic"
  PROVE  LET r == Views!Reading(given) IN
         \/ r \in NotRead
         \/ Filed(r) /\ (n = 3 => given[2].shape = "whole" /\ CountsOf(r, given[2])) /\ given[n].status = 200
<1> DEFINE a == given[n]
<1>2. ASSUME Views!Ok(a), ~Views!Garbled(a)
      PROVE  a.status = 200
  BY <1>2 DEF Views!Ok, Views!Garbled
<1>3. Filed(Views!Count(0, 0)) /\ Views!Count(0, 0).available = TRUE
  BY DEF Filed, Views!Count
<1>4. CASE n = 1
  <2>1. Views!Reading(given) = Views!SyntheticUid(given[1])
    BY <1>4 DEF Views!Reading, Views!product
  <2>2. Views!Reading(given) \in NotRead \/ (Views!Reading(given) = Views!Count(0, 0) /\ a.status = 200)
    BY <1>2, <1>4, <2>1, SyntheticUidAre
  <2> QED
    BY <1>3, <1>4, <2>2
<1>5. CASE n = 2
  <2>1. Views!Reading(given) = Views!SyntheticList(given[2], "checks_unreadable")
    BY <1>5 DEF Views!Reading, Views!product
  <2>2. Views!Reading(given) \in NotRead \/ (Views!Reading(given) = Views!Count(0, 0) /\ a.status = 200)
    BY <1>2, <1>5, <2>1, SyntheticListAre
  <2> QED
    BY <1>3, <1>5, <2>2
<1>6. CASE n = 3
  <2> DEFINE seen == Views!SyntheticList(given[3], "probes_unreadable")
  <2>1. Views!Reading(given) = IF seen.available THEN Views!Synthetic(given) ELSE seen
    BY <1>6 DEF Views!Reading, Views!product
  <2>2. seen \in NotRead \/ (seen.available = TRUE /\ a.status = 200)
    BY <1>2, <1>3, <1>6, SyntheticListAre
  <2>3. CASE seen \in NotRead
    BY <2>1, <2>3, RefusedAre
  <2>4. CASE seen.available = TRUE /\ a.status = 200
    <3>1. Views!Reading(given) = Views!Synthetic(given)
      BY <2>1, <2>4
    <3>2. CASE Views!Synthetic(given) \in NotRead
      BY <3>1, <3>2
    <3>3. CASE Views!Synthetic(given) = Views!Count(Views!Number(given[2]), Views!Plain(given[2])) /\ given[2].shape = "whole"
      <4> DEFINE r == Views!Reading(given)
      <4>1. r.available = TRUE /\ r.reason = "none" /\ r.count = Len(given[2].items) /\ r.exact = TRUE
        BY <3>1, <3>3 DEF Views!Count, Views!Number
      <4>2. given[2] \in AnswerType /\ Len(given[2].items) \in Nat
        BY <1>6 DEF AnswerType
      <4>3. Filed(r) /\ CountsOf(r, given[2])
        BY <3>3, <4>1, <4>2 DEF Filed, CountsOf
      <4> QED
        BY <2>4, <3>3, <4>3
    <3>4. \/ Views!Synthetic(given) \in NotRead
          \/ /\ Views!Synthetic(given) = Views!Count(Views!Number(given[2]), Views!Plain(given[2]))
             /\ \A i \in 2 .. 3 : Views!Whole(given[i])
      BY SyntheticAre
    <3> QED
      BY <3>2, <3>3, <3>4 DEF Views!Whole
  <2> QED
    BY <2>2, <2>3, <2>4
<1> QED
  BY <1>4, <1>5, <1>6

\* What keeps a stack from being asked: no credential only where there is none.
LEMMA UnaskedAre ==
  ASSUME NEW s, ~Views!Unasked(s).available
  PROVE  \E x : Views!Unasked(s) = Views!No(x) /\ (x = "no_credential" => gather.creds[s] = "none")
<1> DEFINE unnamed == <<gather.creds[s] = "none", "no_credential">>
<1> DEFINE url == <<task.flaw[s] = "url", "unreadable">>
<1> DEFINE bad == <<task.flaw[s] = "url", "invalid_url">>
<1> DEFINE id == <<task.flaw[s] = "id", "invalid_stack_id">>
<1> DEFINE none == Views!Count(0, 0)
<1>1. none.available = TRUE
  BY DEF Views!Count
<1>2. /\ unnamed[2] = "no_credential" /\ (unnamed[1] => gather.creds[s] = "none")
      /\ url[2] # "no_credential" /\ bad[2] # "no_credential" /\ id[2] # "no_credential"
  OBVIOUS
<1>3. Views!Unasked(s) \in {Views!FirstOf(<<unnamed, url>>, none), Views!FirstOf(<<bad, id, unnamed>>, none),
                              Views!FirstOf(<<bad, unnamed>>, none)}
  BY DEF Views!Unasked, Views!creds, Views!product
<1> HIDE DEF unnamed, url, bad, id, none
<1>4. CASE Views!Unasked(s) = Views!FirstOf(<<unnamed, url>>, none)
  <2> DEFINE checks == <<unnamed, url>>
  <2>1. DOMAIN checks = 1 .. 2 /\ \A i \in 1 .. 2 : checks[i] \in {unnamed, url}
    OBVIOUS
  <2>2. Views!Unasked(s) = Views!FirstOf(checks, none)
    BY <1>4
  <2> HIDE DEF checks
  <2>3. \/ Views!FirstOf(checks, none) = none
        \/ \E i \in 1 .. 2 : checks[i][1] /\ Views!FirstOf(checks, none) = Views!No(checks[i][2])
    BY <2>1, FirstIs
  <2>4. PICK i \in 1 .. 2 : checks[i][1] /\ Views!Unasked(s) = Views!No(checks[i][2])
    BY <1>1, <2>2, <2>3
  <2> QED
    BY <1>2, <2>1, <2>4
<1>5. CASE Views!Unasked(s) = Views!FirstOf(<<bad, id, unnamed>>, none)
  <2> DEFINE checks == <<bad, id, unnamed>>
  <2>1. DOMAIN checks = 1 .. 3 /\ \A i \in 1 .. 3 : checks[i] \in {bad, id, unnamed}
    OBVIOUS
  <2>2. Views!Unasked(s) = Views!FirstOf(checks, none)
    BY <1>5
  <2> HIDE DEF checks
  <2>3. \/ Views!FirstOf(checks, none) = none
        \/ \E i \in 1 .. 3 : checks[i][1] /\ Views!FirstOf(checks, none) = Views!No(checks[i][2])
    BY <2>1, FirstIs
  <2>4. PICK i \in 1 .. 3 : checks[i][1] /\ Views!Unasked(s) = Views!No(checks[i][2])
    BY <1>1, <2>2, <2>3
  <2> QED
    BY <1>2, <2>1, <2>4
<1>6. CASE Views!Unasked(s) = Views!FirstOf(<<bad, unnamed>>, none)
  <2> DEFINE checks == <<bad, unnamed>>
  <2>1. DOMAIN checks = 1 .. 2 /\ \A i \in 1 .. 2 : checks[i] \in {bad, unnamed}
    OBVIOUS
  <2>2. Views!Unasked(s) = Views!FirstOf(checks, none)
    BY <1>6
  <2> HIDE DEF checks
  <2>3. \/ Views!FirstOf(checks, none) = none
        \/ \E i \in 1 .. 2 : checks[i][1] /\ Views!FirstOf(checks, none) = Views!No(checks[i][2])
    BY <2>1, FirstIs
  <2>4. PICK i \in 1 .. 2 : checks[i][1] /\ Views!Unasked(s) = Views!No(checks[i][2])
    BY <1>1, <2>2, <2>3
  <2> QED
    BY <1>2, <2>1, <2>4
<1> QED
  BY <1>3, <1>4, <1>5, <1>6

Bodies == Seq(Views!Objects)

ReadsTyped ==
  /\ task \in [product : Views!Products, selected : BOOLEAN,
               inventory : [Views!Stacks -> {"active", "paused"}], flaw : [Views!Stacks -> {"none", "url", "id"}]]
  /\ held \in [Views!Stacks -> Bodies]
  /\ tokens \in [stored : [Views!Stacks -> {"absent", "unusable", "old", "new"}],
                 valid : [Views!Stacks -> SUBSET Views!Valid]]
  /\ noted \in [kept : SUBSET Views!Stacks, truth : [Views!Stacks -> Bodies], changes : Nat, faults : Nat]
  /\ gather = [pc |-> gather.pc, page |-> gather.page, creds |-> gather.creds, asked |-> gather.asked,
               out |-> gather.out, errors |-> gather.errors]
  /\ gather.pc \in {"start", "sweep", "read", "done", "composed"}
  /\ gather.page \in 0 .. Len(Stack) /\ gather.errors \in Nat
  /\ DOMAIN gather.creds = Views!Stacks /\ DOMAIN gather.asked = Views!Stacks
  /\ DOMAIN gather.out \subseteq Views!Live(task.inventory)

\* How far the gatherer is.
ReadsProgress ==
  /\ gather.pc = "start" => gather.page = 0
  /\ gather.pc \in {"start", "sweep"} =>
       gather.page < Len(Stack) /\ DOMAIN gather.out = {} /\ gather.errors = 0 /\ noted.faults = 0
  /\ gather.pc \in {"sweep", "read"} => task.selected
  /\ gather.pc = "read" => gather.page = Len(Stack)
  /\ gather.pc \in {"done", "composed"} =>
       \/ DOMAIN gather.out = {} /\ gather.page < Len(Stack)
       \/ task.selected /\ DOMAIN gather.out = Views!Live(task.inventory)

\* Each stack that is recorded as refused is one error, unless the store is the only one.
ReadsErrors ==
  \/ DOMAIN gather.out = {} /\ gather.page < Len(Stack) /\ gather.errors = noted.faults
  \/ /\ gather.pc \notin {"start", "sweep"} /\ gather.page = Len(Stack)
     /\ gather.errors = Cardinality(DOMAIN gather.out \ Views!Available)

\* The tokens of the store only get newer, and a page has given those that it held.
ReadsTokens ==
  /\ gather.pc \in {"sweep", "read"} => \A s \in noted.kept : tokens.stored[s] \in Views!Valid
  /\ \A i \in 1 .. gather.page : gather.creds[Stack[i]] = "none" => Stack[i] \notin noted.kept

\* What a record says of what was listed.
Honest(r, body) ==
  /\ r.exact = TRUE => r.count = Len(body)
  /\ r.exact = FALSE => r.count <= Len(body)
  /\ task.product \in {"reports", "playlists", "slo", "cloud_accounts"} =>
       \A i \in DOMAIN body : body[i] \notin {"keyed", "secret"}
  /\ task.product = "ml_jobs" => \A i \in DOMAIN body : body[i] # "secret"

ReadsRecords ==
  \A s \in DOMAIN gather.out :
    \/ gather.out[s].available = FALSE /\ (gather.out[s].reason = "no_credential" => s \notin noted.kept)
    \/ Filed(gather.out[s]) /\ Honest(gather.out[s], noted.truth[s])

\* Only synthetic monitoring is asked again; its second answer is the list.
ReadsAsked ==
  \A s \in Views!Stacks : LET said == gather.asked[s] IN
    \/ said = <<>>
    \/ task.product = "synthetic" /\ said = <<said[1]>> /\ said[1] \in AnswerType
    \/ /\ task.product = "synthetic" /\ said = <<said[1], said[2]>>
       /\ said[1] \in AnswerType /\ said[2] \in AnswerType
       /\ said[2].shape = "whole" => said[2].items = noted.truth[s]

ReadsInv ==
  /\ ReadsTyped /\ ReadsProgress /\ ReadsErrors /\ ReadsTokens /\ ReadsRecords /\ ReadsAsked
  /\ Views!RowsAreLive

LEMMA StacksAre ==
  ASSUME ReadConstants
  PROVE  /\ Len(Stack) \in Nat /\ Len(Stack) > 0 /\ DOMAIN Stack = 1 .. Len(Stack)
         /\ Views!Stacks = {Stack[i] : i \in 1 .. Len(Stack)}
         /\ Views!First \in Views!Stacks /\ IsFiniteSet(Views!Stacks)
<1>1. Len(Stack) \in Nat /\ Len(Stack) > 0 /\ DOMAIN Stack = 1 .. Len(Stack)
  BY DEF ReadConstants
<1>2. Views!Stacks = {Stack[i] : i \in 1 .. Len(Stack)}
  BY <1>1 DEF Views!Stacks, Views!Range
<1>3. Views!First \in Views!Stacks
  BY <1>1, <1>2 DEF Views!First
<1>4. IsFiniteSet(Views!Stacks)
  <2>1. IsFiniteSet(1 .. Len(Stack))
    BY <1>1, FS_Interval
  <2>2. Stack \in Surjection(1 .. Len(Stack), Views!Stacks)
    <3>1. Stack \in [1 .. Len(Stack) -> Views!Stacks]
      BY <1>2 DEF ReadConstants
    <3> QED
      BY <1>2, <3>1 DEF Surjection
  <2> QED
    BY <2>1, <2>2, FS_Surjection
<1> QED
  BY <1>1, <1>2, <1>3, <1>4

LEMMA ReadsBegin ==
  ASSUME ReadConstants, Views!Init
  PROVE  ReadsInv
<1> USE DEF Views!Init
<1>1. ReadsTyped
  <2>1. \A h \in Holdings : h \in Bodies
    BY DEF ReadConstants, Bodies
  <2>2. <<"plain">> \in Bodies
    BY DEF Bodies, Views!Objects
  <2>3. held \in [Views!Stacks -> Bodies]
    BY <2>1, <2>2
  <2>4. noted \in [kept : SUBSET Views!Stacks, truth : [Views!Stacks -> Bodies], changes : Nat, faults : Nat]
    BY <2>3
  <2>5. tokens \in [stored : [Views!Stacks -> {"absent", "unusable", "old", "new"}],
                    valid : [Views!Stacks -> SUBSET Views!Valid]]
    BY DEF Views!Valid
  <2>6. task \in [product : Views!Products, selected : BOOLEAN,
                  inventory : [Views!Stacks -> {"active", "paused"}], flaw : [Views!Stacks -> {"none", "url", "id"}]]
    OBVIOUS
  <2>7. /\ gather = [pc |-> gather.pc, page |-> gather.page, creds |-> gather.creds, asked |-> gather.asked,
                     out |-> gather.out, errors |-> gather.errors]
        /\ gather.pc = "start" /\ gather.page = 0 /\ gather.errors = 0
        /\ DOMAIN gather.creds = Views!Stacks /\ DOMAIN gather.asked = Views!Stacks
        /\ DOMAIN gather.out = {}
    OBVIOUS
  <2> QED
    BY <2>3, <2>4, <2>5, <2>6, <2>7, StacksAre DEF ReadsTyped
<1>2. gather.pc = "start" /\ gather.page = 0 /\ DOMAIN gather.out = {} /\ gather.errors = 0 /\ noted.faults = 0
  OBVIOUS
<1>3. ReadsProgress /\ ReadsErrors /\ ReadsTokens /\ ReadsRecords /\ Views!RowsAreLive
  BY <1>2, StacksAre DEF ReadsProgress, ReadsErrors, ReadsTokens, ReadsRecords, Views!RowsAreLive
<1>4. ReadsAsked
  BY DEF ReadsAsked
<1> QED
  BY <1>1, <1>3, <1>4 DEF ReadsInv

\* What a step of the provisioner or of the people leaves.
LEMMA ReadsUntouched ==
  ASSUME ReadsInv, UNCHANGED <<task, gather, composed>>, noted' = [noted EXCEPT !.changes = noted'.changes]
  PROVE  /\ (ReadsProgress /\ ReadsErrors /\ ReadsRecords /\ ReadsAsked)' /\ Views!RowsAreLive'
         /\ noted'.kept = noted.kept /\ noted'.truth = noted.truth /\ noted'.faults = noted.faults
<1>1. noted'.kept = noted.kept /\ noted'.truth = noted.truth /\ noted'.faults = noted.faults
  BY DEF ReadsInv, ReadsTyped
<1>2. Views!Available' = Views!Available
  BY DEF Views!Available
<1>3. ReadsProgress' /\ ReadsErrors'
  BY <1>1, <1>2 DEF ReadsInv, ReadsProgress, ReadsErrors
<1>4. ReadsRecords'
  <2>1. \A r, b : Filed(r)' = Filed(r) /\ Honest(r, b)' = Honest(r, b)
    BY DEF Filed, Honest
  <2> QED
    BY <1>1, <2>1 DEF ReadsInv, ReadsRecords
<1>5. ReadsAsked'
  BY <1>1 DEF ReadsInv, ReadsAsked
<1>6. Views!RowsAreLive'
  BY <1>2 DEF ReadsInv, Views!RowsAreLive
<1> QED
  BY <1>1, <1>3, <1>4, <1>5, <1>6

LEMMA TokensMove ==
  ASSUME ReadConstants, ReadsInv, Views!Rotate \/ Views!Revoke
  PROVE  ReadsInv'
<1>1. UNCHANGED <<task, held, gather, composed, noted>>
  BY DEF Views!Rotate, Views!Revoke
<1>2. tokens' \in [stored : [Views!Stacks -> {"absent", "unusable", "old", "new"}],
                   valid : [Views!Stacks -> SUBSET Views!Valid]]
      /\ \A s \in Views!Stacks : tokens.stored[s] \in Views!Valid => tokens'.stored[s] \in Views!Valid
  <2>1. tokens \in [stored : [Views!Stacks -> {"absent", "unusable", "old", "new"}],
                    valid : [Views!Stacks -> SUBSET Views!Valid]]
    BY DEF ReadsInv, ReadsTyped
  <2>2. Views!First \in Views!Stacks /\ Views!Valid = {"old", "new"}
    BY StacksAre DEF Views!Valid
  <2>3. CASE Views!Rotate
    BY <2>1, <2>2, <2>3 DEF Views!Rotate
  <2>4. CASE Views!Revoke
    BY <2>1, <2>2, <2>4 DEF Views!Revoke
  <2> QED
    BY <2>3, <2>4
<1>3. noted' = [noted EXCEPT !.changes = noted'.changes]
  BY <1>1 DEF ReadsInv, ReadsTyped
<1>4. noted.kept \subseteq Views!Stacks
  BY DEF ReadsInv, ReadsTyped
<1>5. ReadsTyped'
  BY <1>1, <1>2 DEF ReadsInv, ReadsTyped, Views!Live
<1>6. ReadsTokens'
  BY <1>1, <1>2, <1>4 DEF ReadsInv, ReadsTokens
<1> QED
  BY <1>1, <1>3, <1>5, <1>6, ReadsUntouched DEF ReadsInv

LEMMA HoldingChanges ==
  ASSUME ReadConstants, ReadsInv, Views!Change
  PROVE  ReadsInv'
<1>1. UNCHANGED <<task, tokens, gather, composed>> /\ noted' = [noted EXCEPT !.changes = @ + 1]
  BY DEF Views!Change
<1>2. noted \in [kept : SUBSET Views!Stacks, truth : [Views!Stacks -> Bodies], changes : Nat, faults : Nat]
      /\ held \in [Views!Stacks -> Bodies] /\ Views!First \in Views!Stacks
  BY StacksAre DEF ReadsInv, ReadsTyped
<1>3. noted' \in [kept : SUBSET Views!Stacks, truth : [Views!Stacks -> Bodies], changes : Nat, faults : Nat]
      /\ noted' = [noted EXCEPT !.changes = noted'.changes]
  BY <1>1, <1>2
<1>4. held' \in [Views!Stacks -> Bodies]
  <2>1. PICK h \in {Append(held[Views!First], "plain")}
                   \cup {SubSeq(held[Views!First], 1, n) : n \in {Len(held[Views!First]) - 1} \cap Nat} :
               held' = [held EXCEPT ![Views!First] = h]
    BY DEF Views!Change
  <2>2. held[Views!First] \in Bodies
    BY <1>2
  <2>3. Append(held[Views!First], "plain") \in Bodies
    BY <2>2 DEF Bodies, Views!Objects
  <2>4. ASSUME NEW n \in Nat, n = Len(held[Views!First]) - 1
        PROVE  SubSeq(held[Views!First], 1, n) \in Bodies
    BY <2>2, <2>4 DEF Bodies
  <2>5. h \in Bodies
    BY <2>1, <2>3, <2>4
  <2> QED
    BY <1>2, <2>1, <2>5
<1>5. ReadsTyped'
  BY <1>1, <1>3, <1>4 DEF ReadsInv, ReadsTyped, Views!Live
<1>6. ReadsTokens'
  BY <1>1, <1>2 DEF ReadsInv, ReadsTokens
<1> QED
  BY <1>1, <1>3, <1>5, <1>6, ReadsUntouched DEF ReadsInv

\* The beginning of the gatherer, and pages that cannot be read.
LEMMA ReadsStart ==
  ASSUME ReadConstants, ReadsInv, Views!Deselected \/ Views!Begin \/ Views!PageFails
  PROVE  ReadsInv'
<1>1. UNCHANGED <<task, held, tokens, composed>> /\ gather.pc \in {"start", "sweep"} /\ gather.pc # "composed"
  BY DEF Views!Deselected, Views!Begin, Views!PageFails
<1>2. /\ DOMAIN gather.out = {} /\ gather.page < Len(Stack) /\ gather.errors = 0 /\ noted.faults = 0
      /\ gather.page \in 0 .. Len(Stack)
      /\ gather = [pc |-> gather.pc, page |-> gather.page, creds |-> gather.creds, asked |-> gather.asked,
                   out |-> gather.out, errors |-> gather.errors]
      /\ noted \in [kept : SUBSET Views!Stacks, truth : [Views!Stacks -> Bodies], changes : Nat, faults : Nat]
      /\ gather.pc = "start" => gather.page = 0
      /\ tokens \in [stored : [Views!Stacks -> {"absent", "unusable", "old", "new"}],
                     valid : [Views!Stacks -> SUBSET Views!Valid]]
  BY <1>1 DEF ReadsInv, ReadsTyped, ReadsProgress
<1>3. /\ gather' = [pc |-> gather'.pc, page |-> gather.page, creds |-> gather.creds, asked |-> gather.asked,
                    out |-> gather.out, errors |-> gather'.errors]
      /\ gather'.page = gather.page /\ gather'.creds = gather.creds /\ gather'.asked = gather.asked
      /\ gather'.out = gather.out
      /\ noted' \in [kept : SUBSET Views!Stacks, truth : [Views!Stacks -> Bodies], changes : Nat, faults : Nat]
      /\ noted'.truth = noted.truth
      /\ \/ gather'.pc = "done" /\ gather'.errors = noted'.faults
         \/ /\ gather'.pc = "sweep" /\ gather'.errors = 0 /\ noted'.faults = 0 /\ task.selected /\ gather.page = 0
            /\ \A s \in noted'.kept : tokens.stored[s] \in Views!Valid
      /\ gather'.errors \in Nat
  <2>1. CASE Views!Deselected
    BY <1>2, <2>1 DEF Views!Deselected
  <2>2. CASE Views!Begin
    BY <1>2, <2>2 DEF Views!Begin
  <2>3. CASE Views!PageFails
    <3>1. /\ noted' = [kept |-> noted.kept, truth |-> noted.truth, changes |-> noted.changes, faults |-> 1]
          /\ gather' = [gather EXCEPT !.pc = "done", !.errors = 1]
      BY <1>2, <2>3 DEF Views!PageFails
    <3> QED
      BY <1>2, <3>1
  <2> QED
    BY <2>1, <2>2, <2>3
<1>4. ReadsTyped'
  BY <1>1, <1>2, <1>3 DEF ReadsInv, ReadsTyped, Views!Live
<1>5. ReadsProgress' /\ ReadsErrors' /\ ReadsRecords' /\ Views!RowsAreLive'
  BY <1>1, <1>2, <1>3 DEF ReadsProgress, ReadsErrors, ReadsRecords, Views!RowsAreLive
<1>6. ReadsTokens'
  <2>1. CASE gather'.pc = "done"
    <3>1. CASE noted'.kept = noted.kept
      BY <1>1, <1>3, <2>1, <3>1 DEF ReadsInv, ReadsTokens
    <3>2. CASE noted'.kept # noted.kept
      BY <1>2, <1>3, <2>1, <3>2 DEF Views!Deselected, Views!Begin, Views!PageFails
    <3> QED
      BY <3>1, <3>2
  <2>2. CASE gather'.pc = "sweep"
    BY <1>1, <1>3, <2>2 DEF ReadsTokens
  <2> QED
    BY <1>3, <2>1, <2>2
<1>7. ReadsAsked'
  BY <1>1, <1>3 DEF ReadsInv, ReadsAsked
<1> QED
  BY <1>4, <1>5, <1>6, <1>7 DEF ReadsInv

LEMMA PageIsRead ==
  ASSUME ReadConstants, ReadsInv, Views!Page
  PROVE  ReadsInv'
<1> DEFINE s == Stack[gather.page + 1]
<1>1. UNCHANGED <<task, held, tokens, composed, noted>> /\ gather.pc = "sweep"
  BY DEF Views!Page
<1>2. /\ DOMAIN gather.out = {} /\ gather.page < Len(Stack) /\ gather.errors = 0 /\ noted.faults = 0
      /\ gather.page \in 0 .. Len(Stack) /\ task.selected
      /\ gather = [pc |-> gather.pc, page |-> gather.page, creds |-> gather.creds, asked |-> gather.asked,
                   out |-> gather.out, errors |-> gather.errors]
      /\ DOMAIN gather.creds = Views!Stacks
      /\ \A t \in noted.kept : tokens.stored[t] \in Views!Valid
  BY <1>1 DEF ReadsInv, ReadsTyped, ReadsProgress, ReadsTokens
<1>3. Len(Stack) \in Nat /\ s \in Views!Stacks /\ \A i \in 1 .. Len(Stack) : Stack[i] \in Views!Stacks
  BY <1>2, StacksAre
<1>4. gather' = [pc |-> IF gather.page + 1 = Len(Stack) THEN "read" ELSE "sweep", page |-> gather.page + 1,
                 creds |-> [gather.creds EXCEPT ![s] = IF tokens.stored[s] \in Views!Valid THEN tokens.stored[s] ELSE "none"],
                 asked |-> gather.asked, out |-> gather.out, errors |-> gather.errors]
  BY <1>2 DEF Views!Page
<1> HIDE DEF s
<1>5. /\ gather'.page = gather.page + 1 /\ gather'.asked = gather.asked /\ gather'.out = gather.out
      /\ gather'.errors = 0 /\ DOMAIN gather'.creds = Views!Stacks
      /\ gather'.page \in 0 .. Len(Stack)
      /\ gather'.pc = (IF gather'.page = Len(Stack) THEN "read" ELSE "sweep")
      /\ \A t \in Views!Stacks \ {s} : gather'.creds[t] = gather.creds[t]
      /\ gather'.creds[s] = "none" => tokens.stored[s] \notin Views!Valid
  BY <1>2, <1>3, <1>4 DEF Views!Valid
<1>6. gather' = [pc |-> gather'.pc, page |-> gather'.page, creds |-> gather'.creds, asked |-> gather'.asked,
                 out |-> gather'.out, errors |-> gather'.errors]
  BY <1>4
<1>7. ReadsTyped'
  BY <1>1, <1>2, <1>5, <1>6 DEF ReadsInv, ReadsTyped, Views!Live
<1>8. Views!Available' = {}
  BY <1>2, <1>5 DEF Views!Available
<1>9. ReadsErrors'
  <2>1. DOMAIN gather'.out \ Views!Available' = {}
    BY <1>2, <1>5
  <2>2. CASE gather'.pc = "read"
    BY <1>5, <2>1, <2>2, FS_EmptySet DEF ReadsErrors
  <2>3. CASE gather'.pc = "sweep"
    BY <1>1, <1>2, <1>3, <1>5, <2>3 DEF ReadsErrors
  <2> QED
    BY <1>5, <2>2, <2>3
<1>10. ReadsProgress' /\ ReadsRecords' /\ Views!RowsAreLive'
  BY <1>1, <1>2, <1>3, <1>5 DEF ReadsProgress, ReadsRecords, Views!RowsAreLive
<1>11. ReadsTokens'
  <2>1. ASSUME NEW i \in 1 .. gather'.page, gather'.creds[Stack[i]] = "none"
        PROVE  Stack[i] \notin noted.kept
    <3>1. i \in 1 .. Len(Stack) /\ Stack[i] \in Views!Stacks
      BY <1>3, <1>5
    <3>2. CASE Stack[i] = s
      BY <1>2, <1>5, <2>1, <3>2
    <3>3. CASE Stack[i] # s
      <4>1. i \in 1 .. gather.page
        BY <1>2, <1>5, <3>3 DEF s
      <4> QED
        BY <1>5, <2>1, <3>1, <3>3, <4>1 DEF ReadsInv, ReadsTokens
    <3> QED
      BY <3>2, <3>3
  <2> QED
    BY <1>1, <1>2, <2>1 DEF ReadsTokens
<1>12. ReadsAsked'
  BY <1>1, <1>5 DEF ReadsInv, ReadsAsked
<1> QED
  BY <1>7, <1>9, <1>10, <1>11, <1>12 DEF ReadsInv

\* A record is returned, with a truth that is noted then or was before.
LEMMA ReturnKeeps ==
  ASSUME ReadConstants, ReadsInv, NEW s \in Views!Waiting, NEW r, gather' = Views!Return(s, r),
         UNCHANGED <<task, held, tokens, composed>>,
         noted' \in [kept : SUBSET Views!Stacks, truth : [Views!Stacks -> Bodies], changes : Nat, faults : Nat],
         noted'.kept = noted.kept, noted'.faults = noted.faults,
         \A t \in Views!Stacks \ {s} : noted'.truth[t] = noted.truth[t],
         \/ r.available = FALSE /\ (r.reason = "no_credential" => s \notin noted.kept)
         \/ Filed(r) /\ Honest(r, noted'.truth[s])
  PROVE  ReadsInv'
<1>1. gather.pc = "read" /\ s \in Views!Live(task.inventory) /\ s \notin DOMAIN gather.out
  BY DEF Views!Waiting
<1>2. s \in Views!Stacks /\ Views!Live(task.inventory) \subseteq Views!Stacks
  BY <1>1 DEF Views!Live
<1>3. /\ gather.page = Len(Stack) /\ gather.errors \in Nat /\ task.selected
      /\ gather = [pc |-> gather.pc, page |-> gather.page, creds |-> gather.creds, asked |-> gather.asked,
                   out |-> gather.out, errors |-> gather.errors]
      /\ DOMAIN gather.asked = Views!Stacks /\ DOMAIN gather.out \subseteq Views!Live(task.inventory)
  BY <1>1 DEF ReadsInv, ReadsTyped, ReadsProgress
<1>4. /\ gather' = [pc |-> gather.pc, page |-> gather.page, creds |-> gather.creds,
                    asked |-> [gather.asked EXCEPT ![s] = <<>>], out |-> gather'.out,
                    errors |-> IF r.available THEN gather.errors ELSE gather.errors + 1]
      /\ gather'.out = [x \in DOMAIN gather.out \cup {s} |-> IF x = s THEN r ELSE gather.out[x]]
  BY <1>3 DEF Views!Return
<1>5. /\ gather'.pc = "read" /\ gather'.page = gather.page /\ gather'.creds = gather.creds
      /\ gather'.asked = [gather.asked EXCEPT ![s] = <<>>] /\ DOMAIN gather'.asked = Views!Stacks
      /\ DOMAIN gather'.out = DOMAIN gather.out \cup {s} /\ gather'.out[s] = r
      /\ \A t \in DOMAIN gather.out : gather'.out[t] = gather.out[t]
      /\ r.available = TRUE => gather'.errors = gather.errors
      /\ r.available = FALSE => gather'.errors = gather.errors + 1
      /\ gather' = [pc |-> gather'.pc, page |-> gather'.page, creds |-> gather'.creds, asked |-> gather'.asked,
                    out |-> gather'.out, errors |-> gather'.errors]
  BY <1>1, <1>3, <1>4
<1>6. r.available \in BOOLEAN
  BY DEF Filed
<1>7. ReadsTyped'
  BY <1>1, <1>3, <1>5, <1>6 DEF ReadsInv, ReadsTyped, Views!Live
<1>8. ReadsProgress'
  BY <1>3, <1>5 DEF ReadsProgress
<1>9. ReadsTokens'
  BY <1>1, <1>5 DEF ReadsInv, ReadsTokens
<1>10. ReadsErrors'
  <2> DEFINE bad == DOMAIN gather.out \ Views!Available
  <2>1. gather.errors = Cardinality(bad)
    BY <1>1, <1>3, StacksAre DEF ReadsInv, ReadsErrors
  <2>2. IsFiniteSet(bad) /\ s \notin bad
    <3>1. bad \subseteq Views!Stacks
      BY <1>2, <1>3
    <3> QED
      BY <1>1, <3>1, StacksAre, FS_Subset
  <2>3. CASE r.available = TRUE
    <3>1. DOMAIN gather'.out \ Views!Available' = bad
      BY <1>1, <1>5, <2>3 DEF Views!Available
    <3> QED
      BY <1>1, <1>3, <1>5, <2>1, <2>3, <3>1 DEF ReadsErrors
  <2>4. CASE r.available = FALSE
    <3>1. DOMAIN gather'.out \ Views!Available' = bad \cup {s}
      BY <1>1, <1>5, <2>4 DEF Views!Available
    <3>2. Cardinality(bad \cup {s}) = Cardinality(bad) + 1
      BY <2>2, FS_AddElement
    <3> QED
      BY <1>1, <1>3, <1>5, <2>1, <2>4, <3>1, <3>2 DEF ReadsErrors
  <2> QED
    BY <1>6, <2>3, <2>4
<1>11. ReadsRecords'
  <2>1. \A q, b : Filed(q)' = Filed(q) /\ Honest(q, b)' = Honest(q, b)
    BY DEF Filed, Honest
  <2>2. ASSUME NEW t \in DOMAIN gather'.out
        PROVE  \/ gather'.out[t].available = FALSE /\ (gather'.out[t].reason = "no_credential" => t \notin noted'.kept)
               \/ Filed(gather'.out[t]) /\ Honest(gather'.out[t], noted'.truth[t])
    <3>1. CASE t = s
      BY <1>5, <3>1
    <3>2. CASE t # s
      <4>1. t \in DOMAIN gather.out /\ gather'.out[t] = gather.out[t] /\ t \in Views!Stacks
        BY <1>2, <1>3, <1>5, <3>2
      <4>2. noted'.truth[t] = noted.truth[t]
        BY <3>2, <4>1
      <4> QED
        BY <4>1, <4>2 DEF ReadsInv, ReadsRecords
    <3> QED
      BY <3>1, <3>2
  <2> QED
    BY <2>1, <2>2 DEF ReadsRecords
<1>12. ReadsAsked'
  <2>1. ASSUME NEW t \in Views!Stacks, t # s
        PROVE  gather'.asked[t] = gather.asked[t] /\ noted'.truth[t] = noted.truth[t]
    BY <1>3, <1>5, <2>1
  <2>2. gather'.asked[s] = <<>>
    BY <1>2, <1>3, <1>5
  <2> QED
    BY <2>1, <2>2 DEF ReadsInv, ReadsAsked
<1>13. Views!RowsAreLive'
  BY <1>5 DEF Views!RowsAreLive
<1> QED
  BY <1>7, <1>8, <1>9, <1>10, <1>11, <1>12, <1>13 DEF ReadsInv

LEMMA SkipKeeps ==
  ASSUME ReadConstants, ReadsInv, NEW s \in Views!Stacks, Views!Skip(s)
  PROVE  ReadsInv'
<1> DEFINE r == Views!Unasked(s)
<1>1. s \in Views!Waiting /\ gather' = Views!Return(s, r) /\ UNCHANGED <<task, held, tokens, composed, noted>>
      /\ ~r.available
  BY DEF Views!Skip
<1>2. r.available = FALSE /\ (r.reason = "no_credential" => gather.creds[s] = "none")
  <2>1. PICK x : r = Views!No(x) /\ (x = "no_credential" => gather.creds[s] = "none")
    BY <1>1, UnaskedAre
  <2>2. r.available = FALSE /\ r.reason = x
    BY <2>1 DEF Views!No, Views!NoRecord
  <2> QED
    BY <2>1, <2>2
<1>3. gather.creds[s] = "none" => s \notin noted.kept
  <2>1. gather.page = Len(Stack)
    BY <1>1 DEF Views!Waiting, ReadsInv, ReadsProgress
  <2> QED
    BY <2>1, StacksAre DEF ReadsInv, ReadsTokens
<1>4. noted \in [kept : SUBSET Views!Stacks, truth : [Views!Stacks -> Bodies], changes : Nat, faults : Nat]
  BY DEF ReadsInv, ReadsTyped
<1> HIDE DEF r
<1> QED
  BY <1>1, <1>2, <1>3, <1>4, ReturnKeeps

\* What a stack can answer to its n-th request.
LEMMA AnswersAre ==
  ASSUME ReadConstants, ReadsInv, NEW s \in Views!Stacks, NEW n \in 1 .. 3, NEW a \in Views!Answers(s, n)
  PROVE  /\ a \in AnswerType
         /\ a.status = 200 /\ (task.product # "synthetic" \/ n = 2) =>
              /\ a.shape \in {"whole", "null"} => a.items = held[s]
              /\ a.shape = "paged" => Len(a.items) <= Len(held[s]) /\ a.items = SubSeq(held[s], 1, Len(held[s]) - 1)
<1> DEFINE items == Views!Items(s, n)
<1>1. held[s] \in Seq(Views!Objects)
  BY DEF ReadsInv, ReadsTyped, Bodies
<1>2. items \in Seq(Views!Objects) /\ (task.product # "synthetic" \/ n = 2 => items = held[s])
  <2>1. <<"plain">> \in Seq(Views!Objects)
    BY DEF Views!Objects
  <2> QED
    BY <1>1, <2>1 DEF Views!Items, Views!product
<1> HIDE DEF items
<1>3. CASE a \in Views!Refusals
  <2>1. PICK status \in {0, 204, 403} : a = [status |-> status, shape |-> "whole", items |-> <<>>, matches |-> 1, odd |-> FALSE]
    BY <1>3 DEF Views!Refusals, Views!Answer
  <2>2. <<>> \in Seq(Views!Objects)
    OBVIOUS
  <2> QED
    BY <2>1, <2>2 DEF AnswerType
<1>4. CASE a = Views!Answer(200, "whole", items, 1, FALSE) \/ a = Views!Answer(200, "garbled", <<>>, 1, FALSE)
  <2>1. <<>> \in Seq(Views!Objects)
    OBVIOUS
  <2>2. CASE a = Views!Answer(200, "whole", items, 1, FALSE)
    BY <1>2, <2>2 DEF Views!Answer, AnswerType
  <2>3. CASE a = Views!Answer(200, "garbled", <<>>, 1, FALSE)
    BY <2>1, <2>3 DEF Views!Answer, AnswerType
  <2> QED
    BY <1>4, <2>2, <2>3
<1>5. CASE items = <<>> /\ a = Views!Answer(200, "null", <<>>, 1, FALSE)
  <2>1. <<>> \in Seq(Views!Objects)
    OBVIOUS
  <2> QED
    BY <1>2, <1>5, <2>1 DEF Views!Answer, AnswerType
<1>6. CASE items # <<>> /\ a = Views!Answer(200, "paged", SubSeq(items, 1, Len(items) - 1), 1, FALSE)
  <2>1. Len(items) \in Nat /\ Len(items) # 0
    BY <1>2, <1>6
  <2>2. SubSeq(items, 1, Len(items) - 1) \in Seq(Views!Objects) /\ Len(SubSeq(items, 1, Len(items) - 1)) <= Len(items)
    BY <1>2, <2>1
  <2>3. a = [status |-> 200, shape |-> "paged", items |-> SubSeq(items, 1, Len(items) - 1), matches |-> 1, odd |-> FALSE]
    BY <1>6 DEF Views!Answer
  <2>4. a.items = SubSeq(items, 1, Len(items) - 1) /\ a.shape = "paged" /\ a \in AnswerType
    BY <2>2, <2>3 DEF AnswerType
  <2> QED
    BY <1>2, <2>2, <2>4
<1>7. CASE /\ task.product = "synthetic" /\ n = 1
           /\ \E m \in {0, 1, 2}, o \in BOOLEAN : a = Views!Answer(200, "whole", <<"plain">>, m, o)
  <2>1. <<"plain">> \in Seq(Views!Objects)
    BY DEF Views!Objects
  <2> QED
    BY <1>7, <2>1 DEF Views!Answer, AnswerType
<1>8. \/ a \in Views!Refusals
      \/ a = Views!Answer(200, "whole", items, 1, FALSE) \/ a = Views!Answer(200, "garbled", <<>>, 1, FALSE)
      \/ items = <<>> /\ a = Views!Answer(200, "null", <<>>, 1, FALSE)
      \/ items # <<>> /\ a = Views!Answer(200, "paged", SubSeq(items, 1, Len(items) - 1), 1, FALSE)
      \/ /\ task.product = "synthetic" /\ n = 1
         /\ \E m \in {0, 1, 2}, o \in BOOLEAN : a = Views!Answer(200, "whole", <<"plain">>, m, o)
  <2> DEFINE simple == {Views!Answer(200, "garbled", <<>>, 1, FALSE), Views!Answer(200, "whole", items, 1, FALSE)}
             cut == IF items = <<>> THEN {Views!Answer(200, "null", <<>>, 1, FALSE)}
                    ELSE {Views!Answer(200, "paged", SubSeq(items, 1, Len(items) - 1), 1, FALSE)}
             uid == IF task.product = "synthetic" /\ n = 1
                    THEN {Views!Answer(200, "whole", <<"plain">>, m, FALSE) : m \in {0, 2}}
                         \cup {Views!Answer(200, "whole", <<"plain">>, 1, TRUE)}
                    ELSE {}
  <2>1. a \in Views!Refusals \cup (IF gather.creds[s] \notin tokens.valid[s] THEN {}
                                     ELSE IF s # Views!First THEN {Views!Answer(200, "whole", items, 1, FALSE)}
                                     ELSE simple \cup cut \cup uid)
    BY DEF Views!Answers, items, Views!product, Views!creds
  <2>2. a \in uid => /\ task.product = "synthetic" /\ n = 1
                     /\ \E m \in {0, 1, 2}, o \in BOOLEAN : a = Views!Answer(200, "whole", <<"plain">>, m, o)
    OBVIOUS
  <2>3. a \in cut => \/ items = <<>> /\ a = Views!Answer(200, "null", <<>>, 1, FALSE)
                     \/ items # <<>> /\ a = Views!Answer(200, "paged", SubSeq(items, 1, Len(items) - 1), 1, FALSE)
    OBVIOUS
  <2> HIDE DEF cut, uid
  <2> QED
    BY <2>1, <2>2, <2>3
<1> QED
  BY <1>3, <1>4, <1>5, <1>6, <1>7, <1>8

\* A record that counts what was listed is honest about it.
LEMMA CountsAreHonest ==
  ASSUME NEW r, NEW a \in AnswerType, NEW body \in Bodies, Filed(r), CountsOf(r, a),
         a.shape \in {"whole", "null"} => a.items = body,
         a.shape = "paged" => Len(a.items) <= Len(body) /\ a.items = SubSeq(body, 1, Len(body) - 1)
  PROVE  Honest(r, body)
<1>1. CASE a.shape \in {"whole", "null"}
  BY <1>1 DEF CountsOf, Honest, Views!Holds
<1>2. CASE a.shape = "paged"
  BY <1>2 DEF CountsOf, Honest
<1> QED
  BY <1>1, <1>2 DEF CountsOf

LEMMA AppendsAre ==
  ASSUME NEW a, NEW b
  PROVE  /\ Append(<<>>, a) = <<a>> /\ Append(<<b>>, a) = <<b, a>>
         /\ Len(<<>>) = 0 /\ Len(<<a>>) = 1 /\ Len(<<b, a>>) = 2
<1>1. Append(<<>>, a) = <<a>>
  OBVIOUS
<1>2. Len(<<>>) = 0 /\ Len(<<a>>) = 1 /\ Len(<<b, a>>) = 2
  OBVIOUS
<1>3. Append(<<b>>, a) = <<b, a>>
  <2> DEFINE one == <<b>>
  <2>1. one \in Seq({b}) /\ Len(one) = 1 /\ one[1] = b
    OBVIOUS
  <2>2. Append(one, a) \in Seq({a, b}) /\ Len(Append(one, a)) = 2 /\ Append(one, a)[1] = b /\ Append(one, a)[2] = a
    OBVIOUS
  <2>3. <<b, a>> \in Seq({a, b}) /\ Len(<<b, a>>) = 2 /\ <<b, a>>[1] = b /\ <<b, a>>[2] = a
    OBVIOUS
  <2>4. \A i \in 1 .. 2 : Append(one, a)[i] = <<b, a>>[i]
    BY <2>2, <2>3
  <2> DEFINE left == Append(one, a)
             right == <<b, a>>
             T == {a, b}
  <2>5. left \in Seq(T) /\ right \in Seq(T) /\ Len(left) = 2 /\ Len(right) = 2 /\ \A i \in 1 .. 2 : left[i] = right[i]
    BY <2>2, <2>3, <2>4
  <2>6. left = right
    <3> HIDE DEF left, right, T
    <3> QED
      BY <2>5, SeqEqual
  <2> QED
    BY <2>6
<1> QED
  BY <1>1, <1>2, <1>3

LEMMA AskKeeps ==
  ASSUME ReadConstants, ReadsInv, NEW s \in Views!Stacks, Views!Ask(s)
  PROVE  ReadsInv'
<1> DEFINE said == gather.asked[s]
<1> DEFINE n == Len(said) + 1
<1>1. PICK a \in Views!Answers(s, n) :
        LET given == Append(said, a)
            r == Views!Reading(given)
        IN  /\ s \in Views!Waiting
            /\ gather' = IF Len(given) = Views!Requests \/ ~r.available THEN Views!Return(s, r)
                         ELSE [gather EXCEPT !.asked[s] = given]
            /\ noted' = IF task.product = "synthetic" /\ Len(given) # 2 THEN noted
                        ELSE [noted EXCEPT !.truth[s] = held[s]]
            /\ UNCHANGED <<task, held, tokens, composed>>
  BY DEF Views!Ask, Views!product
<1> DEFINE given == Append(said, a)
<1> DEFINE r == Views!Reading(given)
<1>2. /\ s \in Views!Waiting /\ UNCHANGED <<task, held, tokens, composed>>
      /\ gather' = IF Len(given) = Views!Requests \/ ~r.available THEN Views!Return(s, r)
                   ELSE [gather EXCEPT !.asked[s] = given]
      /\ noted' = IF task.product = "synthetic" /\ Len(given) # 2 THEN noted
                  ELSE [noted EXCEPT !.truth[s] = held[s]]
  BY <1>1
<1>3. /\ noted \in [kept : SUBSET Views!Stacks, truth : [Views!Stacks -> Bodies], changes : Nat, faults : Nat]
      /\ held \in [Views!Stacks -> Bodies] /\ gather.pc = "read" /\ task.product \in Views!Products
      /\ gather = [pc |-> gather.pc, page |-> gather.page, creds |-> gather.creds, asked |-> gather.asked,
                   out |-> gather.out, errors |-> gather.errors]
      /\ DOMAIN gather.asked = Views!Stacks
  BY <1>2 DEF ReadsInv, ReadsTyped, Views!Waiting
<1>4. /\ noted' \in [kept : SUBSET Views!Stacks, truth : [Views!Stacks -> Bodies], changes : Nat, faults : Nat]
      /\ noted'.kept = noted.kept /\ noted'.faults = noted.faults
      /\ \A t \in Views!Stacks \ {s} : noted'.truth[t] = noted.truth[t]
      /\ task.product # "synthetic" \/ Len(given) = 2 => noted'.truth[s] = held[s]
      /\ task.product = "synthetic" /\ Len(given) # 2 => noted'.truth[s] = noted.truth[s]
  BY <1>2, <1>3
<1>5. \/ said = <<>>
      \/ task.product = "synthetic" /\ said = <<said[1]>> /\ said[1] \in AnswerType
      \/ /\ task.product = "synthetic" /\ said = <<said[1], said[2]>>
         /\ said[1] \in AnswerType /\ said[2] \in AnswerType
         /\ said[2].shape = "whole" => said[2].items = noted.truth[s]
  BY DEF ReadsInv, ReadsAsked
<1> HIDE DEF said
<1>6. n \in 1 .. 3 /\ Len(given) = n /\ given[n] = a /\ \A i \in 1 .. n - 1 : given[i] = said[i] /\ said[i] \in AnswerType
  <2>1. CASE said = <<>>
    BY <2>1
  <2>2. CASE said = <<said[1]>> /\ said[1] \in AnswerType
    <3> DEFINE b == said[1]
    <3>1. said = <<b>> /\ b \in AnswerType
      BY <2>2
    <3> HIDE DEF b
    <3> QED
      BY <3>1
  <2>3. CASE said = <<said[1], said[2]>> /\ said[1] \in AnswerType /\ said[2] \in AnswerType
    <3> DEFINE b == said[1]
               c == said[2]
    <3>1. said = <<b, c>> /\ b \in AnswerType /\ c \in AnswerType
      BY <2>3
    <3> HIDE DEF b, c
    <3> QED
      BY <3>1
  <2> QED
    BY <1>5, <2>1, <2>2, <2>3
<1>13. /\ n = 1 => said = <<>>
       /\ n = 2 => said = <<said[1]>> /\ said[1] \in AnswerType
       /\ n = 3 /\ said[2].shape = "whole" => said[2].items = noted.truth[s]
       /\ task.product # "synthetic" => said = <<>> /\ n = 1
  <2>1. said = <<>> => n = 1
    OBVIOUS
  <2> DEFINE b == said[1]
             c == said[2]
  <2>2. said = <<b>> => n = 2
    <3> HIDE DEF b
    <3> QED
      OBVIOUS
  <2>3. said = <<b, c>> => n = 3
    <3> HIDE DEF b, c
    <3> QED
      OBVIOUS
  <2> HIDE DEF n
  <2> QED
    BY <1>5, <2>1, <2>2, <2>3
<1> HIDE DEF n
<1>7. /\ a \in AnswerType
      /\ a.status = 200 /\ (task.product # "synthetic" \/ n = 2) =>
           /\ a.shape \in {"whole", "null"} => a.items = held[s]
           /\ a.shape = "paged" => Len(a.items) <= Len(held[s]) /\ a.items = SubSeq(held[s], 1, Len(held[s]) - 1)
  BY <1>6, AnswersAre
<1>8. Views!Requests = IF task.product = "synthetic" THEN 3 ELSE 1
  BY DEF Views!Requests, Views!product
<1>9. \/ r \in NotRead
      \/ /\ Filed(r) /\ a.status = 200
         /\ Len(given) = Views!Requests => Honest(r, noted'.truth[s])
  <2>1. CASE task.product # "synthetic"
    <3>1. given = <<a>> /\ n = 1
      BY <1>13, <2>1, AppendsAre
    <3>2. r \in NotRead \/ (Filed(r) /\ a.status = 200 /\ CountsOf(r, a))
      BY <1>3, <1>7, <2>1, <3>1, SimpleReadings
    <3>3. held[s] \in Bodies /\ noted'.truth[s] = held[s]
      BY <1>3, <1>4, <2>1
    <3>4. Filed(r) /\ a.status = 200 /\ CountsOf(r, a) => Honest(r, held[s])
      <4> HIDE DEF r
      <4> QED
        BY <1>7, <2>1, <3>3, CountsAreHonest
    <3> QED
      BY <3>2, <3>3, <3>4
  <2>2. CASE task.product = "synthetic"
    <3>1. \A i \in 1 .. n : given[i] \in AnswerType
      BY <1>6, <1>7
    <3>2. \/ r \in NotRead
          \/ Filed(r) /\ (n = 3 => given[2].shape = "whole" /\ CountsOf(r, given[2])) /\ given[n].status = 200
      <4>1. n \in 1 .. 3 /\ Len(given) = n
        BY <1>6
      <4> HIDE DEF given, r
      <4>2. LET q == Views!Reading(given) IN
            \/ q \in NotRead
            \/ Filed(q) /\ (n = 3 => given[2].shape = "whole" /\ CountsOf(q, given[2])) /\ given[n].status = 200
        BY <2>2, <3>1, <4>1, SyntheticReadings
      <4> QED
        BY <4>2 DEF r
    <3>3. ASSUME n = 3, Filed(r), given[2].shape = "whole", CountsOf(r, given[2])
          PROVE  Honest(r, noted'.truth[s])
      <4>1. given[2] = said[2] /\ said[2].items = noted.truth[s] /\ noted'.truth[s] = noted.truth[s]
        <5>1. given[2] = said[2] /\ Len(given) # 2
          BY <1>6, <3>3
        <5> HIDE DEF given
        <5> QED
          BY <1>4, <1>13, <2>2, <3>3, <5>1
      <4>2. noted'.truth[s] \in Bodies
        BY <1>4
      <4> HIDE DEF r, given
      <4> QED
        BY <1>6, <3>1, <3>3, <4>1, <4>2, CountsAreHonest
    <3> QED
      BY <1>6, <1>8, <2>2, <3>2, <3>3
  <2> QED
    BY <2>1, <2>2
<1>10. CASE Len(given) = Views!Requests \/ ~r.available
  <2>1. \/ r.available = FALSE /\ (r.reason = "no_credential" => s \notin noted.kept)
        \/ Filed(r) /\ Honest(r, noted'.truth[s])
    <3>1. CASE r \in NotRead
      BY <3>1, RefusedAre DEF ReadFaults
    <3>2. CASE Filed(r) /\ (Len(given) = Views!Requests => Honest(r, noted'.truth[s]))
      BY <1>10, <3>2 DEF Filed
    <3> QED
      BY <1>9, <3>1, <3>2
  <2>2. gather' = Views!Return(s, r)
    BY <1>2, <1>10
  <2> HIDE DEF r
  <2> QED
    BY <1>2, <1>4, <2>1, <2>2, ReturnKeeps
<1>11. CASE ~(Len(given) = Views!Requests \/ ~r.available)
  <2>1. task.product = "synthetic" /\ n \in {1, 2} /\ a.status = 200
    <3>1. r \notin NotRead
      BY <1>11, RefusedAre
    <3>2. task.product # "synthetic" => n = 1
      BY <1>13
    <3> QED
      BY <1>6, <1>8, <1>9, <1>11, <3>1, <3>2
  <2>2. gather' = [pc |-> gather.pc, page |-> gather.page, creds |-> gather.creds,
                   asked |-> [gather.asked EXCEPT ![s] = given], out |-> gather.out, errors |-> gather.errors]
    BY <1>2, <1>3, <1>11
  <2>3. /\ gather'.pc = gather.pc /\ gather'.page = gather.page /\ gather'.creds = gather.creds
        /\ gather'.out = gather.out /\ gather'.errors = gather.errors /\ DOMAIN gather'.asked = Views!Stacks
        /\ gather'.asked[s] = given /\ \A t \in Views!Stacks \ {s} : gather'.asked[t] = gather.asked[t]
        /\ gather' = [pc |-> gather'.pc, page |-> gather'.page, creds |-> gather'.creds, asked |-> gather'.asked,
                      out |-> gather'.out, errors |-> gather'.errors]
    <3> HIDE DEF given
    <3> QED
      BY <1>3, <2>2
  <2>4. ReadsTyped'
    BY <1>2, <1>4, <2>3 DEF ReadsInv, ReadsTyped, Views!Live
  <2>5. Views!Available' = Views!Available /\ s \notin DOMAIN gather.out /\ DOMAIN gather.out \subseteq Views!Stacks
    BY <1>2, <2>3 DEF Views!Available, Views!Waiting, ReadsInv, ReadsTyped, Views!Live
  <2>6. ReadsProgress' /\ ReadsErrors' /\ ReadsTokens' /\ Views!RowsAreLive'
    <3>1. ReadsProgress'
      BY <1>2, <1>3, <1>4, <2>3 DEF ReadsInv, ReadsProgress
    <3>2. ReadsErrors'
      BY <1>3, <1>4, <2>3, <2>5 DEF ReadsInv, ReadsErrors
    <3>3. ReadsTokens'
      BY <1>2, <1>4, <2>3 DEF ReadsInv, ReadsTokens
    <3>4. Views!RowsAreLive'
      BY <1>3, <2>3 DEF Views!RowsAreLive
    <3> QED
      BY <3>1, <3>2, <3>3, <3>4
  <2>7. ReadsRecords'
    <3>1. \A q, b : Filed(q)' = Filed(q) /\ Honest(q, b)' = Honest(q, b)
      BY <1>2 DEF Filed, Honest
    <3>2. \A t \in DOMAIN gather.out : noted'.truth[t] = noted.truth[t]
      BY <1>4, <2>5
    <3> QED
      BY <1>4, <2>3, <3>1, <3>2 DEF ReadsInv, ReadsRecords
  <2>8. ReadsAsked'
    <3>1. \/ given = <<given[1]>> /\ given[1] \in AnswerType
          \/ /\ given = <<given[1], given[2]>> /\ given[1] \in AnswerType /\ given[2] \in AnswerType
             /\ given[2].shape = "whole" => given[2].items = noted'.truth[s]
      <4>1. CASE n = 1
        <5>1. said = <<>>
          BY <1>13, <4>1
        <5>2. given = <<a>>
          BY <5>1, AppendsAre
        <5> QED
          BY <1>7, <5>2
      <4>2. CASE n = 2
        <5>1. said = <<said[1]>> /\ said[1] \in AnswerType
          BY <1>13, <4>2
        <5>2. given = <<said[1], a>>
          <6> DEFINE b == said[1]
          <6>1. Append(<<b>>, a) = <<b, a>>
            BY AppendsAre
          <6> QED
            BY <5>1, <6>1
        <5>3. a.shape = "whole" => a.items = noted'.truth[s]
          BY <1>4, <1>6, <1>7, <2>1, <4>2
        <5> HIDE DEF given
        <5> QED
          BY <1>7, <5>1, <5>2, <5>3
      <4> QED
        BY <2>1, <4>1, <4>2
    <3> HIDE DEF given
    <3>2. ASSUME NEW t \in Views!Stacks, t # s
          PROVE  gather'.asked[t] = gather.asked[t] /\ noted'.truth[t] = noted.truth[t]
      BY <1>4, <2>3, <3>2
    <3> QED
      BY <1>2, <2>1, <2>3, <3>1, <3>2 DEF ReadsInv, ReadsAsked
  <2> QED
    BY <2>4, <2>6, <2>7, <2>8 DEF ReadsInv
<1> QED
  BY <1>10, <1>11

LEMMA GatheredKeeps ==
  ASSUME ReadConstants, ReadsInv, Views!Gathered
  PROVE  ReadsInv'
<1>1. gather.pc = "read" /\ Views!Waiting = {} /\ UNCHANGED <<task, held, tokens, composed, noted>>
  BY DEF Views!Gathered
<1>2. /\ gather = [pc |-> gather.pc, page |-> gather.page, creds |-> gather.creds, asked |-> gather.asked,
                   out |-> gather.out, errors |-> gather.errors]
      /\ DOMAIN gather.out \subseteq Views!Live(task.inventory) /\ task.selected /\ gather.page = Len(Stack)
      /\ Len(Stack) \in Nat
  BY <1>1, StacksAre DEF ReadsInv, ReadsTyped, ReadsProgress
<1>3. DOMAIN gather.out = Views!Live(task.inventory)
  BY <1>1, <1>2 DEF Views!Waiting
<1>4. gather' = [pc |-> "done", page |-> gather.page, creds |-> gather.creds, asked |-> gather.asked,
                 out |-> gather.out, errors |-> gather.errors]
  BY <1>2 DEF Views!Gathered
<1>5. /\ gather'.pc = "done" /\ gather'.page = gather.page /\ gather'.creds = gather.creds
      /\ gather'.asked = gather.asked /\ gather'.out = gather.out /\ gather'.errors = gather.errors
      /\ gather' = [pc |-> gather'.pc, page |-> gather'.page, creds |-> gather'.creds, asked |-> gather'.asked,
                    out |-> gather'.out, errors |-> gather'.errors]
  BY <1>4
<1>6. ReadsTyped'
  BY <1>1, <1>5 DEF ReadsInv, ReadsTyped, Views!Live
<1>7. Views!Available' = Views!Available
  BY <1>5 DEF Views!Available
<1>8. ReadsProgress' /\ Views!RowsAreLive'
  BY <1>1, <1>2, <1>3, <1>5 DEF ReadsProgress, Views!RowsAreLive, Views!Live
<1>9. ReadsErrors'
  BY <1>1, <1>2, <1>5, <1>7 DEF ReadsInv, ReadsErrors
<1>10. ReadsTokens'
  BY <1>1, <1>5 DEF ReadsInv, ReadsTokens
<1>11. ReadsRecords'
  <2>1. \A q, b : Filed(q)' = Filed(q) /\ Honest(q, b)' = Honest(q, b)
    BY <1>1 DEF Filed, Honest
  <2> QED
    BY <1>1, <1>5, <2>1 DEF ReadsInv, ReadsRecords
<1>12. ReadsAsked'
  BY <1>1, <1>5 DEF ReadsInv, ReadsAsked
<1> QED
  BY <1>6, <1>8, <1>9, <1>10, <1>11, <1>12 DEF ReadsInv

LEMMA AvailableAre ==
  ASSUME ReadsInv, NEW s \in Views!Available
  PROVE  /\ s \in DOMAIN gather.out /\ s \in Views!Live(task.inventory) /\ s \in Views!Stacks
         /\ Filed(gather.out[s]) /\ Honest(gather.out[s], noted.truth[s])
BY DEF Views!Available, Views!Live, ReadsInv, ReadsTyped, ReadsRecords

LEMMA ComposeKeeps ==
  ASSUME ReadConstants, ReadsInv, Views!Compose
  PROVE  ReadsInv'
<1>1. PICK status \in {"active", "paused", "gone"} :
        LET now == [task.inventory EXCEPT ![Views!First] = status] IN
        /\ gather.pc = "done"
        /\ gather' = [gather EXCEPT !.pc = "composed"]
        /\ composed' = [inventory |-> now,
                        rows |-> [s \in Views!Live(now) \cap Views!Available |-> Views!Row(gather.out[s])]]
        /\ UNCHANGED <<task, held, tokens, noted>>
  BY DEF Views!Compose
<1> DEFINE now == [task.inventory EXCEPT ![Views!First] = status]
<1>2. /\ gather.pc = "done" /\ UNCHANGED <<task, held, tokens, noted>>
      /\ composed' = [inventory |-> now,
                      rows |-> [s \in Views!Live(now) \cap Views!Available |-> Views!Row(gather.out[s])]]
  BY <1>1
<1>3. gather = [pc |-> gather.pc, page |-> gather.page, creds |-> gather.creds, asked |-> gather.asked,
                out |-> gather.out, errors |-> gather.errors]
  BY DEF ReadsInv, ReadsTyped
<1>4. gather' = [pc |-> "composed", page |-> gather.page, creds |-> gather.creds, asked |-> gather.asked,
                 out |-> gather.out, errors |-> gather.errors]
  BY <1>1, <1>3
<1>5. /\ gather'.pc = "composed" /\ gather'.page = gather.page /\ gather'.creds = gather.creds
      /\ gather'.asked = gather.asked /\ gather'.out = gather.out /\ gather'.errors = gather.errors
      /\ gather' = [pc |-> gather'.pc, page |-> gather'.page, creds |-> gather'.creds, asked |-> gather'.asked,
                    out |-> gather'.out, errors |-> gather'.errors]
  BY <1>4
<1>6. ReadsTyped'
  BY <1>2, <1>5 DEF ReadsInv, ReadsTyped, Views!Live
<1>7. Views!Available' = Views!Available
  BY <1>5 DEF Views!Available
<1>8. ReadsProgress' /\ ReadsErrors'
  BY <1>2, <1>5, <1>7 DEF ReadsInv, ReadsProgress, ReadsErrors, Views!Live
<1>9. ReadsTokens'
  BY <1>2, <1>5 DEF ReadsInv, ReadsTokens
<1>10. ReadsRecords'
  <2>1. \A q, b : Filed(q)' = Filed(q) /\ Honest(q, b)' = Honest(q, b)
    BY <1>2 DEF Filed, Honest
  <2> QED
    BY <1>2, <1>5, <2>1 DEF ReadsInv, ReadsRecords
<1>11. ReadsAsked'
  BY <1>2, <1>5 DEF ReadsInv, ReadsAsked
<1>12. Views!RowsAreLive'
  <2>1. Views!Available \subseteq Views!Stacks
    BY AvailableAre
  <2>2. composed'.inventory = now /\ DOMAIN composed'.rows = Views!Live(now) \cap Views!Available
    BY <1>2
  <2>3. \A s \in DOMAIN composed'.rows : composed'.rows[s] = Views!Row(gather.out[s])
    BY <1>2
  <2> HIDE DEF now
  <2>4. DOMAIN composed'.rows = {s \in Views!Available : composed'.inventory[s] = "active"}
    BY <2>1, <2>2 DEF Views!Live
  <2>5. ASSUME NEW s \in DOMAIN composed'.rows
        PROVE  composed'.rows[s].count = gather.out[s].count /\ composed'.rows[s].exact = gather.out[s].exact
    <3>1. Filed(gather.out[s])
      BY <2>4, AvailableAre
    <3> DEFINE row == Views!Row(gather.out[s])
    <3>2. row.count = gather.out[s].count /\ row.exact = IF task.product = "irm_alert_groups" THEN gather.out[s].exact ELSE TRUE
      BY DEF Views!Row, Views!SloRow, Views!SyntheticRow, Views!FaroRow, Views!AlertGroupsRow,
         Views!CountRow, Views!product
    <3> QED
      BY <2>3, <3>1, <3>2 DEF Filed
  <2> QED
    BY <1>5, <1>7, <2>4, <2>5 DEF Views!RowsAreLive
<1> QED
  BY <1>6, <1>8, <1>9, <1>10, <1>11, <1>12 DEF ReadsInv

LEMMA ReadsKeep ==
  ASSUME ReadConstants, ReadsInv, Views!Next \/ UNCHANGED <<task, held, tokens, gather, composed, noted>>
  PROVE  ReadsInv'
<1>1. CASE UNCHANGED <<task, held, tokens, gather, composed, noted>>
  <2>1. ReadsTyped'
    BY <1>1 DEF ReadsInv, ReadsTyped, Views!Live
  <2>2. ReadsTokens'
    BY <1>1 DEF ReadsInv, ReadsTokens
  <2>3. noted' = [noted EXCEPT !.changes = noted'.changes]
    BY <1>1 DEF ReadsInv, ReadsTyped
  <2> QED
    BY <1>1, <2>1, <2>2, <2>3, ReadsUntouched DEF ReadsInv
<1>2. CASE Views!Next
  <2>1. CASE Views!Rotate \/ Views!Revoke
    BY <2>1, TokensMove
  <2>2. CASE Views!Change
    BY <2>2, HoldingChanges
  <2>3. CASE Views!Deselected \/ Views!Begin \/ Views!PageFails
    BY <2>3, ReadsStart
  <2>4. CASE Views!Page
    BY <2>4, PageIsRead
  <2>5. CASE \E s \in Views!Stacks : Views!Skip(s) \/ Views!Ask(s)
    BY <2>5, SkipKeeps, AskKeeps
  <2>6. CASE Views!Gathered
    BY <2>6, GatheredKeeps
  <2>7. CASE Views!Compose
    BY <2>7, ComposeKeeps
  <2> QED
    BY <1>2, <2>1, <2>2, <2>3, <2>4, <2>5, <2>6, <2>7 DEF Views!Next
<1> QED
  BY <1>1, <1>2

\* The least of two numbers.
LEMMA LeastOfTwo ==
  ASSUME NEW a \in Nat, NEW b \in Nat
  PROVE  Views!Min({a, b}) = IF a <= b THEN a ELSE b
<1>1. \E x \in {a, b} : \A y \in {a, b} : x <= y
  OBVIOUS
<1>2. Views!Min({a, b}) \in {a, b} /\ \A y \in {a, b} : Views!Min({a, b}) <= y
  BY <1>1 DEF Views!Min
<1> QED
  BY <1>2

LEMMA CardinalityIs ==
  ASSUME NEW S
  PROVE  Views!Cardinality(S) = Cardinality(S)
BY DEF Views!Cardinality, Cardinality

LEMMA ReportAddsUp ==
  ASSUME ReadConstants, ReadsInv, task.selected, DOMAIN gather.out = Views!Live(task.inventory)
  PROVE  LET r == Views!SyntheticReport IN
         /\ r.expected + r.absent = Cardinality(Views!Live(task.inventory))
         /\ r.available = Cardinality(Views!Available)
<1> DEFINE all == Views!Live(task.inventory)
           none == {s \in DOMAIN gather.out : gather.out[s].reason = "no_datasource"}
<1>1. IsFiniteSet(all) /\ none \subseteq all /\ Views!Available \subseteq all
  <2>1. all \subseteq Views!Stacks
    BY DEF Views!Live
  <2> QED
    BY <2>1, StacksAre, FS_Subset, AvailableAre
<1>2. none \cap Views!Available = {}
  BY AvailableAre DEF Filed
<1> HIDE DEF all, none
<1>3. /\ IsFiniteSet(none) /\ IsFiniteSet(Views!Available) /\ Cardinality(all) \in Nat
      /\ Cardinality(none) \in Nat /\ Cardinality(Views!Available) \in Nat
  BY <1>1, FS_Subset, FS_CardinalityType
<1>4. Cardinality(none) <= Cardinality(all)
  BY <1>1, FS_Subset
<1>5. Cardinality(none) + Cardinality(Views!Available) <= Cardinality(all)
  <2>1. Cardinality(none \cup Views!Available) = Cardinality(none) + Cardinality(Views!Available)
    <3>1. Cardinality(none \cap Views!Available) = 0
      BY <1>2, FS_EmptySet
    <3>2. Cardinality(none \cup Views!Available) =
            Cardinality(none) + Cardinality(Views!Available) - Cardinality(none \cap Views!Available)
      BY <1>3, FS_Union
    <3> QED
      BY <1>3, <3>1, <3>2
  <2>2. none \cup Views!Available \subseteq all
    BY <1>1
  <2> QED
    BY <1>1, <2>1, <2>2, FS_Subset
<1>6. Views!Expected = Cardinality(all)
  <2>1. task.selected = TRUE
    BY DEF ReadsInv, ReadsTyped
  <2> QED
    BY <2>1, CardinalityIs DEF Views!Expected, all
<1>7. Views!NotApplicable = Cardinality(none)
  <2>1. Views!NotApplicable = Views!Min({Cardinality(all), Cardinality(none)})
    BY <1>6, CardinalityIs, Zenon DEF Views!NotApplicable, none
  <2> QED
    BY <1>3, <1>4, <2>1, LeastOfTwo
<1>8. Views!Min({Cardinality(all) - Cardinality(none), Cardinality(Views!Available)}) = Cardinality(Views!Available)
  <2>1. Cardinality(all) - Cardinality(none) \in Nat /\ Cardinality(Views!Available) <= Cardinality(all) - Cardinality(none)
    BY <1>3, <1>4, <1>5
  <2> QED
    BY <1>3, <2>1, LeastOfTwo
<1>9. Cardinality(all) - Cardinality(none) + Cardinality(none) = Cardinality(all)
  BY <1>3
<1> DEFINE r == Views!SyntheticReport
<1>10. /\ r.expected = Cardinality(all) - Cardinality(none) /\ r.absent = Cardinality(none)
       /\ r.available = Views!Min({Cardinality(all) - Cardinality(none), Cardinality(Views!Available)})
  BY <1>6, <1>7, CardinalityIs DEF Views!SyntheticReport
<1> HIDE DEF r
<1>11. r.expected + r.absent = Cardinality(all) /\ r.available = Cardinality(Views!Available)
  BY <1>8, <1>9, <1>10
<1> QED
  BY <1>11 DEF all, r

LEMMA ReadsHold ==
  ASSUME ReadConstants, ReadsInv
  PROVE  Views!ReadsAreTrue
<1>1. Views!CountsAreWhole
  BY AvailableAre DEF Views!CountsAreWhole, Filed, Honest
<1>2. Views!NobodyAccused
  BY DEF Views!NobodyAccused, ReadsInv, ReadsRecords, Filed
<1>3. Views!CredentialsDiscarded
  <2>1. ASSUME NEW s \in Views!Available,
               task.product \in {"reports", "playlists", "slo", "cloud_accounts", "ml_jobs"}
        PROVE  Views!Range(noted.truth[s])
                 \cap ({"secret"} \cup (IF task.product = "ml_jobs" THEN {} ELSE {"keyed"})) = {}
    BY <2>1, AvailableAre DEF Honest, Views!Range
  <2> QED
    BY <2>1 DEF Views!CredentialsDiscarded, Views!product
<1>4. Views!AllAccounted
  <2>1. CASE gather.pc \in {"done", "composed"}
    <3>1. CASE DOMAIN gather.out = {} /\ gather.page < Len(Stack)
      <4>1. gather.errors = noted.faults
        BY <3>1, StacksAre DEF ReadsInv, ReadsErrors
      <4> QED
        BY <3>1, <4>1 DEF Views!AllAccounted
    <3>2. CASE ~(DOMAIN gather.out = {} /\ gather.page < Len(Stack))
      <4>1. task.selected /\ DOMAIN gather.out = Views!Live(task.inventory)
        BY <2>1, <3>2 DEF ReadsInv, ReadsProgress
      <4>2. gather.errors = Cardinality(DOMAIN gather.out \ Views!Available)
        BY <3>2 DEF ReadsInv, ReadsErrors
      <4> DEFINE r == Views!SyntheticReport
      <4>3. /\ r.expected + r.absent = Cardinality(Views!Live(task.inventory))
            /\ r.available = Cardinality(Views!Available)
        BY <4>1, ReportAddsUp
      <4> QED
        BY <4>1, <4>2, <4>3, CardinalityIs DEF Views!AllAccounted
    <3> QED
      BY <3>1, <3>2
  <2> QED
    BY <2>1 DEF Views!AllAccounted
<1> QED
  BY <1>1, <1>2, <1>3, <1>4 DEF Views!ReadsAreTrue, ReadsInv

-----------------------------------------------------------------------------
(* The rubric of Maturity.                                                    *)

\* The inventory's row of a stack, and what it is judged by.
RankedRow ==
  [status : {"active", "paused"}, users : Nat, admins : Nat, daily : Nat, signals : Nat,
   dashboards : Nat, alerts : Nat, types : Nat]

\* The weight that can have been judged before each turn without the data plane.
ThinWeight(n) ==
  IF n <= 1 THEN 0 ELSE IF n = 2 THEN 3 ELSE IF n <= 4 THEN 6 ELSE IF n = 5 THEN 9
  ELSE IF n <= 7 THEN 11 ELSE IF n = 8 THEN 13 ELSE 14

\* The sum of the points lies between the least and the greatest, each by all of the weight.
Between ==
  \/ judgedWeight.k = 0 /\ pointSum = 0
  \/ /\ judgedWeight.k > 0
     /\ \E d \in DOMAIN points : points[d] * judgedWeight.k <= pointSum
     /\ \E d \in DOMAIN points : points[d] * judgedWeight.k >= pointSum

\* The turn that comes next, beyond the rubric at the end.
Judging == IF turn = 0 THEN 10 ELSE turn

RankInv ==
  /\ estateRow \in RankedRow /\ dataPlane \in {"absent", "present"} /\ turn \in 0 .. 10
  /\ judgedWeight.k \in Nat /\ pointSum \in Nat
  /\ \A d \in DOMAIN points : points[d] \in 0 .. 100 /\ \E i \in 1 .. Judging - 1 : d = Rank!Rubric[i][1]
  /\ Between
  /\ dataPlane = "absent" => judgedWeight.k <= ThinWeight(Judging)
  /\ ranking = Rank!Unjudged \/ ranking = Rank!Judgement(estateRow, pointSum, judgedWeight)
  /\ turn \in 1 .. 9 => ranking = Rank!Unjudged
  /\ dataPlane = "absent" => handed = [metrics |-> FALSE, views |-> FALSE]

LEMMA QuotientIsNat ==
  ASSUME NEW a \in Nat, NEW b \in Nat, b > 0
  PROVE  a \div b \in Nat
OBVIOUS

LEMMA QuotientIsInt ==
  ASSUME NEW a \in Int, NEW b \in Nat, b > 0
  PROVE  a \div b \in Int
OBVIOUS

LEMMA ProductIsNat ==
  ASSUME NEW a \in Nat, NEW b \in Nat
  PROVE  a * b \in Nat /\ (a > 0 /\ b > 0 => a * b > 0)
OBVIOUS

LEMMA GreaterOfTwo ==
  ASSUME NEW a \in Int, NEW b \in Int
  PROVE  Rank!Max({a, b}) = IF a >= b THEN a ELSE b
<1>1. \E x \in {a, b} : \A y \in {a, b} : x >= y
  OBVIOUS
<1>2. Rank!Max({a, b}) \in {a, b} /\ \A y \in {a, b} : Rank!Max({a, b}) >= y
  BY <1>1 DEF Rank!Max
<1> QED
  BY <1>2

LEMMA LesserOfTwo ==
  ASSUME NEW a \in Int, NEW b \in Int
  PROVE  Rank!Min({a, b}) = IF a <= b THEN a ELSE b
<1>1. \E x \in {a, b} : \A y \in {a, b} : x <= y
  OBVIOUS
<1>2. Rank!Min({a, b}) \in {a, b} /\ \A y \in {a, b} : Rank!Min({a, b}) <= y
  BY <1>1 DEF Rank!Min
<1> QED
  BY <1>2

LEMMA ClampIs ==
  ASSUME NEW x \in Int
  PROVE  Rank!Clamp(x) \in 0 .. 100
<1>1. Rank!Min({100, x}) \in Int
  BY LesserOfTwo
<1>2. Rank!Min({100, x}) <= 100
  BY LesserOfTwo
<1> DEFINE m == Rank!Min({100, x})
<1>3. Rank!Clamp(x) = Rank!Max({0, m})
  BY DEF Rank!Clamp
<1> HIDE DEF m
<1>4. m \in Int /\ m <= 100
  BY <1>1, <1>2 DEF m
<1>5. Rank!Max({0, m}) = IF 0 >= m THEN 0 ELSE m
  BY <1>4, GreaterOfTwo
<1> QED
  BY <1>3, <1>4, <1>5

LEMMA BandIs ==
  ASSUME NEW a \in Nat, NEW b \in Nat, b > 0, NEW lo \in Nat, lo > 0, NEW hi \in Nat, hi > 0
  PROVE  Rank!Band(a, b, lo, hi) \in Int
<1>1. lo * b \in Nat /\ lo * b > 0 /\ hi * b \in Nat /\ hi * b > 0 /\ 2 * hi * b \in Nat /\ 2 * hi * b > 0
  <2>1. 2 * hi \in Nat /\ 2 * hi > 0
    OBVIOUS
  <2> QED
    BY <2>1, ProductIsNat
<1> DEFINE low == lo * b
           high == hi * b
           twice == 2 * hi * b
<1>2. Rank!Band(a, b, lo, hi) =
        IF 100 * a < low THEN Rank!Clamp((10000 * a) \div low)
        ELSE IF 100 * a <= high THEN 100 ELSE Rank!Clamp(100 - (100 * (100 * a - high)) \div twice)
  BY DEF Rank!Band
<1> HIDE DEF low, high, twice
<1>3. low \in Nat /\ low > 0 /\ high \in Nat /\ twice \in Nat /\ twice > 0
  BY <1>1 DEF low, high, twice
<1>4. (10000 * a) \div low \in Int
  BY <1>3, QuotientIsInt
<1>5. (100 * (100 * a - high)) \div twice \in Int
  <2>1. 100 * (100 * a - high) \in Int
    BY <1>3
  <2> QED
    BY <2>1, <1>3, QuotientIsInt
<1>6. 100 - (100 * (100 * a - high)) \div twice \in Int
  BY <1>5
<1> QED
  BY <1>4, <1>2, <1>6, ClampIs

LEMMA HigherBetterIs ==
  ASSUME NEW a \in Nat, NEW b \in Nat, b > 0, NEW good \in Nat, good > 0
  PROVE  Rank!HigherBetter(a, b, good) \in Int
<1>1. good * b \in Nat /\ good * b > 0
  BY ProductIsNat
<1>2. (10000 * a) \div (good * b) \in Int
  BY <1>1, QuotientIsInt
<1> QED
  BY <1>2 DEF Rank!HigherBetter

LEMMA LowerBetterIs ==
  ASSUME NEW share \in Int
  PROVE  Rank!LowerBetter(share, 20, 75) \in Int
<1>1. (100 * (75 - share)) \div 55 \in Int
  OBVIOUS
<1> QED
  BY <1>1 DEF Rank!LowerBetter

\* What the inventory is judged by is a number.
LEMMA JudgedIs ==
  ASSUME NEW s \in RankedRow,
         NEW d \in {"signal_breadth", "alerting_proportionality", "engagement", "access_hygiene",
                    "dashboard_utilisation", "datasource_breadth"}
  PROVE  Rank!Judged(d, s) \in Int
<1>1. /\ s.users \in Nat /\ s.admins \in Nat /\ s.daily \in Nat /\ s.signals \in Nat
      /\ s.dashboards \in Nat /\ s.alerts \in Nat /\ s.types \in Nat
  BY DEF RankedRow
<1>2. CASE d = "signal_breadth"
  BY <1>1, <1>2, HigherBetterIs DEF Rank!Judged
<1>3. CASE d = "alerting_proportionality"
  <2>1. s.dashboards # 0 => Rank!Band(s.alerts, s.dashboards, 20, 300) \in Int
    BY <1>1, BandIs
  <2> QED
    BY <1>3, <2>1 DEF Rank!Judged, Rank!Unscored
<1>4. CASE d = "engagement"
  <2>1. s.users # 0 => Rank!HigherBetter(s.daily, s.users, 75) \in Int
    BY <1>1, HigherBetterIs
  <2> QED
    BY <1>4, <2>1 DEF Rank!Judged, Rank!Unscored
<1>5. CASE d = "access_hygiene"
  <2>1. s.users # 0 => (100 * s.admins) \div s.users \in Int
    BY <1>1, QuotientIsInt
  <2>2. Rank!AccessHygiene(s) \in Int
    BY <1>1, <2>1, LowerBetterIs DEF Rank!AccessHygiene, Rank!Unscored
  <2> QED
    BY <1>5, <2>2 DEF Rank!Judged
<1>6. CASE d = "dashboard_utilisation"
  <2>1. s.users # 0 => Rank!Band(s.dashboards, s.users, 200, 2500) \in Int
    BY <1>1, BandIs
  <2> QED
    BY <1>6, <2>1 DEF Rank!Judged, Rank!Unscored
<1>7. CASE d = "datasource_breadth"
  <2>1. Rank!HigherBetter(s.types, 1, 500) \in Int
    BY <1>1, HigherBetterIs
  <2> QED
    BY <1>7, <2>1 DEF Rank!Judged
<1> QED
  BY <1>2, <1>3, <1>4, <1>5, <1>6, <1>7

LEMMA LabellingIs ==
  ASSUME RankConstants, NEW labels \in Rank!LabelStates
  PROVE  Rank!Labelling(labels) \in Int
<1> DEFINE counted == Rank!Counted(labels)
           Weight(s) == IF s \in counted THEN labels[s].applicable ELSE 0
           Points(s) == IF s \in counted THEN Rank!SignalScore(labels[s]) * labels[s].applicable ELSE 0
<1>1. /\ DOMAIN labels \subseteq {"metrics", "logs"}
      /\ \A s \in DOMAIN labels : labels[s] \in RuleWeights
  BY DEF Rank!LabelStates
<1>2. ASSUME NEW s \in counted
      PROVE  labels[s].applicable \in Nat /\ labels[s].applicable > 0 /\ Rank!SignalScore(labels[s]) \in Int
  <2>1. /\ s \in DOMAIN labels /\ labels[s].evaluated > 0 /\ labels[s] \in RuleWeights
    BY <1>1 DEF Rank!Counted
  <2>2. /\ labels[s].applicable \in Nat /\ labels[s].evaluated \in Nat /\ labels[s].passed \in Nat
        /\ labels[s].evaluated <= labels[s].applicable
    BY <2>1 DEF RankConstants
  <2>3. (100 * labels[s].passed) \div labels[s].evaluated \in Int
    BY <2>1, <2>2, QuotientIsInt
  <2> QED
    BY <2>1, <2>2, <2>3 DEF Rank!SignalScore
<1>3. counted \subseteq {"metrics", "logs"}
  BY <1>1 DEF Rank!Counted
<1>4. Rank!Labelling(labels) = IF counted = {} THEN Rank!Unscored
                               ELSE (Points("metrics") + Points("logs")) \div (Weight("metrics") + Weight("logs"))
  BY DEF Rank!Labelling
<1> HIDE DEF counted
<1>5. \A s \in {"metrics", "logs"} : Weight(s) \in Nat /\ (s \in counted => Weight(s) > 0) /\ Points(s) \in Int
  BY <1>2
<1>6. /\ Weight("metrics") \in Nat /\ ("metrics" \in counted => Weight("metrics") > 0)
      /\ Weight("logs") \in Nat /\ ("logs" \in counted => Weight("logs") > 0)
  BY <1>5
<1>7. counted # {} => Weight("metrics") + Weight("logs") \in Nat /\ Weight("metrics") + Weight("logs") > 0
  <2> DEFINE one == Weight("metrics")
             two == Weight("logs")
  <2>1. one \in Nat /\ two \in Nat /\ ("metrics" \in counted => one > 0) /\ ("logs" \in counted => two > 0)
    BY <1>6
  <2> HIDE DEF one, two
  <2>2. counted # {} => one + two \in Nat /\ one + two > 0
    <3>1. counted # {} => "metrics" \in counted \/ "logs" \in counted
      BY <1>3
    <3>2. counted # {} => one > 0 \/ two > 0
      BY <2>1, <3>1
    <3>3. one \in Nat /\ two \in Nat
      BY <2>1
    <3> QED
      BY <3>2, <3>3
  <2> QED
    BY <2>2 DEF one, two
<1> HIDE DEF Weight, Points
<1>8. Points("metrics") + Points("logs") \in Int
  BY <1>5
<1>9. counted # {} => (Points("metrics") + Points("logs")) \div (Weight("metrics") + Weight("logs")) \in Int
  BY <1>7, <1>8, QuotientIsInt
<1> QED
  BY <1>4, <1>9 DEF Rank!Unscored

LEMMA MeasuredIs ==
  ASSUME RankConstants, NEW d \in Rank!OfDataplane, NEW x \in Rank!Measured(d)
  PROVE  x \in Int
<1>1. CASE d = "adaptive_adoption"
  <2>1. PICK a \in Rank!AdaptiveStates : x = Rank!Adaptive(a)
    BY <1>1 DEF Rank!Measured
  <2>2. a.applied \in Nat /\ a.pending \in Nat
    BY DEF Rank!AdaptiveStates
  <2>3. a.applied + a.pending # 0 => (100 * a.applied) \div (a.applied + a.pending) \in Int
    <3>1. 100 * a.applied \in Int /\ a.applied + a.pending \in Nat
      BY <2>2
    <3> QED
      BY <3>1, QuotientIsInt
  <2> QED
    BY <2>1, <2>3 DEF Rank!Adaptive, Rank!Unscored
<1>2. CASE d = "collector_health"
  <2>1. PICK f \in Rank!FleetStates : x = Rank!CollectorHealth(f)
    BY <1>2 DEF Rank!Measured
  <2> QED
    BY <2>1 DEF Rank!CollectorHealth, Rank!Unscored
<1>3. CASE d = "cardinality_discipline"
  <2>1. PICK l \in Rank!LabelStates : x = Rank!Labelling(l)
    BY <1>3 DEF Rank!Measured
  <2> QED
    BY <2>1, LabellingIs
<1> QED
  BY <1>1, <1>2, <1>3 DEF Rank!OfDataplane

LEMMA RubricIs ==
  /\ DOMAIN Rank!Rubric = 1 .. 9 /\ Len(Rank!Rubric) = 9
  /\ Rank!Rubric[1] = <<"signal_breadth", 3>> /\ Rank!Rubric[2] = <<"alerting_proportionality", 3>>
  /\ Rank!Rubric[3] = <<"adaptive_adoption", 3>> /\ Rank!Rubric[4] = <<"engagement", 3>>
  /\ Rank!Rubric[5] = <<"access_hygiene", 2>> /\ Rank!Rubric[6] = <<"cardinality_discipline", 2>>
  /\ Rank!Rubric[7] = <<"dashboard_utilisation", 2>> /\ Rank!Rubric[8] = <<"datasource_breadth", 1>>
  /\ Rank!Rubric[9] = <<"collector_health", 1>>
BY DEF Rank!Rubric

\* A number between a and b stays between when the same weight of a number is added to all.
LEMMA OneMore ==
  ASSUME NEW low \in Nat, NEW high \in Nat, NEW sum \in Nat, NEW k \in Nat, NEW x \in Nat, NEW w \in Nat,
         low * k <= sum, high * k >= sum
  PROVE  /\ low * (k + w) <= sum + x * w \/ x * (k + w) <= sum + x * w
         /\ high * (k + w) >= sum + x * w \/ x * (k + w) >= sum + x * w
<1>1. /\ low * (k + w) = low * k + low * w /\ high * (k + w) = high * k + high * w
      /\ x * (k + w) = x * k + x * w
  OBVIOUS
<1>2. \A a, b, c \in Nat : a <= b => a * c <= b * c
  OBVIOUS
<1>3. /\ low * k \in Nat /\ low * w \in Nat /\ high * k \in Nat /\ high * w \in Nat /\ x * k \in Nat /\ x * w \in Nat
  BY ProductIsNat
<1>4. low <= x => low * w <= x * w
  BY <1>2
<1>5. x <= low => x * k <= low * k
  BY <1>2
<1>6. high >= x => high * w >= x * w
  BY <1>2
<1>7. x >= high => x * k >= high * k
  BY <1>2
<1> DEFINE lk == low * k
           lw == low * w
           hk == high * k
           hw == high * w
           xk == x * k
           xw == x * w
<1> HIDE DEF lk, lw, hk, hw, xk, xw
<1>8. /\ lk \in Nat /\ lw \in Nat /\ hk \in Nat /\ hw \in Nat /\ xk \in Nat /\ xw \in Nat
      /\ (low <= x => lw <= xw) /\ (x <= low => xk <= lk) /\ (high >= x => hw >= xw) /\ (x >= high => xk >= hk)
      /\ lk <= sum /\ hk >= sum
  BY <1>3, <1>4, <1>5, <1>6, <1>7 DEF lk, lw, hk, hw, xk, xw
<1>9. /\ lk + lw <= sum + xw \/ xk + xw <= sum + xw
      /\ hk + hw >= sum + xw \/ xk + xw >= sum + xw
  BY <1>8
<1> QED
  BY <1>1, <1>9 DEF lk, lw, hk, hw, xk, xw

LEMMA QuotientLies ==
  ASSUME NEW sum \in Nat, NEW k \in Nat, k > 0, NEW low \in Nat, NEW high \in Nat, low * k <= sum, high * k >= sum
  PROVE  low <= sum \div k /\ sum \div k <= high
<1> DEFINE q == sum \div k
<1>1. q \in Nat /\ q * k <= sum /\ sum < (q + 1) * k
  OBVIOUS
<1> HIDE DEF q
<1>2. \A a, b \in Nat : a < b => a * k < b * k
  OBVIOUS
<1>3. \A a, b \in Nat : a * k \in Nat
  BY ProductIsNat
<1>4. low <= q
  <2>1. CASE q + 1 <= low
    <3>1. q < low /\ (q + 1) * k <= low * k
      BY <1>1, <1>2, <2>1
    <3> QED
      BY <1>1, <1>3, <3>1
  <2> QED
    BY <1>1, <2>1
<1>5. q <= high
  <2>1. CASE high < q
    BY <1>1, <1>2, <1>3, <2>1
  <2> QED
    BY <1>1, <2>1
<1> QED
  BY <1>4, <1>5 DEF q

LEMMA RankBegins ==
  ASSUME RankConstants, Rank!Init
  PROVE  RankInv
<1> USE DEF Rank!Init
<1>1. estateRow \in RankedRow
  <2>1. PICK users \in ActiveUsers, dashboards \in ObjectCounts, alerts \in ObjectCounts, types \in ObjectCounts,
             signals \in {0, 1, 3}, admins \in {0, 1}, daily \in {0, 1}, status \in {"active", "paused"} :
          estateRow = [status |-> status, users |-> users, admins |-> admins * users, daily |-> daily * users,
                       signals |-> signals, dashboards |-> dashboards, alerts |-> alerts, types |-> types]
    OBVIOUS
  <2>2. admins * users \in Nat /\ daily * users \in Nat
    BY ProductIsNat DEF RankConstants
  <2> QED
    BY <2>1, <2>2 DEF RankConstants, RankedRow
<1>2. judgedWeight.k = 0 /\ pointSum = 0 /\ DOMAIN points = {} /\ turn = 1
  BY DEF Rank!Nothing
<1> QED
  BY <1>1, <1>2 DEF RankInv, Between, ThinWeight, Judging

\* One turn of the loop.
LEMMA JudgeKeeps ==
  ASSUME RankConstants, RankInv, Rank!Judge
  PROVE  RankInv'
<1> DEFINE d == Rank!Rubric[turn][1]
           w == Rank!Rubric[turn][2]
<1>1. /\ turn \in 1 .. 9 /\ turn' = turn + 1 /\ UNCHANGED <<estateRow, dataPlane, ranking, handed>>
  BY RubricIs DEF Rank!Judge
<1>2. Judging = turn /\ Judging' = turn + 1
  BY <1>1 DEF Judging
<1>3. /\ d = Rank!Rubric[turn][1]
       /\ \A i \in 1 .. turn - 1 : Rank!Rubric[i][1] # d
  BY <1>1, RubricIs
<1>4. w \in 1 .. 3 /\ d \in Rank!OfDataplane \cup {"signal_breadth", "alerting_proportionality", "engagement",
        "access_hygiene", "dashboard_utilisation", "datasource_breadth"}
  BY <1>1, RubricIs DEF Rank!OfDataplane
<1>5. PICK judged \in Rank!Outcomes(d) :
        IF judged = Rank!Unscored THEN UNCHANGED <<points, pointSum, judgedWeight>>
        ELSE /\ points' = [x \in DOMAIN points \cup {d} |-> IF x = d THEN Rank!Clamp(judged) ELSE points[x]]
             /\ pointSum' = pointSum + Rank!Clamp(judged) * w
             /\ judgedWeight' = Rank!Plus(judgedWeight, w)
  BY DEF Rank!Judge
<1>6. judged \in Int /\ (d \in Rank!OfDataplane /\ dataPlane = "absent" => judged = Rank!Unscored)
  <2>1. CASE d \notin Rank!OfDataplane
    <3>1. judged = Rank!Judged(d, estateRow)
      BY <2>1 DEF Rank!Outcomes
    <3> HIDE DEF d
    <3> QED
      BY <1>4, <2>1, <3>1, JudgedIs DEF RankInv
  <2>2. CASE d \in Rank!OfDataplane
    <3>1. judged = Rank!Unscored \/ judged \in Rank!Measured(d)
      BY <2>2 DEF Rank!Outcomes
    <3>2. dataPlane = "absent" => judged = Rank!Unscored
      BY <2>2 DEF Rank!Outcomes
    <3> HIDE DEF d
    <3> QED
      BY <2>2, <3>1, <3>2, MeasuredIs DEF Rank!Unscored
  <2> QED
    BY <2>1, <2>2
<1>7. ThinWeight(turn) \in Nat /\ ThinWeight(turn + 1) \in Nat /\ ThinWeight(turn) <= ThinWeight(turn + 1)
      /\ (d \notin Rank!OfDataplane => ThinWeight(turn) + w <= ThinWeight(turn + 1))
  BY <1>1, RubricIs DEF ThinWeight, Rank!OfDataplane
<1> HIDE DEF d, w
<1>8. /\ turn' \in 0 .. 10 /\ estateRow' \in RankedRow /\ dataPlane' \in {"absent", "present"}
      /\ ranking' = Rank!Unjudged /\ (dataPlane' = "absent" => handed' = [metrics |-> FALSE, views |-> FALSE])
  BY <1>1 DEF RankInv
<1>9. CASE judged = Rank!Unscored
  <2>1. points' = points /\ pointSum' = pointSum /\ judgedWeight' = judgedWeight
    BY <1>5, <1>9
  <2>2. Between'
    BY <2>1 DEF RankInv, Between
  <2>3. dataPlane' = "absent" => judgedWeight'.k <= ThinWeight(turn + 1)
    BY <1>1, <1>7, <1>2, <2>1 DEF RankInv
  <2>4. \A y \in DOMAIN points' : points'[y] \in 0 .. 100 /\ \E i \in 1 .. turn : y = Rank!Rubric[i][1]
    BY <1>1, <1>2, <2>1 DEF RankInv
  <2> QED
    BY <1>1, <1>8, <1>2, <2>1, <2>2, <2>3, <2>4 DEF RankInv
<1>10. CASE judged # Rank!Unscored
  <2> DEFINE x == Rank!Clamp(judged)
  <2>1. x \in 0 .. 100 /\ x \in Nat /\ w \in Nat /\ w > 0
    BY <1>4, <1>6, ClampIs
  <2>2. /\ DOMAIN points' = DOMAIN points \cup {d} /\ points'[d] = x
        /\ \A y \in DOMAIN points : points'[y] = IF y = d THEN x ELSE points[y]
        /\ pointSum' = pointSum + x * w /\ judgedWeight'.k = judgedWeight.k + w
    BY <1>5, <1>10 DEF Rank!Plus
  <2> HIDE DEF x
  <2>3. x * w \in Nat /\ pointSum' \in Nat /\ judgedWeight'.k \in Nat /\ judgedWeight'.k > 0
    BY <2>1, <2>2, ProductIsNat DEF RankInv
  <2>4. \A y \in DOMAIN points' : points'[y] \in 0 .. 100 /\ \E i \in 1 .. turn : y = Rank!Rubric[i][1]
    <3>1. ASSUME NEW y \in DOMAIN points PROVE \E i \in 1 .. turn : y = Rank!Rubric[i][1]
      BY <1>1, <1>2 DEF RankInv
    <3> QED
      BY <1>1, <1>3, <2>1, <2>2, <3>1 DEF RankInv
  <2>5. d \notin DOMAIN points
    BY <1>2, <1>3 DEF RankInv
  <2>6. Between'
    <3>1. CASE judgedWeight.k = 0 /\ pointSum = 0
      <4>1. pointSum' = x * judgedWeight'.k
        BY <2>1, <2>2, <3>1
      <4> QED
        BY <2>1, <2>2, <2>3, <4>1 DEF Between
    <3>2. CASE judgedWeight.k > 0
      <4>1. PICK l \in DOMAIN points, h \in DOMAIN points :
              points[l] * judgedWeight.k <= pointSum /\ points[h] * judgedWeight.k >= pointSum
        BY <3>2 DEF RankInv, Between
      <4>2. points[l] \in Nat /\ points[h] \in Nat /\ pointSum \in Nat /\ judgedWeight.k \in Nat
        BY DEF RankInv
      <4>3. points'[l] = points[l] /\ points'[h] = points[h] /\ {l, h, d} \subseteq DOMAIN points'
        BY <2>2, <2>5
      <4>4. /\ points[l] * (judgedWeight.k + w) <= pointSum + x * w \/ x * (judgedWeight.k + w) <= pointSum + x * w
            /\ points[h] * (judgedWeight.k + w) >= pointSum + x * w \/ x * (judgedWeight.k + w) >= pointSum + x * w
        BY <2>1, <4>1, <4>2, OneMore
      <4>5. \E y \in DOMAIN points' : points'[y] * judgedWeight'.k <= pointSum'
        BY <2>2, <4>3, <4>4
      <4>6. \E y \in DOMAIN points' : points'[y] * judgedWeight'.k >= pointSum'
        BY <2>2, <4>3, <4>4
      <4> QED
        BY <2>3, <4>5, <4>6 DEF Between
    <3> QED
      BY <3>1, <3>2 DEF RankInv, Between
  <2>7. dataPlane' = "absent" => judgedWeight'.k <= ThinWeight(turn + 1)
    BY <1>1, <1>6, <1>7, <1>10, <1>2, <2>1, <2>2 DEF RankInv
  <2> QED
    BY <1>1, <1>8, <1>2, <2>3, <2>4, <2>6, <2>7 DEF RankInv
<1> QED
  BY <1>9, <1>10

LEMMA RankKeeps ==
  ASSUME RankConstants, RankInv, Rank!Next \/ UNCHANGED rankVars
  PROVE  RankInv'
<1>1. CASE UNCHANGED rankVars
  BY <1>1 DEF rankVars, RankInv, Between, Judging, Rank!Judgement, Rank!Reason, Rank!Thin, Rank!Composite
<1>2. CASE Rank!Judge
  BY <1>2, JudgeKeeps
<1>3. CASE Rank!ScoreStack
  <2>1. /\ turn = 10 /\ ranking' = Rank!Judgement(estateRow, pointSum, judgedWeight)
        /\ UNCHANGED <<estateRow, dataPlane, turn, points, pointSum, judgedWeight, handed>>
    BY <1>3, RubricIs DEF Rank!ScoreStack
  <2>2. ranking' = Rank!Judgement(estateRow', pointSum', judgedWeight') /\ Judging' = Judging /\ (Between' <=> Between)
    BY <2>1 DEF Judging, Between
  <2> QED
    BY <2>1, <2>2 DEF RankInv
<1>4. CASE Rank!Build
  <2>1. /\ ranking # Rank!Unjudged /\ turn # 0 /\ turn' = 0
        /\ handed' = [metrics |-> ranking.score # Rank!Unscored, views |-> dataPlane # "absent"]
        /\ UNCHANGED <<estateRow, dataPlane, points, pointSum, judgedWeight, ranking>>
    BY <1>4 DEF Rank!Build
  <2>2. Judging = 10 /\ Judging' = 10 /\ (Between' <=> Between)
    BY <2>1 DEF RankInv, Judging, Between
  <2>3. ranking' = Rank!Judgement(estateRow', pointSum', judgedWeight')
    BY <2>1 DEF RankInv
  <2>4. ASSUME dataPlane = "absent"
        PROVE  handed' = [metrics |-> FALSE, views |-> FALSE]
    <3>1. judgedWeight.k <= 14
      BY <2>2, <2>4 DEF RankInv, ThinWeight
    <3>2. Rank!Thin(judgedWeight)
      BY <3>1 DEF RankInv, Rank!Thin, Rank!Less, Rank!MinWeightCovered
    <3>3. Rank!Reason(estateRow, judgedWeight) # "none"
      BY <3>2 DEF Rank!Reason, Rank!Eligibility
    <3>4. ranking.score = Rank!Unscored
      BY <2>1, <3>3 DEF RankInv, Rank!Judgement
    <3> QED
      BY <2>1, <2>4, <3>4
  <2> QED
    BY <2>1, <2>2, <2>3, <2>4 DEF RankInv
<1> QED
  BY <1>1, <1>2, <1>3, <1>4 DEF Rank!Next

LEMMA RankHolds ==
  ASSUME RankConstants, RankInv
  PROVE  Rank!RankingIsFair
<1>1. ranking # Rank!Unjudged => ranking = Rank!Judgement(estateRow, pointSum, judgedWeight)
  BY DEF RankInv
<1>2. estateRow \in RankedRow /\ judgedWeight.k \in Nat /\ pointSum \in Nat
  BY DEF RankInv
<1>3. judgedWeight.k > 0 => pointSum \div judgedWeight.k \in Nat
  BY <1>2, QuotientIsNat
<1>4. Rank!Composite(pointSum, judgedWeight.k) = pointSum \div judgedWeight.k
  BY DEF Rank!Composite, Rank!Denominator
<1>5. Rank!RankedIsComparable
  <2> SUFFICES ASSUME ranking.score # Rank!Unscored
               PROVE  /\ estateRow.status = "active" /\ estateRow.users >= 3 /\ estateRow.signals > 0
                      /\ 5 * judgedWeight.k >= 80
                      /\ \E d \in DOMAIN points : points[d] <= ranking.score
                      /\ \E d \in DOMAIN points : points[d] >= ranking.score
    BY DEF Rank!RankedIsComparable, Rank!Hundredths
  <2>1. ranking = Rank!Judgement(estateRow, pointSum, judgedWeight)
    BY <1>1 DEF Rank!Unjudged
  <2>2. ranking.score = IF Rank!Reason(estateRow, judgedWeight) = "none"
                         THEN Rank!Composite(pointSum, judgedWeight.k) ELSE Rank!Unscored
    BY <2>1 DEF Rank!Judgement
  <2>3. Rank!Reason(estateRow, judgedWeight) = "none" /\ ranking.score = pointSum \div judgedWeight.k
    BY <1>4, <2>2
  <2>4. Rank!Eligibility(estateRow) = "eligible" /\ ~ Rank!Thin(judgedWeight)
    <3>1. Rank!Eligibility(estateRow) # "none"
      BY DEF Rank!Eligibility
    <3> QED
      BY <2>3, <3>1 DEF Rank!Reason
  <2>5. estateRow.status = "active" /\ estateRow.users >= 3 /\ estateRow.signals > 0
    BY <1>2, <2>4 DEF Rank!Eligibility, RankedRow
  <2>6. judgedWeight.k >= 16
    BY <1>2, <2>4 DEF Rank!Thin, Rank!Less, Rank!MinWeightCovered
  <2>7. PICK l \in DOMAIN points, h \in DOMAIN points :
          points[l] * judgedWeight.k <= pointSum /\ points[h] * judgedWeight.k >= pointSum
    BY <1>2, <2>6 DEF RankInv, Between
  <2>8. points[l] \in Nat /\ points[h] \in Nat
    BY DEF RankInv
  <2>9. points[l] <= pointSum \div judgedWeight.k /\ pointSum \div judgedWeight.k <= points[h]
    BY <1>2, <2>6, <2>7, <2>8, QuotientLies
  <2>10. points[l] <= ranking.score /\ points[h] >= ranking.score
    BY <1>3, <2>3, <2>6, <2>8, <2>9
  <2> QED
    BY <1>2, <2>5, <2>6, <2>10
<1>6. Rank!JudgedIsRanked
  <2> SUFFICES ASSUME ranking # Rank!Unjudged, estateRow.status = "active", estateRow.users >= 3,
                      estateRow.signals > 0, 5 * judgedWeight.k > 80
               PROVE  ranking.score # Rank!Unscored
    BY DEF Rank!JudgedIsRanked, Rank!Hundredths
  <2>1. ~ Rank!Thin(judgedWeight)
    BY <1>2 DEF Rank!Thin, Rank!Less, Rank!MinWeightCovered
  <2>2. Rank!Eligibility(estateRow) = "eligible"
    BY <1>2 DEF Rank!Eligibility, RankedRow
  <2>3. ranking.score = pointSum \div judgedWeight.k
    BY <1>1, <1>4, <2>1, <2>2 DEF Rank!Judgement, Rank!Reason
  <2> QED
    BY <1>2, <1>3, <2>3 DEF Rank!Unscored
<1> QED
  BY <1>5, <1>6 DEF Rank!RankingIsFair, Rank!ThinTierIsSilent, RankInv

-----------------------------------------------------------------------------
(* The figures of UsageInsights.                                              *)

LEMMA UsageCardinality == ASSUME NEW S PROVE Day!Cardinality(S) = Cardinality(S)
BY DEF Day!Cardinality, Cardinality

\* What a number is between, at the beginning and now.
Within(n, A, B) == n \in Nat /\ Cardinality(A) <= n /\ n <= Cardinality(B)

ByNumber == {"requests", "other_ids", "placed", "panels", "mix_requests", "mix_distinct"}

\* What a query counts in a log.
Scope(field, l) ==
  IF field = "requests" THEN Day!Requests(l)
  ELSE IF field = "other_ids" THEN Day!Identified(Day!From(l, "other"))
  ELSE IF field = "placed" THEN Day!Placed(l)
  ELSE IF field = "panels" THEN {Happening[e].panel : e \in Day!Placed(l)}
  ELSE IF field = "mix_requests" THEN Day!Typed(l) ELSE Day!Types(l)

\* What a breakdown counts of a surface.
Part(field, l, s) ==
  IF field = "sources" THEN Day!From(l, s)
  ELSE IF field = "identified" THEN Day!Identified(Day!From(l, s)) ELSE Day!Users(Day!From(l, s))

Named == {"dashboard", "explore", "unknown"}

\* What an answer tells, whenever it has come.
Told(f, v, before, l) ==
  /\ f \in ByNumber => Within(v, Scope(f, before), Scope(f, l))
  /\ f \in {"sources", "identified"} => \A x \in Day!Mapped : v[x] \in Nat
  /\ f \in {"sources", "identified"} =>
       \A s \in Named : Within(Day!OnSurface(v, s), Part(f, before, s), Part(f, l, s))
  /\ f = "users" => \A s \in {"dashboard", "explore"} : Within(v[s], Part(f, before, s), Part(f, l, s))
  /\ f = "fallback" => \A s \in {"unknown", "other"} : Within(v[s], Part(f, before, s), Part(f, l, s))

Logs == SUBSET DOMAIN Happening

LEMMA ImagesAreFinite ==
  ASSUME NEW f, IsFiniteSet(DOMAIN f)
  PROVE  /\ IsFiniteSet({f[x] : x \in DOMAIN f})
         /\ Cardinality({f[x] : x \in DOMAIN f}) <= Cardinality(DOMAIN f)
<1> DEFINE g == [x \in DOMAIN f |-> f[x]]
           T == {f[x] : x \in DOMAIN f}
<1>1. g \in Surjection(DOMAIN f, T)
  BY DEF Surjection
<1> QED
  BY <1>1, FS_Surjection

LEMMA SetsGrow ==
  ASSUME NEW l, NEW m, l \subseteq m
  PROVE  /\ \A f \in ByNumber : Scope(f, l) \subseteq Scope(f, m)
         /\ \A f, s : Part(f, l, s) \subseteq Part(f, m, s)
<1>1. Day!Requests(l) \subseteq Day!Requests(m)
  BY DEF Day!Requests, Day!Scoped, Day!Own
<1>2. \A s : Day!From(l, s) \subseteq Day!From(m, s)
  BY <1>1 DEF Day!From
<1>3. \A s : Day!Identified(Day!From(l, s)) \subseteq Day!Identified(Day!From(m, s))
  BY <1>2 DEF Day!Identified
<1>4. \A s : Day!Users(Day!From(l, s)) \subseteq Day!Users(Day!From(m, s))
  BY <1>2 DEF Day!Users
<1>5. Day!Placed(l) \subseteq Day!Placed(m) /\ Day!Typed(l) \subseteq Day!Typed(m)
  BY <1>1 DEF Day!Placed, Day!Typed
<1>6. /\ {Happening[e].panel : e \in Day!Placed(l)} \subseteq {Happening[e].panel : e \in Day!Placed(m)}
      /\ Day!Types(l) \subseteq Day!Types(m)
  BY <1>5 DEF Day!Types
<1> QED
  BY <1>1, <1>2, <1>3, <1>4, <1>5, <1>6 DEF Scope, Part, ByNumber

LEMMA SetsAreFinite ==
  ASSUME UsageConstants, NEW l \in Logs
  PROVE  /\ IsFiniteSet(l)
         /\ \A f \in ByNumber : IsFiniteSet(Scope(f, l))
         /\ \A f, s : IsFiniteSet(Part(f, l, s))
<1>1. IsFiniteSet(l)
  BY FS_Subset DEF UsageConstants, Logs
<1>2. Day!Requests(l) \subseteq l
  BY DEF Day!Requests, Day!Scoped, Day!Own
<1>3. \A s : Day!From(l, s) \subseteq l /\ Day!Identified(Day!From(l, s)) \subseteq l
  BY <1>2 DEF Day!From, Day!Identified
<1>4. Day!Placed(l) \subseteq l /\ Day!Typed(l) \subseteq l
  BY <1>2 DEF Day!Placed, Day!Typed
<1>5. \A s : IsFiniteSet(Day!Users(Day!From(l, s)))
  <2>1. ASSUME NEW s PROVE IsFiniteSet(Day!Users(Day!From(l, s)))
    <3>1. IsFiniteSet(Day!From(l, s))
      BY <1>1, <1>3, FS_Subset
    <3> DEFINE f == [e \in Day!From(l, s) |-> Happening[e].user]
    <3>2. DOMAIN f = Day!From(l, s) /\ {f[e] : e \in DOMAIN f} = {Happening[e].user : e \in Day!From(l, s)}
      OBVIOUS
    <3> HIDE DEF f
    <3>3. IsFiniteSet({Happening[e].user : e \in Day!From(l, s)})
      BY <3>1, <3>2, ImagesAreFinite
    <3> QED
      BY <3>3, FS_Subset DEF Day!Users
  <2> QED
    BY <2>1
<1>6. IsFiniteSet({Happening[e].panel : e \in Day!Placed(l)})
  <2>1. IsFiniteSet(Day!Placed(l))
    BY <1>1, <1>4, FS_Subset
  <2> DEFINE f == [e \in Day!Placed(l) |-> Happening[e].panel]
  <2>2. DOMAIN f = Day!Placed(l) /\ {f[e] : e \in DOMAIN f} = {Happening[e].panel : e \in Day!Placed(l)}
    OBVIOUS
  <2> HIDE DEF f
  <2> QED
    BY <2>1, <2>2, ImagesAreFinite
<1>7. IsFiniteSet(Day!Types(l))
  <2>1. IsFiniteSet(Day!Typed(l))
    BY <1>1, <1>4, FS_Subset
  <2> DEFINE f == [e \in Day!Typed(l) |-> Happening[e].type]
  <2>2. DOMAIN f = Day!Typed(l) /\ {f[e] : e \in DOMAIN f} = {Happening[e].type : e \in Day!Typed(l)}
    OBVIOUS
  <2> HIDE DEF f
  <2>3. IsFiniteSet({Happening[e].type : e \in Day!Typed(l)})
    BY <2>1, <2>2, ImagesAreFinite
  <2> QED
    BY <2>3 DEF Day!Types
<1>8. \A s : IsFiniteSet(Day!From(l, s)) /\ IsFiniteSet(Day!Identified(Day!From(l, s)))
  BY <1>1, <1>3, FS_Subset
<1>9. IsFiniteSet(Day!Requests(l)) /\ IsFiniteSet(Day!Placed(l)) /\ IsFiniteSet(Day!Typed(l))
  BY <1>1, <1>2, <1>4, FS_Subset
<1>10. \A f \in ByNumber : IsFiniteSet(Scope(f, l))
  BY <1>6, <1>7, <1>8, <1>9 DEF Scope, ByNumber
<1>11. \A f, s : IsFiniteSet(Part(f, l, s))
  BY <1>5, <1>8 DEF Part
<1> QED
  BY <1>1, <1>10, <1>11

LEMMA WithinStays ==
  ASSUME NEW A, NEW B, NEW C, IsFiniteSet(C), B \subseteq C, NEW n, Within(n, A, B)
  PROVE  Within(n, A, C)
<1>1. IsFiniteSet(B) /\ Cardinality(B) <= Cardinality(C)
  BY FS_Subset
<1>2. Cardinality(B) \in Nat /\ Cardinality(C) \in Nat
  BY <1>1, FS_CardinalityType
<1>3. Cardinality(A) <= n /\ n \in Nat /\ n <= Cardinality(B)
  BY DEF Within
<1> QED
  BY <1>1, <1>2, <1>3 DEF Within

LEMMA CountIsWithin ==
  ASSUME NEW A, NEW B, IsFiniteSet(B), A \subseteq B
  PROVE  Within(Cardinality(B), A, B)
<1>1. IsFiniteSet(A) /\ Cardinality(A) <= Cardinality(B) /\ Cardinality(B) \in Nat
  BY FS_Subset, FS_CardinalityType
<1> QED
  BY <1>1 DEF Within

LEMMA ToldStays ==
  ASSUME UsageConstants, NEW before, NEW l, NEW m \in Logs, l \subseteq m, NEW f, NEW v, Told(f, v, before, l)
  PROVE  Told(f, v, before, m)
<1>1. f \in ByNumber => Within(v, Scope(f, before), Scope(f, m))
  BY SetsGrow, SetsAreFinite, WithinStays DEF Told
<1>2. ASSUME NEW n, NEW s, Within(n, Part(f, before, s), Part(f, l, s))
      PROVE  Within(n, Part(f, before, s), Part(f, m, s))
  BY <1>2, SetsGrow, SetsAreFinite, WithinStays
<1> QED
  BY <1>1, <1>2 DEF Told

LEMMA ApartAdds ==
  ASSUME NEW A, NEW B, IsFiniteSet(A), IsFiniteSet(B), A \cap B = {}
  PROVE  /\ IsFiniteSet(A \cup B) /\ Cardinality(A \cup B) = Cardinality(A) + Cardinality(B)
         /\ Cardinality(A) \in Nat /\ Cardinality(B) \in Nat
<1>1. Cardinality(A \cap B) = 0
  BY FS_EmptySet
<1>2. Cardinality(A) \in Nat /\ Cardinality(B) \in Nat
  BY FS_CardinalityType
<1>3. /\ IsFiniteSet(A \cup B)
      /\ Cardinality(A \cup B) = Cardinality(A) + Cardinality(B) - Cardinality(A \cap B)
  BY FS_Union
<1> QED
  BY <1>1, <1>2, <1>3

\* Raw sources are counted apart, and the blank ones are one surface.
LEMMA BlanksAdd ==
  ASSUME NEW es, IsFiniteSet(es)
  PROVE  LET N(x) == Cardinality(Day!Of(es, "source", {x}))
             G(s) == Cardinality({e \in es : Day!Surface(Happening[e].source) = s})
         IN  /\ \A x \in Day!Mapped : N(x) \in Nat
             /\ N("dashboard") = G("dashboard") /\ N("explore") = G("explore")
             /\ N("") + N("unknown") = G("unknown")
<1> DEFINE O(x) == Day!Of(es, "source", {x})
           H(s) == {e \in es : Day!Surface(Happening[e].source) = s}
<1>1. \A x : IsFiniteSet(O(x))
  BY FS_Subset DEF Day!Of
<1>2. O("dashboard") = H("dashboard") /\ O("explore") = H("explore")
  BY DEF Day!Of, Day!Surface, Day!Direct, Day!Blank
<1>3. O("") \cup O("unknown") = H("unknown") /\ O("") \cap O("unknown") = {}
  BY DEF Day!Of, Day!Surface, Day!Direct, Day!Blank
<1>4. \A x : Cardinality(O(x)) \in Nat
  BY <1>1, FS_CardinalityType
<1> HIDE DEF O, H
<1>5. Cardinality(H("unknown")) = Cardinality(O("")) + Cardinality(O("unknown"))
  BY <1>1, <1>3, ApartAdds
<1> QED
  BY <1>2, <1>4, <1>5 DEF O, H

LEMMA RestOfFour ==
  ASSUME NEW a \in Nat, NEW b \in Nat, NEW c \in Nat, NEW d \in Nat, NEW o \in Nat,
         NEW t, NEW r, NEW u, t = a + b + c + d, c + d = u, r = a + b + u + o
  PROVE  t = r - o
OBVIOUS

\* Every request is on one surface.
LEMMA SurfacesPart ==
  ASSUME NEW l, IsFiniteSet(Day!Requests(l))
  PROVE  /\ \A s : Cardinality(Day!From(l, s)) \in Nat
         /\ Cardinality(Day!Requests(l)) =
              Cardinality(Day!From(l, "dashboard")) + Cardinality(Day!From(l, "explore"))
              + Cardinality(Day!From(l, "unknown")) + Cardinality(Day!From(l, "other"))
<1> DEFINE F(s) == Day!From(l, s)
<1>1. \A s : IsFiniteSet(F(s))
  BY FS_Subset DEF Day!From
<1>2. /\ F("dashboard") \cap F("explore") = {}
      /\ (F("dashboard") \cup F("explore")) \cap F("unknown") = {}
      /\ (F("dashboard") \cup F("explore") \cup F("unknown")) \cap F("other") = {}
  BY DEF Day!From
<1>3. Day!Requests(l) = F("dashboard") \cup F("explore") \cup F("unknown") \cup F("other")
  BY DEF Day!From, Day!Surface, Day!Direct, Day!Blank
<1> HIDE DEF F
<1>4. /\ IsFiniteSet(F("dashboard") \cup F("explore"))
      /\ Cardinality(F("dashboard") \cup F("explore")) = Cardinality(F("dashboard")) + Cardinality(F("explore"))
  BY <1>1, <1>2, ApartAdds
<1>5. /\ IsFiniteSet(F("dashboard") \cup F("explore") \cup F("unknown"))
      /\ Cardinality(F("dashboard") \cup F("explore") \cup F("unknown")) =
           Cardinality(F("dashboard") \cup F("explore")) + Cardinality(F("unknown"))
  BY <1>1, <1>2, <1>4, ApartAdds
<1>6. Cardinality(Day!Requests(l)) =
        Cardinality(F("dashboard") \cup F("explore") \cup F("unknown")) + Cardinality(F("other"))
  BY <1>1, <1>2, <1>3, <1>5, ApartAdds
<1>7. \A s : Cardinality(F(s)) \in Nat
  BY <1>1, FS_CardinalityType
<1> QED
  BY <1>4, <1>5, <1>6, <1>7 DEF F

\* What an answer tells of the log it is given from.
LEMMA AnswersTell ==
  ASSUME UsageConstants, NEW l \in Logs, NEW before, before \subseteq l,
         NEW i \in 1 .. 10, NEW v \in Day!Answers(Day!Queries[i], l)
  PROVE  /\ Told(Day!Queries[i], v, before, l)
         /\ i = 5 => Day!Total(v) = Cardinality(Day!Requests(l)) - Cardinality(Day!From(l, "other"))
<1> DEFINE f == Day!Queries[i]
<1>1. \A g \in ByNumber : Within(Cardinality(Scope(g, l)), Scope(g, before), Scope(g, l))
  BY SetsGrow, SetsAreFinite, CountIsWithin
<1>2. \A g, s : Within(Cardinality(Part(g, l, s)), Part(g, before, s), Part(g, l, s))
  BY SetsGrow, SetsAreFinite, CountIsWithin
<1>3. \A S : Day!Cardinality(S) = Cardinality(S)
  BY UsageCardinality
<1>4. IsFiniteSet(Day!Requests(l))
  BY SetsAreFinite DEF ByNumber, Scope
<1>5. CASE i \in {1, 2, 3, 4, 9, 10}
  <2>1. f \in ByNumber /\ v = Cardinality(Scope(f, l))
    BY <1>3, <1>5 DEF Day!Queries, Day!Answers, ByNumber, Scope
  <2>2. f \notin {"sources", "identified", "users", "fallback"}
    BY <1>5 DEF Day!Queries
  <2> QED
    BY <1>1, <1>5, <2>1, <2>2 DEF Told
<1>6. CASE i = 5
  <2>1. f = "sources" /\ v = [x \in Day!Mapped |-> Cardinality(Day!Of(Day!Requests(l), "source", {x}))]
    BY <1>3, <1>6 DEF Day!Queries, Day!Answers
  <2>2. /\ \A x \in Day!Mapped : v[x] \in Nat
        /\ v["dashboard"] = Cardinality(Day!From(l, "dashboard"))
        /\ v["explore"] = Cardinality(Day!From(l, "explore"))
        /\ v[""] + v["unknown"] = Cardinality(Day!From(l, "unknown"))
    BY <1>4, <2>1, BlanksAdd DEF Day!Mapped, Day!Direct, Day!Blank, Day!From
  <2>3. \A s \in Named : Day!OnSurface(v, s) = Cardinality(Part(f, l, s))
    BY <2>1, <2>2 DEF Named, Day!OnSurface, Part
  <2>4. Told(f, v, before, l)
    BY <1>2, <2>1, <2>2, <2>3 DEF Told, ByNumber
  <2>5. Day!Total(v) = Cardinality(Day!Requests(l)) - Cardinality(Day!From(l, "other"))
    <3>1. v["dashboard"] \in Nat /\ v["explore"] \in Nat /\ v[""] \in Nat /\ v["unknown"] \in Nat
      BY <2>2 DEF Day!Mapped, Day!Direct, Day!Blank
    <3>2. /\ Cardinality(Day!Requests(l)) =
               Cardinality(Day!From(l, "dashboard")) + Cardinality(Day!From(l, "explore"))
               + Cardinality(Day!From(l, "unknown")) + Cardinality(Day!From(l, "other"))
          /\ Cardinality(Day!From(l, "other")) \in Nat
      BY <1>4, SurfacesPart
    <3>3. Day!Total(v) = v["dashboard"] + v["explore"] + v[""] + v["unknown"]
      BY DEF Day!Total
    <3> DEFINE a == v["dashboard"] b == v["explore"] c == v[""] d == v["unknown"]
               o == Cardinality(Day!From(l, "other"))
               r == Cardinality(Day!Requests(l))
               u == Cardinality(Day!From(l, "unknown"))
               t == Day!Total(v)
    <3>4. a \in Nat /\ b \in Nat /\ c \in Nat /\ d \in Nat /\ o \in Nat
      BY <3>1, <3>2
    <3>5. t = a + b + c + d
      BY <3>3
    <3>6. c + d = u
      BY <2>2
    <3>7. r = a + b + u + o
      BY <2>2, <3>2
    <3> HIDE DEF a, b, c, d, o, r, u, t
    <3>8. t = r - o
      BY <3>4, <3>5, <3>6, <3>7, RestOfFour
    <3> QED
      BY <3>8 DEF t, r, o
  <2> QED
    BY <2>4, <2>5
<1>7. CASE i = 6
  <2>1. /\ f = "identified"
        /\ v = [x \in Day!Mapped |->
                  Cardinality(Day!Identified(Day!Of(Day!Requests(l), "source", {x})))]
    BY <1>3, <1>7 DEF Day!Queries, Day!Answers
  <2>2. /\ \A x : Day!Identified(Day!Of(Day!Requests(l), "source", {x}))
                    = Day!Of(Day!Identified(Day!Requests(l)), "source", {x})
        /\ \A s : {e \in Day!Identified(Day!Requests(l)) : Day!Surface(Happening[e].source) = s}
                    = Day!Identified(Day!From(l, s))
    BY DEF Day!Identified, Day!Of, Day!From
  <2>3. IsFiniteSet(Day!Identified(Day!Requests(l)))
    BY <1>4, FS_Subset DEF Day!Identified
  <2> DEFINE es == Day!Identified(Day!Requests(l))
  <2>4. v = [x \in Day!Mapped |-> Cardinality(Day!Of(es, "source", {x}))]
    BY <2>1, <2>2
  <2>5. /\ \A x \in Day!Mapped : Cardinality(Day!Of(es, "source", {x})) \in Nat
        /\ Cardinality(Day!Of(es, "source", {"dashboard"}))
             = Cardinality({e \in es : Day!Surface(Happening[e].source) = "dashboard"})
        /\ Cardinality(Day!Of(es, "source", {"explore"}))
             = Cardinality({e \in es : Day!Surface(Happening[e].source) = "explore"})
        /\ Cardinality(Day!Of(es, "source", {""})) + Cardinality(Day!Of(es, "source", {"unknown"}))
             = Cardinality({e \in es : Day!Surface(Happening[e].source) = "unknown"})
    <3> HIDE DEF es
    <3> QED
      BY <2>3, BlanksAdd DEF es
  <2>6. /\ \A x \in Day!Mapped : v[x] \in Nat
        /\ v["dashboard"] = Cardinality(Day!Identified(Day!From(l, "dashboard")))
        /\ v["explore"] = Cardinality(Day!Identified(Day!From(l, "explore")))
        /\ v[""] + v["unknown"] = Cardinality(Day!Identified(Day!From(l, "unknown")))
    BY <2>2, <2>5, <2>4 DEF Day!Mapped, Day!Direct, Day!Blank
  <2>7. \A s \in Named : Day!OnSurface(v, s) = Cardinality(Part(f, l, s))
    BY <2>1, <2>6 DEF Named, Day!OnSurface, Part
  <2>8. Told(f, v, before, l)
    BY <1>2, <2>1, <2>6, <2>7 DEF Told, ByNumber
  <2> QED
    BY <1>7, <2>8
<1>8. CASE i = 7
  <2>1. f = "users" /\ v = [s \in Day!Direct |-> Cardinality(Day!Users(Day!From(l, s)))]
    BY <1>3, <1>8 DEF Day!Queries, Day!Answers
  <2>2. \A s \in {"dashboard", "explore"} : v[s] = Cardinality(Part(f, l, s))
    BY <2>1 DEF Part, Day!Direct
  <2> QED
    BY <1>2, <1>8, <2>1, <2>2 DEF Told, ByNumber
<1>9. CASE i = 8
  <2>1. f = "fallback" /\ v = [s \in {"unknown", "other"} |-> Cardinality(Day!Users(Day!From(l, s)))]
    BY <1>3, <1>9 DEF Day!Queries, Day!Answers
  <2>2. \A s \in {"unknown", "other"} : v[s] = Cardinality(Part(f, l, s))
    BY <2>1 DEF Part
  <2> QED
    BY <1>2, <1>9, <2>1, <2>2 DEF Told, ByNumber
<1> QED
  BY <1>5, <1>6, <1>7, <1>8, <1>9

\* The residual is no more than the requests from elsewhere so far.
Left(o, l) == o.requests - Day!Total(o.sources) <= Cardinality(Day!From(l, "other"))

\* Every figure that is not optional is there.
Complete(o, before, l) ==
  /\ \A i \in 1 .. 8 : Told(Day!Queries[i], o[Day!Queries[i]], before, l)
  /\ Left(o, l)

\* What the figures of a surface are between.
Bracketed(o, before, l) ==
  /\ \A s \in Named : Within(Day!Asked(o, s), Day!From(before, s), Day!From(l, s))
  /\ \A s \in Day!Surfaces :
       /\ Within(Day!Known(o, s), Day!Identified(Day!From(before, s)), Day!Identified(Day!From(l, s)))
       /\ Within(Day!UsersFound(o, s), Day!Users(Day!From(before, s)), Day!Users(Day!From(l, s)))
  /\ o.requests \in Nat /\ Day!Residual(o) \in Int
  /\ Day!Asked(o, "dashboard") + Day!Asked(o, "explore") + Day!Asked(o, "unknown")
       + Day!Asked(o, "other") = o.requests
  /\ Day!Asked(o, "other") = Day!Residual(o)
  /\ Day!Residual(o) <= Cardinality(Day!From(l, "other"))
  /\ Day!Residual(o) >= Cardinality(Day!From(before, "other")) - Cardinality(l \ before)
  /\ before = l => o.requests = Cardinality(Day!Requests(l))

LEMMA ResidualLies ==
  ASSUME NEW r \in Nat, NEW r0 \in Nat, NEW r1 \in Nat, r0 <= r, r <= r1,
         NEW x \in Nat, NEW y \in Nat, NEW z \in Nat, NEW t, t = x + y + z,
         NEW x1 \in Nat, NEW y1 \in Nat, NEW z1 \in Nat, NEW w1 \in Nat, NEW w0 \in Nat,
         x <= x1, y <= y1, z <= z1, r1 = x1 + y1 + z1 + w1, w0 <= w1,
         NEW late \in Nat, r1 <= r0 + late
  PROVE  /\ r - t \in Int /\ x + y + z + (r - t) = r
         /\ r - t >= w0 - late
OBVIOUS

LEMMA LogGrows ==
  ASSUME NEW A, NEW B, IsFiniteSet(B), NEW l, NEW before, IsFiniteSet(l), A \subseteq B, B \ A \subseteq l \ before
  PROVE  /\ Cardinality(A) \in Nat /\ Cardinality(B) \in Nat /\ Cardinality(l \ before) \in Nat
         /\ Cardinality(A) <= Cardinality(B)
         /\ Cardinality(B) <= Cardinality(A) + Cardinality(l \ before)
<1>1. IsFiniteSet(l \ before) /\ IsFiniteSet(A) /\ IsFiniteSet(B \ A) /\ Cardinality(A) <= Cardinality(B)
  BY FS_Subset
<1>2. Cardinality(B \ A) <= Cardinality(l \ before)
  BY <1>1, FS_Subset
<1>3. Cardinality(B \ A) = Cardinality(B) - Cardinality(B \cap A)
  BY FS_Difference
<1>4. B \cap A = A
  OBVIOUS
<1>5. /\ Cardinality(A) \in Nat /\ Cardinality(B) \in Nat /\ Cardinality(l \ before) \in Nat
      /\ Cardinality(B \ A) \in Nat
  BY <1>1, FS_CardinalityType
<1>6. Cardinality(B \ A) = Cardinality(B) - Cardinality(A)
  BY <1>3, <1>4
<1> QED
  BY <1>1, <1>2, <1>5, <1>6

LEMMA FiguresAreKnown ==
  ASSUME UsageConstants, NEW l \in Logs, NEW before, before \subseteq l, NEW o, Complete(o, before, l)
  PROVE  Bracketed(o, before, l)
<1>1. \A i \in 1 .. 8 : Told(Day!Queries[i], o[Day!Queries[i]], before, l)
  BY DEF Complete
<1>2. /\ Told("requests", o.requests, before, l) /\ Told("other_ids", o.other_ids, before, l)
      /\ Told("sources", o.sources, before, l) /\ Told("identified", o.identified, before, l)
      /\ Told("users", o.users, before, l) /\ Told("fallback", o.fallback, before, l)
  <2>1. /\ Day!Queries[1] = "requests" /\ Day!Queries[2] = "other_ids"
        /\ Day!Queries[5] = "sources" /\ Day!Queries[6] = "identified"
        /\ Day!Queries[7] = "users" /\ Day!Queries[8] = "fallback"
    BY DEF Day!Queries
  <2>2. 1 \in 1 .. 8 /\ 2 \in 1 .. 8 /\ 5 \in 1 .. 8 /\ 6 \in 1 .. 8 /\ 7 \in 1 .. 8 /\ 8 \in 1 .. 8
    OBVIOUS
  <2> QED
    BY <1>1, <2>1, <2>2
<1>3. /\ Within(o.requests, Day!Requests(before), Day!Requests(l))
      /\ Within(o.other_ids, Day!Identified(Day!From(before, "other")), Day!Identified(Day!From(l, "other")))
  BY <1>2 DEF Told, Scope, ByNumber
<1>4. \A s \in Named :
        /\ Within(Day!OnSurface(o.sources, s), Day!From(before, s), Day!From(l, s))
        /\ Within(Day!OnSurface(o.identified, s),
                  Day!Identified(Day!From(before, s)), Day!Identified(Day!From(l, s)))
  BY <1>2 DEF Told, Part
<1>5. \A s \in Named : Day!Asked(o, s) = Day!OnSurface(o.sources, s)
                       /\ Day!Known(o, s) = Day!OnSurface(o.identified, s)
  BY DEF Named, Day!Asked, Day!Known
<1>6. Day!Asked(o, "other") = Day!Residual(o) /\ Day!Known(o, "other") = o.other_ids
  BY DEF Day!Asked, Day!Known
<1>7. Day!Surfaces = Named \cup {"other"}
  BY DEF Day!Surfaces, Day!Direct, Named
<1>8. \A s \in Named : Within(Day!Asked(o, s), Day!From(before, s), Day!From(l, s))
  BY <1>4, <1>5
<1>9. \A s \in Day!Surfaces :
        Within(Day!Known(o, s), Day!Identified(Day!From(before, s)), Day!Identified(Day!From(l, s)))
  BY <1>3, <1>4, <1>5, <1>6, <1>7
<1>10. \A s \in Day!Surfaces :
         Within(Day!UsersFound(o, s), Day!Users(Day!From(before, s)), Day!Users(Day!From(l, s)))
  <2>1. \A s \in {"dashboard", "explore"} :
          Within(o.users[s], Day!Users(Day!From(before, s)), Day!Users(Day!From(l, s)))
    BY <1>2 DEF Told, Part
  <2>2. \A s \in {"unknown", "other"} :
          Within(o.fallback[s], Day!Users(Day!From(before, s)), Day!Users(Day!From(l, s)))
    BY <1>2 DEF Told, Part
  <2> QED
    BY <2>1, <2>2 DEF Day!UsersFound, Day!Surfaces, Day!Direct
<1>11. IsFiniteSet(Day!Requests(l)) /\ IsFiniteSet(l)
  BY SetsAreFinite DEF Scope, ByNumber
<1>12. Day!Requests(before) \subseteq Day!Requests(l)
       /\ Day!Requests(l) \ Day!Requests(before) \subseteq l \ before
  BY DEF Day!Requests, Day!Scoped, Day!Own
<1>13. /\ Cardinality(Day!Requests(before)) \in Nat /\ Cardinality(Day!Requests(l)) \in Nat
       /\ Cardinality(l \ before) \in Nat
       /\ Cardinality(Day!Requests(l)) <= Cardinality(Day!Requests(before)) + Cardinality(l \ before)
  BY <1>11, <1>12, LogGrows
<1>14. /\ \A s : Cardinality(Day!From(l, s)) \in Nat
       /\ Cardinality(Day!Requests(l)) =
            Cardinality(Day!From(l, "dashboard")) + Cardinality(Day!From(l, "explore"))
            + Cardinality(Day!From(l, "unknown")) + Cardinality(Day!From(l, "other"))
  BY <1>11, SurfacesPart
<1>15. /\ Cardinality(Day!From(before, "other")) \in Nat
       /\ Cardinality(Day!From(before, "other")) <= Cardinality(Day!From(l, "other"))
  <2>1. Day!From(before, "other") \subseteq Day!From(l, "other")
    BY <1>12 DEF Day!From
  <2>2. IsFiniteSet(Day!From(l, "other"))
    BY <1>11, FS_Subset DEF Day!From
  <2>3. IsFiniteSet(Day!From(before, "other"))
        /\ Cardinality(Day!From(before, "other")) <= Cardinality(Day!From(l, "other"))
    BY <2>1, <2>2, FS_Subset
  <2> QED
    BY <2>3, FS_CardinalityType
<1>16. Day!Total(o.sources) =
         Day!Asked(o, "dashboard") + Day!Asked(o, "explore") + Day!Asked(o, "unknown")
  <2>1. \A x \in Day!Mapped : o.sources[x] \in Nat
    BY <1>2 DEF Told
  <2>2. /\ o.sources["dashboard"] \in Nat /\ o.sources["explore"] \in Nat
        /\ o.sources[""] \in Nat /\ o.sources["unknown"] \in Nat
    BY <2>1 DEF Day!Mapped, Day!Direct, Day!Blank
  <2> DEFINE a == o.sources["dashboard"] b == o.sources["explore"] c == o.sources[""] d == o.sources["unknown"]
  <2>3. Day!Total(o.sources) = a + b + c + d
    BY DEF Day!Total
  <2>4. Day!Asked(o, "dashboard") = a /\ Day!Asked(o, "explore") = b /\ Day!Asked(o, "unknown") = c + d
    BY DEF Day!Asked, Day!OnSurface
  <2>5. a \in Nat /\ b \in Nat /\ c \in Nat /\ d \in Nat
    BY <2>2
  <2> HIDE DEF a, b, c, d
  <2>6. a + b + c + d = a + b + (c + d)
    BY <2>5
  <2> QED
    BY <2>3, <2>4, <2>6
<1>17. /\ o.requests \in Nat /\ Cardinality(Day!Requests(before)) <= o.requests
       /\ o.requests <= Cardinality(Day!Requests(l))
       /\ Day!Asked(o, "dashboard") \in Nat /\ Day!Asked(o, "explore") \in Nat
       /\ Day!Asked(o, "unknown") \in Nat
       /\ Day!Asked(o, "dashboard") <= Cardinality(Day!From(l, "dashboard"))
       /\ Day!Asked(o, "explore") <= Cardinality(Day!From(l, "explore"))
       /\ Day!Asked(o, "unknown") <= Cardinality(Day!From(l, "unknown"))
  BY <1>3, <1>8 DEF Within, Named
<1>18. Day!Residual(o) = o.requests - Day!Total(o.sources)
  BY DEF Day!Residual
<1> DEFINE r == o.requests
           r0 == Cardinality(Day!Requests(before))
           r1 == Cardinality(Day!Requests(l))
           x == Day!Asked(o, "dashboard") y == Day!Asked(o, "explore") z == Day!Asked(o, "unknown")
           t == Day!Total(o.sources)
           x1 == Cardinality(Day!From(l, "dashboard"))
           y1 == Cardinality(Day!From(l, "explore"))
           z1 == Cardinality(Day!From(l, "unknown"))
           w1 == Cardinality(Day!From(l, "other"))
           w0 == Cardinality(Day!From(before, "other"))
           late == Cardinality(l \ before)
<1>19. /\ r \in Nat /\ r0 \in Nat /\ r1 \in Nat /\ r0 <= r /\ r <= r1
       /\ x \in Nat /\ y \in Nat /\ z \in Nat /\ t = x + y + z
       /\ x1 \in Nat /\ y1 \in Nat /\ z1 \in Nat /\ w1 \in Nat /\ w0 \in Nat
       /\ x <= x1 /\ y <= y1 /\ z <= z1 /\ r1 = x1 + y1 + z1 + w1 /\ w0 <= w1
       /\ late \in Nat /\ r1 <= r0 + late
  BY <1>13, <1>14, <1>15, <1>16, <1>17
<1> HIDE DEF r, r0, r1, x, y, z, t, x1, y1, z1, w1, w0, late
<1>20. r - t \in Int /\ x + y + z + (r - t) = r /\ r - t >= w0 - late
  BY <1>19, ResidualLies
<1>21. before = l => o.requests = Cardinality(Day!Requests(l))
  BY <1>13, <1>17
<1>22. Day!Residual(o) <= Cardinality(Day!From(l, "other"))
  BY <1>18 DEF Complete, Left
<1> QED
  BY <1>6, <1>8, <1>9, <1>10, <1>17, <1>18, <1>20, <1>21, <1>22 DEF Bracketed, r, x, y, z, t, w0, late

\* The properties of UsageInsights about a record r of the log l, begun at `before'.
AddUp(r, before, l) ==
  r.state = "available" /\ "surfaces" \in DOMAIN r =>
    LET Shown(s) == IF s \in DOMAIN r.surfaces THEN r.surfaces[s].requests ELSE 0 IN
    /\ Shown("dashboard") + Shown("explore") + Shown("unknown") + Shown("other") = r.requests
    /\ \A s \in Day!Surfaces :
         /\ Shown(s) <= Day!CountIn(l, s)
         /\ Shown(s) >= Day!CountIn(before, s)
                          - (IF s = "other" THEN Day!Cardinality(l \ before) ELSE 0)

Seen(r, before, l) ==
  r.state = "available" /\ "surfaces" \in DOMAIN r =>
    \A s \in DOMAIN r.surfaces :
      LET users == r.surfaces[s].users
          named == {e \in Day!Own(l) : Happening[e].kind = "request"
                                         /\ Day!Surface(Happening[e].source) = s
                                         /\ Happening[e].user # ""}
      IN  IF users = Day!NoIdentity THEN named \subseteq l \ before
          ELSE named # {} /\ users <= Day!Cardinality(Day!PeopleIn(l, s))
               /\ users >= Day!Cardinality(Day!PeopleIn(before, s))

Exact(r, l) ==
  /\ r.state = "available"
  /\ "surfaces" \in DOMAIN r =>
       /\ r.mix # Day!Withheld
       /\ \A s \in DOMAIN r.surfaces :
            r.surfaces[s].users # Day!NoIdentity =>
              r.surfaces[s].users = Day!Cardinality(Day!PeopleIn(l, s))

LEMMA CountsAreFrom ==
  ASSUME NEW l, NEW s
  PROVE  /\ Day!CountIn(l, s) = Cardinality(Day!From(l, s))
         /\ Day!PeopleIn(l, s) = Day!Users(Day!From(l, s))
         /\ {e \in Day!Own(l) : Happening[e].kind = "request" /\ Day!Surface(Happening[e].source) = s
                                  /\ Happening[e].user # ""}
              = Day!Identified(Day!From(l, s))
<1>1. {e \in Day!Own(l) : Happening[e].kind = "request" /\ Day!Surface(Happening[e].source) = s}
        = Day!From(l, s)
  BY DEF Day!From, Day!Requests, Day!Scoped
<1>2. Day!CountIn(l, s) = Cardinality(Day!From(l, s))
  BY <1>1, UsageCardinality DEF Day!CountIn
<1>3. Day!PeopleIn(l, s) = Day!Users(Day!From(l, s))
  BY <1>1 DEF Day!PeopleIn
<1> QED
  BY <1>2, <1>3 DEF Day!From, Day!Requests, Day!Scoped, Day!Identified

LEMMA FiguresShown ==
  ASSUME NEW o, NEW mix, ~ Day!Contradictory(o)
  PROVE  LET r == Day!Figures(o, mix) IN
         /\ r.state = "available" /\ r.requests = o.requests /\ r.mix = mix
         /\ DOMAIN r.surfaces = {x \in Day!Surfaces : Day!Asked(o, x) > 0}
         /\ \A s \in DOMAIN r.surfaces :
              /\ r.surfaces[s].requests = Day!Asked(o, s)
              /\ r.surfaces[s].users = Day!UsersOn(o, s)
BY DEF Day!Figures, Day!SurfaceRows

LEMMA FiguresAddUp ==
  ASSUME UsageConstants, NEW l \in Logs, NEW before, before \subseteq l, NEW o, NEW mix,
         Bracketed(o, before, l), NEW r, r = Day!Figures(o, mix)
  PROVE  AddUp(r, before, l) /\ Seen(r, before, l)
<1>1. CASE Day!Contradictory(o)
  <2>1. r = [state |-> "malformed_response"]
    BY <1>1 DEF Day!Figures, Day!Unavailable
  <2>2. r.state # "available"
    BY <2>1
  <2> QED
    BY <2>2 DEF AddUp, Seen
<1>2. CASE ~ Day!Contradictory(o)
  <2> DEFINE Shown(s) == IF s \in DOMAIN r.surfaces THEN r.surfaces[s].requests ELSE 0
             D == {x \in Day!Surfaces : Day!Asked(o, x) > 0}
  <2>1. /\ r.requests = o.requests
        /\ DOMAIN r.surfaces = D
        /\ \A s \in D : r.surfaces[s].requests = Day!Asked(o, s) /\ r.surfaces[s].users = Day!UsersOn(o, s)
    BY <1>2, FiguresShown
  <2>2. Day!Residual(o) >= 0
    BY <1>2 DEF Day!Contradictory, Bracketed
  <2>3. Day!Surfaces = Named \cup {"other"} /\ "other" \notin Named
    BY DEF Day!Surfaces, Day!Direct, Named
  <2>4. \A s \in Day!Surfaces : Day!Asked(o, s) \in Nat
    BY <2>2, <2>3 DEF Bracketed, Within
  <2>5. \A s \in Day!Surfaces : Shown(s) = Day!Asked(o, s)
    BY <2>1, <2>4
  <2>6. Shown("dashboard") + Shown("explore") + Shown("unknown") + Shown("other") = r.requests
    BY <2>1, <2>3, <2>5 DEF Bracketed, Named
  <2>7. ASSUME NEW s \in Day!Surfaces
        PROVE  /\ Shown(s) <= Day!CountIn(l, s)
               /\ Shown(s) >= Day!CountIn(before, s) - (IF s = "other" THEN Day!Cardinality(l \ before) ELSE 0)
    <3>1. Day!CountIn(l, s) = Cardinality(Day!From(l, s))
          /\ Day!CountIn(before, s) = Cardinality(Day!From(before, s))
      BY CountsAreFrom
    <3>2. CASE s \in Named
      <4>1. Day!Asked(o, s) \in Nat /\ Day!Asked(o, s) <= Cardinality(Day!From(l, s))
            /\ Cardinality(Day!From(before, s)) <= Day!Asked(o, s)
        BY <3>2 DEF Bracketed, Within
      <4>2. before \in Logs
        BY DEF Logs
      <4>3. IsFiniteSet(Day!From(before, s))
        <5>1. Part("sources", before, s) = Day!From(before, s)
          BY DEF Part
        <5> QED
          BY <4>2, <5>1, SetsAreFinite
      <4>4. Cardinality(Day!From(before, s)) \in Nat
        BY <4>3, FS_CardinalityType
      <4> QED
        BY <2>3, <2>5, <3>1, <3>2, <4>1, <4>4
    <3>3. CASE s = "other"
      BY <2>5, <3>1, <3>3, UsageCardinality DEF Bracketed
    <3> QED
      BY <2>3, <3>2, <3>3
  <2>8. AddUp(r, before, l)
    BY <2>6, <2>7 DEF AddUp
  <2>9. ASSUME NEW s \in DOMAIN r.surfaces
        PROVE  LET users == r.surfaces[s].users
                   named == {e \in Day!Own(l) : Happening[e].kind = "request"
                                                  /\ Day!Surface(Happening[e].source) = s
                                                  /\ Happening[e].user # ""}
               IN  IF users = Day!NoIdentity THEN named \subseteq l \ before
                   ELSE named # {} /\ users <= Day!Cardinality(Day!PeopleIn(l, s))
                        /\ users >= Day!Cardinality(Day!PeopleIn(before, s))
    <3> DEFINE F == Day!From(l, s) F0 == Day!From(before, s)
    <3>1. s \in Day!Surfaces /\ r.surfaces[s].users = Day!UsersOn(o, s)
      BY <2>1
    <3>2. Within(Day!Known(o, s), Day!Identified(F0), Day!Identified(F))
          /\ Within(Day!UsersFound(o, s), Day!Users(F0), Day!Users(F))
      BY <3>1 DEF Bracketed
    <3>3. IsFiniteSet(Day!Identified(F0)) /\ IsFiniteSet(Day!Identified(F))
      <4>1. before \in Logs
        BY DEF Logs
      <4>2. Part("identified", l, s) = Day!Identified(F) /\ Part("identified", before, s) = Day!Identified(F0)
        BY DEF Part
      <4> QED
        BY <4>1, <4>2, SetsAreFinite
    <3>4. {e \in Day!Own(l) : Happening[e].kind = "request" /\ Day!Surface(Happening[e].source) = s
                                /\ Happening[e].user # ""} = Day!Identified(F)
          /\ Day!PeopleIn(l, s) = Day!Users(F) /\ Day!PeopleIn(before, s) = Day!Users(F0)
      BY CountsAreFrom
    <3>5. CASE Day!Known(o, s) = 0
      <4>1. r.surfaces[s].users = Day!NoIdentity
        BY <3>1, <3>5 DEF Day!UsersOn
      <4>2. Cardinality(Day!Identified(F0)) = 0
        <5>1. Cardinality(Day!Identified(F0)) \in Nat
          BY <3>3, FS_CardinalityType
        <5> QED
          BY <3>2, <3>5, <5>1 DEF Within
      <4>3. Day!Identified(F0) = {}
        BY <3>3, <4>2, FS_EmptySet
      <4>4. Day!Identified(F) \subseteq l \ before
        BY <4>3 DEF Day!Identified, Day!From, Day!Requests, Day!Scoped, Day!Own
      <4> QED
        BY <3>4, <4>1, <4>4
    <3>6. CASE Day!Known(o, s) # 0
      <4>1. r.surfaces[s].users = Day!UsersFound(o, s)
        BY <3>1, <3>6 DEF Day!UsersOn, Day!UsersFound
      <4>2. /\ Day!UsersFound(o, s) \in Nat
            /\ Day!UsersFound(o, s) <= Cardinality(Day!Users(F))
            /\ Cardinality(Day!Users(F0)) <= Day!UsersFound(o, s)
        BY <3>2 DEF Within
      <4>3. Cardinality(Day!Identified(F)) # 0
        BY <3>2, <3>3, <3>6, FS_CardinalityType DEF Within
      <4>4. Day!Identified(F) # {}
        BY <4>3, FS_EmptySet
      <4>5. Cardinality(Day!Users(F0)) \in Nat
        <5>1. before \in Logs /\ Part("users", before, s) = Day!Users(F0)
          BY DEF Logs, Part
        <5> QED
          BY <5>1, SetsAreFinite, FS_CardinalityType
      <4>6. Day!UsersFound(o, s) # Day!NoIdentity
        BY <4>2 DEF Day!NoIdentity
      <4>7. Day!UsersFound(o, s) >= Cardinality(Day!Users(F0))
        BY <4>2, <4>5
      <4> HIDE DEF F, F0
      <4> QED
        BY <3>4, <4>1, <4>2, <4>4, <4>6, <4>7, UsageCardinality
    <3> QED
      BY <3>5, <3>6
  <2>10. Seen(r, before, l)
    BY <2>9 DEF Seen
  <2> QED
    BY <2>8, <2>10
<1> QED
  BY <1>1, <1>2

\* Nothing has come: nothing contradicts, and the users are those of the log.
LEMMA StillIsExact ==
  ASSUME UsageConstants, NEW l \in Logs, NEW o, Bracketed(o, l, l), NEW mix, mix # Day!Withheld
  PROVE  Exact(Day!Figures(o, mix), l)
<1> DEFINE F(s) == Day!From(l, s)
<1>1. /\ \A s \in Named : Within(Day!Asked(o, s), F(s), F(s))
      /\ \A s \in Day!Surfaces :
           /\ Within(Day!Known(o, s), Day!Identified(F(s)), Day!Identified(F(s)))
           /\ Within(Day!UsersFound(o, s), Day!Users(F(s)), Day!Users(F(s)))
      /\ Day!Asked(o, "other") = Day!Residual(o) /\ Day!Residual(o) \in Int
      /\ Day!Residual(o) >= Cardinality(F("other")) - Cardinality(l \ l)
      /\ Day!Residual(o) <= Cardinality(F("other"))
  BY DEF Bracketed
<1>2. \A s : IsFiniteSet(F(s)) /\ IsFiniteSet(Day!Identified(F(s))) /\ IsFiniteSet(Day!Users(F(s)))
  <2>1. \A s : Part("sources", l, s) = F(s) /\ Part("identified", l, s) = Day!Identified(F(s))
               /\ Part("users", l, s) = Day!Users(F(s))
    BY DEF Part
  <2> QED
    BY <2>1, SetsAreFinite
<1>3. \A s : /\ Cardinality(F(s)) \in Nat
             /\ Cardinality(Day!Identified(F(s))) \in Nat
             /\ Cardinality(Day!Users(F(s))) \in Nat
             /\ Cardinality(Day!Identified(F(s))) <= Cardinality(F(s))
  <2>1. \A s : Day!Identified(F(s)) \subseteq F(s)
    BY DEF Day!Identified
  <2> HIDE DEF F
  <2>2. \A s : Cardinality(Day!Identified(F(s))) <= Cardinality(F(s))
    BY <1>2, <2>1, FS_Subset
  <2> QED
    BY <1>2, <2>2, FS_CardinalityType
<1>4. Cardinality(l \ l) = 0
  <2>1. l \ l = {}
    OBVIOUS
  <2> QED
    BY <2>1, FS_EmptySet
<1>5. Day!Surfaces = Named \cup {"other"} /\ "other" \notin Named
  BY DEF Day!Surfaces, Day!Direct, Named
<1> HIDE DEF F
<1>6. Day!Asked(o, "other") = Cardinality(F("other"))
  BY <1>1, <1>3, <1>4
<1>7. \A s \in Named : Day!Asked(o, s) = Cardinality(F(s))
  BY <1>1, <1>3 DEF Within
<1>8. \A s \in Day!Surfaces : /\ Day!Known(o, s) = Cardinality(Day!Identified(F(s)))
                                /\ Day!UsersFound(o, s) = Cardinality(Day!Users(F(s)))
  BY <1>1, <1>3 DEF Within
<1>9. ~ Day!Contradictory(o)
  <2>1. ~ (Day!Residual(o) < 0)
    BY <1>1, <1>3, <1>6
  <2>2. \A s \in Day!Surfaces : Day!Asked(o, s) = Cardinality(F(s))
    BY <1>5, <1>6, <1>7
  <2>3. \A s \in Day!Surfaces : ~ (Day!Known(o, s) > Day!Asked(o, s))
    BY <1>3, <1>8, <2>2
  <2> QED
    BY <2>1, <2>3 DEF Day!Contradictory
<1> DEFINE r == Day!Figures(o, mix)
<1>10. /\ r.state = "available" /\ r.mix = mix
       /\ DOMAIN r.surfaces = {x \in Day!Surfaces : Day!Asked(o, x) > 0}
       /\ \A s \in DOMAIN r.surfaces : r.surfaces[s].users = Day!UsersOn(o, s)
  BY <1>9, FiguresShown
<1> HIDE DEF r
<1>11. ASSUME NEW s \in DOMAIN r.surfaces, r.surfaces[s].users # Day!NoIdentity
       PROVE  r.surfaces[s].users = Day!Cardinality(Day!PeopleIn(l, s))
  <2>1. s \in Day!Surfaces /\ r.surfaces[s].users = Day!UsersOn(o, s)
    BY <1>10
  <2>2. Day!UsersOn(o, s) = Day!UsersFound(o, s)
    BY <1>11, <2>1 DEF Day!UsersOn, Day!UsersFound
  <2>3. Day!PeopleIn(l, s) = Day!Users(F(s))
    BY CountsAreFrom DEF F
  <2> QED
    BY <1>8, <2>1, <2>2, <2>3, UsageCardinality
<1> QED
  BY <1>10, <1>11 DEF Exact, r

-----------------------------------------------------------------------------
(* The mix.                                                                   *)

\* The events of some types.
OfTypes(l, ts) == {e \in Day!Typed(l) : Happening[e].type \in ts}

\* The rows of some types are as many as the events of these types.
LEMMA RowsCount ==
  ASSUME UsageConstants, NEW l \in Logs, NEW ts, ts \subseteq Day!Types(l),
         NEW rows, rows = [t \in ts |-> Day!OfType(l, t)]
  PROVE  /\ Day!Sum(rows) = Cardinality(OfTypes(l, ts))
         /\ Day!Sum(rows) \in Nat
<1> DEFINE G(t) == Day!Of(Day!Requests(l), "type", {t})
           S == UNION {{t} \X (1 .. rows[t]) : t \in DOMAIN rows}
           E == OfTypes(l, ts)
           B == [t \in ts |-> CHOOSE b : b \in Bijection(1 .. rows[t], G(t))]
<1>1. IsFiniteSet(Day!Requests(l)) /\ IsFiniteSet(Day!Typed(l))
  BY SetsAreFinite DEF ByNumber, Scope
<1>2. ASSUME NEW t \in ts
      PROVE  /\ rows[t] = Cardinality(G(t)) /\ rows[t] \in Nat
             /\ B[t] \in Bijection(1 .. rows[t], G(t))
  <2>1. rows[t] = Cardinality(G(t))
    BY UsageCardinality DEF Day!OfType
  <2>2. IsFiniteSet(G(t))
    BY <1>1, FS_Subset DEF Day!Of
  <2>3. Cardinality(G(t)) \in Nat /\ ExistsBijection(1 .. Cardinality(G(t)), G(t))
    BY <2>2, FS_CardinalityType
  <2>4. \E b : b \in Bijection(1 .. rows[t], G(t))
    BY <2>1, <2>3 DEF ExistsBijection
  <2> QED
    BY <2>1, <2>3, <2>4
<1>3. \A t \in ts : t # ""
  BY DEF Day!Types, Day!Typed
<1>4. \A e : e \in E <=> (e \in Day!Requests(l) /\ Happening[e].type \in ts)
  BY <1>3 DEF OfTypes, Day!Typed
<1>5. \A e, t : e \in G(t) <=> (e \in Day!Requests(l) /\ Happening[e].type = t)
  BY DEF Day!Of
<1>6. \A p \in S : \E t \in ts : \E n \in 1 .. rows[t] : p = <<t, n>>
  OBVIOUS
<1>7. \A t \in ts : \A n \in 1 .. rows[t] : <<t, n>> \in S
  OBVIOUS
<1> HIDE DEF B, G, S, E
<1>8. \A t \in ts : /\ \A n \in 1 .. rows[t] : B[t][n] \in G(t)
                    /\ \A m, n \in 1 .. rows[t] : B[t][m] = B[t][n] => m = n
                    /\ \A e \in G(t) : \E n \in 1 .. rows[t] : B[t][n] = e
  BY <1>2 DEF Bijection, Injection, Surjection, IsInjective
<1> DEFINE g == [p \in S |-> B[p[1]][p[2]]]
<1>9. \A t \in ts : \A n \in 1 .. rows[t] : g[<<t, n>>] = B[t][n]
  BY <1>7
<1> HIDE DEF g
<1>10. g \in [S -> E]
  <2>1. ASSUME NEW p \in S PROVE g[p] \in E
    <3>1. PICK t \in ts : \E n \in 1 .. rows[t] : p = <<t, n>>
      BY <1>6
    <3>2. PICK n \in 1 .. rows[t] : p = <<t, n>>
      BY <3>1
    <3>3. g[p] = B[t][n] /\ B[t][n] \in G(t)
      BY <1>8, <1>9, <3>2
    <3> QED
      BY <1>4, <1>5, <3>3
  <2>2. g = [p \in S |-> g[p]]
    BY DEF g
  <2> QED
    BY <2>1, <2>2
<1>11. ASSUME NEW p \in S, NEW q \in S, g[p] = g[q] PROVE p = q
  <2>1. PICK t \in ts : \E n \in 1 .. rows[t] : p = <<t, n>>
    BY <1>6
  <2>2. PICK u \in ts : \E m \in 1 .. rows[u] : q = <<u, m>>
    BY <1>6
  <2>3. PICK n \in 1 .. rows[t] : p = <<t, n>>
    BY <2>1
  <2>4. PICK m \in 1 .. rows[u] : q = <<u, m>>
    BY <2>2
  <2>5. g[p] = B[t][n] /\ g[q] = B[u][m] /\ B[t][n] \in G(t) /\ B[u][m] \in G(u)
    BY <1>8, <1>9, <2>3, <2>4
  <2>6. B[t][n] = B[u][m]
    BY <1>11, <2>5
  <2>7. t = u
    BY <1>5, <2>5, <2>6
  <2>8. n = m
    BY <1>8, <2>7, <2>6
  <2> QED
    BY <2>7, <2>8, <2>3, <2>4
<1>12. ASSUME NEW e \in E PROVE \E p \in S : g[p] = e
  <2>1. Happening[e].type \in ts /\ e \in G(Happening[e].type)
    BY <1>4, <1>5
  <2>2. PICK n \in 1 .. rows[Happening[e].type] : B[Happening[e].type][n] = e
    BY <1>8, <2>1
  <2> QED
    BY <1>7, <1>9, <2>1, <2>2
<1>13. g \in Injection(S, E) /\ g \in Surjection(S, E)
  BY <1>10, <1>11, <1>12 DEF Injection, Surjection, IsInjective
<1>14. IsFiniteSet(E)
  BY <1>1, FS_Subset DEF E, OfTypes
<1>15. Cardinality(S) = Cardinality(E)
  BY <1>13, <1>14, FS_Injection
<1>16. Day!Sum(rows) = Cardinality(S)
  BY UsageCardinality DEF Day!Sum, S
<1> QED
  BY <1>14, <1>15, <1>16, FS_CardinalityType DEF E

LEMMA MinimumOfTwo ==
  ASSUME NEW a \in Nat, NEW b \in Nat
  PROVE  /\ Day!Min({a, b}) \in {a, b}
         /\ Day!Min({a, b}) <= a /\ Day!Min({a, b}) <= b
<1>1. \E x \in {a, b} : \A y \in {a, b} : x <= y
  <2>1. CASE a <= b
    BY <2>1
  <2>2. CASE b <= a
    BY <2>2
  <2> QED
    BY <2>1, <2>2
<1>2. Day!Min({a, b}) \in {a, b} /\ \A y \in {a, b} : Day!Min({a, b}) <= y
  BY <1>1 DEF Day!Min
<1> QED
  BY <1>2

\* The rows are the most frequent types, and what they leave is what they do not name.
LEMMA RowsAre ==
  ASSUME UsageConstants, NEW l \in Logs, NEW rows \in Day!Answers("mix_rows", l)
  PROVE  /\ DOMAIN rows \subseteq Day!Types(l) /\ IsFiniteSet(DOMAIN rows)
         /\ Cardinality(DOMAIN rows) \in Nat /\ Cardinality(Day!Types(l)) \in Nat
         /\ Cardinality(DOMAIN rows) \in {TopMix, Cardinality(Day!Types(l))}
         /\ Cardinality(DOMAIN rows) <= TopMix
         /\ Cardinality(DOMAIN rows) <= Cardinality(Day!Types(l))
         /\ Day!Sum(rows) = Cardinality(OfTypes(l, DOMAIN rows)) /\ Day!Sum(rows) \in Nat
<1>1. PICK ts \in Day!Top(l) : rows = [t \in ts |-> Day!OfType(l, t)]
  BY DEF Day!Answers
<1>2. /\ ts \subseteq Day!Types(l)
      /\ Cardinality(ts) = Day!Min({TopMix, Cardinality(Day!Types(l))})
  BY UsageCardinality DEF Day!Top
<1>3. DOMAIN rows = ts
  BY <1>1
<1>4. IsFiniteSet(Day!Types(l))
  BY SetsAreFinite DEF ByNumber, Scope
<1>5. IsFiniteSet(ts) /\ Cardinality(Day!Types(l)) \in Nat
  BY <1>2, <1>4, FS_Subset, FS_CardinalityType
<1>6. Cardinality(ts) \in Nat
  BY <1>5, FS_CardinalityType
<1>7. TopMix \in Nat
  BY DEF UsageConstants
<1>8. /\ Cardinality(ts) \in {TopMix, Cardinality(Day!Types(l))}
      /\ Cardinality(ts) <= TopMix /\ Cardinality(ts) <= Cardinality(Day!Types(l))
  BY <1>2, <1>5, <1>7, MinimumOfTwo
<1>9. Day!Sum(rows) = Cardinality(OfTypes(l, ts)) /\ Day!Sum(rows) \in Nat
  BY <1>1, <1>2, RowsCount
<1> QED
  BY <1>2, <1>3, <1>5, <1>6, <1>8, <1>9

\* What the mix is made from.
MixKnown(o, before, l) ==
  /\ Told("requests", o.requests, before, l)
  /\ Told("mix_requests", o.mix_requests, before, l)
  /\ Told("mix_distinct", o.mix_distinct, before, l)
  /\ o.mix_rows \in Day!Answers("mix_rows", l)

MixWhole(r, before, l) ==
  r.state = "available" /\ "mix" \in DOMAIN r /\ r.mix # Day!Withheld =>
    LET missing == Day!Types(Day!Own(l)) \ DOMAIN r.mix.rows IN
    /\ r.mix.remainder + Day!Sum(r.mix.rows) <= r.requests
    /\ r.mix.remainder >= 0
    /\ r.mix.remainder > 0 => missing # {}
    /\ r.mix.remainder = 0 =>
         Day!Cardinality(missing \cap Day!Types(Day!Own(before))) <= Day!Cardinality(l \ before)

\* The types that came since are no more than the events that did.
LEMMA TypesGrow ==
  ASSUME UsageConstants, NEW l \in Logs, NEW before, before \subseteq l
  PROVE  /\ IsFiniteSet(Day!Types(l) \ Day!Types(before))
         /\ Cardinality(Day!Types(l) \ Day!Types(before)) <= Cardinality(l \ before)
         /\ Cardinality(l \ before) \in Nat
<1>1. IsFiniteSet(l)
  BY SetsAreFinite
<1>2. IsFiniteSet(l \ before)
  BY <1>1, FS_Subset
<1> DEFINE f == [e \in l \ before |-> Happening[e].type]
           T == {f[e] : e \in DOMAIN f}
<1>3. DOMAIN f = l \ before /\ T = {Happening[e].type : e \in l \ before}
  OBVIOUS
<1>4. Day!Types(l) \ Day!Types(before) \subseteq T
  <2>1. \A e : e \in Day!Typed(l) <=> /\ e \in l /\ Happening[e].stack = "own"
                                        /\ Happening[e].kind = "request" /\ Happening[e].type # ""
    BY DEF Day!Typed, Day!Requests, Day!Scoped, Day!Own
  <2>2. \A e : e \in Day!Typed(before) <=> /\ e \in before /\ Happening[e].stack = "own"
                                             /\ Happening[e].kind = "request" /\ Happening[e].type # ""
    BY DEF Day!Typed, Day!Requests, Day!Scoped, Day!Own
  <2> QED
    BY <1>3, <2>1, <2>2 DEF Day!Types
<1> HIDE DEF f
<1>5. IsFiniteSet(T) /\ Cardinality(T) <= Cardinality(l \ before)
  BY <1>2, <1>3, ImagesAreFinite
<1> HIDE DEF T
<1> DEFINE N == Day!Types(l) \ Day!Types(before)
<1> HIDE DEF N
<1>6. IsFiniteSet(N) /\ Cardinality(N) <= Cardinality(T)
  BY <1>4, <1>5, FS_Subset DEF N
<1>7. Cardinality(T) \in Nat /\ Cardinality(N) \in Nat /\ Cardinality(l \ before) \in Nat
  BY <1>2, <1>5, <1>6, FS_CardinalityType
<1>8. Cardinality(N) <= Cardinality(l \ before)
  BY <1>5, <1>6, <1>7
<1> QED
  BY <1>6, <1>7, <1>8 DEF N

\* One set no larger than another misses no more of it than it has beside it.
LEMMA Displaced ==
  ASSUME NEW A, NEW B, IsFiniteSet(A), IsFiniteSet(B), Cardinality(A) <= Cardinality(B)
  PROVE  /\ Cardinality(A \ B) <= Cardinality(B \ A)
         /\ Cardinality(A \ B) \in Nat /\ Cardinality(B \ A) \in Nat
<1>1. Cardinality(A \ B) = Cardinality(A) - Cardinality(A \cap B)
  BY FS_Difference
<1>2. Cardinality(B \ A) = Cardinality(B) - Cardinality(B \cap A)
  BY FS_Difference
<1>3. A \cap B = B \cap A
  OBVIOUS
<1>4. IsFiniteSet(A \cap B) /\ IsFiniteSet(A \ B) /\ IsFiniteSet(B \ A)
  BY FS_Subset
<1>5. /\ Cardinality(A) \in Nat /\ Cardinality(B) \in Nat /\ Cardinality(A \cap B) \in Nat
      /\ Cardinality(A \ B) \in Nat /\ Cardinality(B \ A) \in Nat
  BY <1>4, FS_CardinalityType
<1> QED
  BY <1>1, <1>2, <1>3, <1>5

LEMMA MixIsSound ==
  ASSUME UsageConstants, NEW l \in Logs, NEW before, before \subseteq l, NEW o,
         MixKnown(o, before, l), NEW r, r = Day!Figures(o, Day!MixOf(o))
  PROVE  MixWhole(r, before, l)
<1> SUFFICES ASSUME r.state = "available", "mix" \in DOMAIN r, r.mix # Day!Withheld
             PROVE  LET missing == Day!Types(Day!Own(l)) \ DOMAIN r.mix.rows IN
                    /\ r.mix.remainder + Day!Sum(r.mix.rows) <= r.requests
                    /\ r.mix.remainder >= 0
                    /\ r.mix.remainder > 0 => missing # {}
                    /\ r.mix.remainder = 0 =>
                         Day!Cardinality(missing \cap Day!Types(Day!Own(before)))
                           <= Day!Cardinality(l \ before)
  BY DEF MixWhole
<1>1. ~ Day!Contradictory(o)
  <2>1. [state |-> "malformed_response"].state # "available"
    OBVIOUS
  <2> QED
    BY <2>1 DEF Day!Figures, Day!Unavailable
<1>2. r.mix = Day!MixOf(o) /\ r.requests = o.requests
  BY <1>1, FiguresShown
<1> DEFINE rows == o.mix_rows
           sum == Day!Sum(rows)
           typed == o.mix_requests
           distinct == o.mix_distinct
           shown == Cardinality(DOMAIN rows)
           rest == typed - sum
<1>3. Day!MixFits(o)
  BY <1>2 DEF Day!MixOf
<1>4. r.mix = [rows |-> rows, remainder |-> rest]
  BY <1>2, <1>3 DEF Day!MixOf
<1>5. /\ typed <= o.requests /\ shown <= distinct /\ rest >= 0
      /\ distinct > shown => rest > 0
      /\ distinct = shown => rest = 0
  BY <1>3, UsageCardinality DEF Day!MixFits
<1>6. /\ Within(o.requests, Day!Requests(before), Day!Requests(l))
      /\ Within(typed, Day!Typed(before), Day!Typed(l))
      /\ Within(distinct, Day!Types(before), Day!Types(l))
  BY DEF MixKnown, Told, Scope, ByNumber
<1>7. /\ DOMAIN rows \subseteq Day!Types(l) /\ IsFiniteSet(DOMAIN rows)
      /\ shown \in Nat /\ Cardinality(Day!Types(l)) \in Nat /\ sum \in Nat
  BY RowsAre DEF MixKnown
<1>8. typed \in Nat /\ distinct \in Nat /\ o.requests \in Nat
      /\ distinct <= Cardinality(Day!Types(l)) /\ Cardinality(Day!Types(before)) <= distinct
  BY <1>6 DEF Within
<1>9. Day!Types(Day!Own(l)) = Day!Types(l) /\ Day!Types(Day!Own(before)) = Day!Types(before)
  <2>1. \A k : Day!Own(Day!Own(k)) = Day!Own(k)
    BY DEF Day!Own
  <2> QED
    BY <2>1 DEF Day!Types, Day!Typed, Day!Requests, Day!Scoped
<1>10. r.mix.rows = rows /\ r.mix.remainder = rest
  BY <1>4
<1> HIDE DEF rows, sum, typed, distinct, shown
<1>11. rest + sum = typed
  BY <1>7, <1>8
<1>12. ASSUME rest > 0 PROVE Day!Types(l) \ DOMAIN rows # {}
  <2>1. distinct # shown
    BY <1>5, <1>12, <1>7, <1>8
  <2>2. shown < Cardinality(Day!Types(l))
    BY <1>5, <1>7, <1>8, <2>1
  <2>3. DOMAIN rows # Day!Types(l)
    BY <1>7, <2>2 DEF shown
  <2> QED
    BY <1>7, <2>3
<1>13. ASSUME rest = 0
       PROVE  Cardinality((Day!Types(l) \ DOMAIN rows) \cap Day!Types(before)) <= Cardinality(l \ before)
  <2>1. distinct = shown
    BY <1>5, <1>7, <1>8, <1>13
  <2> DEFINE A == Day!Types(before) R == DOMAIN rows
  <2>2. before \in Logs
    BY DEF Logs
  <2>3. IsFiniteSet(A)
    BY <2>2, SetsAreFinite DEF ByNumber, Scope
  <2>4. Cardinality(A) <= Cardinality(R)
    BY <1>8, <2>1 DEF shown
  <2>5. A \subseteq Day!Types(l)
    BY SetsGrow DEF ByNumber, Scope
  <2>6. (Day!Types(l) \ R) \cap A = A \ R
    BY <2>5
  <2>7. R \ A \subseteq Day!Types(l) \ Day!Types(before)
    BY <1>7
  <2>8. /\ Cardinality(Day!Types(l) \ Day!Types(before)) <= Cardinality(l \ before)
        /\ IsFiniteSet(Day!Types(l) \ Day!Types(before))
        /\ Cardinality(l \ before) \in Nat
    BY TypesGrow
  <2>9. Cardinality(R \ A) <= Cardinality(Day!Types(l) \ Day!Types(before))
    BY <2>7, <2>8, FS_Subset
  <2> HIDE DEF A, R
  <2>10. /\ Cardinality(A \ R) <= Cardinality(R \ A)
         /\ Cardinality(A \ R) \in Nat /\ Cardinality(R \ A) \in Nat
    BY <1>7, <2>3, <2>4, Displaced DEF R
  <2>11. Cardinality(Day!Types(l) \ Day!Types(before)) \in Nat
    BY <2>8, FS_CardinalityType
  <2>12. Cardinality(A \ R) <= Cardinality(l \ before)
    BY <2>8, <2>9, <2>10, <2>11
  <2> QED
    BY <2>6, <2>12 DEF A, R
<1>14. rest + sum <= o.requests /\ rest >= 0
  BY <1>5, <1>7, <1>8, <1>11
<1>15. r.mix.remainder + Day!Sum(r.mix.rows) <= r.requests
  BY <1>2, <1>10, <1>14 DEF sum
<1> HIDE DEF rest
<1> QED
  BY <1>9, <1>10, <1>12, <1>13, <1>14, <1>15, UsageCardinality

\* Nothing has come: the mix is not withheld.
LEMMA StillMix ==
  ASSUME UsageConstants, NEW l \in Logs, NEW o, MixKnown(o, l, l)
  PROVE  Day!MixOf(o) # Day!Withheld
<1> DEFINE R == DOMAIN o.mix_rows
           typed == Cardinality(Day!Typed(l))
           distinct == Cardinality(Day!Types(l))
           shown == Cardinality(R)
           sum == Cardinality(OfTypes(l, R))
<1>1. /\ Within(o.requests, Day!Requests(l), Day!Requests(l))
      /\ Within(o.mix_requests, Day!Typed(l), Day!Typed(l))
      /\ Within(o.mix_distinct, Day!Types(l), Day!Types(l))
  BY DEF MixKnown, Told, Scope, ByNumber
<1>2. IsFiniteSet(Day!Requests(l)) /\ IsFiniteSet(Day!Typed(l)) /\ IsFiniteSet(Day!Types(l))
  BY SetsAreFinite DEF ByNumber, Scope
<1>3. typed \in Nat /\ distinct \in Nat /\ Cardinality(Day!Requests(l)) \in Nat
  BY <1>2, FS_CardinalityType
<1>4. o.requests = Cardinality(Day!Requests(l)) /\ o.mix_requests = typed /\ o.mix_distinct = distinct
  BY <1>1, <1>3 DEF Within
<1>5. /\ R \subseteq Day!Types(l) /\ IsFiniteSet(R)
      /\ shown \in Nat /\ shown \in {TopMix, distinct} /\ shown <= TopMix /\ shown <= distinct
      /\ Day!Sum(o.mix_rows) = sum /\ sum \in Nat
  BY RowsAre DEF MixKnown
<1>6. typed <= o.requests
  <2>1. Day!Typed(l) \subseteq Day!Requests(l)
    BY DEF Day!Typed
  <2> QED
    BY <1>2, <1>4, <2>1, FS_Subset
<1>7. OfTypes(l, R) \subseteq Day!Typed(l)
  BY DEF OfTypes
<1>8. sum <= typed /\ (sum = typed => OfTypes(l, R) = Day!Typed(l))
  BY <1>2, <1>7, FS_Subset
<1>9. distinct > 0 => shown > 0
  BY <1>3, <1>5 DEF UsageConstants
<1>10. (typed = 0) = (distinct = 0)
  <2>1. (Day!Typed(l) = {}) = (Day!Types(l) = {})
    BY DEF Day!Types
  <2> QED
    BY <1>2, <2>1, FS_EmptySet
<1>11. distinct > shown => typed > sum
  <2>1. SUFFICES ASSUME distinct > shown, sum = typed PROVE FALSE
    BY <1>3, <1>5, <1>8
  <2>2. PICK t \in Day!Types(l) : t \notin R
    <3>1. R # Day!Types(l)
      BY <1>3, <1>5, <2>1
    <3> QED
      BY <1>5, <3>1
  <2>3. PICK e \in Day!Typed(l) : Happening[e].type = t
    BY DEF Day!Types
  <2>4. e \in OfTypes(l, R)
    BY <1>8, <2>1
  <2> QED
    BY <2>2, <2>3, <2>4 DEF OfTypes
<1>12. distinct = shown => typed = sum
  <2>1. SUFFICES ASSUME distinct = shown PROVE OfTypes(l, R) = Day!Typed(l)
    OBVIOUS
  <2>2. R = Day!Types(l)
    BY <1>2, <1>5, <2>1, FS_Subset
  <2> QED
    BY <2>2 DEF OfTypes, Day!Types
<1> DEFINE rest == o.mix_requests - Day!Sum(o.mix_rows)
<1>13. rest \in Int /\ rest >= 0 /\ (rest = 0 <=> typed = sum) /\ (rest > 0 <=> typed > sum)
  <2> HIDE DEF typed, sum
  <2> QED
    BY <1>3, <1>4, <1>5, <1>8
<1>14. Day!MixFits(o)
  <2> HIDE DEF typed, sum, distinct, rest
  <2>1. Day!Cardinality(DOMAIN o.mix_rows) = shown
    BY UsageCardinality
  <2> HIDE DEF shown
  <2>2. /\ o.mix_requests <= o.requests
        /\ shown <= TopMix /\ shown <= o.mix_distinct
        /\ rest >= 0
        /\ o.mix_distinct > 0 => shown > 0
        /\ (o.mix_requests = 0) = (o.mix_distinct = 0)
        /\ o.mix_distinct > shown => rest > 0
        /\ o.mix_distinct = shown => rest = 0
    BY <1>4, <1>5, <1>6, <1>9, <1>10, <1>11, <1>12, <1>13
  <2> QED
    BY <2>1, <2>2 DEF Day!MixFits, rest
<1>15. Day!MixOf(o) = [rows |-> o.mix_rows, remainder |-> rest]
  BY <1>14 DEF Day!MixOf
<1>16. rest # -1
  BY <1>13
<1> HIDE DEF rest
<1>17. Day!MixOf(o).remainder = rest /\ Day!Withheld.remainder = -1
  BY <1>15 DEF Day!Withheld
<1> QED
  BY <1>16, <1>17

-----------------------------------------------------------------------------
(* The invariant of UsageInsights.                                            *)

\* The first n queries are answered.
Answered(o, n, before, l) ==
  /\ DOMAIN o = {"nothing"} \cup {Day!Queries[i] : i \in 1 .. n}
  /\ \A i \in 1 .. n : Told(Day!Queries[i], o[Day!Queries[i]], before, l)
  /\ n >= 5 => Left(o, l)

\* The readings of the dashboards so far.
Looked(o, n, since, l) ==
  /\ n = 0 => DOMAIN o = {"nothing"}
  /\ n = 1 => DOMAIN o \in {{"nothing"}, {"nothing", "catalogue"}}
  /\ n = 1 /\ since.faults = 0 => "catalogue" \in DOMAIN o
  /\ since.opened \subseteq Day!Opened(l)

WholeTask == task = [name |-> task.name, answered |-> task.answered, retried |-> task.retried]
WholeSince ==
  /\ daySince = [log |-> daySince.log, opened |-> daySince.opened, faults |-> daySince.faults]
  /\ daySince.faults \in Nat

UsageInv ==
  /\ dayLog \in Logs /\ daySince.log \subseteq dayLog
  /\ WholeSince /\ WholeTask
  /\ task.name \in {"insights", "opening", "done"}
  /\ task.name = "insights" => task.answered \in 0 .. 10 /\ Answered(dayOut, task.answered, daySince.log, dayLog)
  /\ task.name = "opening" => task.answered \in {0, 1} /\ Looked(dayOut, task.answered, daySince, dayLog)
  /\ Day!UsageIsTrue

LEMMA QueriesDiffer ==
  /\ Day!Queries[1] = "requests" /\ Day!Queries[2] = "other_ids" /\ Day!Queries[3] = "placed"
  /\ Day!Queries[4] = "panels" /\ Day!Queries[5] = "sources" /\ Day!Queries[6] = "identified"
  /\ Day!Queries[7] = "users" /\ Day!Queries[8] = "fallback" /\ Day!Queries[9] = "mix_requests"
  /\ Day!Queries[10] = "mix_distinct" /\ Day!Queries[11] = "mix_rows"
  /\ \A i, j \in 1 .. 11 : Day!Queries[i] = Day!Queries[j] => i = j
  /\ \A i \in 1 .. 11 : Day!Queries[i] # "nothing"
<1>1. /\ Day!Queries[1] = "requests" /\ Day!Queries[2] = "other_ids" /\ Day!Queries[3] = "placed"
      /\ Day!Queries[4] = "panels" /\ Day!Queries[5] = "sources" /\ Day!Queries[6] = "identified"
      /\ Day!Queries[7] = "users" /\ Day!Queries[8] = "fallback" /\ Day!Queries[9] = "mix_requests"
      /\ Day!Queries[10] = "mix_distinct" /\ Day!Queries[11] = "mix_rows"
  BY DEF Day!Queries
<1>2. \A i \in 1 .. 11 : i \in {1, 2, 3, 4, 5, 6, 7, 8, 9, 10, 11}
  OBVIOUS
<1>3. \A i, j \in {1, 2, 3, 4, 5, 6, 7, 8, 9, 10, 11} : Day!Queries[i] = Day!Queries[j] => i = j
  BY <1>1
<1>4. \A i \in {1, 2, 3, 4, 5, 6, 7, 8, 9, 10, 11} : Day!Queries[i] # "nothing"
  BY <1>1
<1> QED
  BY <1>1, <1>2, <1>3, <1>4

\* o is p with the answer v.
Extended(o, p, field, v) == o = [x \in DOMAIN p \cup {field} |-> IF x = field THEN v ELSE p[x]]

Adds(o, n, v, before, l) ==
  /\ o[Day!Queries[n + 1]] = v
  /\ DOMAIN o = {"nothing"} \cup {Day!Queries[i] : i \in 1 .. n + 1}
  /\ \A i \in 1 .. n : Told(Day!Queries[i], o[Day!Queries[i]], before, l)
  /\ n >= 5 => Left(o, l)
  /\ n <= 9 => Answered(o, n + 1, before, l)

\* What an answer leaves of the others.
LEMMA AnswerAdds ==
  ASSUME UsageConstants, NEW l \in Logs, NEW before, before \subseteq l, NEW p, NEW n \in 0 .. 10,
         Answered(p, n, before, l), NEW v \in Day!Answers(Day!Queries[n + 1], l),
         NEW o, Extended(o, p, Day!Queries[n + 1], v)
  PROVE  Adds(o, n, v, before, l)
<1> DEFINE field == Day!Queries[n + 1]
<1>1. o[field] = v /\ DOMAIN o = DOMAIN p \cup {field}
  BY DEF Extended
<1>2. DOMAIN p = {"nothing"} \cup {Day!Queries[i] : i \in 1 .. n}
  BY DEF Answered
<1>3. DOMAIN o = {"nothing"} \cup {Day!Queries[i] : i \in 1 .. n + 1}
  <2>1. 1 .. n + 1 = (1 .. n) \cup {n + 1}
    OBVIOUS
  <2> QED
    BY <1>1, <1>2, <2>1
<1>4. ASSUME NEW i \in 1 .. n
      PROVE  o[Day!Queries[i]] = p[Day!Queries[i]]
  <2>1. i \in 1 .. 11 /\ n + 1 \in 1 .. 11 /\ i # n + 1
    OBVIOUS
  <2>2. Day!Queries[i] # field
    BY <2>1, QueriesDiffer
  <2>3. Day!Queries[i] \in DOMAIN p
    BY <1>2
  <2> QED
    BY <2>2, <2>3 DEF Extended
<1>5. \A i \in 1 .. n : Told(Day!Queries[i], o[Day!Queries[i]], before, l)
  BY <1>4 DEF Answered
<1>6. n >= 5 => o.requests = p.requests /\ o.sources = p.sources
  <2>1. SUFFICES ASSUME n >= 5 PROVE o.requests = p.requests /\ o.sources = p.sources
    OBVIOUS
  <2>2. 1 \in 1 .. n /\ 5 \in 1 .. n
    BY <2>1
  <2> QED
    BY <1>4, <2>2, QueriesDiffer
<1>7. n >= 5 => Left(o, l)
  BY <1>6 DEF Answered, Left
<1>8. ASSUME n <= 9 PROVE Answered(o, n + 1, before, l)
  <2>1. n + 1 \in 1 .. 10
    BY <1>8
  <2>2. /\ Told(field, v, before, l)
        /\ n + 1 = 5 => Day!Total(v) = Cardinality(Day!Requests(l)) - Cardinality(Day!From(l, "other"))
    BY <2>1, AnswersTell
  <2>3. \A i \in 1 .. n + 1 : i \in 1 .. n \/ i = n + 1
    OBVIOUS
  <2>4. \A i \in 1 .. n + 1 : Told(Day!Queries[i], o[Day!Queries[i]], before, l)
    BY <1>1, <1>5, <2>2, <2>3
  <2>5. n = 4 => Left(o, l)
    <3>1. SUFFICES ASSUME n = 4 PROVE Left(o, l)
      OBVIOUS
    <3>2. o.sources = v
      BY <1>1, <3>1, QueriesDiffer
    <3>3. Told("requests", o.requests, before, l)
      <4>1. 1 \in 1 .. n
        BY <3>1
      <4> QED
        BY <1>5, <4>1, QueriesDiffer
    <3>4. o.requests \in Nat /\ o.requests <= Cardinality(Day!Requests(l))
      BY <3>3 DEF Told, Within, Scope, ByNumber
    <3>5. IsFiniteSet(Day!Requests(l))
      BY SetsAreFinite DEF ByNumber, Scope
    <3>6. Cardinality(Day!From(l, "other")) \in Nat /\ Cardinality(Day!Requests(l)) \in Nat
      BY <3>5, SurfacesPart, FS_CardinalityType
    <3>7. o.requests - Day!Total(o.sources) <= Cardinality(Day!From(l, "other"))
      BY <2>2, <3>1, <3>2, <3>4, <3>6
    <3> QED
      BY <3>7 DEF Left
  <2>6. n + 1 >= 5 => Left(o, l)
    BY <1>7, <2>5
  <2> QED
    BY <1>3, <2>4, <2>6 DEF Answered
<1> QED
  BY <1>1, <1>3, <1>5, <1>7, <1>8 DEF Adds

\* An event that comes leaves true what has been answered.
LEMMA AnsweredStays ==
  ASSUME UsageConstants, NEW l \in Logs, NEW m \in Logs, l \subseteq m, NEW before, NEW o, NEW n \in 0 .. 10,
         Answered(o, n, before, l)
  PROVE  Answered(o, n, before, m)
<1>1. \A i \in 1 .. n : Told(Day!Queries[i], o[Day!Queries[i]], before, m)
  BY ToldStays DEF Answered
<1>2. ASSUME n >= 5 PROVE Left(o, m)
  <2>1. 1 \in 1 .. n /\ 5 \in 1 .. n
    BY <1>2
  <2>2. Told("requests", o.requests, before, m) /\ Told("sources", o.sources, before, m)
    BY <1>1, <2>1, QueriesDiffer
  <2>3. o.requests \in Nat
    BY <2>2 DEF Told, Within, ByNumber
  <2>4. /\ o.sources["dashboard"] \in Nat /\ o.sources["explore"] \in Nat
        /\ o.sources[""] \in Nat /\ o.sources["unknown"] \in Nat
    BY <2>2 DEF Told, Day!Mapped, Day!Direct, Day!Blank
  <2>5. Day!Total(o.sources) \in Nat
    <3> DEFINE a == o.sources["dashboard"] b == o.sources["explore"] c == o.sources[""] d == o.sources["unknown"]
    <3>1. a \in Nat /\ b \in Nat /\ c \in Nat /\ d \in Nat /\ Day!Total(o.sources) = a + b + c + d
      BY <2>4 DEF Day!Total
    <3> HIDE DEF a, b, c, d
    <3> QED
      BY <3>1
  <2>6. Day!From(l, "other") \subseteq Day!From(m, "other")
    BY DEF Day!From, Day!Requests, Day!Scoped, Day!Own
  <2>7. Part("sources", m, "other") = Day!From(m, "other")
    BY DEF Part
  <2>8. IsFiniteSet(Day!From(m, "other"))
    BY <2>7, SetsAreFinite
  <2>9. /\ Cardinality(Day!From(l, "other")) <= Cardinality(Day!From(m, "other"))
        /\ IsFiniteSet(Day!From(l, "other"))
    BY <2>6, <2>8, FS_Subset
  <2>10. Cardinality(Day!From(l, "other")) \in Nat /\ Cardinality(Day!From(m, "other")) \in Nat
    BY <2>8, <2>9, FS_CardinalityType
  <2>11. o.requests - Day!Total(o.sources) <= Cardinality(Day!From(l, "other"))
    BY <1>2 DEF Answered, Left
  <2>12. o.requests - Day!Total(o.sources) <= Cardinality(Day!From(m, "other"))
    BY <2>3, <2>5, <2>9, <2>10, <2>11
  <2> QED
    BY <2>12 DEF Left
<1> QED
  BY <1>1, <1>2 DEF Answered

\* The panels are no more than the requests that name one.
LEMMA StillFits ==
  ASSUME UsageConstants, NEW l \in Logs, NEW o,
         Told("placed", o.placed, l, l), Told("panels", o.panels, l, l)
  PROVE  Day!PanelsFit(o)
<1> DEFINE P == Day!Placed(l)
           f == [e \in P |-> Happening[e].panel]
           T == {f[e] : e \in DOMAIN f}
<1>1. DOMAIN f = P /\ T = {Happening[e].panel : e \in P}
  OBVIOUS
<1>2. IsFiniteSet(P)
  BY SetsAreFinite DEF ByNumber, Scope
<1>3. Within(o.placed, P, P) /\ Within(o.panels, T, T)
  BY <1>1 DEF Told, Scope, ByNumber
<1> HIDE DEF f, P
<1>4. IsFiniteSet(T) /\ Cardinality(T) <= Cardinality(P)
  BY <1>1, <1>2, ImagesAreFinite
<1> HIDE DEF T
<1>5. Cardinality(T) \in Nat /\ Cardinality(P) \in Nat
  BY <1>2, <1>4, FS_CardinalityType
<1>6. o.placed = Cardinality(P) /\ o.panels = Cardinality(T)
  BY <1>3, <1>5 DEF Within
<1> QED
  BY <1>4, <1>6 DEF Day!PanelsFit

-----------------------------------------------------------------------------
(* The steps of UsageInsights.                                                *)

\* What a gatherer has made of the stack.
LEMMA RecordIsTrue ==
  ASSUME task.name' = "done", "verdicts" \notin DOMAIN dayRecord',
         AddUp(dayRecord', daySince.log', dayLog'), Seen(dayRecord', daySince.log', dayLog'),
         MixWhole(dayRecord', daySince.log', dayLog'),
         dayLog' = daySince.log' /\ daySince.faults' = 0 => Exact(dayRecord', dayLog')
  PROVE  Day!UsageIsTrue'
<1>1. Day!SurfacesAddUp'
  BY DEF Day!SurfacesAddUp, AddUp
<1>2. Day!PeopleAreSeen'
  BY DEF Day!PeopleAreSeen, Seen
<1>3. Day!MixIsWhole'
  BY DEF Day!MixIsWhole, MixWhole
<1>4. Day!StillIsMeasured'
  BY DEF Day!StillIsMeasured, Day!Quiet, Exact
<1>5. Day!OpenedIsSeen'
  BY DEF Day!OpenedIsSeen
<1> QED
  BY <1>1, <1>2, <1>3, <1>4, <1>5 DEF Day!UsageIsTrue

\* Before that there is nothing to be true.
LEMMA NothingIsSaid ==
  ASSUME task.name' # "done" PROVE Day!UsageIsTrue'
BY DEF Day!UsageIsTrue, Day!SurfacesAddUp, Day!PeopleAreSeen, Day!MixIsWhole,
       Day!StillIsMeasured, Day!OpenedIsSeen

\* A stack that is not measured is not said to be.
LEMMA RefusalIsSound ==
  ASSUME NEW reason, reason # "available", NEW r, r = Day!Unavailable(reason), NEW before, NEW l
  PROVE  AddUp(r, before, l) /\ Seen(r, before, l) /\ MixWhole(r, before, l) /\ "verdicts" \notin DOMAIN r
<1>1. r.state # "available" /\ "verdicts" \notin DOMAIN r
  BY DEF Day!Unavailable
<1> QED
  BY <1>1 DEF AddUp, Seen, MixWhole

LEMMA NoVerdicts ==
  ASSUME NEW o, NEW mix PROVE "verdicts" \notin DOMAIN Day!Figures(o, mix)
BY DEF Day!Figures, Day!Unavailable

\* Without the mix nothing is said of it.
LEMMA WithheldIsSound ==
  ASSUME NEW o, NEW before, NEW l PROVE MixWhole(Day!Figures(o, Day!Withheld), before, l)
<1> DEFINE r == Day!Figures(o, Day!Withheld)
<1>1. CASE Day!Contradictory(o)
  <2>1. r.state # "available"
    BY <1>1 DEF Day!Figures, Day!Unavailable
  <2> QED
    BY <2>1 DEF MixWhole
<1>2. CASE ~ Day!Contradictory(o)
  <2>1. r.mix = Day!Withheld
    BY <1>2, FiguresShown
  <2> QED
    BY <2>1 DEF MixWhole
<1> QED
  BY <1>1, <1>2

\* A query that is answered.
LEMMA QueryKeeps ==
  ASSUME UsageConstants, UsageInv, Day!Query PROVE UsageInv'
<1> DEFINE l == dayLog before == daySince.log n == task.answered field == Day!Queries[n + 1]
<1>1. task.name = "insights" /\ UNCHANGED <<dayLog, dayBoards, daySince>>
  BY DEF Day!Query
<1>2. PICK v \in Day!Answers(field, l) :
        LET o == [x \in DOMAIN dayOut \cup {field} |-> IF x = field THEN v ELSE dayOut[x]] IN
        IF field = "panels" /\ ~ Day!PanelsFit(o) THEN Day!Done(Day!Unavailable("malformed_response"))
        ELSE IF field = "mix_rows" THEN Day!Done(Day!Figures(o, Day!MixOf(o)))
        ELSE /\ task' = [task EXCEPT !.answered = n + 1]
             /\ Day!Filled(field, v) /\ UNCHANGED dayRecord
  BY DEF Day!Query
<1> DEFINE o == [x \in DOMAIN dayOut \cup {field} |-> IF x = field THEN v ELSE dayOut[x]]
<1>3. /\ l \in Logs /\ before \subseteq l /\ n \in 0 .. 10 /\ Answered(dayOut, n, before, l)
      /\ WholeSince /\ WholeTask
  BY <1>1 DEF UsageInv
<1>4. /\ o[field] = v
      /\ DOMAIN o = {"nothing"} \cup {Day!Queries[i] : i \in 1 .. n + 1}
      /\ \A i \in 1 .. n : Told(Day!Queries[i], o[Day!Queries[i]], before, l)
      /\ n >= 5 => Left(o, l)
      /\ n <= 9 => Answered(o, n + 1, before, l)
  <2>1. Extended(o, dayOut, Day!Queries[n + 1], v)
    BY DEF Extended
  <2>2. v \in Day!Answers(Day!Queries[n + 1], l)
    BY <1>2
  <2> HIDE DEF l, before, n, o
  <2>3. Adds(o, n, v, before, l)
    BY <1>3, <2>1, <2>2, AnswerAdds
  <2> QED
    BY <2>3 DEF Adds
<1>5. dayLog' = l /\ daySince' = daySince
  BY <1>1
<1>6. n + 1 \in 1 .. 11
  BY <1>3
<1> HIDE DEF o
<1>7. CASE field = "panels" /\ ~ Day!PanelsFit(o)
  <2> DEFINE r == Day!Unavailable("malformed_response")
  <2>1. Day!Done(r)
    BY <1>2, <1>7 DEF o
  <2>2. task' = [task EXCEPT !.name = "done"] /\ dayRecord' = r
    BY <2>1 DEF Day!Done
  <2>3. task'.name = "done" /\ WholeTask'
    BY <1>3, <2>2 DEF WholeTask
  <2>4. n = 3
    <3>1. 4 \in 1 .. 11 /\ Day!Queries[4] = field
      BY <1>7, QueriesDiffer
    <3>2. n + 1 = 4
      BY <1>6, <3>1, QueriesDiffer
    <3> QED
      BY <1>3, <3>2
  <2>5. l # before
    <3>1. SUFFICES ASSUME l = before PROVE FALSE
      OBVIOUS
    <3>2. Told("placed", o.placed, l, l)
      <4>1. 3 \in 1 .. n
        BY <2>4
      <4> QED
        BY <1>4, <3>1, <4>1, QueriesDiffer
    <3>3. Told("panels", o.panels, l, l)
      <4>1. n <= 9 /\ 4 \in 1 .. n + 1
        BY <2>4
      <4>2. Told(Day!Queries[4], o[Day!Queries[4]], before, l)
        BY <1>4, <4>1 DEF Answered
      <4> QED
        BY <3>1, <4>2, QueriesDiffer
    <3> QED
      BY <1>3, <1>7, <3>2, <3>3, StillFits
  <2>6. Day!UsageIsTrue'
    <3>1. dayRecord' = r /\ "malformed_response" # "available"
      BY <2>2
    <3> HIDE DEF r
    <3>2. /\ AddUp(dayRecord', daySince.log', dayLog') /\ Seen(dayRecord', daySince.log', dayLog')
          /\ MixWhole(dayRecord', daySince.log', dayLog') /\ "verdicts" \notin DOMAIN dayRecord'
      BY <3>1, RefusalIsSound DEF r
    <3>3. dayLog' # daySince.log'
      BY <1>5, <2>5
    <3> QED
      BY <2>3, <3>2, <3>3, RecordIsTrue
  <2> QED
    BY <1>3, <1>5, <2>3, <2>6 DEF UsageInv, WholeSince
<1>8. CASE field = "mix_rows" /\ ~ (field = "panels" /\ ~ Day!PanelsFit(o))
  <2> DEFINE mix == Day!MixOf(o)
             r == Day!Figures(o, mix)
  <2>1. Day!Done(r)
    BY <1>2, <1>8 DEF o
  <2>2. task' = [task EXCEPT !.name = "done"] /\ dayRecord' = r
    BY <2>1 DEF Day!Done
  <2>3. task'.name = "done" /\ WholeTask'
    BY <1>3, <2>2 DEF WholeTask
  <2>4. n = 10
    <3>1. 11 \in 1 .. 11 /\ Day!Queries[11] = field
      BY <1>8, QueriesDiffer
    <3>2. n + 1 = 11
      BY <1>6, <3>1, QueriesDiffer
    <3> QED
      BY <1>3, <3>2
  <2>5. \A i \in 1 .. 10 : Told(Day!Queries[i], o[Day!Queries[i]], before, l)
    BY <1>4, <2>4
  <2>6. Complete(o, before, l)
    BY <1>4, <2>4, <2>5 DEF Complete
  <2>7. MixKnown(o, before, l)
    <3>1. 1 \in 1 .. 10 /\ 9 \in 1 .. 10 /\ 10 \in 1 .. 10
      OBVIOUS
    <3>2. /\ Told("requests", o.requests, before, l) /\ Told("mix_requests", o.mix_requests, before, l)
          /\ Told("mix_distinct", o.mix_distinct, before, l)
      BY <2>5, <3>1, QueriesDiffer
    <3>3. o.mix_rows \in Day!Answers("mix_rows", l)
      BY <1>4, <1>8
    <3> QED
      BY <3>2, <3>3 DEF MixKnown
  <2>8. Bracketed(o, before, l)
    BY <1>3, <2>6, FiguresAreKnown
  <2> HIDE DEF mix
  <2>9. AddUp(r, before, l) /\ Seen(r, before, l)
    BY <1>3, <2>8, FiguresAddUp
  <2>10. MixWhole(r, before, l)
    BY <1>3, <2>7, MixIsSound DEF mix
  <2>11. l = before => Exact(r, l)
    BY <1>3, <2>7, <2>8, StillMix, StillIsExact DEF mix
  <2>12. "verdicts" \notin DOMAIN r
    BY NoVerdicts
  <2> HIDE DEF r
  <2>13. Day!UsageIsTrue'
    BY <1>5, <2>2, <2>3, <2>9, <2>10, <2>11, <2>12, RecordIsTrue
  <2> QED
    BY <1>3, <1>5, <2>3, <2>13 DEF UsageInv, WholeSince
<1>9. CASE field # "mix_rows" /\ ~ (field = "panels" /\ ~ Day!PanelsFit(o))
  <2>1. task' = [task EXCEPT !.answered = n + 1] /\ Day!Filled(field, v)
    BY <1>2, <1>9 DEF o
  <2>2. dayOut' = o
    BY <2>1 DEF Day!Filled, o
  <2>3. /\ task'.name = "insights" /\ task'.answered = n + 1 /\ WholeTask'
    BY <1>1, <1>3, <2>1 DEF WholeTask
  <2>4. n <= 9
    <3>1. n # 10
      BY <1>9, QueriesDiffer
    <3> QED
      BY <1>3, <3>1
  <2>5. Day!UsageIsTrue'
    BY <2>3, NothingIsSaid
  <2>6. task'.answered \in 0 .. 10 /\ Answered(dayOut', task'.answered, daySince'.log, dayLog')
    BY <1>3, <1>4, <1>5, <2>2, <2>3, <2>4
  <2> QED
    BY <1>3, <1>5, <2>3, <2>5, <2>6 DEF UsageInv, WholeSince
<1> QED
  BY <1>7, <1>8, <1>9

\* A query that fails: the log is not said to stand still.
LEMMA QueryFailsKeeps ==
  ASSUME UsageConstants, UsageInv, Day!QueryFails PROVE UsageInv'
<1> DEFINE l == dayLog before == daySince.log n == task.answered
<1>1. /\ task.name = "insights" /\ UNCHANGED <<dayLog, dayBoards>>
      /\ daySince' = [daySince EXCEPT !.faults = daySince.faults + 1]
  BY DEF Day!QueryFails
<1>2. PICK reason \in {"forbidden_403", "token_401", "transport_error", "malformed_response"} : Day!Fail(reason)
  BY DEF Day!QueryFails
<1>3. /\ l \in Logs /\ before \subseteq l /\ n \in 0 .. 10 /\ Answered(dayOut, n, before, l)
      /\ WholeSince /\ WholeTask
  BY <1>1 DEF UsageInv
<1>4. /\ dayLog' = l /\ daySince'.log = before /\ daySince'.faults = daySince.faults + 1
      /\ daySince' = [log |-> daySince'.log, opened |-> daySince'.opened, faults |-> daySince'.faults]
  BY <1>1, <1>3 DEF WholeSince
<1>5. daySince'.faults \in Nat /\ daySince'.faults # 0
  BY <1>3, <1>4 DEF WholeSince
<1>6. ASSUME NEW r, Day!Done(r), AddUp(r, before, l), Seen(r, before, l), MixWhole(r, before, l),
             "verdicts" \notin DOMAIN r
      PROVE  UsageInv'
  <2>1. task' = [task EXCEPT !.name = "done"] /\ dayRecord' = r
    BY <1>6 DEF Day!Done
  <2>2. task'.name = "done" /\ WholeTask'
    BY <1>3, <2>1 DEF WholeTask
  <2>3. /\ AddUp(dayRecord', daySince.log', dayLog') /\ Seen(dayRecord', daySince.log', dayLog')
        /\ MixWhole(dayRecord', daySince.log', dayLog') /\ "verdicts" \notin DOMAIN dayRecord'
    BY <1>4, <1>6, <2>1
  <2>4. Day!UsageIsTrue'
    BY <1>5, <2>2, <2>3, RecordIsTrue
  <2> QED
    BY <1>3, <1>4, <1>5, <2>2, <2>4 DEF UsageInv, WholeSince
<1>7. CASE n = 0 /\ ~ task.retried /\ reason = "forbidden_403"
  <2>1. task' = [task EXCEPT !.retried = TRUE] /\ UNCHANGED <<dayOut, dayRecord>>
    BY <1>2, <1>7 DEF Day!Fail
  <2>2. /\ task'.name = "insights" /\ task'.answered = n /\ WholeTask'
    BY <1>1, <1>3, <2>1 DEF WholeTask
  <2>3. Day!UsageIsTrue'
    BY <2>2, NothingIsSaid
  <2>4. task'.answered \in 0 .. 10 /\ Answered(dayOut', task'.answered, daySince'.log, dayLog')
    BY <1>3, <1>4, <2>1, <2>2
  <2> QED
    BY <1>3, <1>4, <1>5, <2>2, <2>3, <2>4 DEF UsageInv, WholeSince
<1>8. CASE ~ (n = 0 /\ ~ task.retried /\ reason = "forbidden_403") /\ n >= 8
  <2> DEFINE r == Day!Figures(dayOut, Day!Withheld)
  <2>1. Day!Done(r)
    BY <1>2, <1>8 DEF Day!Fail, Day!Required
  <2>2. \A i \in 1 .. n : Told(Day!Queries[i], dayOut[Day!Queries[i]], before, l)
    BY <1>3 DEF Answered
  <2>3. Left(dayOut, l)
    BY <1>3, <1>8 DEF Answered
  <2>4. \A i \in 1 .. 8 : i \in 1 .. n
    BY <1>3, <1>8
  <2>5. Complete(dayOut, before, l)
    BY <2>2, <2>3, <2>4 DEF Complete
  <2>6. Bracketed(dayOut, before, l)
    BY <1>3, <2>5, FiguresAreKnown
  <2>7. AddUp(r, before, l) /\ Seen(r, before, l)
    BY <1>3, <2>6, FiguresAddUp
  <2>8. MixWhole(r, before, l) /\ "verdicts" \notin DOMAIN r
    BY WithheldIsSound, NoVerdicts
  <2> HIDE DEF r
  <2> QED
    BY <1>6, <2>1, <2>7, <2>8
<1>9. CASE ~ (n = 0 /\ ~ task.retried /\ reason = "forbidden_403") /\ ~ (n >= 8)
  <2> DEFINE r == Day!Unavailable(reason)
  <2>1. Day!Done(r)
    BY <1>2, <1>9 DEF Day!Fail, Day!Required
  <2>2. reason # "available"
    OBVIOUS
  <2>3. AddUp(r, before, l) /\ Seen(r, before, l) /\ MixWhole(r, before, l) /\ "verdicts" \notin DOMAIN r
    BY <2>2, RefusalIsSound
  <2> HIDE DEF r
  <2> QED
    BY <1>6, <2>1, <2>3
<1> QED
  BY <1>7, <1>8, <1>9

LEMMA OwnIsScoped ==
  ASSUME NEW l PROVE Day!Opened(Day!Own(l)) = Day!Opened(l)
<1>1. Day!Own(Day!Own(l)) = Day!Own(l)
  BY DEF Day!Own
<1> QED
  BY <1>1 DEF Day!Opened, Day!Scoped

LEMMA OpenedGrows ==
  ASSUME NEW l, NEW m, l \subseteq m PROVE Day!Opened(l) \subseteq Day!Opened(m)
BY DEF Day!Opened, Day!Scoped, Day!Own

\* A reading of the dashboards or of their activity.
LEMMA ReadKeeps ==
  ASSUME UsageConstants, UsageInv, Day!Read PROVE UsageInv'
<1> DEFINE l == dayLog n == task.answered what == Day!Readings[n + 1]
           answer == IF what = "catalogue" THEN dayBoards ELSE Day!Opened(l)
           filled == [x \in DOMAIN dayOut \cup {what} |-> IF x = what THEN answer ELSE dayOut[x]]
<1>1. task.name = "opening" /\ UNCHANGED <<dayLog, dayBoards>>
  BY DEF Day!Read
<1>2. PICK failed \in BOOLEAN :
        /\ LET o == IF failed THEN dayOut ELSE filled IN
           IF n = 1 THEN Day!Done(Day!Joined(o))
           ELSE task' = [task EXCEPT !.answered = 1] /\ dayOut' = o /\ UNCHANGED dayRecord
        /\ daySince' = [daySince EXCEPT
               !.faults = IF failed THEN daySince.faults + 1 ELSE daySince.faults,
               !.opened = IF what = "catalogue" THEN Day!Opened(Day!Own(l)) ELSE daySince.opened]
  BY DEF Day!Read
<1>3. /\ l \in Logs /\ daySince.log \subseteq l /\ n \in {0, 1} /\ Looked(dayOut, n, daySince, l)
      /\ WholeSince /\ WholeTask
  BY <1>1 DEF UsageInv
<1> DEFINE o == IF failed THEN dayOut ELSE filled
<1>4. /\ daySince'.log = daySince.log
      /\ daySince'.faults = (IF failed THEN daySince.faults + 1 ELSE daySince.faults)
      /\ daySince'.opened = (IF what = "catalogue" THEN Day!Opened(Day!Own(l)) ELSE daySince.opened)
      /\ daySince' = [log |-> daySince'.log, opened |-> daySince'.opened, faults |-> daySince'.faults]
  BY <1>2, <1>3 DEF WholeSince
<1>5. daySince'.faults \in Nat /\ (daySince'.faults = 0 => ~ failed /\ daySince.faults = 0)
  BY <1>3, <1>4 DEF WholeSince
<1>6. daySince'.opened \subseteq Day!Opened(l)
  BY <1>3, <1>4, OwnIsScoped DEF Looked
<1>7. dayLog' = l
  BY <1>1
<1>8. CASE n = 0
  <2>1. what = "catalogue"
    BY <1>8 DEF Day!Readings
  <2>2. task' = [task EXCEPT !.answered = 1] /\ dayOut' = o
    BY <1>2, <1>8
  <2>3. /\ task'.name = "opening" /\ task'.answered = 1 /\ WholeTask'
    BY <1>1, <1>3, <2>2 DEF WholeTask
  <2>4. DOMAIN dayOut = {"nothing"}
    BY <1>3, <1>8 DEF Looked
  <2>5. DOMAIN filled = {"nothing", "catalogue"}
    BY <2>1, <2>4
  <2>6. DOMAIN dayOut' = IF failed THEN {"nothing"} ELSE {"nothing", "catalogue"}
    BY <2>2, <2>4, <2>5
  <2>7. Looked(dayOut', 1, daySince', l)
    BY <1>5, <1>6, <2>6 DEF Looked
  <2>8. Day!UsageIsTrue'
    BY <2>3, NothingIsSaid
  <2> QED
    BY <1>3, <1>4, <1>5, <1>7, <2>3, <2>7, <2>8 DEF UsageInv, WholeSince
<1>9. CASE n = 1
  <2>1. what = "activity" /\ answer = Day!Opened(l)
    BY <1>9 DEF Day!Readings
  <2> DEFINE r == Day!Joined(o)
  <2>2. Day!Done(r)
    BY <1>2, <1>9
  <2>3. task' = [task EXCEPT !.name = "done"] /\ dayRecord' = r
    BY <2>2 DEF Day!Done
  <2>4. task'.name = "done" /\ WholeTask'
    BY <1>3, <2>3 DEF WholeTask
  <2>5. DOMAIN dayOut \in {{"nothing"}, {"nothing", "catalogue"}}
        /\ (daySince.faults = 0 => "catalogue" \in DOMAIN dayOut)
    BY <1>3, <1>9 DEF Looked
  <2>6. /\ "activity" \in DOMAIN o <=> ~ failed
        /\ ~ failed => o["activity"] = Day!Opened(l)
        /\ "catalogue" \in DOMAIN o <=> "catalogue" \in DOMAIN dayOut
    BY <2>1, <2>5
  <2> HIDE DEF o
  <2>7. "surfaces" \notin DOMAIN r /\ "mix" \notin DOMAIN r
    BY DEF Day!Joined, Day!Unavailable
  <2>8. daySince'.faults = 0 => r.state = "available"
    BY <1>5, <2>5, <2>6 DEF Day!Joined
  <2>9. ASSUME "verdicts" \in DOMAIN r
         PROVE  \A b \in DOMAIN r.verdicts :
                  /\ r.verdicts[b] = "unopened" => b \notin daySince'.opened
                  /\ r.verdicts[b] = "opened" => b \in Day!Opened(Day!Own(l))
    <3>1. "catalogue" \in DOMAIN o
      BY <2>9 DEF Day!Joined, Day!Unavailable
    <3>2. r = [state |-> "available", verdicts |-> Day!Verdicts(o)]
      BY <3>1 DEF Day!Joined
    <3>3. r.verdicts = Day!Verdicts(o)
      BY <3>2
    <3>4. \A b \in DOMAIN Day!Verdicts(o) :
            Day!Verdicts(o)[b] = IF "activity" \notin DOMAIN o THEN "unknown"
                                   ELSE IF b \in o["activity"] THEN "opened" ELSE "unopened"
      BY DEF Day!Verdicts
    <3> HIDE DEF r
    <3>5. ASSUME NEW b \in DOMAIN r.verdicts
          PROVE  /\ r.verdicts[b] = "unopened" => b \notin daySince'.opened
                 /\ r.verdicts[b] = "opened" => b \in Day!Opened(Day!Own(l))
      <4>1. CASE "activity" \notin DOMAIN o
        BY <3>3, <3>4, <4>1
      <4>2. CASE "activity" \in DOMAIN o
        <5>1. o["activity"] = Day!Opened(l)
          BY <2>6, <4>2
        <5>2. r.verdicts[b] = IF b \in Day!Opened(l) THEN "opened" ELSE "unopened"
          BY <3>3, <3>4, <4>2, <5>1
        <5> QED
          BY <1>6, <5>2, OwnIsScoped
      <4> QED
        BY <4>1, <4>2
    <3> QED
      BY <3>5
  <2> HIDE DEF r
  <2>10. Day!SurfacesAddUp' /\ Day!PeopleAreSeen' /\ Day!MixIsWhole'
    BY <2>3, <2>7 DEF Day!SurfacesAddUp, Day!PeopleAreSeen, Day!MixIsWhole
  <2>11. Day!StillIsMeasured'
    BY <2>3, <2>7, <2>8 DEF Day!StillIsMeasured, Day!Quiet
  <2>12. Day!OpenedIsSeen'
    BY <1>7, <2>3, <2>9 DEF Day!OpenedIsSeen
  <2>13. Day!UsageIsTrue'
    BY <2>10, <2>11, <2>12 DEF Day!UsageIsTrue
  <2> QED
    BY <1>3, <1>4, <1>5, <1>7, <2>4, <2>13 DEF UsageInv, WholeSince
<1> QED
  BY <1>3, <1>8, <1>9

\* An event arrives.
LEMMA LateKeeps ==
  ASSUME UsageConstants, UsageInv, Day!Late PROVE UsageInv'
<1> DEFINE n == task.answered
<1>1. task.name # "done" /\ UNCHANGED <<task, dayBoards, dayOut, dayRecord, daySince>>
  BY DEF Day!Late
<1>2. PICK e \in DOMAIN Happening \ dayLog : dayLog' = dayLog \cup {e}
  BY DEF Day!Late
<1>3. dayLog \in Logs /\ dayLog' \in Logs /\ dayLog \subseteq dayLog' /\ daySince.log \subseteq dayLog'
  BY <1>2 DEF UsageInv, Logs
<1>4. ASSUME task.name = "insights" PROVE Answered(dayOut, n, daySince.log, dayLog')
  BY <1>3, <1>4, AnsweredStays DEF UsageInv
<1>5. ASSUME task.name = "opening" PROVE Looked(dayOut, n, daySince, dayLog')
  BY <1>3, <1>5, OpenedGrows DEF UsageInv, Looked
<1>6. Day!UsageIsTrue'
  BY <1>1, NothingIsSaid
<1> QED
  BY <1>1, <1>3, <1>4, <1>5, <1>6 DEF UsageInv, WholeSince, WholeTask

\* A dashboard comes or goes.
LEMMA BoardsKeep ==
  ASSUME UsageInv, Day!Create \/ Day!Delete PROVE UsageInv'
<1>1. task.name = "opening" /\ UNCHANGED <<task, dayLog, dayOut, dayRecord, daySince>>
  BY DEF Day!Create, Day!Delete
<1>2. Day!UsageIsTrue'
  BY <1>1, NothingIsSaid
<1> QED
  BY <1>1, <1>2 DEF UsageInv, WholeSince, WholeTask

LEMMA UsageBegins ==
  ASSUME UsageConstants, Day!Init PROVE UsageInv
<1>1. /\ dayOut = [nothing |-> 0]
      /\ daySince = [log |-> dayLog, opened |-> {}, faults |-> 0]
      /\ dayLog \in Logs
      /\ Day!Initially("insights") \/ Day!Initially("opening")
  BY DEF Day!Init, Logs
<1>2. /\ task = [name |-> task.name, answered |-> 0, retried |-> FALSE]
      /\ task.name \in {"insights", "opening"} /\ task.answered = 0 /\ task.retried = FALSE
  BY <1>1 DEF Day!Initially
<1>3. DOMAIN dayOut = {"nothing"}
  BY <1>1
<1>4. Answered(dayOut, 0, daySince.log, dayLog) /\ Looked(dayOut, 0, daySince, dayLog)
  BY <1>1, <1>3 DEF Answered, Looked
<1>5. Day!UsageIsTrue
  BY <1>2 DEF Day!UsageIsTrue, Day!SurfacesAddUp, Day!PeopleAreSeen, Day!MixIsWhole,
              Day!StillIsMeasured, Day!OpenedIsSeen
<1> QED
  BY <1>1, <1>2, <1>4, <1>5 DEF UsageInv, WholeSince, WholeTask

LEMMA UsageKeeps ==
  ASSUME UsageConstants, UsageInv, Day!Next PROVE UsageInv'
BY QueryKeeps, QueryFailsKeeps, ReadKeeps, LateKeeps, BoardsKeep DEF Day!Next

LEMMA UsageIdles ==
  ASSUME UsageInv, UNCHANGED <<task, dayVars>> PROVE UsageInv'
BY DEF UsageInv, WholeSince, WholeTask, dayVars, Day!UsageIsTrue, Day!SurfacesAddUp, Day!PeopleAreSeen, Day!MixIsWhole,
       Day!StillIsMeasured, Day!OpenedIsSeen, Day!Quiet

-----------------------------------------------------------------------------
(* The parts of Survey.                                                       *)

LEMMA SurveyBegins ==
  ASSUME SurveyInit
  PROVE  /\ part = "labels" => Labels!Init
         /\ part = "reads" => Views!Init
         /\ part = "usage" => Day!Init
         /\ part = "maturity" => Rank!Init
BY DEF SurveyInit

LEMMA SurveyMoves ==
  ASSUME [SurveyNext]_surveyVars
  PROVE  /\ part' = part
         /\ part = "labels" => Labels!Next \/ UNCHANGED <<task, labelVars>>
         /\ part = "reads" => Views!Next \/ UNCHANGED <<task, readVars>>
         /\ part = "usage" => Day!Next \/ UNCHANGED <<task, dayVars>>
         /\ part = "maturity" => Rank!Next \/ UNCHANGED rankVars
<1>1. CASE UNCHANGED surveyVars
  BY <1>1 DEF surveyVars
<1>2. CASE SurveyNext
  BY <1>2 DEF SurveyNext, ObserverMoves, LabelsMove, ReadsMove, UsageMoves, RankMoves
<1>3. QED
  BY <1>1, <1>2

\* collector/sources/label_inventory.py and collector/label_rules.py: whatever reads fail, are late, cut
\* or warned about, at whatever bounds, and while the stack gets more of anything, for any counts of
\* values and any bound from which a rule fails, no rule passes, or is not applicable, for what was
\* violated all the time, none fails, unless for values too many to read, for what never was, and the
\* envelope is one that validate_inventory accepts.
THEOREM VerdictsStaySound == SurveySpec => []VerdictsAreSound
<1>1. SurveyInit => (part = "labels" => LabelsInv)
  BY LabelAssumption, SurveyBegins, LabelsBegin
<1>2. (part = "labels" => LabelsInv) /\ [SurveyNext]_surveyVars => (part = "labels" => LabelsInv)'
  BY LabelAssumption, SurveyMoves, LabelsMoveKeeps
<1>3. (part = "labels" => LabelsInv) => VerdictsAreSound
  BY LabelAssumption, VerdictsFollow, LabelsTypeFollows DEF VerdictsAreSound
<1>4. QED
  BY <1>1, <1>2, <1>3, PTL DEF SurveySpec

\* The gatherers of collector/sources and their pillars: for any stacks and holdings, whatever is
\* rotated, revoked, changed, refused or garbled between the requests, a count is of all that was there,
\* no stack that had a token is said to have none, nothing is counted of a body with a credential, each
\* failure is one error and the report of synthetic monitoring adds up.
THEOREM ReadsStayTrue == SurveySpec => [](part = "reads" => Views!ReadsAreTrue)
<1>1. SurveyInit => (part = "reads" => ReadsInv)
  BY ReadAssumption, SurveyBegins, ReadsBegin
<1>2. (part = "reads" => ReadsInv) /\ [SurveyNext]_surveyVars => (part = "reads" => ReadsInv)'
  BY ReadAssumption, SurveyMoves, ReadsKeep DEF readVars
<1>3. (part = "reads" => ReadsInv) => (part = "reads" => Views!ReadsAreTrue)
  BY ReadAssumption, ReadsHold
<1>4. QED
  BY <1>1, <1>2, <1>3, PTL DEF SurveySpec

\* collector/sources/usage_insights.py and its pillars: for any log, whatever arrives, changes or fails
\* between a day's queries, the requests of the surfaces add up and are of what was there, nobody's
\* absence is a zero, the mix accounts for every typed request, a day that stands still is measured, and
\* a dashboard is called opened, or not, only for what the log held.
THEOREM UsageStaysTrue == SurveySpec => [](part = "usage" => Day!UsageIsTrue)
<1>1. SurveyInit => (part = "usage" => UsageInv)
  BY UsageAssumption, SurveyBegins, UsageBegins
<1>2. (part = "usage" => UsageInv) /\ [SurveyNext]_surveyVars => (part = "usage" => UsageInv)'
  BY UsageAssumption, SurveyMoves, UsageKeeps, UsageIdles
<1>3. (part = "usage" => UsageInv) => (part = "usage" => Day!UsageIsTrue)
  BY DEF UsageInv
<1>4. QED
  BY <1>1, <1>2, <1>3, PTL DEF SurveySpec

\* collector/pillars/maturity.py: for any counts of users, objects and rules, a stack is ranked only on
\* 80% of the rubric, between its least and its greatest score, one in use that was judged on more is
\* ranked, and a run without the data plane publishes nothing.
THEOREM RankingStaysFair == SurveySpec => [](part = "maturity" => Rank!RankingIsFair)
<1>1. SurveyInit => (part = "maturity" => RankInv)
  BY RankAssumption, SurveyBegins, RankBegins
<1>2. (part = "maturity" => RankInv) /\ [SurveyNext]_surveyVars => (part = "maturity" => RankInv)'
  BY RankAssumption, SurveyMoves, RankKeeps
<1>3. (part = "maturity" => RankInv) => (part = "maturity" => Rank!RankingIsFair)
  BY RankAssumption, RankHolds
<1>4. QED
  BY <1>1, <1>2, <1>3, PTL DEF SurveySpec

\* The three together: what the pillars make of the reads, of a day's queries and of the rubric is true.
THEOREM FiguresStayTrue == SurveySpec => []FiguresAreTrue
<1>1. (part = "usage" => Day!UsageIsTrue) /\ (part = "maturity" => Rank!RankingIsFair)
        /\ (part = "reads" => Views!ReadsAreTrue) => FiguresAreTrue
  BY DEF FiguresAreTrue
<1>2. QED
  BY <1>1, UsageStaysTrue, RankingStaysFair, ReadsStayTrue, PTL
=============================================================================
