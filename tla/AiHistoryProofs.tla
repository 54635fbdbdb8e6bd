-------------------------- MODULE AiHistoryProofs --------------------------
(* What is proved of AiHistory, for any writers, clocks and bounds: that no    *)
(* recorded observation is lost, that what is published is recorded, that      *)
(* departed stacks stay out, and that readers can read what writers leave.     *)
EXTENDS AiHistory, FiniteSetTheorems, TLAPS

LEMMA MonthType == \A time \in Nat : Month(time) \in Nat
BY TimeAssumption DEF Month

\* The months of a finite history are finitely many naturals.
LEMMA MonthsAreFinite ==
  ASSUME NEW rows \in History, IsFiniteSet(rows)
  PROVE  Months(rows) \in SUBSET Nat /\ IsFiniteSet(Months(rows))
<1> DEFINE f == [r \in rows |-> Month(r.time)]
<1>1. Months(rows) \in SUBSET Nat
  BY MonthType DEF Months, History, Row
<1>2. f \in Surjection(rows, Months(rows))
  BY DEF Surjection, Months
<1>3. IsFiniteSet(Months(rows))
  <2> HIDE DEF f
  <2> QED
    BY <1>2, FS_Surjection
<1> QED
  BY <1>1, <1>3

LEMMA LaterIsFinite ==
  ASSUME NEW rows \in History, IsFiniteSet(rows), NEW m \in Nat
  PROVE  IsFiniteSet(Later(rows, m)) /\ Cardinality(Later(rows, m)) \in Nat
<1>1. Later(rows, m) \in SUBSET Months(rows)
  BY DEF Later
<1>2. IsFiniteSet(Later(rows, m))
  BY <1>1, MonthsAreFinite, FS_Subset
<1> QED
  BY <1>2, FS_CardinalityType

\* The months after a later month are fewer.
LEMMA LaterShrinks ==
  ASSUME NEW rows \in History, IsFiniteSet(rows), NEW m \in Nat, NEW n \in Later(rows, m)
  PROVE  Later(rows, n) \subseteq Later(rows, m) /\ Later(rows, n) # Later(rows, m)
<1>1. n \in Nat /\ n > m
  BY MonthsAreFinite DEF Later
<1>2. Later(rows, n) \in SUBSET Later(rows, m) /\ n \notin Later(rows, n)
  BY <1>1, MonthsAreFinite DEF Later
<1> QED
  BY <1>2

LEMMA LaterGrows ==
  ASSUME NEW rows \in History, IsFiniteSet(rows), NEW m \in Nat,
         NEW S \in SUBSET Later(rows, m)
  PROVE  Cardinality(S) <= Cardinality(Later(rows, m))
BY LaterIsFinite, FS_Subset

-----------------------------------------------------------------------------
\* What Kept keeps.
LEMMA TrimType ==
  ASSUME NEW r \in Row, NEW inventory \in SUBSET Stack
  PROVE  /\ Trim(r, inventory) \in Row
         /\ Trim(r, inventory).source = r.source
         /\ Trim(r, inventory).time = r.time
         /\ Trim(r, inventory).value = r.value
         /\ Trim(r, inventory).stacks \subseteq r.stacks
BY DEF Trim, Row

LEMMA KeptType ==
  ASSUME NEW rows \in History, IsFiniteSet(rows), NEW inventory \in SUBSET Stack
  PROVE  Kept(rows, inventory) \in History /\ IsFiniteSet(Kept(rows, inventory))
<1> DEFINE kept == {q \in rows : Cardinality(Later(rows, Month(q.time))) < MaxMonths}
           f == [r \in kept |-> Trim(r, inventory)]
<1>1. Kept(rows, inventory) \in History
  BY TrimType DEF Kept, History
<1>2. IsFiniteSet(kept)
  BY FS_Subset
<1>3. f \in Surjection(kept, Kept(rows, inventory))
  BY DEF Surjection, Kept
<1>4. IsFiniteSet(Kept(rows, inventory))
  <2> HIDE DEF f, kept
  <2> QED
    BY <1>2, <1>3, FS_Surjection
<1> QED
  BY <1>1, <1>4

\* A month that is cut has MaxMonths months after it that are not: of the months
\* that are cut, one has the smallest set of months after it.
LEMMA NewestMonthsStay ==
  ASSUME NEW rows \in History, IsFiniteSet(rows), NEW inventory \in SUBSET Stack,
         NEW r \in rows, ~(Cardinality(Later(rows, Month(r.time))) < MaxMonths)
  PROVE  Cardinality(Later(Kept(rows, inventory), Month(r.time))) >= MaxMonths
<1> DEFINE new == Kept(rows, inventory)
           Cut == {n \in Months(rows) : ~(Cardinality(Later(rows, n)) < MaxMonths)}
           Tails == {Later(rows, n) : n \in Cut}
           m == Month(r.time)
<1>1. m \in Cut /\ m \in Nat
  BY MonthType DEF Months, History, Row
<1>2. Cut \in SUBSET Nat
  BY MonthsAreFinite
<1>3. PICK tail \in Tails : \A other \in Tails :
         ~(other \subseteq tail /\ other # tail)
  <2> DEFINE R == StrictSubsetOrdering(Months(rows))
             S == FiniteSubsetsOf(Months(rows))
  <2>1. \A n \in Cut : Later(rows, n) \in S
    BY <1>2, LaterIsFinite DEF FiniteSubsetsOf, Later
  <2>2. Tails \subseteq S /\ Tails # {}
    <3> HIDE DEF S, Cut
    <3> QED BY <1>1, <2>1
  <2>3. IsWellFoundedOn(R, S)
    BY FS_StrictSubsetOrderingWellFounded
  <2>4. PICK tail \in Tails : \A other \in Tails : <<other, tail>> \notin R
    <3> HIDE DEF R, S, Tails
    <3> QED BY <2>2, <2>3, WFMin
  <2>5. \A other \in Tails : other \in SUBSET Months(rows)
    BY DEF Later
  <2> HIDE DEF Tails
  <2> QED
    BY <2>4, <2>5 DEF StrictSubsetOrdering
<1>4. PICK n \in Cut : tail = Later(rows, n)
  <2> HIDE DEF Cut
  <2> QED OBVIOUS
<1>5. \A k \in Cut : ~(Later(rows, k) \subseteq Later(rows, n)
                       /\ Later(rows, k) # Later(rows, n))
  <2> HIDE DEF Cut
  <2> QED BY <1>3, <1>4
<1>6. n \in Nat
  BY <1>2
<1>7. \A k \in Later(rows, n) : k \in Months(new)
  <2> SUFFICES ASSUME NEW k \in Later(rows, n) PROVE k \in Months(new)
    OBVIOUS
  <2>1. k \in Nat /\ k \in Months(rows)
    BY MonthsAreFinite DEF Later
  <2>2. k \notin Cut
    BY <1>5, <1>6, LaterShrinks
  <2>3. PICK q \in rows : Month(q.time) = k
    BY <2>1 DEF Months
  <2>4. Cardinality(Later(rows, Month(q.time))) < MaxMonths
    BY <2>1, <2>2, <2>3
  <2>5. Trim(q, inventory) \in new
    BY <2>4 DEF Kept
  <2>6. Trim(q, inventory).time = q.time
    BY TrimType DEF History
  <2> QED
    BY <2>3, <2>5, <2>6 DEF Months
<1>8. n >= m
  <2> SUFFICES ASSUME n < m PROVE FALSE
    BY <1>1, <1>6
  <2>1. m \in Later(rows, n)
    BY <1>1 DEF Later
  <2> QED
    BY <2>1, <1>1, <1>5, <1>6, LaterShrinks
<1>9. Later(rows, n) \in SUBSET Later(new, m)
  <2>1. \A k \in Later(rows, n) : k \in Nat /\ k > n
    BY MonthsAreFinite DEF Later
  <2>2. \A k \in Later(rows, n) : k \in Months(new) /\ k > m
    BY <1>1, <1>6, <1>7, <1>8, <2>1
  <2> HIDE DEF new, m
  <2> QED
    BY <2>2 DEF Later
<1>10. Cardinality(Later(rows, n)) <= Cardinality(Later(new, m))
  BY <1>1, <1>9, KeptType, LaterGrows
<1>11. Cardinality(Later(rows, n)) \in Nat /\ Cardinality(Later(new, m)) \in Nat
  BY <1>1, <1>6, KeptType, LaterIsFinite
<1>12. ~(Cardinality(Later(rows, n)) < MaxMonths)
  OBVIOUS
<1> QED
  BY <1>10, <1>11, <1>12, CapAssumption

-----------------------------------------------------------------------------
\* Covers is a preorder on finite histories.
LEMMA CoversItself == ASSUME NEW rows \in History PROVE Covers(rows, rows)
BY DEF Covers, Holds, Same, History, Row

LEMMA CoversTransitive ==
  ASSUME NEW old \in History, NEW mid \in History, NEW new \in History,
         IsFiniteSet(mid), IsFiniteSet(new),
         Covers(mid, old), Covers(new, mid)
  PROVE  Covers(new, old)
<1> SUFFICES ASSUME NEW r \in old PROVE Holds(new, r)
  BY DEF Covers
<1> SUFFICES ASSUME ~(Cardinality(Later(new, Month(r.time))) >= MaxMonths)
             PROVE  \E q \in new :
                      /\ Same(r, q)
                      /\ q.time >= r.time
                      /\ q.time = r.time => q.value = r.value
  BY DEF Holds
<1>0. r \in Row
  BY DEF History
<1> DEFINE m == Month(r.time)
<1>1. m \in Nat /\ r.time \in Nat
  BY <1>0, MonthType DEF Row
\* The months after m that are in mid are in new, or there are as many in new.
<1>2. CASE Cardinality(Later(mid, m)) >= MaxMonths
  <2>1. ASSUME NEW n \in Later(mid, m), n \notin Months(new) PROVE FALSE
    <3>1. n \in Nat /\ n > m
      BY <2>1, MonthsAreFinite DEF Later
    <3>2. PICK q \in mid : Month(q.time) = n
      BY <2>1 DEF Later, Months
    <3>3. ~ \E p \in new : Same(q, p)
      BY <2>1, <3>2 DEF Same, Months
    <3>4. Cardinality(Later(new, n)) >= MaxMonths
      BY <3>2, <3>3 DEF Covers, Holds
    <3>5. Later(new, n) \in SUBSET Later(new, m)
      BY <1>1, <3>1, MonthsAreFinite DEF Later
    <3>6. Cardinality(Later(new, n)) <= Cardinality(Later(new, m))
      BY <1>1, <3>5, LaterGrows
    <3>7. Cardinality(Later(new, n)) \in Nat /\ Cardinality(Later(new, m)) \in Nat
      BY <1>1, <3>1, LaterIsFinite
    <3> QED
      BY <3>4, <3>6, <3>7, CapAssumption
  <2>2. Later(mid, m) \in SUBSET Later(new, m)
    BY <2>1 DEF Later
  <2>3. Cardinality(Later(mid, m)) <= Cardinality(Later(new, m))
    BY <1>1, <2>2, LaterGrows
  <2>4. Cardinality(Later(mid, m)) \in Nat /\ Cardinality(Later(new, m)) \in Nat
    BY <1>1, LaterIsFinite
  <2> QED
    BY <1>2, <2>3, <2>4, CapAssumption
<1>3. CASE ~(Cardinality(Later(mid, m)) >= MaxMonths)
  <2>1. PICK q \in mid : /\ Same(r, q)
                         /\ q.time >= r.time
                         /\ q.time = r.time => q.value = r.value
    BY <1>3 DEF Covers, Holds
  <2>2. Month(q.time) = m /\ q.time \in Nat
    BY <2>1 DEF Same, History, Row
  <2>3. PICK p \in new : /\ Same(q, p)
                         /\ p.time >= q.time
                         /\ p.time = q.time => p.value = q.value
    BY <2>2 DEF Covers, Holds
  <2>4. p.time \in Nat
    BY DEF History, Row
  <2>5. Same(r, p)
    BY <2>1, <2>3 DEF Same
  <2> QED
    BY <1>1, <2>1, <2>2, <2>3, <2>4, <2>5
<1> QED
  BY <1>2, <1>3

\* Merging loses nothing.
LEMMA ObservedType ==
  ASSUME NEW rows \in History, IsFiniteSet(rows), NEW new \in Row
  PROVE  Observed(rows, new) \in History /\ IsFiniteSet(Observed(rows, new))
<1>1. IsFiniteSet({r \in rows : ~Same(r, new)})
  BY FS_Subset
<1>2. IsFiniteSet({r \in rows : ~Same(r, new)} \cup {new})
  BY <1>1, FS_AddElement
<1> QED
  BY <1>2 DEF Observed, History

LEMMA ObservedCovers ==
  ASSUME NEW rows \in History, NEW new \in Row
  PROVE  /\ Covers(Observed(rows, new), rows)
         /\ ~Conflicts(rows, new) => Covers(Observed(rows, new), {new})
<1>1. CASE \E r \in rows : Same(r, new) /\ r.time >= new.time
  <2>1. Observed(rows, new) = rows
    BY <1>1 DEF Observed
  <2>2. PICK r \in rows : Same(r, new) /\ r.time >= new.time
    BY <1>1
  <2>3. ~Conflicts(rows, new) => (r.time = new.time => r.value = new.value)
    BY <2>2 DEF Conflicts
  <2>4. Same(new, r)
    BY <2>2 DEF Same
  <2> QED
    BY <2>1, <2>2, <2>3, <2>4, CoversItself DEF Covers, Holds
<1>2. CASE ~ \E r \in rows : Same(r, new) /\ r.time >= new.time
  <2>1. Observed(rows, new) = {r \in rows : ~Same(r, new)} \cup {new}
    BY <1>2 DEF Observed
  <2>2. \A r \in rows : Same(r, new) => new.time >= r.time /\ new.time # r.time
    BY <1>2 DEF History, Row
  <2>3. \A r \in rows : Same(r, r) /\ r.time >= r.time
    BY DEF Same, History, Row
  <2>4. Same(new, new) /\ new.time >= new.time
    BY DEF Same, Row
  <2>5. Covers(Observed(rows, new), rows)
    BY <2>1, <2>2, <2>3 DEF Covers, Holds
  <2>6. Covers(Observed(rows, new), {new})
    BY <2>1, <2>4 DEF Covers, Holds
  <2> QED
    BY <2>5, <2>6
<1> QED
  BY <1>1, <1>2

LEMMA KeptCovers ==
  ASSUME NEW rows \in History, IsFiniteSet(rows), NEW inventory \in SUBSET Stack
  PROVE  Covers(Kept(rows, inventory), rows)
<1> SUFFICES ASSUME NEW r \in rows,
                    ~(Cardinality(Later(Kept(rows, inventory), Month(r.time)))
                        >= MaxMonths)
             PROVE  \E q \in Kept(rows, inventory) :
                      /\ Same(r, q)
                      /\ q.time >= r.time
                      /\ q.time = r.time => q.value = r.value
  BY DEF Covers, Holds
<1>1. Cardinality(Later(rows, Month(r.time))) < MaxMonths
  BY NewestMonthsStay
<1>2. Trim(r, inventory) \in Kept(rows, inventory)
  BY <1>1 DEF Kept
<1>3. Same(r, Trim(r, inventory)) /\ r.time \in Nat
  BY TrimType DEF Same, History, Row
<1> QED
  BY <1>2, <1>3, TrimType DEF History

\* What is trimmed was there.
LEMMA KeptIsCovered ==
  ASSUME NEW rows \in History, NEW inventory \in SUBSET Stack
  PROVE  Covers(rows, Kept(rows, inventory))
<1> SUFFICES ASSUME NEW r \in rows
             PROVE  /\ Same(Trim(r, inventory), r)
                    /\ r.time >= Trim(r, inventory).time
                    /\ r.time = Trim(r, inventory).time
                         => r.value = Trim(r, inventory).value
  BY DEF Covers, Holds, Kept
<1> QED
  BY TrimType DEF Same, History, Row

-----------------------------------------------------------------------------
\* The invariant.  What a put would replace is covered by what it carries, at
\* the time of the read and, because the put is conditional, at its own.
NoReturn(new, old) ==
  \A r \in old, q \in new : Same(r, q) /\ q.time = r.time => q.stacks \subseteq r.stacks

Replaces(rows, etag, now) ==
  /\ IsFiniteSet(rows)
  /\ Covers(rows, etag.rows)
  /\ NoReturn(rows, etag.rows)
  /\ Valid(rows, now)

ReadyToPut(t, now) ==
  /\ ~t.rollover
  /\ Replaces(t.rows, t.etag, now)
  /\ Covers(t.rows, {t.snapshot})

Recorded(o, t) == Covers(o.rows, t.rows \cup ({t.snapshot} \ {None}))

TaskInv(t, now) ==
  /\ t.pc \in {"head", "get", "put"} => t.snapshot \in Row
  /\ t.pc = "get" => t.now <= now
  /\ t.pc = "put" => ReadyToPut(t, now)

Inv ==
  /\ TypeOK
  /\ IsFiniteSet(object.rows)
  /\ ~object.exists => object.rows = {}
  /\ HistoryIsReadable
  /\ \A w \in Writer : TaskInv(task[w], clock + Drift)
  /\ \A put \in flying : Replaces(put.rows, put.expect, clock + Drift)
  /\ PublishedIsRecorded

LEMMA ValidLater ==
  ASSUME NEW rows \in History, NEW now \in Nat, NEW later \in Nat, now <= later,
         Valid(rows, now)
  PROVE  Valid(rows, later)
<1>1. \A r \in rows : r.time \in Nat
  BY DEF History, Row
<1>2. \A r \in rows : r.time <= later + FutureSkew
  BY <1>1, TimeAssumption DEF Valid
<1> QED
  BY <1>2 DEF Valid

\* A merge leaves out every stack that was left out before, because there is one
\* row of a source and month, and a candidate of its very time changes nothing.
LEMMA MergedStaysOut ==
  ASSUME NEW rows \in History, NEW new \in Row, NEW inventory \in SUBSET Stack,
         \A r \in rows, q \in rows : Same(r, q) => r = q
  PROVE  NoReturn(Kept(Observed(rows, new), inventory), rows)
<1> SUFFICES ASSUME NEW r \in rows, NEW q \in Observed(rows, new),
                    Same(r, Trim(q, inventory)), Trim(q, inventory).time = r.time
             PROVE  Trim(q, inventory).stacks \subseteq r.stacks
  BY DEF NoReturn, Kept
<1>1. q \in Row
  BY DEF Observed, History
<1>2. Same(r, q) /\ q.time = r.time
  BY <1>1, TrimType DEF Same
<1>3. q = r
  <2>1. CASE q \in rows
    BY <2>1, <1>2
  <2>2. CASE q \notin rows
    <3>1. q = new /\ ~ \E p \in rows : Same(p, new) /\ p.time >= new.time
      BY <2>2 DEF Observed
    <3>2. r.time >= new.time
      BY <1>1, <1>2, <3>1 DEF Row
    <3> QED
      BY <1>2, <3>1, <3>2
  <2> QED
    BY <2>1, <2>2
<1> QED
  BY <1>1, <1>3, TrimType

\* What update does with the history it has read.
LEMMA MergeFacts ==
  ASSUME NEW w, NEW t \in Task, NEW previous \in History, IsFiniteSet(previous),
         previous = t.etag.rows, t.snapshot \in Row,
         NEW limit \in Nat, t.now <= limit, Merge(w, t, previous)
  PROVE  \E new \in Task :
           /\ Become(w, new)
           /\ new.pc \in {"idle", "put", "published"}
           /\ TaskInv(new, limit)
           /\ new.pc = "published" => Covers(previous, new.rows \cup ({new.snapshot} \ {None}))
<1> DEFINE merged == IF t.rollover THEN previous ELSE Observed(previous, t.snapshot)
           rows == Kept(merged, t.inventory)
           refused == \/ t.snapshot.time > t.now + FutureSkew
                      \/ ~Valid(previous, t.now)
                      \/ ~t.rollover /\ Conflicts(previous, t.snapshot)
                      \/ ~Valid(rows, t.now)
           returned == [Idle EXCEPT !.pc = "published", !.rows = rows,
                          !.snapshot = IF t.rollover THEN None ELSE t.snapshot]
           ready == [t EXCEPT !.pc = "put", !.rows = rows]
<1>1. \/ refused /\ Become(w, Idle)
      \/ ~refused /\ (t.rollover \/ rows = previous) /\ Become(w, returned)
      \/ ~refused /\ ~t.rollover /\ rows # previous /\ Become(w, ready)
  BY DEF Merge, Fail, Return
<1>2. t.inventory \in SUBSET Stack /\ t.now \in Nat
  BY DEF Task
<1>3. merged \in History /\ IsFiniteSet(merged)
  BY ObservedType
<1>4. rows \in History /\ IsFiniteSet(rows)
  BY <1>2, <1>3, KeptType
<1>5. Idle \in Task /\ Idle.pc = "idle"
  BY DEF Idle, Task, History, Missing, File
<1>6. TaskInv(Idle, limit)
  BY <1>5 DEF TaskInv
<1>7. returned \in Task
  <2> HIDE DEF rows
  <2> QED
    BY <1>4, <1>5 DEF Task, Idle
<1>8. /\ returned.pc = "published"
      /\ returned.rows = rows
      /\ returned.snapshot = IF t.rollover THEN None ELSE t.snapshot
  <2> HIDE DEF rows
  <2> QED
    BY DEF Idle
<1>9. ready \in Task
  <2> HIDE DEF rows
  <2> QED
    BY <1>4 DEF Task
<1>10. /\ ready.pc = "put" /\ ready.rows = rows /\ ready.etag = t.etag
       /\ ready.snapshot = t.snapshot /\ ready.rollover = t.rollover
  <2> HIDE DEF rows
  <2> QED
    BY DEF Task
<1>11. ASSUME ~t.rollover, ~refused
       PROVE  Covers(rows, previous) /\ Covers(rows, {t.snapshot})
  <2>1. Covers(merged, previous) /\ Covers(merged, {t.snapshot})
    BY <1>11, ObservedCovers
  <2>2. Covers(rows, merged)
    BY <1>2, <1>3, KeptCovers
  <2>3. {t.snapshot} \in History
    BY DEF History
  <2> HIDE DEF rows, merged
  <2> QED
    BY <1>3, <1>4, <2>1, <2>2, <2>3, CoversTransitive
<1>12. CASE refused /\ Become(w, Idle)
  BY <1>5, <1>6, <1>12
<1>13. CASE ~refused /\ (t.rollover \/ rows = previous) /\ Become(w, returned)
  <2>1. Covers(previous, returned.rows \cup ({returned.snapshot} \ {None}))
    <3>1. CASE t.rollover
      <4>1. Covers(previous, rows)
        BY <1>2, <3>1, KeptIsCovered
      <4> HIDE DEF rows, returned
      <4> QED
        BY <1>8, <3>1, <4>1 DEF Covers
    <3>2. CASE ~t.rollover
      <4>1. Covers(previous, previous) /\ Covers(previous, {t.snapshot})
        BY <1>11, <1>13, <3>2, CoversItself
      <4>2. rows = previous
        BY <1>13, <3>2
      <4> HIDE DEF rows, returned
      <4> QED
        BY <1>8, <3>2, <4>1, <4>2 DEF Covers
    <3> QED
      BY <3>1, <3>2
  <2>2. TaskInv(returned, limit)
    BY <1>8 DEF TaskInv
  <2> HIDE DEF returned
  <2> QED
    BY <1>7, <1>8, <1>13, <2>1, <2>2
<1>14. CASE ~refused /\ ~t.rollover /\ rows # previous /\ Become(w, ready)
  <2>1. Valid(rows, limit)
    <3>1. Valid(rows, t.now)
      BY <1>14
    <3> HIDE DEF rows
    <3> QED
      BY <1>2, <1>4, <3>1, ValidLater
  <2>2. \A r \in previous, q \in previous : Same(r, q) => r = q
    BY <1>14 DEF Valid
  <2>3. NoReturn(rows, previous)
    BY <1>2, <1>14, <2>2, MergedStaysOut
  <2>4. Covers(rows, previous) /\ Covers(rows, {t.snapshot})
    BY <1>11, <1>14
  <2>5. ReadyToPut(ready, limit)
    <3> HIDE DEF rows, ready
    <3> QED
      BY <1>4, <1>10, <1>14, <2>1, <2>3, <2>4 DEF ReadyToPut, Replaces
  <2>6. TaskInv(ready, limit)
    <3> HIDE DEF ready
    <3> QED
      BY <1>10, <2>5 DEF TaskInv
  <2> HIDE DEF ready
  <2> QED
    BY <1>9, <1>10, <1>14, <2>6
<1> QED
  BY <1>1, <1>12, <1>13, <1>14

-----------------------------------------------------------------------------
\* The object changes only by a put that covers it.
Moved(now) ==
  \/ object' = object
  \/ \E rows \in History : object' = Stored(rows) /\ Replaces(rows, object, now)

LEMMA MovedFacts ==
  ASSUME Inv, Moved(clock + Drift)
  PROVE  /\ object' \in File
         /\ IsFiniteSet(object'.rows)
         /\ Valid(object'.rows, clock + Drift)
         /\ object.exists => object'.exists
         /\ ~object'.exists => object'.rows = {}
         /\ Covers(object'.rows, object.rows)
         /\ NoReturn(object'.rows, object.rows)
         /\ \A w \in Writer : task[w].pc = "published" => Recorded(object', task[w])
<1>1. object \in File /\ object.rows \in History /\ IsFiniteSet(object.rows)
  BY DEF Inv, TypeOK, File
<1>2. Valid(object.rows, clock + Drift) /\ (~object.exists => object.rows = {})
  BY DEF Inv, HistoryIsReadable
<1>3. \A w \in Writer : task[w].pc = "published" => Recorded(object, task[w])
  BY DEF Inv, PublishedIsRecorded, Recorded
<1>4. CASE object' = object
  <2>1. Covers(object.rows, object.rows)
    BY <1>1, CoversItself
  <2>2. NoReturn(object.rows, object.rows)
    BY <1>2 DEF Valid, NoReturn
  <2> QED
    BY <1>1, <1>2, <1>3, <1>4, <2>1, <2>2
<1>5. CASE object' # object
  <2>1. PICK rows \in History : object' = Stored(rows) /\ Replaces(rows, object, clock + Drift)
    BY <1>5 DEF Moved
  <2>2. object' \in File /\ object'.rows = rows /\ object'.exists
    BY <2>1 DEF Stored, File
  <2>3. /\ IsFiniteSet(rows) /\ Valid(rows, clock + Drift)
        /\ Covers(rows, object.rows) /\ NoReturn(rows, object.rows)
    BY <2>1 DEF Replaces
  <2>4. ASSUME NEW w \in Writer, task[w].pc = "published"
        PROVE  Recorded(object', task[w])
    <3> DEFINE seen == task[w].rows \cup ({task[w].snapshot} \ {None})
    <3>1. task[w] \in Task
      BY DEF Inv, TypeOK
    <3>2. seen \in History
      BY <3>1 DEF Task, History
    <3>3. Covers(object.rows, seen)
      BY <1>3, <2>4 DEF Recorded
    <3>4. Covers(rows, seen)
      <4> HIDE DEF seen
      <4> QED BY <1>1, <2>3, <3>2, <3>3, CoversTransitive
    <3> QED
      BY <2>2, <3>4 DEF Recorded
  <2> QED
    BY <2>2, <2>3, <2>4
<1> QED
  BY <1>4, <1>5

\* What a step of one writer has to show.
LEMMA WriterKeeps ==
  ASSUME Inv, NEW w \in Writer, NEW new \in Task, Become(w, new),
         TaskInv(new, clock + Drift), Moved(clock + Drift),
         new.pc = "published" => Recorded(object', new),
         clock' = clock, live' = live, runs' \in [Writer -> Nat],
         flying' \in SUBSET Put,
         \A put \in flying' : Replaces(put.rows, put.expect, clock + Drift)
  PROVE  Inv'
<1>1. task' \in [Writer -> Task] /\ task'[w] = new
  BY DEF Become, Inv, TypeOK
<1>2. \A u \in Writer \ {w} : task'[u] = task[u]
  BY DEF Become, Inv, TypeOK
<1>3. TypeOK'
  BY <1>1, MovedFacts DEF Inv, TypeOK
<1>4. \A u \in Writer : TaskInv(task'[u], clock + Drift)
  BY <1>1, <1>2 DEF Inv
<1>5. HistoryIsReadable'
  BY MovedFacts DEF HistoryIsReadable
<1>6. \A u \in Writer : task'[u].pc = "published" => Recorded(object', task'[u])
  BY <1>1, <1>2, MovedFacts
<1>7. PublishedIsRecorded'
  BY <1>6 DEF PublishedIsRecorded, Recorded
<1> QED
  BY <1>3, <1>4, <1>5, <1>7, MovedFacts DEF Inv

LEMMA IdleIsFine == Idle \in Task /\ Idle.pc = "idle" /\ \A now : TaskInv(Idle, now)
BY DEF Idle, Task, History, Missing, File, TaskInv

\* Every step keeps the invariant, and moves the object only as it may.
LEMMA StepKeeps ==
  ASSUME Inv, NEW w \in Writer, Step(w)
  PROVE  Inv' /\ Moved(clock + Drift)
<1>1. task[w] \in Task /\ clock \in Nat /\ clock + Drift \in Nat
  BY TimeAssumption DEF Inv, TypeOK
<1>2. object.rows \in History /\ IsFiniteSet(object.rows) /\ object \in File
  BY DEF Inv, TypeOK, File
<1>3. flying \in SUBSET Put /\ runs \in [Writer -> Nat] /\ live \in SUBSET Stack
  BY DEF Inv, TypeOK
<1>4. \A put \in flying : Replaces(put.rows, put.expect, clock + Drift)
  BY DEF Inv
<1>5. TaskInv(task[w], clock + Drift)
  BY DEF Inv
<1>6. CASE Gather(w)
  <2>1. PICK new \in Task : Become(w, new) /\ new.pc = "head" /\ new.snapshot \in Row
    <3>1. PICK source \in Source, value \in Value, time \in clock..(clock + Drift) :
            Become(w, [Idle EXCEPT
              !.pc = "head", !.inventory = live,
              !.snapshot = [source |-> source, time |-> time, value |-> value,
                            stacks |-> Stack],
              !.rollover = (source = "billing_observation" /\ FirstDay(time))])
      BY <1>6 DEF Gather
    <3> DEFINE snapshot == [source |-> source, time |-> time, value |-> value,
                            stacks |-> Stack]
               rollover == (source = "billing_observation" /\ FirstDay(time))
               new == [Idle EXCEPT !.pc = "head", !.inventory = live,
                         !.snapshot = snapshot, !.rollover = rollover]
    <3>2. snapshot \in Row
      BY <1>1, TimeAssumption DEF Row
    <3>3. rollover \in BOOLEAN
      OBVIOUS
    <3>4. new \in Task /\ new.pc = "head" /\ new.snapshot = snapshot
      <4> HIDE DEF snapshot, rollover
      <4> QED BY <1>3, <3>2, <3>3, IdleIsFine DEF Task, Idle
    <3>5. Become(w, new)
      BY <3>1
    <3> HIDE DEF new
    <3> QED
      BY <3>2, <3>4, <3>5
  <2>2. TaskInv(new, clock + Drift)
    BY <2>1 DEF TaskInv
  <2>3. runs' \in [Writer -> Nat] /\ UNCHANGED <<clock, live, object, flying>>
    BY <1>3, <1>6 DEF Gather
  <2>4. Moved(clock + Drift)
    BY <2>3 DEF Moved
  <2> QED
    BY <1>3, <1>4, <2>1, <2>2, <2>3, <2>4, WriterKeeps
<1>7. CASE Head(w)
  <2>1. UNCHANGED <<clock, live, object, flying, runs>> /\ task[w].pc = "head"
    BY <1>7 DEF Head
  <2>2. Moved(clock + Drift)
    BY <2>1 DEF Moved
  <2>3. task[w].snapshot \in Row
    BY <1>5, <2>1 DEF TaskInv
  <2>4. CASE Fail(w)
    BY <1>3, <1>4, <2>1, <2>2, <2>4, IdleIsFine, WriterKeeps DEF Fail
  <2>5. CASE ~Fail(w)
    <3> DEFINE read(now) == [task[w] EXCEPT !.pc = "get", !.now = now, !.etag = object]
    <3>0. \/ \E now \in clock..(clock + Drift) :
               \/ ~object.exists /\ Merge(w, read(now), {})
               \/ object.exists /\ Become(w, read(now))
          \/ Fail(w)
      BY <1>7 DEF Head
    <3>1. PICK now \in clock..(clock + Drift) :
            \/ ~object.exists /\ Merge(w, read(now), {})
            \/ object.exists /\ Become(w, read(now))
      <4> HIDE DEF read
      <4> QED BY <2>5, <3>0
    <3> DEFINE t == [task[w] EXCEPT !.pc = "get", !.now = now, !.etag = object]
    <3>2. /\ t \in Task /\ t.pc = "get" /\ t.now = now /\ t.etag = object
          /\ t.snapshot = task[w].snapshot
      <4>1. now \in Nat
        BY <1>1, TimeAssumption
      <4>2. t \in Task
        BY <1>1, <1>2, <4>1 DEF Task
      <4> QED
        BY <1>1, <4>2 DEF Task
    <3>3. now <= clock + Drift
      BY <1>1, TimeAssumption
    <3>4. \/ ~object.exists /\ Merge(w, t, {})
          \/ object.exists /\ Become(w, t)
      BY <3>1
    <3> HIDE DEF t
    <3>5. CASE object.exists /\ Become(w, t)
      <4>1. TaskInv(t, clock + Drift)
        BY <2>3, <3>2, <3>3 DEF TaskInv
      <4> QED
        BY <1>3, <1>4, <2>1, <2>2, <3>2, <3>5, <4>1, WriterKeeps
    <3>6. CASE ~object.exists /\ Merge(w, t, {})
      <4>1. object.rows = {}
        BY <3>6 DEF Inv
      <4>0. Merge(w, t, object.rows)
        BY <3>6, <4>1
      <4>2. PICK new \in Task :
              /\ Become(w, new)
              /\ TaskInv(new, clock + Drift)
              /\ new.pc = "published" =>
                   Covers(object.rows, new.rows \cup ({new.snapshot} \ {None}))
        BY <1>1, <1>2, <2>3, <3>2, <3>3, <4>0, MergeFacts
      <4> QED
        BY <1>3, <1>4, <2>1, <2>2, <4>2, WriterKeeps DEF Recorded
    <3> QED
      BY <3>4, <3>5, <3>6
  <2> QED
    BY <2>4, <2>5
<1>8. CASE Get(w)
  <2>1. UNCHANGED <<clock, live, object, flying, runs>> /\ task[w].pc = "get"
    BY <1>8 DEF Get
  <2>2. Moved(clock + Drift)
    BY <2>1 DEF Moved
  <2>3. task[w].snapshot \in Row /\ task[w].now <= clock + Drift
    BY <1>5, <2>1 DEF TaskInv
  <2>4. CASE Fail(w)
    BY <1>3, <1>4, <2>1, <2>2, <2>4, IdleIsFine, WriterKeeps DEF Fail
  <2>5. CASE object = task[w].etag /\ Merge(w, task[w], object.rows)
    <3>1. PICK new \in Task :
            /\ Become(w, new)
            /\ TaskInv(new, clock + Drift)
            /\ new.pc = "published" =>
                 Covers(object.rows, new.rows \cup ({new.snapshot} \ {None}))
      BY <1>1, <1>2, <2>3, <2>5, MergeFacts
    <3> QED
      BY <1>3, <1>4, <2>1, <2>2, <3>1, WriterKeeps DEF Recorded
  <2> QED
    BY <1>8, <2>4, <2>5 DEF Get
<1>9. CASE Write(w)
  <2> DEFINE t == task[w]
             new == [Idle EXCEPT !.pc = "published", !.rows = t.rows,
                       !.snapshot = IF t.rollover THEN None ELSE t.snapshot]
  <2>1. /\ t.pc = "put" /\ object = t.etag /\ object' = Stored(t.rows)
        /\ Become(w, new) /\ UNCHANGED <<clock, live, flying, runs>>
    BY <1>9 DEF Write, Return
  <2>2. ReadyToPut(t, clock + Drift) /\ t.snapshot \in Row /\ t.rows \in History
    BY <1>1, <1>5, <2>1 DEF TaskInv, Task
  <2>3. Moved(clock + Drift)
    BY <2>1, <2>2 DEF Moved, ReadyToPut
  <2>4. new \in Task /\ new.rows = t.rows /\ new.snapshot = t.snapshot /\ new.pc = "published"
    BY <2>2, IdleIsFine DEF Task, Idle, ReadyToPut
  <2>5. object'.rows = t.rows
    BY <2>1 DEF Stored
  <2> HIDE DEF new, t
  <2>6. TaskInv(new, clock + Drift)
    BY <2>4 DEF TaskInv
  <2>7. Recorded(object', new)
    <3>1. Covers(t.rows, t.rows) /\ Covers(t.rows, {t.snapshot})
      BY <2>2, CoversItself DEF ReadyToPut
    <3> QED
      BY <2>4, <2>5, <3>1 DEF Recorded, Covers
  <2> QED
    BY <1>3, <1>4, <2>1, <2>3, <2>4, <2>6, <2>7, WriterKeeps
<1>10. CASE Abandon(w)
  <2> DEFINE put == [expect |-> task[w].etag, rows |-> task[w].rows]
  <2>1. /\ task[w].pc = "put" /\ Become(w, Idle)
        /\ flying' \in {flying, flying \cup {put}}
        /\ UNCHANGED <<clock, live, object, runs>>
    BY <1>10 DEF Abandon, Fail
  <2>2. put \in Put /\ Replaces(put.rows, put.expect, clock + Drift)
    BY <1>1, <1>5, <2>1 DEF TaskInv, ReadyToPut, Put, Task
  <2>3. Moved(clock + Drift)
    BY <2>1 DEF Moved
  <2> HIDE DEF put
  <2>4. /\ flying' \in SUBSET Put
        /\ \A p \in flying' : Replaces(p.rows, p.expect, clock + Drift)
    BY <1>3, <1>4, <2>1, <2>2
  <2> QED
    BY <1>3, <2>1, <2>3, <2>4, IdleIsFine, WriterKeeps
<1> QED
  BY <1>6, <1>7, <1>8, <1>9, <1>10 DEF Step

LEMMA InitHolds == Init => Inv
<1> SUFFICES ASSUME Init PROVE Inv
  OBVIOUS
<1>1. TypeOK
  BY IdleIsFine DEF Init, TypeOK, Missing, File, History, Put
<1>2. object.rows = {} /\ IsFiniteSet(object.rows)
  BY FS_EmptySet DEF Init, Missing
<1>3. Months({}) = {} /\ UNION {{r} \X r.stacks : r \in {}} = {}
  BY DEF Months
<1>4. Cardinality({}) = 0
  BY FS_EmptySet
<1>5. Valid({}, clock + Drift)
  BY <1>3, <1>4, CapAssumption DEF Valid, Size
<1>6. PublishedIsRecorded
  BY IdleIsFine DEF Init, PublishedIsRecorded
<1>7. \A w \in Writer : TaskInv(task[w], clock + Drift)
  BY IdleIsFine DEF Init
<1> QED
  BY <1>1, <1>2, <1>5, <1>6, <1>7 DEF Inv, HistoryIsReadable, Init

LEMMA NextKeeps ==
  ASSUME Inv, [Next]_vars
  PROVE  Inv' /\ Moved(clock + Drift)
<1>1. CASE \E w \in Writer : Step(w)
  BY <1>1, StepKeeps
<1>2. CASE Land
  <2>1. PICK put \in flying :
          /\ flying' = flying \ {put}
          /\ \/ UNCHANGED object
             \/ object = put.expect /\ object' = Stored(put.rows)
    BY <1>2 DEF Land
  <2>2. put \in Put /\ Replaces(put.rows, put.expect, clock + Drift)
    BY DEF Inv, TypeOK
  <2>3. Moved(clock + Drift)
    BY <2>1, <2>2 DEF Moved, Put
  <2>4. UNCHANGED <<clock, live, task, runs>>
    BY <1>2 DEF Land
  <2>5. TypeOK'
    BY <2>1, <2>3, <2>4, MovedFacts DEF Inv, TypeOK
  <2>6. HistoryIsReadable' /\ PublishedIsRecorded'
    BY <2>3, <2>4, MovedFacts DEF HistoryIsReadable, PublishedIsRecorded, Recorded
  <2>7. \A w \in Writer : TaskInv(task'[w], clock + Drift)
    BY <2>4 DEF Inv
  <2>8. \A p \in flying' : Replaces(p.rows, p.expect, clock + Drift)
    BY <2>1 DEF Inv
  <2> QED
    BY <2>3, <2>4, <2>5, <2>6, <2>7, <2>8, MovedFacts DEF Inv
<1>3. CASE Churn
  <2>1. UNCHANGED <<clock, object, flying, task, runs>> /\ live' \in SUBSET Stack
    BY <1>3 DEF Churn
  <2> QED
    BY <2>1 DEF Inv, TypeOK, HistoryIsReadable, PublishedIsRecorded, Moved
<1>4. CASE Tick
  <2>1. UNCHANGED <<live, object, flying, task, runs>> /\ clock' = clock + 1
    BY <1>4 DEF Tick
  <2>2. /\ clock \in Nat /\ clock + Drift \in Nat /\ clock' + Drift \in Nat
        /\ clock + Drift <= clock' + Drift
    BY <2>1, TimeAssumption DEF Inv, TypeOK
  <2>3. object.rows \in History /\ Valid(object.rows, clock + Drift)
    BY DEF Inv, TypeOK, File, HistoryIsReadable
  <2>4. HistoryIsReadable'
    BY <2>1, <2>2, <2>3, ValidLater DEF HistoryIsReadable
  <2>5. ASSUME NEW rows \in History, NEW etag, Replaces(rows, etag, clock + Drift)
        PROVE  Replaces(rows, etag, clock' + Drift)
    BY <2>2, <2>5, ValidLater DEF Replaces
  <2>6. \A put \in flying' : Replaces(put.rows, put.expect, clock' + Drift)
    BY <2>1, <2>5 DEF Inv, TypeOK, Put
  <2>7. ASSUME NEW w \in Writer PROVE TaskInv(task'[w], clock' + Drift)
    <3>1. task[w] \in Task /\ TaskInv(task[w], clock + Drift)
      BY DEF Inv, TypeOK
    <3>2. task[w].now \in Nat /\ task[w].rows \in History
      BY <3>1 DEF Task
    <3>3. task[w].pc = "put" => ReadyToPut(task[w], clock' + Drift)
      BY <2>5, <3>1, <3>2 DEF TaskInv, ReadyToPut
    <3>4. task[w].pc = "get" => task[w].now <= clock' + Drift
      BY <2>2, <3>1, <3>2 DEF TaskInv
    <3> QED
      BY <2>1, <3>1, <3>3, <3>4 DEF TaskInv
  <2>8. TypeOK' /\ PublishedIsRecorded' /\ Moved(clock + Drift)
    BY <2>1, <2>2 DEF Inv, TypeOK, PublishedIsRecorded, Moved
  <2> QED
    BY <2>1, <2>4, <2>6, <2>7, <2>8 DEF Inv
<1>5. CASE UNCHANGED vars
  BY <1>5 DEF vars, Inv, TypeOK, HistoryIsReadable, PublishedIsRecorded, Moved
<1> QED
  BY <1>1, <1>2, <1>3, <1>4, <1>5 DEF Next

LEMMA Invariance == Spec => []Inv
<1>1. Inv /\ [Next]_vars => Inv'
  BY NextKeeps
<1> QED
  BY <1>1, InitHolds, PTL DEF Spec

\* Every variable of the history's protocol keeps its type.
THEOREM TypeCorrect == Spec => []TypeOK
<1>1. Inv => TypeOK
  BY DEF Inv
<1> QED
  BY <1>1, Invariance, PTL

\* No recorded observation is lost or goes back, for any number of overlapping
\* writers, lost answers, late puts and drifting clocks.
THEOREM NothingIsLost == Spec => ObservationsOnlyAdvance
<1>1. Inv /\ [Next]_vars =>
        [object.exists => object'.exists /\ Covers(object'.rows, object.rows)]_object
  BY NextKeeps, MovedFacts
<1> QED
  BY <1>1, Invariance, PTL DEF Spec, ObservationsOnlyAdvance

\* What a run publishes stays in the object until something later replaces it.
THEOREM PublishedStays == Spec => []PublishedIsRecorded
<1>1. Inv => PublishedIsRecorded
  BY DEF Inv
<1> QED
  BY <1>1, Invariance, PTL

\* A stack that was taken out of an observation does not come back into it.
THEOREM NoStackReturns == Spec => DepartedStaysOut
<1>1. Inv /\ [Next]_vars =>
        [\A r \in object.rows, q \in object'.rows :
           Same(r, q) /\ q.time = r.time => q.stacks \subseteq r.stacks]_object
  BY NextKeeps, MovedFacts DEF NoReturn
<1> QED
  BY <1>1, Invariance, PTL DEF Spec, DepartedStaysOut

\* The object is always one that readers accept.
THEOREM AlwaysReadable == Spec => []HistoryIsReadable
<1>1. Inv => HistoryIsReadable
  BY DEF Inv
<1> QED
  BY <1>1, Invariance, PTL
=============================================================================
