------------------------- MODULE ProvisionerProofs -------------------------
(* Proofs about Provisioner: for any number of runs and stacks, and whatever  *)
(* goes wrong.                                                                *)
EXTENDS Provisioner, TLAPS

Repairing ==
  {"key", "roles", "make", "read", "put", "reader", "again", "basic", "assign", "mint",
   "store", "revoke", "verify", "cleanup"}
AtStack == {"sweep", "relist", "probe", "admin"} \cup Repairing
Minted == {"store", "revoke"}
Held == {"ok", "pending", "unverified"}

-----------------------------------------------------------------------------
(* The inductive invariant: of each stack, of the memory of each run, and of  *)
(* the memories of two.                                                       *)

\* Nobody from outside has touched a stack; no answer was lost; one at most was,
\* or one administrator not deleted.
Untouched == churn = 0
NoneLost == churn = 0 /\ trouble.lost = 0
OneLost == churn = 0 /\ trouble.lost + trouble.undeleted <= 1

\* Whatever is there has an id that was handed out, and a stack that is not has
\* nothing.
Kept(s) ==
  /\ token[s] <= ids /\ admin[s] <= ids
  /\ reader[s] # None => reader[s].id <= ids
  /\ store[s] # None => store[s].token <= ids
  /\ s \notin estate =>
       /\ admin[s] = 0 /\ reader[s] = None /\ role[s] = NoRole
       /\ answered[s] = {} /\ token[s] = 0

\* What is answered of an untouched stack is so, and what is stored works
\* unless an answer was lost.
Trusted(s) ==
  /\ Untouched =>
       /\ reader[s] # None => reader[s].basic = "None"
       /\ "dangerous" \notin role[s].pairs
       /\ "declared" \in answered[s] =>
            /\ reader[s] # None /\ reader[s].assigned /\ "declared" \in role[s].pairs
            /\ "retired" \in role[s].pairs => "retired" \in answered[s]
  /\ NoneLost => (HasSecret(store[s]) => Working(s))

\* The memory of a run in each phase.
ShapeOf(m) ==
  /\ m.pc \in AtStack => m.slug \in m.todo \ Skipped
  /\ m.pc \notin AtStack => m.slug = None
  /\ m.pc \in Repairing => m.adm # 0
  /\ m.pc \notin Repairing => m.adm = 0
  /\ m.pc \in Minted => m.key # 0
  /\ m.pc \in AtStack \cup {"load", "next"} =>
       /\ m.todo \subseteq m.inventory
       /\ \A s \in m.todo : m.verdict[s] = "none"
  /\ m.pc = "final" => m.todo \subseteq Unverified(m)
  /\ m.pc = "prune" => m.todo \cap m.inventory = {}
  /\ m.pc \in {"basic", "assign", "mint", "store"} => m.sas.reader # None
  /\ m.pc = "put" => "dangerous" \notin m.have.pairs
  /\ m.pc = "idle" => ~m.clean

\* It names only ids that were handed out, and knows the estate.
BoundsOf(m) ==
  /\ m.adm <= ids /\ m.key <= ids
  /\ \A s \in Stack :
       /\ m.stored[s] # None => m.stored[s].token <= ids
       /\ m.final[s] # None => m.final[s].token <= ids
  /\ m.pc # "idle" =>
       /\ estate \ m.inventory \subseteq returned
       /\ Untouched => m.inventory = estate

\* The role that is replaced is the one that was read, unless its version tells.
VersionsOf(m) ==
  VersionChecked /\ Authorised(m) =>
    /\ m.pc \in {"read", "put"} => m.have.version <= role[m.slug].version
    /\ m.pc = "put" /\ m.have.version = role[m.slug].version =>
         m.have.pairs = role[m.slug].pairs

\* The record of a token that is live.
Live(s, record) == HasSecret(record) /\ record.token = token[s]

\* The token that was minted is live, and not stored yet; a live one that was read
\* is stored.
TokensOf(m) ==
  Untouched =>
    /\ m.pc \in Minted => token[m.slug] = m.key
    /\ m.pc = "store" => ~Live(m.slug, store[m.slug])
    /\ m.pc = "verify" /\ m.key # 0 /\ token[m.slug] = m.key => Working(m.slug)
    /\ \A s \in Stack : Live(s, m.stored[s]) \/ Live(s, m.final[s]) => Working(s)

\* The run has concluded, or is about to, that the stack is so.
Concluded(m, s, verdicts) ==
  \/ m.verdict[s] \in verdicts
  \/ m.pc = "cleanup" /\ m.slug = s /\ m.out \in verdicts

\* What the run vouches for works, unless an answer was lost.
SoundOf(m) ==
  NoneLost =>
    /\ m.pc \in Minted => ~HasSecret(store[m.slug])
    /\ m.pc = "verify" => Working(m.slug)
    /\ \A s \in Stack : HasSecret(m.stored[s]) => Working(s)
    /\ \A s \in Stack \ Skipped : Concluded(m, s, Held) => Working(s)

\* What the run reports is so.
Provisioned(s) ==
  /\ Working(s)
  /\ reader[s] # None /\ reader[s].basic = "None" /\ reader[s].assigned
  /\ ~Drift(role[s].pairs)
ReportedOf(m) ==
  OneLost => \A s \in Stack \ Skipped : Concluded(m, s, {"ok"}) => Provisioned(s)

Fit(m) ==
  /\ ShapeOf(m) /\ BoundsOf(m) /\ VersionsOf(m) /\ TokensOf(m) /\ SoundOf(m)
  /\ ReportedOf(m)

\* A put whose answer was lost: its token is stored, and about to be revoked.
Shaken(m) == m.pc = "revoke" /\ Authorised(m) /\ Live(m.slug, store[m.slug])

\* No other run relies on that token.
Unrelied(m, k) ==
  OneLost /\ Shaken(m) =>
    /\ ~Concluded(k, m.slug, Held)
    /\ k.slug = m.slug =>
         /\ k.pc # "verify"
         /\ HasSecret(k.stored[m.slug]) => k.pc = "sweep" /\ k.sas.admin = m.adm
Apart(m, k) ==
  /\ Untouched /\ m.pc \in Minted /\ k.pc \in Minted => m.slug # k.slug
  /\ Unrelied(m, k)

IInv ==
  /\ TypeOK
  /\ \A s \in Stack : Kept(s) /\ Trusted(s)
  /\ \A r \in Run : Fit(run[r])
  /\ \A r, q \in Run : r # q => Apart(run[r], run[q])
  /\ AdminsAccounted /\ SecretsAccounted

\* A run that is alone, and for which nothing was refused: it has listed the
\* reader's account as it is, probed what is stored, and done what comes before.
Right(s) == Settled(s) \/ "dangerous" \in role[s].pairs \/ Stuck(s)
Listed(m) ==
  IF reader[m.slug] = None THEN m.sas.reader = None
  ELSE m.sas.reader = [id |-> reader[m.slug].id, basic |-> reader[m.slug].basic]
Found(m) ==
  /\ reader[m.slug] # None /\ m.sas.reader # None
  /\ m.sas.reader.id = reader[m.slug].id
Known(m) ==
  HasSecret(m.stored[m.slug]) =>
    \/ m.status = "200" /\ Working(m.slug)
    \/ m.status = "401" /\ ~Working(m.slug)
Going(m) ==
  LET s == m.slug IN
  /\ m.pc = "sweep" => admin[s] = m.sas.admin /\ admin[s] # 0
  /\ m.pc \in {"relist", "probe", "admin"} => admin[s] = 0
  /\ m.pc \in Repairing => admin[s] = m.adm
  /\ m.pc \in {"sweep", "relist", "probe"} => answered[s] = Effective(s)
  /\ m.pc \in {"probe", "admin", "key", "roles", "make", "read", "put", "reader", "basic"} =>
       Listed(m)
  /\ m.pc \in {"admin", "key", "roles", "make", "read", "put", "reader", "basic", "assign"} =>
       Known(m)
  /\ m.pc \in AtStack \ {"store", "verify", "cleanup"} => m.stored[s] = store[s]
  /\ m.pc = "make" => role[s] = NoRole
  /\ m.pc = "read" => m.have.version = role[s].version
  /\ m.pc = "put" => m.have = role[s]
  /\ m.pc \in {"reader", "basic", "assign", "mint", "store", "verify"} => ~Drift(role[s].pairs)
  /\ m.pc = "reader" => reader[s] = None
  /\ m.pc \in {"basic", "assign", "mint", "store"} => Found(m)
  /\ m.pc \in {"assign", "mint", "store"} => reader[s].basic = "None"
  /\ m.pc \in {"mint", "store"} => reader[s].assigned
  /\ m.pc = "mint" => ~Working(s)
  /\ m.pc = "store" => token[s] = m.key
  /\ m.pc \notin {"again", "revoke"}
  /\ m.pc = "verify" => Provisioned(s)
  /\ m.pc = "cleanup" => Provisioned(s) \/ "dangerous" \in role[s].pairs \/ Stuck(s)

\* Of each stack ahead of it nothing has changed since it looked; each one behind
\* it is right.
Ahead(m) ==
  m.pc \in {"load", "next"} \cup AtStack =>
    \A s \in m.todo \ {m.slug} :
      answered[s] = Effective(s) /\ (m.pc # "load" => m.stored[s] = store[s])
Behind(m) ==
  m.pc \in {"next", "final", "prune"} \cup AtStack =>
    \A s \in m.inventory \ Skipped :
      m.pc \in {"final", "prune"} \/ s \notin m.todo => Right(s)
Lone(m) ==
  /\ m.inventory = estate
  /\ m.pc = "load" => m.todo = m.inventory
  /\ Ahead(m) /\ Behind(m)
  /\ m.pc \in AtStack => Going(m)
Lonely ==
  \A r \in Run :
    /\ run[r].birth <= starts /\ run[r].era <= churn
    /\ Clean(r) => Lone(run[r]) /\ \A q \in Run : q # r => run[q].pc = "idle"

-----------------------------------------------------------------------------
(* Memories and their fields.                                                 *)

LEMMA Updates ==
  ASSUME NEW m \in Memory
  PROVE  /\ \A x \in Phase : [m EXCEPT !.pc = x] \in Memory
         /\ \A x \in SUBSET Stack : [m EXCEPT !.todo = x] \in Memory
         /\ \A x \in [Stack -> Record \cup {None}] :
              [m EXCEPT !.stored = x] \in Memory /\ [m EXCEPT !.final = x] \in Memory
         /\ \A s \in Stack, x \in Verdict : [m EXCEPT !.verdict[s] = x] \in Memory
         /\ \A x \in SUBSET Nat : [m EXCEPT !.ledger = x] \in Memory
         /\ \A x \in Stack \cup {None} : [m EXCEPT !.slug = x] \in Memory
         /\ \A x \in Listing : [m EXCEPT !.sas = x] \in Memory
         /\ \A x \in {"none", "200", "401", "other"} : [m EXCEPT !.status = x] \in Memory
         /\ \A x \in BOOLEAN :
              [m EXCEPT !.deferred = x] \in Memory /\ [m EXCEPT !.clean = x] \in Memory
         /\ \A x \in Role : [m EXCEPT !.have = x] \in Memory
         /\ \A x \in Nat : [m EXCEPT !.adm = x] \in Memory /\ [m EXCEPT !.key = x] \in Memory
         /\ \A x \in Verdict : [m EXCEPT !.out = x] \in Memory
         /\ \A x \in SUBSET Stack : [m EXCEPT !.inventory = x] \in Memory
         /\ \A x \in Nat : [m EXCEPT !.birth = x] \in Memory /\ [m EXCEPT !.era = x] \in Memory
<1>1. ASSUME NEW x \in Phase PROVE [m EXCEPT !.pc = x] \in Memory
  BY <1>1 DEF Memory
<1>2. ASSUME NEW x \in SUBSET Stack PROVE [m EXCEPT !.todo = x] \in Memory
  BY <1>2 DEF Memory
<1>3. ASSUME NEW x \in [Stack -> Record \cup {None}]
      PROVE  [m EXCEPT !.stored = x] \in Memory /\ [m EXCEPT !.final = x] \in Memory
  BY <1>3 DEF Memory
<1>4. ASSUME NEW s \in Stack, NEW x \in Verdict PROVE [m EXCEPT !.verdict[s] = x] \in Memory
  BY <1>4 DEF Memory
<1>5. ASSUME NEW x \in SUBSET Nat PROVE [m EXCEPT !.ledger = x] \in Memory
  BY <1>5 DEF Memory
<1>6. ASSUME NEW x \in Stack \cup {None} PROVE [m EXCEPT !.slug = x] \in Memory
  BY <1>6 DEF Memory
<1>7. ASSUME NEW x \in Listing PROVE [m EXCEPT !.sas = x] \in Memory
  BY <1>7 DEF Memory
<1>8. ASSUME NEW x \in {"none", "200", "401", "other"} PROVE [m EXCEPT !.status = x] \in Memory
  BY <1>8 DEF Memory
<1>9. ASSUME NEW x \in BOOLEAN
      PROVE  [m EXCEPT !.deferred = x] \in Memory /\ [m EXCEPT !.clean = x] \in Memory
  BY <1>9 DEF Memory
<1>10. ASSUME NEW x \in Role PROVE [m EXCEPT !.have = x] \in Memory
  BY <1>10 DEF Memory
<1>11. ASSUME NEW x \in Nat
       PROVE  [m EXCEPT !.adm = x] \in Memory /\ [m EXCEPT !.key = x] \in Memory
  BY <1>11 DEF Memory
<1>12. ASSUME NEW x \in Verdict PROVE [m EXCEPT !.out = x] \in Memory
  BY <1>12 DEF Memory
<1>13. ASSUME NEW x \in SUBSET Stack PROVE [m EXCEPT !.inventory = x] \in Memory
  BY <1>13 DEF Memory
<1>14. ASSUME NEW x \in Nat
       PROVE  [m EXCEPT !.birth = x] \in Memory /\ [m EXCEPT !.era = x] \in Memory
  BY <1>14 DEF Memory
<1>15. QED
  BY <1>1, <1>2, <1>3, <1>4, <1>5, <1>6, <1>7, <1>8, <1>9, <1>10, <1>11, <1>12, <1>13, <1>14

\* What is the same of a run wherever it is at a stack.
Tour(m) == <<m.inventory, m.stored, m.final, m.birth, m.era>>

LEMMA Defaults ==
  /\ NoListing \in Listing /\ NoRole \in Role /\ NoListing.reader = None
  /\ Nothing \in [Stack -> Record \cup {None}] /\ \A s \in Stack : Nothing[s] = None
BY DEF NoListing, Listing, NoRole, Role, Nothing

LEMMA SoiledIs ==
  ASSUME NEW m \in Memory
  PROVE  LET n == Soiled(m) IN
         /\ n \in Memory /\ ~n.clean /\ Tour(n) = Tour(m)
         /\ n.pc = m.pc /\ n.todo = m.todo /\ n.verdict = m.verdict /\ n.slug = m.slug
         /\ n.sas = m.sas /\ n.have = m.have /\ n.adm = m.adm /\ n.key = m.key /\ n.out = m.out
<1>1. Soiled(m) \in Memory
  BY Updates DEF Soiled
<1>2. QED
  BY <1>1 DEF Soiled, Memory, Tour

LEMMA ConcludeIs ==
  ASSUME NEW m \in Memory, m.slug \in Stack, NEW verdict \in Verdict
  PROVE  LET n == Conclude(m, verdict) IN
         /\ n \in Memory /\ n.clean = m.clean /\ Tour(n) = Tour(m)
         /\ n.pc = "next" /\ n.todo = m.todo \ {m.slug} /\ n.slug = None
         /\ n.verdict = [m.verdict EXCEPT ![m.slug] = verdict]
         /\ n.adm = 0 /\ n.key = 0 /\ n.out = "none" /\ n.sas = NoListing
<1>1. m.todo \ {m.slug} \in SUBSET Stack /\ "next" \in Phase /\ "none" \in Verdict
  BY DEF Memory, Phase, Verdict
<1>2. Conclude(m, verdict) \in Memory
  <2> DEFINE a == [m EXCEPT !.pc = "next", !.todo = m.todo \ {m.slug},
                     !.verdict[m.slug] = verdict, !.slug = None]
             b == [a EXCEPT !.sas = NoListing, !.status = "none", !.deferred = FALSE,
                     !.have = NoRole]
  <2>1. a \in Memory
    BY <1>1, Updates
  <2>2. b \in Memory
    BY <2>1, Updates, Defaults
  <2>3. Conclude(m, verdict) = [b EXCEPT !.adm = 0, !.key = 0, !.out = "none"]
    BY DEF Conclude
  <2> HIDE DEF a, b
  <2>4. [b EXCEPT !.adm = 0] \in Memory
    BY <2>2, Updates
  <2>5. [b EXCEPT !.adm = 0, !.key = 0] \in Memory
    BY <2>4, Updates
  <2>6. [b EXCEPT !.adm = 0, !.key = 0, !.out = "none"] \in Memory
    BY <1>1, <2>5, Updates
  <2>7. QED
    BY <2>3, <2>6
<1>3. QED
  BY <1>2 DEF Conclude, Memory, Tour

LEMMA FinallyIs ==
  ASSUME NEW m \in Memory, NEW out \in Verdict
  PROVE  LET n == Finally(m, out) IN
         /\ n \in Memory /\ n.clean = m.clean /\ Tour(n) = Tour(m)
         /\ n.pc = "cleanup" /\ n.todo = m.todo /\ n.slug = m.slug /\ n.verdict = m.verdict
         /\ n.adm = m.adm /\ n.key = 0 /\ n.out = out
<1>1. "cleanup" \in Phase
  BY DEF Phase
<1>2. Finally(m, out) \in Memory
  BY <1>1, Updates, Defaults DEF Finally
<1>3. QED
  BY <1>2 DEF Finally, Memory, Tour

LEMMA IdleIs ==
  /\ Idle \in Memory /\ Idle.pc = "idle" /\ Idle.slug = None /\ Idle.adm = 0 /\ Idle.key = 0
  /\ Idle.stored = Nothing /\ Idle.final = Nothing /\ Idle.out = "none" /\ ~Idle.clean
  /\ \A s \in Stack : Idle.verdict[s] = "none"
<1>1. Idle \in Memory
  BY Defaults DEF Idle, Memory, Phase, Verdict
<1>2. QED
  BY <1>1 DEF Idle

-----------------------------------------------------------------------------
(* Steps of a run: first what it does to the stacks, then to its own memory.  *)

StacksOK ==
  /\ estate \in SUBSET Stack
  /\ admin \in [Stack -> Nat]
  /\ reader \in [Stack -> Account \cup {None}]
  /\ role \in [Stack -> Role]
  /\ answered \in [Stack -> SUBSET Pair]
  /\ token \in [Stack -> Nat]
  /\ store \in [Stack -> Record \cup {None}]
  /\ ids \in Nat /\ starts \in Nat /\ churn \in Nat
  /\ trouble \in [{"lost", "undeleted", "died"} -> Nat]
  /\ returned \in SUBSET Stack
  /\ \A s \in Stack : Kept(s) /\ Trusted(s)

\* Trouble does not go away.
Worse ==
  /\ Untouched' => Untouched
  /\ NoneLost' => NoneLost
  /\ OneLost' => OneLost
  /\ Quietly' => Quietly

\* What is done to the stacks fits every memory still.
Harmless ==
  \A k \in Memory : Fit(k) => Fit(k)' /\ (Shaken(k)' => Shaken(k))

\* The run depends on the token that is stored for the stack.
Engaged(m, s) ==
  \/ m.slug = s /\ m.pc # "sweep" /\ (HasSecret(m.stored[s]) \/ m.pc = "verify")
  \/ m.verdict[s] \in Held

\* The memory n that follows m vouches for nothing that m did not vouch for,
\* but for what is there.
Tame(m, n) ==
  /\ n.pc \notin Minted
  /\ ShapeOf(n) /\ VersionsOf(n)
  /\ n.adm <= ids /\ n.key <= ids
  /\ n.final \in {m.final, Nothing, store}
  /\ n.pc # "idle" =>
       (m.pc # "idle" /\ n.inventory = m.inventory) \/ n.inventory = estate
  /\ n.stored = m.stored \/ (n.slug = None /\ n.stored \in {Nothing, store})
  /\ n.slug # None =>
       \/ n.slug = m.slug /\ (m.pc = "sweep" => admin[m.slug] # m.sas.admin)
       \/ n.pc = "sweep" /\ n.sas.admin = admin[n.slug]
       \/ admin[n.slug] = 0
       \/ OneLost => NoneLost
  /\ n.pc = "verify" =>
       /\ n.slug = m.slug /\ Engaged(m, n.slug)
       /\ NoneLost => Working(n.slug)
       /\ Untouched /\ n.key # 0 /\ token[n.slug] = n.key => Working(n.slug)
  /\ \A s \in Stack \ Skipped :
       /\ Concluded(n, s, Held) =>
            \/ Concluded(m, s, Held)
            \/ Engaged(m, s) /\ (NoneLost => Working(s))
       /\ Concluded(n, s, {"ok"}) => Concluded(m, s, {"ok"}) \/ (OneLost => Provisioned(s))

LEMMA TameFits ==
  ASSUME StacksOK, NEW m \in Memory, NEW n \in Memory, Fit(m), Tame(m, n)
  PROVE  Fit(n)
<1>1. ShapeOf(n) /\ VersionsOf(n)
  BY DEF Tame
<1>2. BoundsOf(n)
  <2>1. n.adm <= ids /\ n.key <= ids
    BY DEF Tame
  <2>2. \A s \in Stack : store[s] # None => store[s].token <= ids
    BY DEF StacksOK, Kept
  <2>3. \A s \in Stack : Nothing[s] = None
    BY Defaults
  <2>4. \A s \in Stack :
          /\ n.stored[s] # None => n.stored[s].token <= ids
          /\ n.final[s] # None => n.final[s].token <= ids
    BY <2>2, <2>3 DEF Fit, BoundsOf, Tame
  <2>5. n.pc # "idle" =>
          /\ estate \ n.inventory \subseteq returned
          /\ Untouched => n.inventory = estate
    BY DEF Fit, BoundsOf, Tame
  <2>6. QED
    BY <2>1, <2>4, <2>5 DEF BoundsOf
<1>3. \A s \in Stack : Live(s, store[s]) => Working(s)
  BY DEF Live, Working, HasSecret
<1>4. \A s \in Stack : ~HasSecret(Nothing[s])
  BY Defaults DEF HasSecret
<1>5. TokensOf(n)
  <2>1. \A s \in Stack : Untouched /\ (Live(s, n.stored[s]) \/ Live(s, n.final[s])) => Working(s)
    BY <1>3, <1>4 DEF Fit, TokensOf, Tame, Live
  <2>2. QED
    BY <2>1 DEF Tame, TokensOf, Minted
<1>6. SoundOf(n)
  <2>1. NoneLost => \A s \in Stack : HasSecret(n.stored[s]) => Working(s)
    BY <1>4 DEF Fit, SoundOf, Tame, StacksOK, Trusted
  <2>2. NoneLost => \A s \in Stack \ Skipped : Concluded(n, s, Held) => Working(s)
    BY DEF Fit, SoundOf, Tame
  <2>3. QED
    BY <2>1, <2>2 DEF Tame, SoundOf
<1>7. ReportedOf(n)
  BY DEF Fit, ReportedOf, Tame
<1>8. QED
  BY <1>1, <1>2, <1>5, <1>6, <1>7 DEF Fit

LEMMA TameParts ==
  ASSUME StacksOK, NEW m \in Memory, NEW n \in Memory, Fit(m), Tame(m, n),
         NEW k \in Memory, Fit(k), Apart(m, k), Apart(k, m)
  PROVE  Apart(n, k) /\ Apart(k, n)
<1>1. n.pc \notin Minted /\ n.pc # "revoke"
  BY DEF Tame, Minted
<1>2. Apart(n, k)
  BY <1>1 DEF Apart, Unrelied, Shaken
<1>3. ASSUME OneLost, Shaken(k)
      PROVE  /\ ~Concluded(n, k.slug, Held)
             /\ n.slug = k.slug =>
                  /\ n.pc # "verify"
                  /\ HasSecret(n.stored[k.slug]) => n.pc = "sweep" /\ n.sas.admin = k.adm
  <2>1. /\ k.slug \in Stack \ Skipped /\ k.slug # None
        /\ admin[k.slug] = k.adm /\ k.adm # 0 /\ k.pc = "revoke" /\ Live(k.slug, store[k.slug])
    BY <1>3, StackAssumption DEF Shaken, Authorised, Fit, ShapeOf, AtStack, Repairing, Memory
  <2>2. ~NoneLost
    BY <2>1 DEF Fit, SoundOf, Live, Minted
  <2>3. /\ ~Concluded(m, k.slug, Held)
        /\ m.slug = k.slug =>
             /\ m.pc # "verify"
             /\ HasSecret(m.stored[k.slug]) => m.pc = "sweep" /\ m.sas.admin = k.adm
    BY <1>3 DEF Apart, Unrelied
  <2>4. ~Engaged(m, k.slug)
    BY <2>3 DEF Engaged, Concluded
  <2>5. ~Concluded(n, k.slug, Held)
    BY <2>1, <2>3, <2>4 DEF Tame
  <2>6. ASSUME n.slug = k.slug
        PROVE  /\ n.pc # "verify"
               /\ HasSecret(n.stored[k.slug]) => n.pc = "sweep" /\ n.sas.admin = k.adm
    <3>1. n.pc # "verify"
      BY <2>4, <2>6 DEF Tame
    <3>2. n.stored = m.stored
      BY <2>1, <2>6 DEF Tame
    <3>3. \/ n.slug = m.slug /\ (m.pc = "sweep" => admin[m.slug] # m.sas.admin)
          \/ n.pc = "sweep" /\ n.sas.admin = admin[n.slug]
      BY <1>3, <2>1, <2>2, <2>6 DEF Tame
    <3>4. QED
      BY <2>1, <2>3, <2>6, <3>1, <3>2, <3>3
  <2>7. QED
    BY <2>5, <2>6
<1>4. Apart(k, n)
  BY <1>1, <1>3 DEF Apart, Unrelied
<1>5. QED
  BY <1>2, <1>4

\* The same of the state that follows.
LEMMA TameNext ==
  StacksOK' =>
    (\A m, n \in Memory : Fit(m) /\ Tame(m, n) =>
       /\ Fit(n)
       /\ \A k \in Memory : Fit(k) /\ Apart(m, k) /\ Apart(k, m) => Apart(n, k) /\ Apart(k, n))'
<1>1. StacksOK =>
        \A m, n \in Memory : Fit(m) /\ Tame(m, n) =>
          /\ Fit(n)
          /\ \A k \in Memory : Fit(k) /\ Apart(m, k) /\ Apart(k, m) => Apart(n, k) /\ Apart(k, n)
  BY TameFits, TameParts
<1>2. QED
  BY <1>1, PTL

LEMMA FitNext ==
  ASSUME NEW r \in Run, NEW k, run'[r] = k, Fit(k)'
  PROVE  Fit(run[r])'
BY DEF Fit, ShapeOf, BoundsOf, VersionsOf, TokensOf, SoundOf, ReportedOf, Authorised, Live,
       Concluded, Unverified

LEMMA ApartNext ==
  ASSUME NEW r \in Run, NEW q \in Run, NEW k, NEW l, run'[r] = k, run'[q] = l, Apart(k, l)'
  PROVE  Apart(run[r], run[q])'
BY DEF Apart, Unrelied, Shaken, Concluded, Authorised, Live

\* A step of a run, from what it leaves of the stacks and of the memories.
LEMMA RunStep ==
  ASSUME IInv, NEW r \in Run, NEW m, m = run[r], NEW n \in Memory, Become(r, n),
         StacksOK', Worse, Fit(n)',
         \A k \in Memory : Fit(k) /\ Apart(m, k) /\ Apart(k, m) =>
           /\ Fit(k)' /\ (OneLost' /\ Shaken(k)' => Shaken(k))
           /\ Apart(n, k)' /\ Apart(k, n)',
         Quietly' => \A s \in Stack : admin'[s] # 0 =>
           \/ n.slug = s /\ n.adm = admin'[s]
           \/ admin'[s] = admin[s] /\ ~(m.slug = s /\ m.adm = admin[s]),
         Quietly' /\ churn' = 0 => \A s \in Stack : token'[s] # 0 =>
           \/ Working(s)'
           \/ n.pc \in Minted /\ n.slug = s /\ n.key = token'[s]
           \/ /\ token'[s] = token[s] /\ (Working(s) => Working(s)')
              /\ ~(m.pc \in Minted /\ m.slug = s /\ m.key = token[s])
  PROVE  IInv'
<1>1. /\ run \in [Run -> Memory] /\ StacksOK /\ m \in Memory
      /\ \A q \in Run : Fit(run[q])
      /\ \A p, q \in Run : p # q => Apart(run[p], run[q])
  BY DEF IInv, TypeOK, StacksOK
<1>2. /\ run' = [run EXCEPT ![r] = n] /\ run' \in [Run -> Memory] /\ run'[r] = n
      /\ \A q \in Run : q # r => run'[q] = run[q]
  BY <1>1 DEF Become
<1>3. \A q \in Run : q # r =>
        /\ run[q] \in Memory /\ Fit(run[q]) /\ Apart(m, run[q]) /\ Apart(run[q], m)
  BY <1>1
<1>4. ASSUME NEW q \in Run PROVE Fit(run[q])'
  <2>1. CASE q = r
    BY <1>2, <2>1, FitNext
  <2>2. CASE q # r
    <3>1. PICK k : k = run[q]
      OBVIOUS
    <3>2. k \in Memory /\ Fit(k) /\ Apart(m, k) /\ Apart(k, m)
      BY <1>3, <2>2, <3>1
    <3>3. Fit(k)' /\ run'[q] = k
      BY <1>2, <2>2, <3>1, <3>2
    <3>4. QED
      BY <3>3, FitNext
  <2>3. QED
    BY <2>1, <2>2
<1>5. ASSUME NEW p \in Run, NEW q \in Run, p # q PROVE Apart(run[p], run[q])'
  <2>1. PICK k : k = run[p]
    OBVIOUS
  <2>2. PICK l : l = run[q]
    OBVIOUS
  <2>3. k \in Memory /\ l \in Memory /\ Fit(k) /\ Fit(l) /\ Apart(k, l)
    BY <1>1, <1>5, <2>1, <2>2
  <2>4. CASE p = r
    <3>1. run'[p] = n /\ run'[q] = l /\ Apart(m, l) /\ Apart(l, m)
      BY <1>2, <1>3, <1>5, <2>2, <2>4
    <3>2. Apart(n, l)'
      BY <2>3, <3>1
    <3>3. QED
      BY <3>1, <3>2, ApartNext
  <2>5. CASE q = r
    <3>1. run'[p] = k /\ run'[q] = n /\ Apart(m, k) /\ Apart(k, m)
      BY <1>2, <1>3, <1>5, <2>1, <2>5
    <3>2. Apart(k, n)'
      BY <2>3, <3>1
    <3>3. QED
      BY <3>1, <3>2, ApartNext
  <2>6. CASE p # r /\ q # r
    <3>1. run'[p] = k /\ run'[q] = l /\ Apart(m, k) /\ Apart(k, m)
      BY <1>2, <1>3, <2>1, <2>2, <2>6
    <3>2. OneLost' /\ Shaken(k)' => Shaken(k)
      BY <2>3, <3>1
    <3>3. Apart(k, l)'
      BY <2>3, <3>2 DEF Apart, Unrelied, Worse, Concluded
    <3>4. QED
      BY <3>1, <3>3, ApartNext
  <2>7. QED
    BY <2>4, <2>5, <2>6
<1>6. AdminsAccounted'
  <2>1. ASSUME Quietly', NEW s \in Stack, admin'[s] # 0
        PROVE  \E q \in Run : run'[q].slug = s /\ run'[q].adm = admin'[s]
    <3>1. CASE n.slug = s /\ n.adm = admin'[s]
      BY <1>2, <3>1
    <3>2. CASE admin'[s] = admin[s] /\ ~(m.slug = s /\ m.adm = admin[s])
      <4>1. PICK q \in Run : run[q].slug = s /\ run[q].adm = admin[s]
        BY <2>1, <3>2 DEF IInv, AdminsAccounted, Worse
      <4>2. run'[q] = run[q]
        BY <1>2, <3>2, <4>1
      <4>3. QED
        BY <3>2, <4>1, <4>2
    <3>3. QED
      BY <2>1, <3>1, <3>2
  <2>2. QED
    BY <2>1 DEF AdminsAccounted
<1>7. SecretsAccounted'
  <2>1. ASSUME Quietly', churn' = 0, NEW s \in Stack, token'[s] # 0
        PROVE  \/ Working(s)'
               \/ \E q \in Run : /\ run'[q].pc \in {"store", "revoke"}
                                 /\ run'[q].slug = s /\ run'[q].key = token'[s]
    <3>1. CASE n.pc \in Minted /\ n.slug = s /\ n.key = token'[s]
      BY <1>2, <3>1 DEF Minted
    <3>2. CASE /\ token'[s] = token[s] /\ (Working(s) => Working(s)')
               /\ ~(m.pc \in Minted /\ m.slug = s /\ m.key = token[s])
      <4>1. Quietly /\ churn = 0
        BY <2>1 DEF Worse, Untouched
      <4>2. CASE Working(s)
        BY <3>2, <4>2
      <4>3. CASE ~Working(s)
        <5>1. PICK q \in Run : /\ run[q].pc \in {"store", "revoke"}
                               /\ run[q].slug = s /\ run[q].key = token[s]
          BY <2>1, <3>2, <4>1, <4>3 DEF IInv, SecretsAccounted
        <5>2. run'[q] = run[q]
          BY <1>2, <3>2, <5>1 DEF Minted
        <5>3. QED
          BY <3>2, <5>1, <5>2
      <4>4. QED
        BY <4>2, <4>3
    <3>3. QED
      BY <2>1, <3>1, <3>2
  <2>2. QED
    BY <2>1 DEF SecretsAccounted
<1>8. TypeOK' /\ \A s \in Stack : (Kept(s) /\ Trusted(s))'
  BY <1>2 DEF TypeOK, StacksOK
<1>9. QED
  BY <1>4, <1>5, <1>6, <1>7, <1>8 DEF IInv

LEMMA TameStep ==
  ASSUME IInv, NEW r \in Run, NEW m, m = run[r], NEW n \in Memory, Become(r, n),
         StacksOK', Worse, Harmless, Tame(m, n)',
         Quietly' => \A s \in Stack : admin'[s] # 0 =>
           \/ n.slug = s /\ n.adm = admin'[s]
           \/ admin'[s] = admin[s] /\ ~(m.slug = s /\ m.adm = admin[s]),
         Quietly' /\ churn' = 0 => \A s \in Stack : token'[s] # 0 =>
           \/ Working(s)'
           \/ /\ token'[s] = token[s] /\ (Working(s) => Working(s)')
              /\ ~(m.pc \in Minted /\ m.slug = s /\ m.key = token[s])
  PROVE  IInv'
<1>1. m \in Memory /\ Fit(m)
  BY DEF IInv, TypeOK
<1>2. \A k \in Memory : Fit(k) /\ Apart(m, k) /\ Apart(k, m) =>
        Fit(k)' /\ (Shaken(k)' => Shaken(k)) /\ Apart(m, k)' /\ Apart(k, m)'
  <2>1. ASSUME NEW k \in Memory, NEW l \in Memory, Fit(k), Apart(k, l) PROVE Apart(k, l)'
    <3>1. Shaken(k)' => Shaken(k)
      BY <2>1 DEF Harmless
    <3>2. QED
      BY <2>1, <3>1 DEF Apart, Unrelied, Worse, Concluded
  <2>2. QED
    BY <1>1, <2>1 DEF Harmless
<1>3. Fit(m)'
  BY <1>1 DEF Harmless
<1>4. Fit(n)' /\ \A k \in Memory :
        Fit(k)' /\ Apart(m, k)' /\ Apart(k, m)' => Apart(n, k)' /\ Apart(k, n)'
  BY <1>1, <1>3, TameNext
<1>5. QED
  BY <1>2, <1>4, RunStep

LEMMA CalmIsNoWorse ==
  ASSUME Calm
  PROVE  Worse /\ (NoneLost => NoneLost') /\ UNCHANGED <<starts, churn, returned, trouble>>
BY DEF Calm, Worse, Untouched, NoneLost, OneLost, Quietly, Troubles

LEMMA TroubleIsWorse ==
  ASSUME StacksOK, NEW kind \in {"lost", "undeleted", "died"}, Trouble(kind),
         UNCHANGED <<starts, churn, returned>>
  PROVE  /\ Worse /\ ~Quietly'
         /\ trouble' \in [{"lost", "undeleted", "died"} -> Nat]
         /\ kind # "lost" => (NoneLost => NoneLost')
         /\ kind # "died" => (OneLost' => NoneLost)
         /\ kind = "undeleted" => (OneLost' => NoneLost')
         /\ kind = "lost" => ~NoneLost'
<1>1. /\ trouble \in [{"lost", "undeleted", "died"} -> Nat]
      /\ trouble' = [trouble EXCEPT ![kind] = trouble[kind] + 1]
  BY DEF StacksOK, Trouble
<1>2. /\ trouble' \in [{"lost", "undeleted", "died"} -> Nat]
      /\ \A x \in {"lost", "undeleted", "died"} :
           trouble'[x] = IF x = kind THEN trouble[x] + 1 ELSE trouble[x]
  BY <1>1
<1>3. /\ trouble.lost \in Nat /\ trouble.undeleted \in Nat /\ trouble.died \in Nat
      /\ trouble'.lost \in Nat /\ trouble'.undeleted \in Nat /\ trouble'.died \in Nat
      /\ trouble'.lost = IF kind = "lost" THEN trouble.lost + 1 ELSE trouble.lost
      /\ trouble'.undeleted = IF kind = "undeleted" THEN trouble.undeleted + 1
                              ELSE trouble.undeleted
      /\ trouble'.died = IF kind = "died" THEN trouble.died + 1 ELSE trouble.died
  BY <1>1, <1>2
<1>4. QED
  BY <1>2, <1>3 DEF Worse, Untouched, NoneLost, OneLost, Quietly, Troubles

\* A step that leaves the stacks alone.
LEMMA StillIsHarmless ==
  ASSUME StacksOK, UNCHANGED <<stacks, store, ids, churn, returned>>, Worse,
         starts' \in Nat, trouble' \in [{"lost", "undeleted", "died"} -> Nat]
  PROVE  StacksOK' /\ Harmless
<1>1. UNCHANGED <<estate, admin, reader, role, answered, token, store, ids, churn, returned>>
  BY DEF stacks
<1>2. \A s : Working(s)' = Working(s) /\ Provisioned(s)' = Provisioned(s)
  BY <1>1 DEF Working, Provisioned
<1>3. StacksOK'
  BY <1>1, <1>2 DEF StacksOK, Kept, Trusted, Worse
<1>4. ASSUME NEW k \in Memory, Fit(k) PROVE Fit(k)' /\ (Shaken(k)' => Shaken(k))
  <2>1. ShapeOf(k)' /\ BoundsOf(k)' /\ VersionsOf(k)'
    BY <1>1, <1>4 DEF Fit, ShapeOf, BoundsOf, VersionsOf, Authorised, Unverified, Worse
  <2>2. TokensOf(k)' /\ SoundOf(k)' /\ ReportedOf(k)'
    BY <1>1, <1>2, <1>4 DEF Fit, TokensOf, SoundOf, ReportedOf, Live, Concluded, Worse
  <2>3. QED
    BY <1>1, <2>1, <2>2 DEF Fit, Shaken, Authorised, Live
<1>5. QED
  BY <1>3, <1>4 DEF Harmless

LEMMA TameStays ==
  ASSUME UNCHANGED <<stacks, store, ids, churn, returned>>, Worse, NoneLost => NoneLost',
         NEW m, NEW n, Tame(m, n)
  PROVE  Tame(m, n)'
<1>1. UNCHANGED <<estate, admin, reader, role, answered, token, store, ids, churn, returned>>
  BY DEF stacks
<1>2. \A s : Working(s)' = Working(s) /\ Provisioned(s)' = Provisioned(s)
  BY <1>1 DEF Working, Provisioned
<1>3. ShapeOf(n)' /\ VersionsOf(n)'
  BY <1>1 DEF Tame, ShapeOf, VersionsOf, Authorised, Unverified
<1>4. QED
  BY <1>1, <1>2, <1>3 DEF Tame, Worse, Concluded, Engaged

\* A read, or a write that is refused.
LEMMA LocalStep ==
  ASSUME IInv, NEW r \in Run, NEW m, m = run[r], NEW n \in Memory, Local(r, n), Tame(m, n),
         Quietly => m.adm = 0 \/ admin[m.slug] # m.adm \/ (n.slug = m.slug /\ n.adm = m.adm),
         m.pc \notin Minted \/ token[m.slug] # m.key
  PROVE  IInv'
<1>1. StacksOK /\ m \in Memory
  BY DEF IInv, TypeOK, StacksOK
<1>2. Become(r, n) /\ UNCHANGED <<stacks, store, ids>> /\ Calm
  BY DEF Local, Quiet
<1>3. /\ Worse /\ (NoneLost => NoneLost') /\ UNCHANGED <<starts, churn, returned, trouble>>
  BY <1>2, CalmIsNoWorse
<1>4. starts' \in Nat /\ trouble' \in [{"lost", "undeleted", "died"} -> Nat]
  BY <1>1, <1>3 DEF StacksOK
<1>5. StacksOK' /\ Harmless /\ Tame(m, n)'
  BY <1>1, <1>2, <1>3, <1>4, StillIsHarmless, TameStays
<1>6. UNCHANGED <<admin, token, store>>
  BY <1>2 DEF stacks
<1>7. Quietly' => \A s \in Stack : admin'[s] # 0 =>
        \/ n.slug = s /\ n.adm = admin'[s]
        \/ admin'[s] = admin[s] /\ ~(m.slug = s /\ m.adm = admin[s])
  BY <1>3, <1>6 DEF Worse
<1>8. \A s \in Stack : token'[s] # 0 =>
        /\ token'[s] = token[s] /\ (Working(s) => Working(s)')
        /\ ~(m.pc \in Minted /\ m.slug = s /\ m.key = token[s])
  BY <1>6 DEF Working
<1>9. QED
  BY <1>2, <1>3, <1>5, <1>7, <1>8, TameStep

-----------------------------------------------------------------------------
(* Writes to the stacks that every memory can bear.                           *)

Onward ==
  /\ Worse /\ UNCHANGED <<churn, returned>> /\ starts' \in Nat
  /\ trouble' \in [{"lost", "undeleted", "died"} -> Nat]
  /\ ids' \in Nat /\ ids <= ids'

LEMMA CalmOnward ==
  ASSUME StacksOK, Calm, ids' = ids \/ ids' = ids + 1
  PROVE  Onward /\ (NoneLost => NoneLost')
<1>1. Worse /\ (NoneLost => NoneLost') /\ UNCHANGED <<starts, churn, returned, trouble>>
  BY CalmIsNoWorse
<1>2. QED
  BY <1>1 DEF Onward, StacksOK

LEMMA TroubleOnward ==
  ASSUME StacksOK, NEW kind \in {"lost", "undeleted", "died"}, Trouble(kind),
         UNCHANGED <<starts, churn, returned>>, ids' = ids \/ ids' = ids + 1
  PROVE  Onward /\ ~Quietly'
<1>1. Worse /\ ~Quietly' /\ trouble' \in [{"lost", "undeleted", "died"} -> Nat]
  BY TroubleIsWorse
<1>2. QED
  BY <1>1 DEF Onward, StacksOK

\* An administrator is deleted, or made under an id that nobody knows yet.
LEMMA AdminIsHarmless ==
  ASSUME StacksOK, NEW s \in Stack, NEW id \in Nat, SetAdmin(s, id), Onward,
         id # 0 => s \in estate /\ ids < id /\ id <= ids'
  PROVE  StacksOK' /\ Harmless
<1>1. /\ admin' = [admin EXCEPT ![s] = id]
      /\ UNCHANGED <<estate, reader, role, answered, token, store, churn, returned>>
  BY DEF SetAdmin, Onward
<1>2. \A x : Working(x)' = Working(x) /\ Provisioned(x)' = Provisioned(x)
  BY <1>1 DEF Working, Provisioned
<1>3. StacksOK'
  <2>1. \A x \in Stack : Kept(x)' /\ Trusted(x)'
    BY <1>1, <1>2 DEF StacksOK, Kept, Trusted, Onward, Worse, Account, Record
  <2>2. QED
    BY <1>1, <2>1 DEF StacksOK, Onward
<1>4. ASSUME NEW k \in Memory, Fit(k) PROVE Fit(k)' /\ (Shaken(k)' => Shaken(k))
  <2>1. k.adm \in Nat /\ k.key \in Nat /\ k.adm <= ids /\ k.key <= ids
    BY <1>4 DEF Fit, BoundsOf, Memory
  <2>2. Authorised(k)' => Authorised(k)
    <3>1. SUFFICES ASSUME Authorised(k)' PROVE Authorised(k)
      OBVIOUS
    <3>2. k.slug \in estate /\ k.adm # 0 /\ admin'[k.slug] = k.adm
      BY <1>1, <3>1 DEF Authorised
    <3>3. k.slug # s
      BY <1>1, <2>1, <3>2 DEF StacksOK
    <3>4. QED
      BY <1>1, <3>2, <3>3 DEF Authorised, StacksOK
  <2>3. ShapeOf(k)' /\ VersionsOf(k)'
    BY <1>1, <1>4, <2>2 DEF Fit, ShapeOf, VersionsOf, Unverified
  <2>4. BoundsOf(k)'
    BY <1>1, <1>4 DEF Fit, BoundsOf, Onward, Worse, Memory, Record, StacksOK
  <2>5. TokensOf(k)' /\ SoundOf(k)' /\ ReportedOf(k)'
    BY <1>1, <1>2, <1>4 DEF Fit, TokensOf, SoundOf, ReportedOf, Live, Concluded, Onward, Worse
  <2>6. QED
    BY <1>1, <2>2, <2>3, <2>4, <2>5 DEF Fit, Shaken, Live
<1>5. QED
  BY <1>3, <1>4 DEF Harmless

\* The role is made or replaced under a version that is newer, if that counts.
LEMMA RoleIsHarmless ==
  ASSUME StacksOK, NEW s \in estate, NEW version \in Nat, NEW pairs \in SUBSET Pair,
         SetRole(s, version, pairs), Onward,
         VersionChecked => version > role[s].version,
         "declared" \in pairs, "retired" \notin pairs, "dangerous" \notin pairs
  PROVE  StacksOK' /\ Harmless
<1>1. /\ role' = [role EXCEPT ![s] = [version |-> version, pairs |-> pairs]]
      /\ UNCHANGED <<estate, admin, reader, answered, token, store, churn, returned>>
  BY DEF SetRole, Onward
<1>2. s \in Stack /\ role'[s] = [version |-> version, pairs |-> pairs] /\ ~Drift(role'[s].pairs)
  BY <1>1 DEF StacksOK, Drift
<1>3. \A x : Working(x)' = Working(x)
  BY <1>1 DEF Working
<1>4. \A x \in Stack : Provisioned(x) => Provisioned(x)'
  BY <1>1, <1>2, <1>3 DEF Provisioned, StacksOK
<1>5. StacksOK'
  <2>1. [version |-> version, pairs |-> pairs] \in Role
    BY DEF Role
  <2>2. \A x \in Stack : Kept(x)'
    BY <1>1 DEF StacksOK, Kept, Onward, Account, Record
  <2>3. \A x \in Stack : Trusted(x)'
    BY <1>1, <1>2, <1>3 DEF StacksOK, Trusted, Onward, Worse
  <2>4. QED
    BY <1>1, <2>1, <2>2, <2>3 DEF StacksOK, Onward
<1>6. ASSUME NEW k \in Memory, Fit(k) PROVE Fit(k)' /\ (Shaken(k)' => Shaken(k))
  <2>1. Authorised(k)' = Authorised(k)
    BY <1>1 DEF Authorised
  <2>2. ShapeOf(k)'
    BY <1>6 DEF Fit, ShapeOf, Unverified
  <2>3. VersionsOf(k)'
    <3>1. SUFFICES ASSUME VersionChecked, Authorised(k) PROVE
            /\ k.pc \in {"read", "put"} => k.have.version <= role'[k.slug].version
            /\ k.pc = "put" /\ k.have.version = role'[k.slug].version =>
                 k.have.pairs = role'[k.slug].pairs
      BY <2>1 DEF VersionsOf
    <3>2. /\ k.pc \in {"read", "put"} => k.have.version <= role[k.slug].version
          /\ k.pc = "put" /\ k.have.version = role[k.slug].version =>
               k.have.pairs = role[k.slug].pairs
      BY <1>6, <3>1 DEF Fit, VersionsOf
    <3>3. k.slug \in Stack /\ k.have.version \in Nat /\ role[s].version \in Nat
      BY <1>2, <3>1 DEF Authorised, StacksOK, Memory, Role
    <3>4. CASE k.slug = s
      BY <1>2, <3>1, <3>2, <3>3, <3>4
    <3>5. CASE k.slug # s
      BY <1>1, <3>2, <3>3, <3>5 DEF StacksOK
    <3>6. QED
      BY <3>4, <3>5
  <2>4. BoundsOf(k)'
    BY <1>1, <1>6 DEF Fit, BoundsOf, Onward, Worse, Memory, Record, StacksOK
  <2>5. TokensOf(k)' /\ SoundOf(k)' /\ ReportedOf(k)'
    BY <1>1, <1>3, <1>4, <1>6 DEF Fit, TokensOf, SoundOf, ReportedOf, Live, Concluded, Onward, Worse
  <2>6. QED
    BY <1>1, <2>1, <2>2, <2>3, <2>4, <2>5 DEF Fit, Shaken, Live
<1>7. QED
  BY <1>5, <1>6 DEF Harmless

\* A reader's account is made, or set right.
LEMMA ReaderIsHarmless ==
  ASSUME StacksOK, NEW s \in estate, NEW account \in Account, SetReader(s, account), Onward,
         Untouched => account.basic = "None", account.id <= ids',
         reader[s] # None /\ reader[s].assigned => account.assigned
  PROVE  StacksOK' /\ Harmless
<1>1. /\ reader' = [reader EXCEPT ![s] = account]
      /\ UNCHANGED <<estate, admin, role, answered, token, store, churn, returned>>
  BY DEF SetReader, Onward
<1>2. s \in Stack /\ reader'[s] = account
  BY <1>1 DEF StacksOK
<1>3. \A x : Working(x)' = Working(x)
  BY <1>1 DEF Working
<1>4. account # None
  BY NoneAssumption
<1>5. OneLost => \A x \in Stack : Provisioned(x) => Provisioned(x)'
  BY <1>1, <1>2, <1>3, <1>4 DEF Provisioned, StacksOK, OneLost, Untouched
<1>6. StacksOK'
  <2>1. \A x \in Stack : Kept(x)'
    BY <1>1, <1>2 DEF StacksOK, Kept, Onward, Account, Record
  <2>2. \A x \in Stack : Trusted(x)'
    BY <1>1, <1>2, <1>3, <1>4 DEF StacksOK, Trusted, Onward, Worse
  <2>3. QED
    BY <1>1, <2>1, <2>2 DEF StacksOK, Onward
<1>7. ASSUME NEW k \in Memory, Fit(k) PROVE Fit(k)' /\ (Shaken(k)' => Shaken(k))
  <2>1. Authorised(k)' = Authorised(k)
    BY <1>1 DEF Authorised
  <2>2. ShapeOf(k)' /\ VersionsOf(k)'
    BY <1>1, <1>7, <2>1 DEF Fit, ShapeOf, VersionsOf, Unverified
  <2>3. BoundsOf(k)'
    BY <1>1, <1>7 DEF Fit, BoundsOf, Onward, Worse, Memory, Record, StacksOK
  <2>4. TokensOf(k)' /\ SoundOf(k)' /\ ReportedOf(k)'
    BY <1>1, <1>3, <1>5, <1>7 DEF Fit, TokensOf, SoundOf, ReportedOf, Live, Concluded, Onward, Worse
  <2>5. QED
    BY <1>1, <2>1, <2>2, <2>3, <2>4 DEF Fit, Shaken, Live
<1>8. QED
  BY <1>6, <1>7 DEF Harmless

\* A token is minted where there was none, under an id that nobody knows yet.
LEMMA MintIsHarmless ==
  ASSUME StacksOK, NEW s \in estate, SetToken(s, ids + 1), ids' = ids + 1, Onward, token[s] = 0
  PROVE  StacksOK' /\ Harmless
<1>1. /\ token' = [token EXCEPT ![s] = ids + 1]
      /\ UNCHANGED <<estate, admin, reader, role, answered, store, churn, returned>>
  BY DEF SetToken, Onward
<1>2. s \in Stack /\ token'[s] = ids + 1 /\ ids \in Nat /\ \A x \in Stack : x # s => token'[x] = token[x]
  BY <1>1 DEF StacksOK
<1>3. /\ \A x \in Stack : x # s => Working(x)' = Working(x) /\ Provisioned(x)' = Provisioned(x)
      /\ ~Working(s) /\ ~Provisioned(s)
  BY <1>1, <1>2 DEF Working, Provisioned
<1>4. StacksOK'
  <2>1. \A x \in Stack : Kept(x)'
    BY <1>1, <1>2 DEF StacksOK, Kept, Onward, Account, Record
  <2>2. \A x \in Stack : Trusted(x)'
    BY <1>1, <1>2, <1>3 DEF StacksOK, Trusted, Onward, Worse
  <2>3. QED
    BY <1>1, <2>1, <2>2 DEF StacksOK, Onward
<1>5. ASSUME NEW k \in Memory, Fit(k) PROVE Fit(k)' /\ (Shaken(k)' => Shaken(k))
  <2>1. Authorised(k)' = Authorised(k)
    BY <1>1 DEF Authorised
  <2>2. ShapeOf(k)' /\ VersionsOf(k)'
    BY <1>1, <1>5, <2>1 DEF Fit, ShapeOf, VersionsOf, Unverified
  <2>3. BoundsOf(k)'
    BY <1>1, <1>5 DEF Fit, BoundsOf, Onward, Worse, Memory, Record, StacksOK
  <2>4. /\ k.key \in Nat /\ k.key <= ids
        /\ \A x \in Stack : /\ k.stored[x] \in Record \cup {None} /\ k.final[x] \in Record \cup {None}
                            /\ k.stored[x] # None => k.stored[x].token <= ids
                            /\ k.final[x] # None => k.final[x].token <= ids
                            /\ store[x] \in Record \cup {None}
                            /\ store[x] # None => store[x].token <= ids
    BY <1>5 DEF Fit, BoundsOf, Memory, StacksOK, Kept
  <2>5. /\ ~Live(s, k.stored[s])' /\ ~Live(s, k.final[s])' /\ ~Live(s, store[s])'
        /\ \A x \in Stack : x # s => /\ Live(x, k.stored[x])' = Live(x, k.stored[x])
                                     /\ Live(x, k.final[x])' = Live(x, k.final[x])
                                     /\ Live(x, store[x])' = Live(x, store[x])
    BY <1>1, <1>2, <2>4 DEF Live, HasSecret, Record
  <2>6. k.pc \in Minted \cup {"verify"} => k.slug \in Stack
    BY <1>5 DEF Fit, ShapeOf, AtStack, Repairing, Minted, Memory
  <2>7. TokensOf(k)'
    <3>1. SUFFICES ASSUME Untouched
                   PROVE  /\ k.pc \in Minted => token'[k.slug] = k.key
                          /\ k.pc = "store" => ~Live(k.slug, store[k.slug])'
                          /\ k.pc = "verify" /\ k.key # 0 /\ token'[k.slug] = k.key => Working(k.slug)'
                          /\ \A x \in Stack : Live(x, k.stored[x])' \/ Live(x, k.final[x])' => Working(x)'
      BY <1>1 DEF TokensOf, Onward, Worse, Live
    <3>2. k.pc \in Minted => k.slug # s
      BY <1>2, <1>5, <3>1 DEF Fit, ShapeOf, TokensOf
    <3>3. QED
      BY <1>2, <1>3, <1>5, <2>4, <2>5, <2>6, <3>1, <3>2 DEF Fit, TokensOf, Minted
  <2>8. SoundOf(k)' /\ ReportedOf(k)'
    BY <1>1, <1>2, <1>3, <1>5, <2>6 DEF Fit, SoundOf, ReportedOf, Concluded, Onward, Worse, Minted
  <2>9. Shaken(k)' => Shaken(k)
    BY <1>1, <2>1, <2>5 DEF Shaken, Authorised, Live, StacksOK
  <2>10. QED
    BY <2>2, <2>3, <2>7, <2>8, <2>9 DEF Fit
<1>6. QED
  BY <1>4, <1>5 DEF Harmless

\* What is answered catches up.
LEMMA AnswersAreHarmless ==
  ASSUME StacksOK, NEW s \in Stack, answered' = [answered EXCEPT ![s] = Effective(s)],
         UNCHANGED <<estate, admin, reader, role, token, store, ids>>, Onward
  PROVE  StacksOK' /\ Harmless
<1>1. \A x : Working(x)' = Working(x) /\ Provisioned(x)' = Provisioned(x)
  BY DEF Working, Provisioned
<1>2. Effective(s) \in SUBSET Pair
  BY DEF Effective, StacksOK, Role
<1>3. StacksOK'
  <2>1. \A x \in Stack : Kept(x)' /\ Trusted(x)'
    BY <1>1 DEF StacksOK, Kept, Trusted, Effective, Onward, Worse
  <2>2. QED
    BY <1>2, <2>1 DEF StacksOK, Onward
<1>4. ASSUME NEW k \in Memory, Fit(k) PROVE Fit(k)' /\ (Shaken(k)' => Shaken(k))
  <2>1. ShapeOf(k)' /\ BoundsOf(k)' /\ VersionsOf(k)'
    BY <1>4 DEF Fit, ShapeOf, BoundsOf, VersionsOf, Authorised, Unverified, Worse, Onward
  <2>2. TokensOf(k)' /\ SoundOf(k)' /\ ReportedOf(k)'
    BY <1>1, <1>4 DEF Fit, TokensOf, SoundOf, ReportedOf, Live, Concluded, Worse, Onward
  <2>3. QED
    BY <2>1, <2>2 DEF Fit, Shaken, Authorised, Live
<1>5. QED
  BY <1>3, <1>4 DEF Harmless

\* The parameter of a stack that is not there is deleted.
LEMMA PruneIsHarmless ==
  ASSUME StacksOK, NEW s \in Stack, SetStore(s, None), Onward, Untouched => s \notin estate
  PROVE  StacksOK' /\ Harmless
<1>1. /\ store' = [store EXCEPT ![s] = None]
      /\ UNCHANGED <<estate, admin, reader, role, answered, token, churn, returned>>
  BY DEF SetStore, stacks, Onward
<1>2. store'[s] = None /\ \A x \in Stack : x # s => store'[x] = store[x]
  BY <1>1 DEF StacksOK
<1>3. /\ \A x \in Stack : x # s => Working(x)' = Working(x) /\ Provisioned(x)' = Provisioned(x)
      /\ Untouched => token[s] = 0 /\ ~Working(s) /\ ~Provisioned(s)
  BY <1>1, <1>2 DEF Working, Provisioned, StacksOK, Kept
<1>4. StacksOK'
  <2>1. \A x \in Stack : Kept(x)'
    BY <1>1, <1>2 DEF StacksOK, Kept, Onward, Account, Record
  <2>2. \A x \in Stack : Trusted(x)'
    BY <1>1, <1>2, <1>3 DEF StacksOK, Trusted, Onward, Worse, HasSecret
  <2>3. QED
    BY <1>1, <2>1, <2>2 DEF StacksOK, Onward
<1>5. ASSUME NEW k \in Memory, Fit(k) PROVE Fit(k)' /\ (Shaken(k)' => Shaken(k))
  <2>1. Authorised(k)' = Authorised(k)
    BY <1>1 DEF Authorised
  <2>2. ShapeOf(k)' /\ VersionsOf(k)'
    BY <1>1, <1>5, <2>1 DEF Fit, ShapeOf, VersionsOf, Unverified
  <2>3. BoundsOf(k)'
    BY <1>1, <1>5 DEF Fit, BoundsOf, Onward, Worse, Memory, Record, StacksOK
  <2>4. k.pc \in Minted \cup {"verify"} => k.slug \in Stack
    BY <1>5 DEF Fit, ShapeOf, AtStack, Repairing, Minted, Memory
  <2>5. /\ k.pc \in Minted => (HasSecret(store[k.slug])' => HasSecret(store[k.slug]))
        /\ k.pc \in Minted => (Live(k.slug, store[k.slug])' => Live(k.slug, store[k.slug]))
    BY <1>1, <1>2, <2>4 DEF HasSecret, Live
  <2>6. \A x \in Stack : Live(x, k.stored[x]) \/ Live(x, k.final[x]) => token[x] # 0
    BY DEF Live, HasSecret
  <2>7. TokensOf(k)'
    <3>1. SUFFICES ASSUME Untouched
                   PROVE  /\ k.pc \in Minted => token[k.slug] = k.key
                          /\ k.pc = "store" => ~Live(k.slug, store[k.slug])'
                          /\ k.pc = "verify" /\ k.key # 0 /\ token[k.slug] = k.key => Working(k.slug)'
                          /\ \A x \in Stack : Live(x, k.stored[x]) \/ Live(x, k.final[x]) => Working(x)'
      BY <1>1 DEF TokensOf, Onward, Worse, Live
    <3>2. QED
      BY <1>3, <1>5, <2>4, <2>5, <2>6, <3>1 DEF Fit, TokensOf, Minted
  <2>8. SoundOf(k)'
    BY <1>1, <1>3, <1>5, <2>4, <2>5 DEF Fit, SoundOf, Concluded, Onward, Worse, Minted, NoneLost, Untouched, HasSecret
  <2>9. ReportedOf(k)'
    BY <1>1, <1>3, <1>5 DEF Fit, ReportedOf, Concluded, Onward, Worse, OneLost, Untouched
  <2>10. Shaken(k)' => Shaken(k)
    BY <1>1, <2>1, <2>5 DEF Shaken, Minted, Authorised, Live, HasSecret
  <2>11. QED
    BY <2>2, <2>3, <2>7, <2>8, <2>9, <2>10 DEF Fit
<1>6. QED
  BY <1>4, <1>5 DEF Harmless

-----------------------------------------------------------------------------
(* One step of a run at a time.                                               *)

LEMMA RunIs ==
  ASSUME IInv, NEW r \in Run, NEW m, m = run[r]
  PROVE  /\ StacksOK /\ m \in Memory /\ Fit(m)
         /\ \A s \in Stack : Kept(s) /\ Trusted(s)
BY DEF IInv, TypeOK, StacksOK

LEMMA PlaceIs ==
  ASSUME NEW m \in Memory, Fit(m), m.pc \in AtStack
  PROVE  /\ m.slug \in Stack \ Skipped /\ m.slug \in m.todo /\ m.slug # None
         /\ m.todo \subseteq m.inventory /\ m.verdict[m.slug] = "none"
         /\ (m.pc \in Repairing => m.adm # 0) /\ (m.pc \notin Repairing => m.adm = 0)
BY StackAssumption DEF Fit, ShapeOf, Memory

\* A memory that vouches for nothing new, and stays with its stack or leaves it.
Mild(m, n) ==
  /\ m.pc # "idle" /\ n.pc \notin Minted \cup {"verify"}
  /\ n.inventory = m.inventory /\ n.stored = m.stored
  /\ n.final \in {m.final, Nothing}
  /\ n.slug # None => n.slug = m.slug /\ m.pc # "sweep"
  /\ \A s \in Stack \ Skipped :
       /\ Concluded(n, s, Held) => Concluded(m, s, Held)
       /\ Concluded(n, s, {"ok"}) => Concluded(m, s, {"ok"})

LEMMA MildIsTame ==
  ASSUME NEW m, NEW n, Mild(m, n), ShapeOf(n), VersionsOf(n), n.adm <= ids, n.key <= ids
  PROVE  Tame(m, n)
BY DEF Mild, Tame

LEMMA MildNext ==
  ASSUME NEW m, NEW n, Mild(m, n), ShapeOf(n), VersionsOf(n)', n.adm <= ids', n.key <= ids'
  PROVE  Tame(m, n)'
<1>1. ShapeOf(n)'
  BY DEF ShapeOf, Unverified
<1>2. Mild(m, n)'
  BY DEF Mild, Concluded
<1>3. QED
  BY <1>1, <1>2 DEF Mild, Tame

\* A write whose effect is harmless, and leaves tokens and secrets alone.
LEMMA MildStep ==
  ASSUME IInv, NEW r \in Run, NEW m, m = run[r], NEW n \in Memory, Become(r, n),
         StacksOK', Onward, Harmless, Mild(m, n), ShapeOf(n), VersionsOf(n)',
         n.adm <= ids', n.key <= ids', UNCHANGED <<token, store>>,
         m.pc \notin Minted,
         Quietly' => \A s \in Stack : admin'[s] # 0 =>
           \/ n.slug = s /\ n.adm = admin'[s]
           \/ admin'[s] = admin[s] /\ ~(m.slug = s /\ m.adm = admin[s])
  PROVE  IInv'
<1>1. Tame(m, n)' /\ Worse
  BY MildNext DEF Onward
<1>2. \A s \in Stack : Working(s)' = Working(s)
  BY DEF Working
<1>3. QED
  BY <1>1, <1>2, TameStep

\* The memory after a repair that gave up, and after one whose stack is done.
LEMMA GivingUp ==
  ASSUME NEW m \in Memory, Fit(m), m.pc \in Repairing, NEW out \in Verdict
  PROVE  LET n == Finally(m, out) IN
         /\ n \in Memory /\ ShapeOf(n) /\ VersionsOf(n) /\ VersionsOf(n)'
         /\ out \notin Held => Mild(m, n)
         /\ n.slug = m.slug /\ n.adm = m.adm /\ n.key = 0
         /\ Soiled(n) \in Memory /\ ShapeOf(Soiled(n)) /\ VersionsOf(Soiled(n))
         /\ VersionsOf(Soiled(n))'
         /\ out \notin Held => Mild(m, Soiled(n))
         /\ Soiled(n).slug = m.slug /\ Soiled(n).adm = m.adm /\ Soiled(n).key = 0
<1> DEFINE n == Finally(m, out)
<1>1. n \in Memory /\ n.pc = "cleanup" /\ n.todo = m.todo /\ n.slug = m.slug
      /\ n.verdict = m.verdict /\ n.adm = m.adm /\ n.key = 0 /\ n.out = out
      /\ Tour(n) = Tour(m) /\ n.clean = m.clean
  BY FinallyIs
<1> HIDE DEF n
<1>2. Soiled(n) \in Memory /\ Soiled(n).pc = "cleanup" /\ Soiled(n).todo = m.todo
      /\ Soiled(n).slug = m.slug /\ Soiled(n).verdict = m.verdict /\ Soiled(n).adm = m.adm
      /\ Soiled(n).key = 0 /\ Soiled(n).out = out /\ Tour(Soiled(n)) = Tour(m)
      /\ ~Soiled(n).clean
  BY <1>1, SoiledIs
<1>3. ASSUME NEW k \in Memory, k.pc = "cleanup", k.todo = m.todo, k.slug = m.slug,
             k.verdict = m.verdict, k.adm = m.adm, k.key = 0, k.out = out, Tour(k) = Tour(m)
      PROVE  /\ ShapeOf(k) /\ VersionsOf(k) /\ VersionsOf(k)'
             /\ out \notin Held => Mild(m, k)
  <2>1. k.inventory = m.inventory /\ k.stored = m.stored /\ k.final = m.final
    BY <1>3 DEF Tour
  <2>2. ShapeOf(k)
    BY <1>3, <2>1 DEF Fit, ShapeOf, AtStack, Repairing, Minted
  <2>3. VersionsOf(k) /\ VersionsOf(k)'
    BY <1>3 DEF VersionsOf
  <2>4. out \notin Held => Mild(m, k)
    BY <1>3, <2>1 DEF Mild, Concluded, Minted, Repairing, Held
  <2>5. QED
    BY <2>2, <2>3, <2>4
<1>4. QED
  BY <1>1, <1>2, <1>3 DEF n

LEMMA Concluding ==
  ASSUME NEW m \in Memory, Fit(m), m.pc \in AtStack, NEW verdict \in Verdict
  PROVE  LET n == Conclude(m, verdict) IN
         /\ n \in Memory /\ ShapeOf(n) /\ VersionsOf(n) /\ VersionsOf(n)'
         /\ verdict \notin Held \/ (m.pc = "cleanup" /\ verdict = m.out) => Mild(m, n)
         /\ n.slug = None /\ n.adm = 0 /\ n.key = 0
         /\ Soiled(n) \in Memory /\ ShapeOf(Soiled(n)) /\ VersionsOf(Soiled(n))
         /\ VersionsOf(Soiled(n))'
         /\ verdict \notin Held => Mild(m, Soiled(n))
         /\ Soiled(n).slug = None /\ Soiled(n).adm = 0 /\ Soiled(n).key = 0
<1> DEFINE n == Conclude(m, verdict)
<1>1. m.slug \in Stack /\ m.slug # None
  BY StackAssumption DEF Fit, ShapeOf, Memory
<1>2. n \in Memory /\ n.pc = "next" /\ n.todo = m.todo \ {m.slug} /\ n.slug = None
      /\ n.verdict = [m.verdict EXCEPT ![m.slug] = verdict] /\ n.adm = 0 /\ n.key = 0
      /\ Tour(n) = Tour(m)
  BY <1>1, ConcludeIs
<1> HIDE DEF n
<1>3. Soiled(n) \in Memory /\ Soiled(n).pc = "next" /\ Soiled(n).todo = m.todo \ {m.slug}
      /\ Soiled(n).slug = None /\ Soiled(n).verdict = [m.verdict EXCEPT ![m.slug] = verdict]
      /\ Soiled(n).adm = 0 /\ Soiled(n).key = 0 /\ Tour(Soiled(n)) = Tour(m)
  BY <1>2, SoiledIs
<1>4. ASSUME NEW k \in Memory, k.pc = "next", k.todo = m.todo \ {m.slug}, k.slug = None,
             k.verdict = [m.verdict EXCEPT ![m.slug] = verdict], k.adm = 0,
             Tour(k) = Tour(m)
      PROVE  /\ ShapeOf(k) /\ VersionsOf(k) /\ VersionsOf(k)'
             /\ verdict \notin Held \/ (m.pc = "cleanup" /\ verdict = m.out) => Mild(m, k)
  <2>1. k.inventory = m.inventory /\ k.stored = m.stored /\ k.final = m.final
    BY <1>4 DEF Tour
  <2>2. m.verdict \in [Stack -> Verdict]
    BY DEF Memory
  <2>3. ShapeOf(k)
    BY <1>1, <1>4, <2>1, <2>2 DEF Fit, ShapeOf, AtStack, Repairing, Minted, Memory
  <2>4. VersionsOf(k) /\ VersionsOf(k)'
    BY <1>4 DEF VersionsOf
  <2>5. verdict \notin Held \/ (m.pc = "cleanup" /\ verdict = m.out) => Mild(m, k)
    BY <1>1, <1>4, <2>1, <2>2 DEF Mild, Concluded, Minted, Repairing, AtStack, Held
  <2>6. QED
    BY <2>3, <2>4, <2>5
<1>5. QED
  BY <1>2, <1>3, <1>4 DEF n

LEMMA StartKeeps ==
  ASSUME IInv, NEW r \in Run, Start(r)
  PROVE  IInv'
<1>1. PICK m : m = run[r]
  OBVIOUS
<1>2. StacksOK /\ m \in Memory /\ Fit(m) /\ m.pc = "idle"
  BY <1>1, RunIs DEF Start
<1>3. PICK c \in BOOLEAN : Become(r, [Idle EXCEPT !.pc = "load", !.inventory = estate,
             !.todo = estate, !.clean = c, !.birth = starts + 1, !.era = churn])
  BY DEF Start
<1>4. PICK n : n = [Idle EXCEPT !.pc = "load", !.inventory = estate, !.todo = estate,
                      !.clean = c, !.birth = starts + 1, !.era = churn]
  OBVIOUS
<1>5. /\ n \in Memory /\ n.pc = "load" /\ n.inventory = estate /\ n.todo = estate
      /\ n.slug = None /\ n.adm = 0 /\ n.key = 0 /\ n.stored = Nothing /\ n.final = Nothing
      /\ n.out = "none" /\ \A s \in Stack : n.verdict[s] = "none"
  <2> DEFINE a == [Idle EXCEPT !.pc = "load", !.inventory = estate, !.todo = estate]
  <2>1. a \in Memory
    BY <1>2, IdleIs, Updates DEF StacksOK, Phase
  <2>2. n = [a EXCEPT !.clean = c, !.birth = starts + 1, !.era = churn]
    BY <1>4
  <2> HIDE DEF a
  <2>3. starts + 1 \in Nat /\ churn \in Nat
    BY <1>2 DEF StacksOK
  <2>4. [a EXCEPT !.clean = c, !.birth = starts + 1] \in Memory
    BY <2>1, <2>3, Updates
  <2>5. n \in Memory
    BY <2>2, <2>3, <2>4, Updates
  <2>6. QED
    BY <1>4, <2>5, IdleIs DEF Memory
<1>6. UNCHANGED <<stacks, store, ids, trouble, churn, returned>> /\ starts' = starts + 1
  BY DEF Start
<1>7. Worse /\ (NoneLost => NoneLost')
  BY <1>6 DEF Worse, Untouched, NoneLost, OneLost, Quietly, Troubles
<1>8. StacksOK' /\ Harmless
  <2>1. starts' \in Nat /\ trouble' \in [{"lost", "undeleted", "died"} -> Nat]
    BY <1>2, <1>6 DEF StacksOK
  <2>2. QED
    BY <1>2, <1>6, <1>7, <2>1, StillIsHarmless
<1>9. Tame(m, n)
  <2>1. ShapeOf(n) /\ VersionsOf(n)
    BY <1>2, <1>5 DEF ShapeOf, VersionsOf, AtStack, Repairing, Minted, StacksOK
  <2>2. \A s \in Stack : ~Concluded(n, s, Held) /\ ~Concluded(n, s, {"ok"})
    BY <1>5 DEF Concluded, Held
  <2>3. QED
    BY <1>2, <1>5, <2>1, <2>2 DEF Tame, Minted, StacksOK
<1>10. Tame(m, n)'
  BY <1>6, <1>7, <1>9, TameStays
<1>11. UNCHANGED <<admin, token, store>>
  BY <1>6 DEF stacks
<1>12. m.adm = 0 /\ \A s : Working(s)' = Working(s)
  BY <1>2, <1>11 DEF Working, Fit, ShapeOf, Repairing
<1>13. Become(r, n)
  BY <1>3, <1>4
<1>14. m.pc \notin Minted
  BY <1>2 DEF Minted
<1>15. QED
  BY <1>1, <1>5, <1>7, <1>8, <1>10, <1>11, <1>12, <1>13, <1>14, TameStep

LEMMA LoadKeeps ==
  ASSUME IInv, NEW r \in Run, Load(r)
  PROVE  IInv'
<1>1. PICK m : m = run[r]
  OBVIOUS
<1>2. StacksOK /\ m \in Memory /\ Fit(m) /\ m.pc = "load" /\ m.adm = 0 /\ m.slug = None
  BY <1>1, RunIs DEF Load, Fit, ShapeOf, Repairing, AtStack
<1>3. CASE Local(r, [m EXCEPT !.pc = "next", !.stored = store])
  <2>1. PICK n : n = [m EXCEPT !.pc = "next", !.stored = store]
    OBVIOUS
  <2>2. n \in Memory
    BY <1>2, <2>1, Updates DEF StacksOK, Phase
  <2>3. /\ n.pc = "next" /\ n.stored = store /\ n.slug = None /\ n.adm = m.adm /\ n.key = m.key
        /\ n.todo = m.todo /\ n.inventory = m.inventory /\ n.verdict = m.verdict
        /\ n.final = m.final /\ n.out = m.out
    BY <1>2, <2>1 DEF Memory
  <2>4. Tame(m, n)
    BY <1>2, <2>3 DEF Tame, Fit, ShapeOf, VersionsOf, BoundsOf, Concluded, AtStack, Repairing, Minted
  <2>5. QED
    BY <1>1, <1>2, <1>3, <2>1, <2>2, <2>4, LocalStep DEF Minted
<1>4. CASE Local(r, Idle)
  <2>1. Tame(m, Idle)
    BY <1>2, IdleIs DEF Tame, ShapeOf, VersionsOf, Concluded, AtStack, Repairing, Minted, Held, StacksOK
  <2>2. QED
    BY <1>1, <1>2, <1>4, <2>1, IdleIs, LocalStep DEF Minted
<1>5. QED
  BY <1>1, <1>3, <1>4 DEF Load

LEMMA NextStackKeeps ==
  ASSUME IInv, NEW r \in Run, NextStack(r)
  PROVE  IInv'
<1>1. PICK m : m = run[r]
  OBVIOUS
<1>2. StacksOK /\ m \in Memory /\ Fit(m) /\ m.pc = "next" /\ m.adm = 0 /\ m.slug = None
  BY <1>1, RunIs DEF NextStack, Fit, ShapeOf, Repairing, AtStack
<1>3. PICK s \in m.todo :
        \/ s \in Skipped /\ Local(r, [m EXCEPT !.todo = @ \ {s}])
        \/ s \notin Skipped /\ s \in estate
           /\ Local(r, [m EXCEPT !.pc = IF admin[s] # 0 THEN "sweep" ELSE "probe",
                                 !.slug = s, !.sas = List(s)])
        \/ s \notin Skipped
           /\ Local(r, Soiled(Conclude([m EXCEPT !.slug = s], "failed")))
  BY <1>1 DEF NextStack
<1>4. s \in Stack /\ s # None /\ m.verdict[s] = "none" /\ m.todo \subseteq m.inventory
  BY <1>2, StackAssumption DEF Memory, Fit, ShapeOf
<1>5. CASE Local(r, [m EXCEPT !.todo = @ \ {s}])
  <2>1. PICK n : n = [m EXCEPT !.todo = @ \ {s}]
    OBVIOUS
  <2>2. m.todo \ {s} \in SUBSET Stack
    BY <1>2 DEF Memory
  <2>3. n \in Memory
    BY <1>2, <2>1, <2>2, Updates
  <2>4. /\ n.pc = "next" /\ n.stored = m.stored /\ n.slug = None /\ n.adm = m.adm /\ n.key = m.key
        /\ n.todo = m.todo \ {s} /\ n.inventory = m.inventory /\ n.verdict = m.verdict
        /\ n.final = m.final /\ n.out = m.out
    BY <1>2, <2>1 DEF Memory
  <2>5. Tame(m, n)
    BY <1>2, <2>4 DEF Tame, Fit, ShapeOf, VersionsOf, BoundsOf, Concluded, AtStack, Repairing, Minted
  <2>6. QED
    BY <1>1, <1>2, <1>5, <2>1, <2>3, <2>5, LocalStep DEF Minted
<1>6. CASE s \notin Skipped /\ s \in estate
           /\ Local(r, [m EXCEPT !.pc = IF admin[s] # 0 THEN "sweep" ELSE "probe",
                                 !.slug = s, !.sas = List(s)])
  <2>1. PICK n : n = [m EXCEPT !.pc = IF admin[s] # 0 THEN "sweep" ELSE "probe",
                               !.slug = s, !.sas = List(s)]
    OBVIOUS
  <2>2. List(s) \in Listing /\ List(s).admin = admin[s]
    BY <1>2, <1>4, NoneAssumption DEF List, Listing, Seen, StacksOK, Account
  <2>3. n \in Memory
    BY <1>2, <1>4, <2>1, <2>2, Updates DEF Phase
  <2>4. /\ n.pc = (IF admin[s] # 0 THEN "sweep" ELSE "probe") /\ n.stored = m.stored
        /\ n.slug = s /\ n.adm = m.adm /\ n.key = m.key /\ n.sas.admin = admin[s]
        /\ n.todo = m.todo /\ n.inventory = m.inventory /\ n.verdict = m.verdict
        /\ n.final = m.final /\ n.out = m.out
    BY <1>2, <2>1, <2>2 DEF Memory
  <2>5. ShapeOf(n) /\ VersionsOf(n)
    BY <1>2, <1>4, <1>6, <2>4 DEF Fit, ShapeOf, VersionsOf, AtStack, Repairing, Minted
  <2>6. Tame(m, n)
    BY <1>2, <1>4, <2>4, <2>5 DEF Tame, Fit, BoundsOf, Concluded, Minted
  <2>7. QED
    BY <1>1, <1>2, <1>6, <2>1, <2>3, <2>6, LocalStep DEF Minted
<1>7. CASE s \notin Skipped /\ Local(r, Soiled(Conclude([m EXCEPT !.slug = s], "failed")))
  <2>1. PICK l : l = [m EXCEPT !.slug = s]
    OBVIOUS
  <2>2. /\ l \in Memory
        /\ l.slug = s /\ l.pc = "next" /\ l.todo = m.todo /\ l.verdict = m.verdict
        /\ l.inventory = m.inventory /\ l.stored = m.stored /\ l.final = m.final
    <3>1. l \in Memory
      BY <1>4, <2>1, <1>2, Updates
    <3>2. QED
      BY <1>2, <2>1, <3>1 DEF Memory
  <2>3. PICK n : n = Soiled(Conclude(l, "failed"))
    OBVIOUS
  <2>4. /\ n \in Memory /\ n.pc = "next" /\ n.todo = m.todo \ {s} /\ n.slug = None
        /\ n.verdict = [m.verdict EXCEPT ![s] = "failed"] /\ n.adm = 0 /\ n.key = 0
        /\ n.inventory = m.inventory /\ n.stored = m.stored /\ n.final = m.final
    <3>1. PICK k : k = Conclude(l, "failed")
      OBVIOUS
    <3>2. /\ k \in Memory /\ k.pc = "next" /\ k.todo = m.todo \ {s} /\ k.slug = None
          /\ k.verdict = [m.verdict EXCEPT ![s] = "failed"] /\ k.adm = 0 /\ k.key = 0
          /\ Tour(k) = Tour(l)
      <4>1. l.slug \in Stack /\ "failed" \in Verdict
        BY <1>4, <2>2 DEF Verdict
      <4>2. /\ k \in Memory /\ k.pc = "next" /\ k.todo = l.todo \ {l.slug} /\ k.slug = None
            /\ k.verdict = [l.verdict EXCEPT ![l.slug] = "failed"] /\ k.adm = 0 /\ k.key = 0
            /\ Tour(k) = Tour(l)
        BY <2>2, <3>1, <4>1, ConcludeIs
      <4>3. QED
        BY <2>2, <4>2
    <3>3. n = Soiled(k)
      BY <2>3, <3>1
    <3>4. QED
      BY <2>2, <3>2, <3>3, SoiledIs DEF Tour
  <2>5. m.verdict \in [Stack -> Verdict]
    BY <1>2 DEF Memory
  <2>6. ShapeOf(n) /\ VersionsOf(n)
    BY <1>2, <1>4, <2>4, <2>5 DEF Fit, ShapeOf, VersionsOf, AtStack, Repairing, Minted, Memory
  <2>7. Tame(m, n)
    BY <1>2, <1>4, <2>4, <2>5, <2>6 DEF Tame, StacksOK, Concluded, Minted, Held
  <2>8. QED
    BY <1>1, <1>2, <1>7, <2>1, <2>3, <2>4, <2>7, LocalStep DEF Minted
<1>8. QED
  BY <1>3, <1>5, <1>6, <1>7

LEMMA LocalMild ==
  ASSUME IInv, NEW r \in Run, NEW m, m = run[r], NEW n \in Memory, Local(r, n),
         Mild(m, n), ShapeOf(n), VersionsOf(n), n.adm \in {0, m.adm}, n.key \in {0, m.key},
         m.adm = 0 \/ admin[m.slug] # m.adm \/ (n.slug = m.slug /\ n.adm = m.adm),
         m.pc \notin Minted \/ token[m.slug] # m.key
  PROVE  IInv'
<1>1. StacksOK /\ m \in Memory /\ Fit(m)
  BY RunIs
<1>2. n.adm <= ids /\ n.key <= ids
  BY <1>1 DEF Fit, BoundsOf, StacksOK
<1>3. Tame(m, n)
  BY <1>2, MildIsTame
<1>4. QED
  BY <1>3, LocalStep

\* A run that stays at its stack and goes on with its repair.
Same(m, n) ==
  /\ n.slug = m.slug /\ n.todo = m.todo /\ n.verdict = m.verdict
  /\ n.adm = m.adm /\ Tour(n) = Tour(m)

LEMMA Moving ==
  ASSUME NEW m \in Memory, Fit(m), m.pc \in Repairing, NEW n \in Memory,
         n.pc \in Repairing \ (Minted \cup {"verify", "cleanup"}), Same(m, n),
         n.pc \in {"basic", "assign", "mint"} => n.sas.reader # None,
         n.pc = "put" => "dangerous" \notin n.have.pairs
  PROVE  ShapeOf(n) /\ Mild(m, n) /\ (n.pc \notin {"read", "put"} => VersionsOf(n) /\ VersionsOf(n)')
<1>1. n.inventory = m.inventory /\ n.stored = m.stored /\ n.final = m.final
  BY DEF Same, Tour
<1>2. ShapeOf(n)
  BY <1>1 DEF Same, Fit, ShapeOf, AtStack, Repairing, Minted
<1>3. Mild(m, n)
  BY <1>1 DEF Same, Mild, Concluded, Minted, Repairing
<1>4. n.pc \notin {"read", "put"} => VersionsOf(n) /\ VersionsOf(n)'
  BY DEF VersionsOf
<1>5. QED
  BY <1>2, <1>3, <1>4

LEMMA ReconciledIs ==
  ASSUME NEW m \in Memory, Fit(m), m.pc \in Repairing
  PROVE  LET n == Reconciled(m) IN
         /\ n \in Memory /\ ShapeOf(n) /\ Mild(m, n) /\ VersionsOf(n) /\ VersionsOf(n)'
         /\ n.slug = m.slug /\ n.adm = m.adm /\ n.key = m.key
<1>1. PICK n : n = Reconciled(m)
  OBVIOUS
<1>2. n = [m EXCEPT !.have = NoRole,
            !.pc = IF m.sas.reader = None THEN "reader"
                   ELSE IF m.sas.reader.basic # "None" THEN "basic" ELSE "assign"]
  BY <1>1 DEF Reconciled
<1>3. n \in Memory
  BY <1>2, Defaults, Updates DEF Phase
<1>4. /\ n.pc \in {"reader", "basic", "assign"} /\ (n.pc # "reader" => m.sas.reader # None)
      /\ n.sas = m.sas /\ n.key = m.key /\ Same(m, n)
  BY <1>2, <1>3 DEF Memory, Same, Tour
<1>5. QED
  BY <1>1, <1>3, <1>4, Moving DEF Repairing, Minted, Same

LEMMA SweepKeeps ==
  ASSUME IInv, NEW r \in Run, Sweep(r)
  PROVE  IInv'
<1>1. PICK m : m = run[r]
  OBVIOUS
<1>2. /\ StacksOK /\ m \in Memory /\ Fit(m) /\ m.pc = "sweep" /\ m.adm = 0
      /\ m.slug \in Stack \ Skipped /\ m.slug # None
  <2>1. StacksOK /\ m \in Memory /\ Fit(m)
    BY <1>1, RunIs
  <2>2. m.pc = "sweep"
    BY <1>1, <2>1 DEF Sweep, Memory
  <2>3. QED
    BY <2>1, <2>2, PlaceIs DEF AtStack, Repairing
<1>3. PICK l : l = [m EXCEPT !.ledger = @ \cup {m.sas.admin}]
  OBVIOUS
<1>4. l \in Memory
  <2>1. m.ledger \cup {m.sas.admin} \in SUBSET Nat
    BY <1>2 DEF Memory, Listing
  <2>2. QED
    BY <1>2, <1>3, <2>1, Updates
<1>5. /\ l.slug = m.slug /\ l.todo = m.todo /\ l.verdict = m.verdict /\ l.adm = m.adm
      /\ l.key = m.key /\ l.sas = m.sas /\ Tour(l) = Tour(m)
  BY <1>2, <1>3 DEF Memory, Tour
<1>6. PICK p : p = [l EXCEPT !.pc = "relist"]
  OBVIOUS
<1>7. PICK f : f = [l EXCEPT !.pc = "probe"]
  OBVIOUS
<1>8. Delete(r, admin[m.slug] = m.sas.admin, SetAdmin(m.slug, 0) /\ UNCHANGED ids, p, f)
  BY <1>1, <1>3, <1>5, <1>6, <1>7 DEF Sweep
<1>9. PICK g : g = Soiled(f)
  OBVIOUS
<1>10. p \in Memory /\ f \in Memory
  BY <1>4, <1>6, <1>7, Updates DEF Phase
<1>11. /\ p.pc = "relist" /\ Same(m, p) /\ p.key = m.key
       /\ f.pc = "probe" /\ Same(m, f) /\ f.key = m.key
  BY <1>4, <1>5, <1>6, <1>7, <1>10 DEF Memory, Same, Tour
<1>12. g \in Memory /\ g.pc = "probe" /\ Same(m, g) /\ g.key = m.key
  BY <1>9, <1>10, <1>11, SoiledIs DEF Same, Tour
<1>13. ASSUME NEW n \in Memory, n.pc \in {"relist", "probe"}, Same(m, n), n.key = m.key
       PROVE  /\ ShapeOf(n) /\ VersionsOf(n)
              /\ admin[m.slug] # m.sas.admin \/ admin[m.slug] = 0 \/ (OneLost => NoneLost)
                   => Tame(m, n)
  <2>1. n.inventory = m.inventory /\ n.stored = m.stored /\ n.final = m.final
    BY <1>13 DEF Same, Tour
  <2>2. ShapeOf(n) /\ VersionsOf(n)
    BY <1>2, <1>13, <2>1 DEF Same, Fit, ShapeOf, VersionsOf, AtStack, Repairing, Minted
  <2>3. \A s : /\ Concluded(n, s, Held) => Concluded(m, s, Held)
               /\ Concluded(n, s, {"ok"}) => Concluded(m, s, {"ok"})
    BY <1>13 DEF Same, Concluded
  <2>4. n.adm <= ids /\ n.key <= ids
    BY <1>2, <1>13 DEF Fit, BoundsOf, Same
  <2>5. n.slug = m.slug /\ m.pc # "idle" /\ n.pc \notin Minted \cup {"verify"}
    BY <1>2, <1>13 DEF Same, Minted
  <2>6. QED
    BY <2>1, <2>2, <2>3, <2>4, <2>5 DEF Tame
<1>14. \A n \in Memory :
         n.pc \in {"relist", "probe"} /\ Same(m, n) /\ n.key = m.key /\ StacksOK'
           /\ ids' >= ids
           /\ (admin'[m.slug] = 0 \/ (OneLost' => NoneLost')) => Tame(m, n)'
  <2>1. SUFFICES ASSUME NEW n \in Memory, n.pc \in {"relist", "probe"}, Same(m, n),
                        n.key = m.key, StacksOK', ids' >= ids,
                        admin'[m.slug] = 0 \/ (OneLost' => NoneLost')
                 PROVE  Tame(m, n)'
    OBVIOUS
  <2>2. n.inventory = m.inventory /\ n.stored = m.stored /\ n.final = m.final
    BY <2>1 DEF Same, Tour
  <2>3. ShapeOf(n)' /\ VersionsOf(n)'
    BY <1>2, <2>1, <2>2 DEF Same, Fit, ShapeOf, VersionsOf, AtStack, Repairing, Minted, Unverified
  <2>4. \A s : /\ Concluded(n, s, Held) => Concluded(m, s, Held)
               /\ Concluded(n, s, {"ok"}) => Concluded(m, s, {"ok"})
    BY <2>1 DEF Same, Concluded
  <2>5. n.adm \in Nat /\ n.key \in Nat /\ n.adm <= ids' /\ n.key <= ids'
    BY <1>2, <2>1 DEF Fit, BoundsOf, Same, Memory, StacksOK
  <2>6. n.slug = m.slug /\ m.pc # "idle" /\ n.pc \notin Minted \cup {"verify"}
    BY <1>2, <2>1 DEF Same, Minted
  <2>7. QED
    BY <2>1, <2>2, <2>3, <2>4, <2>5, <2>6 DEF Tame, Concluded
<1>15. m.pc \notin Minted
  BY <1>2 DEF Minted
<1>16. ASSUME SetAdmin(m.slug, 0), UNCHANGED ids, Onward,
              NEW n \in Memory, n.pc \in {"relist", "probe"}, Same(m, n), n.key = m.key,
              Become(r, n)
       PROVE  IInv'
  <2>1. StacksOK' /\ Harmless /\ Worse
    BY <1>2, <1>16, AdminIsHarmless DEF Onward
  <2>2. /\ admin' = [admin EXCEPT ![m.slug] = 0] /\ admin \in [Stack -> Nat]
        /\ UNCHANGED <<token, store>>
    BY <1>2, <1>16 DEF SetAdmin, StacksOK
  <2>3. \A s : Working(s)' = Working(s)
    BY <2>2 DEF Working
  <2>4. Tame(m, n)'
    BY <1>2, <1>14, <1>16, <2>1, <2>2 DEF StacksOK
  <2>5. \A s \in Stack : admin'[s] # 0 => admin'[s] = admin[s] /\ ~(m.slug = s /\ m.adm = admin[s])
    BY <1>2, <2>2
  <2>6. QED
    BY <1>1, <1>15, <1>16, <2>1, <2>2, <2>3, <2>4, <2>5, TameStep
<1>17. CASE SetAdmin(m.slug, 0) /\ UNCHANGED ids /\ Become(r, p) /\ Calm
  BY <1>2, <1>10, <1>11, <1>16, <1>17, CalmOnward
<1>18. CASE /\ SetAdmin(m.slug, 0) /\ UNCHANGED ids /\ Become(r, g)
            /\ Trouble("lost") /\ UNCHANGED <<starts, churn, returned>>
  BY <1>2, <1>12, <1>16, <1>18, TroubleOnward
<1>19. CASE /\ Become(r, g) /\ Trouble("undeleted")
            /\ UNCHANGED <<stacks, store, ids, starts, churn, returned>>
  <2>1. /\ Worse /\ ~Quietly' /\ trouble' \in [{"lost", "undeleted", "died"} -> Nat]
        /\ (OneLost' => NoneLost')
    BY <1>2, <1>19, TroubleIsWorse
  <2>2. StacksOK' /\ Harmless
    BY <1>2, <1>19, <2>1, StillIsHarmless DEF StacksOK
  <2>3. Tame(m, g)'
    BY <1>2, <1>12, <1>14, <1>19, <2>1, <2>2 DEF StacksOK
  <2>4. QED
    BY <1>1, <1>12, <1>19, <2>1, <2>2, <2>3, TameStep
<1>20. CASE admin[m.slug] # m.sas.admin /\ Local(r, f)
  <2>1. Tame(m, f)
    BY <1>10, <1>11, <1>13, <1>20
  <2>2. QED
    BY <1>1, <1>2, <1>10, <1>15, <1>20, <2>1, LocalStep
<1>21. QED
  BY <1>8, <1>9, <1>17, <1>18, <1>19, <1>20 DEF Delete

LEMMA ListIs ==
  ASSUME StacksOK, NEW s \in Stack
  PROVE  /\ List(s) \in Listing /\ List(s).admin = admin[s]
         /\ (List(s).reader = None) = (reader[s] = None)
         /\ reader[s] # None => List(s).reader.basic = reader[s].basic
<1>1. reader[s] # None => reader[s] \in Account
  BY DEF StacksOK
<1>2. reader[s] # None => [id |-> reader[s].id, basic |-> reader[s].basic] \in Seen
  BY <1>1 DEF Account, Seen
<1>3. QED
  BY <1>2, NoneAssumption DEF List, Listing, StacksOK

LEMMA RelistKeeps ==
  ASSUME IInv, NEW r \in Run, Relist(r)
  PROVE  IInv'
<1>1. PICK m : m = run[r]
  OBVIOUS
<1>2. StacksOK /\ m \in Memory /\ Fit(m)
  BY <1>1, RunIs
<1>3. /\ m.pc = "relist"
      /\ \/ Local(r, [m EXCEPT !.pc = "probe", !.sas = List(m.slug)])
         \/ Local(r, Soiled([m EXCEPT !.pc = "probe", !.sas = NoListing]))
  BY <1>1, <1>2 DEF Relist, Memory
<1>4. m.adm = 0 /\ m.slug \in Stack \ Skipped
  BY <1>2, <1>3, PlaceIs DEF AtStack, Repairing
<1>5. ASSUME NEW n \in Memory, n.pc = "probe", Same(m, n), n.key = m.key, Local(r, n)
      PROVE  IInv'
  <2>1. n.inventory = m.inventory /\ n.stored = m.stored /\ n.final = m.final
    BY <1>5 DEF Same, Tour
  <2>2. ShapeOf(n) /\ VersionsOf(n)
    BY <1>2, <1>3, <1>5, <2>1 DEF Same, Fit, ShapeOf, VersionsOf, AtStack, Repairing, Minted
  <2>3. Mild(m, n)
    BY <1>3, <1>5, <2>1 DEF Same, Mild, Concluded, Minted
  <2>4. QED
    BY <1>1, <1>3, <1>4, <1>5, <2>2, <2>3, LocalMild DEF Same, Minted
<1>6. ASSUME NEW sas \in Listing
      PROVE  /\ [m EXCEPT !.pc = "probe", !.sas = sas] \in Memory
             /\ [m EXCEPT !.pc = "probe", !.sas = sas].pc = "probe"
             /\ Same(m, [m EXCEPT !.pc = "probe", !.sas = sas])
             /\ [m EXCEPT !.pc = "probe", !.sas = sas].key = m.key
  <2>1. [m EXCEPT !.pc = "probe", !.sas = sas] \in Memory
    BY <1>2, Updates DEF Phase
  <2>2. QED
    BY <1>2, <2>1 DEF Same, Tour, Memory
<1>7. CASE Local(r, [m EXCEPT !.pc = "probe", !.sas = List(m.slug)])
  <2>1. List(m.slug) \in Listing
    BY <1>2, <1>4, ListIs
  <2>2. PICK n : n = [m EXCEPT !.pc = "probe", !.sas = List(m.slug)]
    OBVIOUS
  <2>3. QED
    BY <1>5, <1>6, <1>7, <2>1, <2>2
<1>8. CASE Local(r, Soiled([m EXCEPT !.pc = "probe", !.sas = NoListing]))
  <2>1. PICK k : k = [m EXCEPT !.pc = "probe", !.sas = NoListing]
    OBVIOUS
  <2>2. k \in Memory /\ k.pc = "probe" /\ Same(m, k) /\ k.key = m.key
    BY <1>6, <2>1, Defaults
  <2>3. Soiled(k) \in Memory /\ Soiled(k).pc = "probe" /\ Same(m, Soiled(k)) /\ Soiled(k).key = m.key
    BY <2>2, SoiledIs DEF Same, Tour
  <2>4. QED
    BY <1>5, <1>8, <2>1, <2>3
<1>9. QED
  BY <1>3, <1>7, <1>8

\* What a probe of a live token tells of a stack.
LEMMA AnswerIsTrue ==
  ASSUME StacksOK, NEW s \in Stack, NEW record, NEW seen,
         HasSecret(record), NEW status \in StatusOf(s, record.token),
         ~NeedsRepair(seen, TRUE, status, Answers(s, status)),
         Untouched /\ Live(s, record) => Working(s)
  PROVE  Untouched => Provisioned(s)
<1>1. SUFFICES ASSUME Untouched PROVE Provisioned(s)
  OBVIOUS
<1>2. status = "200" /\ ~Drift(answered[s])
  BY DEF NeedsRepair, Answers
<1>3. token[s] = record.token /\ s \in estate
  BY <1>2 DEF StatusOf
<1>4. Working(s)
  BY <1>1, <1>3 DEF Live
<1>5. Trusted(s)
  BY DEF StacksOK
<1>6. QED
  BY <1>1, <1>2, <1>4, <1>5 DEF Provisioned, Drift, Trusted, StacksOK, Role, Pair

LEMMA ProbeKeeps ==
  ASSUME IInv, NEW r \in Run, Probe(r)
  PROVE  IInv'
<1>1. PICK m : m = run[r]
  OBVIOUS
<1>2. StacksOK /\ m \in Memory /\ Fit(m)
  BY <1>1, RunIs
<1>3. PICK secret : secret = HasSecret(m.stored[m.slug])
  OBVIOUS
<1>4. PICK status \in IF secret THEN StatusOf(m.slug, m.stored[m.slug].token) ELSE {"none"} :
        Local(r, IF NeedsRepair(m.sas.reader, secret, status, Answers(m.slug, status))
                 THEN [[m EXCEPT !.status = status,
                                 !.clean = @ /\ status # "other"] EXCEPT !.pc = "admin"]
                 ELSE Conclude([m EXCEPT !.status = status,
                                         !.clean = @ /\ status # "other"], "ok"))
  BY <1>1, <1>3 DEF Probe
<1>5. m.pc = "probe" /\ m.adm = 0 /\ m.slug \in Stack \ Skipped /\ m.slug # None
  BY <1>1, <1>2, PlaceIs DEF Probe, AtStack, Repairing
<1>6. PICK k : k = [m EXCEPT !.status = status, !.clean = @ /\ status # "other"]
  OBVIOUS
<1>7. k \in Memory
  <2>1. status \in {"none", "200", "401", "other"} /\ (m.clean /\ status # "other") \in BOOLEAN
    BY <1>2, <1>4 DEF StatusOf, Memory
  <2>2. QED
    BY <1>2, <1>6, <2>1, Updates
<1>8. Same(m, k) /\ k.pc = "probe" /\ k.key = m.key
  BY <1>2, <1>5, <1>6 DEF Memory, Same, Tour
<1>9. CASE Local(r, [k EXCEPT !.pc = "admin"])
  <2>1. PICK n : n = [k EXCEPT !.pc = "admin"]
    OBVIOUS
  <2>2. n \in Memory
    BY <1>7, <2>1, Updates DEF Phase
  <2>3. Same(m, n) /\ n.pc = "admin" /\ n.key = m.key
    BY <1>7, <1>8, <2>1, <2>2 DEF Memory, Same, Tour
  <2>4. n.inventory = m.inventory /\ n.stored = m.stored /\ n.final = m.final
    BY <2>3 DEF Same, Tour
  <2>5. ShapeOf(n) /\ VersionsOf(n)
    BY <1>2, <1>5, <2>3, <2>4 DEF Same, Fit, ShapeOf, VersionsOf, AtStack, Repairing, Minted
  <2>6. Mild(m, n)
    BY <1>5, <2>3, <2>4 DEF Same, Mild, Concluded, Minted
  <2>7. QED
    BY <1>1, <1>5, <1>9, <2>1, <2>2, <2>3, <2>5, <2>6, LocalMild DEF Same, Minted
<1>10. CASE /\ ~NeedsRepair(m.sas.reader, secret, status, Answers(m.slug, status))
            /\ Local(r, Conclude(k, "ok"))
  <2>1. secret = TRUE /\ HasSecret(m.stored[m.slug])
        /\ status \in StatusOf(m.slug, m.stored[m.slug].token)
    BY <1>3, <1>4, <1>10 DEF NeedsRepair
  <2>2. Untouched => Provisioned(m.slug)
    BY <1>2, <1>5, <1>10, <2>1, AnswerIsTrue DEF Fit, TokensOf
  <2>3. Engaged(m, m.slug) /\ (NoneLost => Working(m.slug))
    BY <1>2, <1>5, <2>1, <2>2 DEF Engaged, NoneLost, Untouched, Provisioned
  <2>4. PICK n : n = Conclude(k, "ok")
    OBVIOUS
  <2>5. k.slug \in Stack /\ "ok" \in Verdict
    BY <1>5, <1>8 DEF Same, Verdict
  <2>6. /\ n \in Memory /\ n.pc = "next" /\ n.todo = k.todo \ {k.slug} /\ n.slug = None
        /\ n.verdict = [k.verdict EXCEPT ![k.slug] = "ok"] /\ n.adm = 0 /\ n.key = 0
        /\ Tour(n) = Tour(k)
    BY <1>7, <2>4, <2>5, ConcludeIs
  <2>7. /\ n.todo = m.todo \ {m.slug} /\ n.verdict = [m.verdict EXCEPT ![m.slug] = "ok"]
        /\ n.inventory = m.inventory /\ n.stored = m.stored /\ n.final = m.final
    BY <1>8, <2>6 DEF Same, Tour
  <2>8. m.verdict \in [Stack -> Verdict]
    BY <1>2 DEF Memory
  <2>9. ShapeOf(n) /\ VersionsOf(n)
    BY <1>2, <1>5, <2>6, <2>7, <2>8 DEF Fit, ShapeOf, VersionsOf, AtStack, Repairing, Minted, Memory
  <2>10. Tame(m, n)
    BY <1>2, <1>5, <2>2, <2>3, <2>6, <2>7, <2>8, <2>9
    DEF Tame, StacksOK, Concluded, Minted, OneLost, Untouched
  <2>11. QED
    BY <1>1, <1>5, <1>10, <2>4, <2>6, <2>10, LocalStep DEF Minted
<1>11. QED
  BY <1>4, <1>6, <1>9, <1>10

LEMMA CreateAdminKeeps ==
  ASSUME IInv, NEW r \in Run, CreateAdmin(r)
  PROVE  IInv'
<1>1. PICK m : m = run[r]
  OBVIOUS
<1>2. StacksOK /\ m \in Memory /\ Fit(m) /\ m.pc = "admin"
  BY <1>1, RunIs DEF CreateAdmin
<1>3. m.adm = 0 /\ m.slug \in Stack \ Skipped /\ m.slug # None
  BY <1>2, PlaceIs DEF AtStack, Repairing
<1>4. PICK n : n = [m EXCEPT !.pc = "key", !.adm = ids + 1, !.ledger = @ \cup {ids + 1}]
  OBVIOUS
<1>5. PICK f : f = Conclude(m, "failed")
  OBVIOUS
<1>6. Request(r, m.slug \in estate /\ admin[m.slug] = 0,
              SetAdmin(m.slug, ids + 1) /\ NewId, n, f)
  BY <1>1, <1>4, <1>5 DEF CreateAdmin
<1>7. n \in Memory
  <2>1. ids + 1 \in Nat /\ m.ledger \cup {ids + 1} \in SUBSET Nat
    BY <1>2 DEF Memory, StacksOK
  <2>2. [m EXCEPT !.pc = "key"] \in Memory
    BY <1>2, Updates DEF Phase
  <2>3. [m EXCEPT !.pc = "key", !.adm = ids + 1] \in Memory
    BY <2>1, <2>2, Updates
  <2>4. QED
    BY <1>4, <2>1, <2>3, Updates
<1>8. /\ n.pc = "key" /\ n.adm = ids + 1 /\ n.slug = m.slug /\ n.todo = m.todo /\ n.key = m.key
      /\ n.verdict = m.verdict /\ Tour(n) = Tour(m)
  BY <1>2, <1>4, <1>7 DEF Memory, Tour
<1>9. /\ f \in Memory /\ ShapeOf(f) /\ VersionsOf(f) /\ VersionsOf(f)' /\ Mild(m, f)
      /\ f.slug = None /\ f.adm = 0 /\ f.key = 0
      /\ Soiled(f) \in Memory /\ ShapeOf(Soiled(f)) /\ VersionsOf(Soiled(f)) /\ VersionsOf(Soiled(f))'
      /\ Mild(m, Soiled(f)) /\ Soiled(f).slug = None /\ Soiled(f).adm = 0 /\ Soiled(f).key = 0
  <2>1. m.pc \in AtStack /\ "failed" \in Verdict /\ "failed" \notin Held
    BY <1>2 DEF AtStack, Verdict, Held
  <2>2. QED
    BY <1>2, <1>5, <2>1, Concluding
<1>10. ShapeOf(n) /\ VersionsOf(n)' /\ Mild(m, n)
  <2>1. n.inventory = m.inventory /\ n.stored = m.stored /\ n.final = m.final
    BY <1>8 DEF Tour
  <2>2. ids + 1 # 0
    BY <1>2 DEF StacksOK
  <2>3. ShapeOf(n)
    BY <1>2, <1>8, <2>1, <2>2 DEF Fit, ShapeOf, AtStack, Repairing, Minted
  <2>4. VersionsOf(n)'
    BY <1>8 DEF VersionsOf
  <2>5. Mild(m, n)
    BY <1>2, <1>8, <2>1 DEF Mild, Concluded, Minted
  <2>6. QED
    BY <2>3, <2>4, <2>5
<1>11. m.pc \notin Minted
  BY <1>2 DEF Minted
<1>12. ASSUME SetAdmin(m.slug, ids + 1), NewId, m.slug \in estate, Onward
       PROVE  /\ StacksOK' /\ Harmless /\ UNCHANGED <<token, store>> /\ ids' = ids + 1
              /\ ids \in Nat /\ admin' = [admin EXCEPT ![m.slug] = ids + 1]
              /\ \A s \in Stack : s # m.slug => admin'[s] = admin[s]
              /\ admin'[m.slug] = ids + 1
  <2>1. ids \in Nat /\ ids' = ids + 1 /\ admin \in [Stack -> Nat]
    BY <1>2, <1>12 DEF StacksOK, NewId
  <2>2. StacksOK' /\ Harmless
    BY <1>2, <1>3, <1>12, <2>1, AdminIsHarmless
  <2>3. QED
    BY <1>3, <1>12, <2>1, <2>2 DEF SetAdmin
<1>13. m.key \in Nat /\ m.key <= ids
  BY <1>2 DEF Memory, Fit, BoundsOf
<1>14. CASE /\ m.slug \in estate /\ SetAdmin(m.slug, ids + 1) /\ NewId
            /\ Become(r, n) /\ Calm
  <2>1. Onward
    BY <1>2, <1>14, CalmOnward DEF NewId
  <2>2. /\ StacksOK' /\ Harmless /\ UNCHANGED <<token, store>> /\ ids' = ids + 1
        /\ ids \in Nat /\ admin'[m.slug] = ids + 1
        /\ \A s \in Stack : s # m.slug => admin'[s] = admin[s]
    BY <1>12, <1>14, <2>1
  <2>3. n.adm <= ids' /\ n.key <= ids'
    BY <1>8, <1>13, <2>2
  <2>4. \A s \in Stack : admin'[s] # 0 =>
          \/ n.slug = s /\ n.adm = admin'[s]
          \/ admin'[s] = admin[s] /\ ~(m.slug = s /\ m.adm = admin[s])
    BY <1>8, <2>2
  <2>5. QED
    BY <1>1, <1>7, <1>10, <1>11, <1>14, <2>1, <2>2, <2>3, <2>4, MildStep
<1>15. CASE /\ m.slug \in estate /\ SetAdmin(m.slug, ids + 1) /\ NewId
            /\ Become(r, Soiled(f)) /\ Trouble("lost") /\ UNCHANGED <<starts, churn, returned>>
  <2>1. Onward /\ ~Quietly'
    BY <1>2, <1>15, TroubleOnward DEF NewId
  <2>2. StacksOK' /\ Harmless /\ UNCHANGED <<token, store>> /\ ids' = ids + 1 /\ ids \in Nat
    BY <1>12, <1>15, <2>1
  <2>3. Soiled(f).adm <= ids' /\ Soiled(f).key <= ids'
    BY <1>9, <2>2
  <2>4. QED
    BY <1>1, <1>9, <1>11, <1>15, <2>1, <2>2, <2>3, MildStep
<1>16. CASE Local(r, f)
  BY <1>1, <1>3, <1>9, <1>11, <1>16, LocalMild
<1>17. CASE Local(r, Soiled(f))
  BY <1>1, <1>3, <1>9, <1>11, <1>17, LocalMild
<1>18. QED
  BY <1>6, <1>14, <1>15, <1>16, <1>17 DEF Request

\* A repair that is given up, with or without something having gone wrong.
LEMMA GivesUp ==
  ASSUME IInv, NEW r \in Run, NEW m, m = run[r], m.pc \in Repairing \ Minted,
         NEW out \in Verdict \ Held,
         Local(r, Finally(m, out)) \/ Local(r, Soiled(Finally(m, out)))
  PROVE  IInv'
<1>1. m \in Memory /\ Fit(m) /\ m.pc \in Repairing
  BY RunIs
<1>2. PICK n : n = Finally(m, out)
  OBVIOUS
<1>3. /\ n \in Memory /\ ShapeOf(n) /\ VersionsOf(n) /\ Mild(m, n)
      /\ n.slug = m.slug /\ n.adm = m.adm /\ n.key = 0
      /\ Soiled(n) \in Memory /\ ShapeOf(Soiled(n)) /\ VersionsOf(Soiled(n))
      /\ Mild(m, Soiled(n))
      /\ Soiled(n).slug = m.slug /\ Soiled(n).adm = m.adm /\ Soiled(n).key = 0
  BY <1>1, <1>2, GivingUp
<1>4. CASE Local(r, n)
  BY <1>3, <1>4, LocalMild
<1>5. CASE Local(r, Soiled(n))
  BY <1>3, <1>5, LocalMild
<1>6. QED
  BY <1>2, <1>4, <1>5

\* A repair that goes on after a read.
LEMMA GoesOn ==
  ASSUME IInv, NEW r \in Run, NEW m, m = run[r], m.pc \in Repairing \ Minted,
         NEW n \in Memory, Local(r, n),
         ShapeOf(n), Mild(m, n), VersionsOf(n), n.slug = m.slug, n.adm = m.adm, n.key = m.key
  PROVE  IInv'
BY LocalMild

\* A repair that goes on after a write.
LEMMA WritesOn ==
  ASSUME IInv, NEW r \in Run, NEW m, m = run[r], m.pc \in Repairing \ Minted,
         NEW n \in Memory, Become(r, n), StacksOK', Onward, Harmless,
         ShapeOf(n), Mild(m, n), VersionsOf(n)', n.slug = m.slug, n.adm = m.adm,
         n.key \in {0, m.key} \/ n.key <= ids', UNCHANGED <<admin, token, store>>
  PROVE  IInv'
<1>1. m \in Memory /\ Fit(m) /\ StacksOK
  BY RunIs
<1>2. n.adm <= ids' /\ n.key <= ids'
  BY <1>1 DEF Memory, Fit, BoundsOf, Onward, StacksOK
<1>3. Quietly' => \A s \in Stack : admin'[s] # 0 =>
           \/ n.slug = s /\ n.adm = admin'[s]
           \/ admin'[s] = admin[s] /\ ~(m.slug = s /\ m.adm = admin[s])
  OBVIOUS
<1>4. QED
  BY <1>2, <1>3, MildStep

\* A repair that is given up after a write of which it has no answer.
LEMMA WritesBlind ==
  ASSUME IInv, NEW r \in Run, NEW m, m = run[r], m.pc \in Repairing \ Minted,
         Become(r, Soiled(Finally(m, "failed"))), StacksOK', Onward, Harmless,
         UNCHANGED <<admin, token, store>>
  PROVE  IInv'
<1>1. m \in Memory /\ Fit(m) /\ m.pc \in Repairing /\ "failed" \in Verdict /\ "failed" \notin Held
  BY RunIs DEF Verdict, Held
<1>2. PICK n : n = Soiled(Finally(m, "failed"))
  OBVIOUS
<1>3. /\ n \in Memory /\ ShapeOf(n) /\ VersionsOf(n)' /\ Mild(m, n)
      /\ n.slug = m.slug /\ n.adm = m.adm /\ n.key = 0
  BY <1>1, <1>2, GivingUp
<1>4. QED
  BY <1>2, <1>3, WritesOn

LEMMA RepairIs ==
  ASSUME IInv, NEW r \in Run, NEW m, m = run[r], m.pc \in Repairing
  PROVE  /\ StacksOK /\ m \in Memory /\ Fit(m) /\ m.slug \in Stack \ Skipped /\ m.slug # None
         /\ m.adm # 0 /\ m.verdict[m.slug] = "none"
         /\ "failed" \in Verdict \ Held
BY RunIs, PlaceIs DEF AtStack, Verdict, Held

LEMMA AdminTokenKeeps ==
  ASSUME IInv, NEW r \in Run, AdminToken(r)
  PROVE  IInv'
<1>1. PICK m : m = run[r]
  OBVIOUS
<1>2. m.pc = "key" /\ m.pc \in Repairing \ Minted
  BY <1>1 DEF AdminToken, Repairing, Minted
<1>3. m \in Memory /\ Fit(m) /\ "failed" \in Verdict \ Held
  BY <1>1, <1>2, RepairIs
<1>4. CASE Local(r, [m EXCEPT !.pc = "roles"])
  <2>1. PICK n : n = [m EXCEPT !.pc = "roles"]
    OBVIOUS
  <2>2. n \in Memory
    BY <1>3, <2>1, Updates DEF Phase
  <2>3. n.pc = "roles" /\ Same(m, n) /\ n.key = m.key
    BY <1>3, <2>1, <2>2 DEF Memory, Same, Tour
  <2>4. ShapeOf(n) /\ Mild(m, n) /\ VersionsOf(n)
    BY <1>2, <1>3, <2>2, <2>3, Moving DEF Repairing, Minted
  <2>5. QED
    BY <1>1, <1>2, <1>4, <2>1, <2>2, <2>3, <2>4, GoesOn DEF Same
<1>5. CASE Local(r, Soiled(Finally(m, "failed")))
  BY <1>1, <1>2, <1>3, <1>5, GivesUp
<1>6. QED
  BY <1>1, <1>4, <1>5 DEF AdminToken

LEMMA ListRolesKeeps ==
  ASSUME IInv, NEW r \in Run, ListRoles(r)
  PROVE  IInv'
<1>1. PICK m : m = run[r]
  OBVIOUS
<1>2. m.pc = "roles" /\ m.pc \in Repairing \ Minted
  BY <1>1 DEF ListRoles, Repairing, Minted
<1>3. m \in Memory /\ Fit(m) /\ "failed" \in Verdict \ Held /\ StacksOK /\ m.slug \in Stack
  BY <1>1, <1>2, RepairIs
<1>4. PICK there \in BOOLEAN : there = (role[m.slug] # NoRole)
  OBVIOUS
<1>5. CASE Local(r, [m EXCEPT !.pc = IF there THEN "read" ELSE "make",
                              !.have.version = role[m.slug].version,
                              !.deferred = there /\ Eligible(m)])
  <2>1. PICK n : n = [m EXCEPT !.pc = IF there THEN "read" ELSE "make",
                              !.have.version = role[m.slug].version,
                              !.deferred = there /\ Eligible(m)]
    OBVIOUS
  <2>2. role[m.slug] \in Role
    BY <1>3 DEF StacksOK
  <2>3. n \in Memory
    <3> DEFINE a == [m EXCEPT !.pc = IF there THEN "read" ELSE "make"]
               have == [m.have EXCEPT !.version = role[m.slug].version]
    <3>1. a \in Memory
      BY <1>3, Updates DEF Phase
    <3>2. have \in Role
      BY <1>3, <2>2 DEF Memory, Role
    <3>3. (there /\ Eligible(m)) \in BOOLEAN
      BY DEF Eligible
    <3>4. n = [a EXCEPT !.have = have, !.deferred = there /\ Eligible(m)]
      BY <1>3, <2>1 DEF Memory
    <3> HIDE DEF a, have
    <3>5. [a EXCEPT !.have = have] \in Memory
      BY <3>1, <3>2, Updates
    <3>6. QED
      BY <3>3, <3>4, <3>5, Updates
  <2>4. /\ n.pc \in {"read", "make"} /\ Same(m, n) /\ n.key = m.key
        /\ n.have.version = role[m.slug].version
    BY <1>3, <2>1, <2>3 DEF Memory, Same, Tour, Role
  <2>5. ShapeOf(n) /\ Mild(m, n)
    BY <1>2, <1>3, <2>3, <2>4, Moving DEF Repairing, Minted
  <2>6. VersionsOf(n)
    BY <2>2, <2>4 DEF VersionsOf, Same, Role
  <2>7. QED
    BY <1>1, <1>2, <1>5, <2>1, <2>3, <2>4, <2>5, <2>6, GoesOn DEF Same
<1>6. CASE Local(r, Soiled(Finally(m, "failed")))
  BY <1>1, <1>2, <1>3, <1>6, GivesUp
<1>7. QED
  BY <1>1, <1>4, <1>5, <1>6 DEF ListRoles

\* A role request: a role that must not be dangerous, and is newer if that counts.
LEMMA RoleRequestKeeps ==
  ASSUME IInv, NEW r \in Run, NEW m, m = run[r], m.pc \in Repairing \ Minted,
         NEW accepted \in BOOLEAN, NEW version \in Nat, NEW pairs \in SUBSET Pair,
         Request(r, accepted, SetRole(m.slug, version, pairs) /\ UNCHANGED ids,
                 Reconciled(m), Finally(m, "failed")),
         accepted => /\ m.slug \in estate
                     /\ VersionChecked => version > role[m.slug].version,
         "declared" \in pairs, "retired" \notin pairs, "dangerous" \notin pairs
  PROVE  IInv'
<1>1. m \in Memory /\ Fit(m) /\ "failed" \in Verdict \ Held /\ StacksOK
  BY RepairIs
<1>2. PICK n : n = Reconciled(m)
  OBVIOUS
<1>3. /\ n \in Memory /\ ShapeOf(n) /\ Mild(m, n) /\ VersionsOf(n)'
      /\ n.slug = m.slug /\ n.adm = m.adm /\ n.key = m.key
  BY <1>1, <1>2, ReconciledIs
<1>4. ASSUME accepted, SetRole(m.slug, version, pairs), UNCHANGED ids, Onward
      PROVE  StacksOK' /\ Harmless /\ UNCHANGED <<admin, token, store>>
  <2>1. UNCHANGED <<admin, token, store>> /\ m.slug \in estate
    BY <1>4 DEF SetRole
  <2>2. QED
    BY <1>1, <1>4, <2>1, RoleIsHarmless
<1>5. CASE accepted /\ SetRole(m.slug, version, pairs) /\ UNCHANGED ids /\ Become(r, n) /\ Calm
  <2>1. Onward
    BY <1>1, <1>5, CalmOnward
  <2>2. StacksOK' /\ Harmless /\ UNCHANGED <<admin, token, store>>
    BY <1>4, <1>5, <2>1
  <2>3. QED
    BY <1>3, <1>5, <2>1, <2>2, WritesOn
<1>6. CASE /\ accepted /\ SetRole(m.slug, version, pairs) /\ UNCHANGED ids
           /\ Become(r, Soiled(Finally(m, "failed")))
           /\ Trouble("lost") /\ UNCHANGED <<starts, churn, returned>>
  <2>1. Onward
    BY <1>1, <1>6, TroubleOnward
  <2>2. StacksOK' /\ Harmless /\ UNCHANGED <<admin, token, store>>
    BY <1>4, <1>6, <2>1
  <2>3. QED
    BY <1>6, <2>1, <2>2, WritesBlind
<1>7. CASE Local(r, IF accepted THEN Soiled(Finally(m, "failed")) ELSE Finally(m, "failed"))
  BY <1>1, <1>7, GivesUp
<1>8. QED
  BY <1>2, <1>5, <1>6, <1>7 DEF Request

LEMMA MakeRoleKeeps ==
  ASSUME IInv, NEW r \in Run, MakeRole(r)
  PROVE  IInv'
<1>1. PICK m : m = run[r]
  OBVIOUS
<1>2. m.pc = "make" /\ m.pc \in Repairing \ Minted
  BY <1>1 DEF MakeRole, Repairing, Minted
<1>3. PICK accepted \in BOOLEAN : accepted = (Authorised(m) /\ role[m.slug] = NoRole)
  BY DEF Authorised
<1>4. Request(r, accepted, SetRole(m.slug, 1, {"declared"}) /\ UNCHANGED ids,
              Reconciled(m), Finally(m, "failed"))
  BY <1>1, <1>3 DEF MakeRole
<1>5. ASSUME accepted PROVE m.slug \in estate /\ (VersionChecked => 1 > role[m.slug].version)
  <2>1. Authorised(m) /\ role[m.slug] = NoRole
    BY <1>3, <1>5
  <2>2. QED
    BY <2>1 DEF Authorised, NoRole
<1>6. {"declared"} \in SUBSET Pair
  BY DEF Pair
<1>7. QED
  BY <1>1, <1>2, <1>4, <1>5, <1>6, RoleRequestKeeps

LEMMA ReadRoleKeeps ==
  ASSUME IInv, NEW r \in Run, ReadRole(r)
  PROVE  IInv'
<1>1. PICK m : m = run[r]
  OBVIOUS
<1>2. m.pc = "read" /\ m.pc \in Repairing \ Minted
  BY <1>1 DEF ReadRole, Repairing, Minted
<1>3. m \in Memory /\ Fit(m) /\ "failed" \in Verdict \ Held /\ StacksOK /\ m.slug \in Stack
  BY <1>1, <1>2, RepairIs
<1>4. role[m.slug] \in Role
  BY <1>3 DEF StacksOK
<1>5. CASE Local(r, Finally(m, "failed")) \/ Local(r, Soiled(Finally(m, "failed")))
  BY <1>1, <1>2, <1>3, <1>5, GivesUp
<1>6. CASE Local(r, Reconciled(m))
  <2>1. PICK n : n = Reconciled(m)
    OBVIOUS
  <2>2. /\ n \in Memory /\ ShapeOf(n) /\ Mild(m, n) /\ VersionsOf(n)
        /\ n.slug = m.slug /\ n.adm = m.adm /\ n.key = m.key
    BY <1>2, <1>3, <2>1, ReconciledIs
  <2>3. QED
    BY <1>1, <1>2, <1>6, <2>1, <2>2, GoesOn
<1>7. CASE /\ "dangerous" \notin role[m.slug].pairs
           /\ Local(r, [m EXCEPT !.pc = "put", !.have.pairs = role[m.slug].pairs])
  <2>1. PICK n : n = [m EXCEPT !.pc = "put", !.have.pairs = role[m.slug].pairs]
    OBVIOUS
  <2>2. n \in Memory
    <3> DEFINE a == [m EXCEPT !.pc = "put"]
               have == [m.have EXCEPT !.pairs = role[m.slug].pairs]
    <3>1. a \in Memory
      BY <1>3, Updates DEF Phase
    <3>2. have \in Role
      BY <1>3, <1>4 DEF Memory, Role
    <3>3. n = [a EXCEPT !.have = have]
      BY <1>3, <2>1 DEF Memory
    <3> HIDE DEF a, have
    <3>4. QED
      BY <3>1, <3>2, <3>3, Updates
  <2>3. /\ n.pc = "put" /\ Same(m, n) /\ n.key = m.key
        /\ n.have.pairs = role[m.slug].pairs /\ n.have.version = m.have.version
    BY <1>3, <2>1, <2>2 DEF Memory, Same, Tour, Role
  <2>4. ShapeOf(n) /\ Mild(m, n)
    BY <1>2, <1>3, <1>7, <2>2, <2>3, Moving DEF Repairing, Minted
  <2>5. VersionsOf(n)
    BY <1>2, <1>3, <2>3 DEF VersionsOf, Same, Fit, Authorised
  <2>6. QED
    BY <1>1, <1>2, <1>7, <2>1, <2>2, <2>3, <2>4, <2>5, GoesOn DEF Same
<1>8. QED
  BY <1>1, <1>5, <1>6, <1>7 DEF ReadRole

LEMMA PutRoleKeeps ==
  ASSUME IInv, NEW r \in Run, PutRole(r)
  PROVE  IInv'
<1>1. PICK m : m = run[r]
  OBVIOUS
<1>2. m.pc = "put" /\ m.pc \in Repairing \ Minted
  BY <1>1 DEF PutRole, Repairing, Minted
<1>3. m \in Memory /\ Fit(m) /\ StacksOK /\ m.slug \in Stack
  BY <1>1, <1>2, RepairIs
<1>4. PICK accepted \in BOOLEAN :
        accepted = (Authorised(m) /\ (VersionChecked => m.have.version >= role[m.slug].version))
  BY DEF Authorised
<1>5. PICK pairs : pairs = {"declared"} \cup (m.have.pairs \ {"retired"})
  OBVIOUS
<1>6. Request(r, accepted, SetRole(m.slug, m.have.version + 1, pairs) /\ UNCHANGED ids,
              Reconciled(m), Finally(m, "failed"))
  BY <1>1, <1>4, <1>5 DEF PutRole
<1>7. m.have \in Role /\ role[m.slug] \in Role
  BY <1>3 DEF Memory, StacksOK
<1>8. m.have.version + 1 \in Nat /\ pairs \in SUBSET Pair
  BY <1>5, <1>7 DEF Role, Pair
<1>9. ASSUME accepted
      PROVE  m.slug \in estate /\ (VersionChecked => m.have.version + 1 > role[m.slug].version)
  <2>1. Authorised(m) /\ (VersionChecked => m.have.version >= role[m.slug].version)
    BY <1>4, <1>9
  <2>2. QED
    BY <1>7, <2>1 DEF Authorised, Role
<1>10. "declared" \in pairs /\ "retired" \notin pairs /\ "dangerous" \notin pairs
  BY <1>2, <1>3, <1>5 DEF Fit, ShapeOf
<1>11. QED
  BY <1>1, <1>2, <1>6, <1>8, <1>9, <1>10, RoleRequestKeeps

LEMMA CreateReaderKeeps ==
  ASSUME IInv, NEW r \in Run, CreateReader(r)
  PROVE  IInv'
<1>1. PICK m : m = run[r]
  OBVIOUS
<1>2. m.pc = "reader" /\ m.pc \in Repairing \ Minted
  BY <1>1 DEF CreateReader, Repairing, Minted
<1>3. m \in Memory /\ Fit(m) /\ StacksOK /\ m.slug \in Stack /\ "failed" \in Verdict \ Held
  BY <1>1, <1>2, RepairIs
<1>4. PICK account : account = [id |-> ids + 1, basic |-> "None", assigned |-> FALSE]
  OBVIOUS
<1>5. PICK n : n = [m EXCEPT !.pc = "assign", !.ledger = @ \cup {ids + 1},
                      !.sas.reader = [id |-> ids + 1, basic |-> "None"]]
  OBVIOUS
<1>6. PICK taken \in BOOLEAN : taken = (reader[m.slug] # None)
  OBVIOUS
<1>7. PICK again : again = [m EXCEPT !.pc = "again"]
  OBVIOUS
<1>8. PICK f : f = Finally(m, "failed")
  OBVIOUS
<1>9. Request(r, m.slug \in estate /\ ~taken, SetReader(m.slug, account) /\ NewId, n,
              IF taken THEN again ELSE f)
  BY <1>1, <1>4, <1>5, <1>6, <1>7, <1>8 DEF CreateReader
<1>10. ids \in Nat /\ account \in Account /\ account.basic = "None" /\ account.id = ids + 1
  BY <1>3, <1>4 DEF StacksOK, Account
<1>11. n \in Memory
  <2> DEFINE a == [m EXCEPT !.pc = "assign"]
             sas == [m.sas EXCEPT !.reader = [id |-> ids + 1, basic |-> "None"]]
  <2>1. a \in Memory
    BY <1>3, Updates DEF Phase
  <2>2. sas \in Listing
    BY <1>3, <1>10 DEF Memory, Listing, Seen
  <2>3. m.ledger \cup {ids + 1} \in SUBSET Nat
    BY <1>3, <1>10 DEF Memory
  <2>4. n = [a EXCEPT !.ledger = m.ledger \cup {ids + 1}, !.sas = sas]
    BY <1>3, <1>5 DEF Memory
  <2> HIDE DEF a, sas
  <2>5. [a EXCEPT !.ledger = m.ledger \cup {ids + 1}] \in Memory
    BY <2>1, <2>3, Updates
  <2>6. QED
    BY <2>2, <2>4, <2>5, Updates
<1>12. /\ n.pc = "assign" /\ Same(m, n) /\ n.key = m.key
       /\ n.sas.reader = [id |-> ids + 1, basic |-> "None"]
  BY <1>3, <1>5, <1>11 DEF Memory, Same, Tour, Listing
<1>13. n.sas.reader \in Seen
  BY <1>10, <1>12 DEF Seen
<1>14. ShapeOf(n) /\ Mild(m, n) /\ VersionsOf(n)'
  BY <1>2, <1>3, <1>11, <1>12, <1>13, NoneAssumption, Moving DEF Repairing, Minted
<1>15. ASSUME ~taken, m.slug \in estate, SetReader(m.slug, account), NewId, Onward
       PROVE  StacksOK' /\ Harmless /\ UNCHANGED <<admin, token, store>>
  <2>1. UNCHANGED <<admin, token, store>> /\ ids' = ids + 1 /\ reader[m.slug] = None
    BY <1>6, <1>15 DEF SetReader, NewId
  <2>2. QED
    BY <1>3, <1>10, <1>15, <2>1, ReaderIsHarmless
<1>16. CASE /\ m.slug \in estate /\ ~taken /\ SetReader(m.slug, account) /\ NewId
            /\ Become(r, n) /\ Calm
  <2>1. Onward
    BY <1>3, <1>16, CalmOnward DEF NewId
  <2>2. StacksOK' /\ Harmless /\ UNCHANGED <<admin, token, store>>
    BY <1>15, <1>16, <2>1
  <2>3. n.slug = m.slug /\ n.adm = m.adm
    BY <1>12 DEF Same
  <2>4. QED
    BY <1>1, <1>2, <1>11, <1>12, <1>14, <1>16, <2>1, <2>2, <2>3, WritesOn
<1>17. CASE /\ m.slug \in estate /\ ~taken /\ SetReader(m.slug, account) /\ NewId
            /\ Become(r, Soiled(f)) /\ Trouble("lost") /\ UNCHANGED <<starts, churn, returned>>
  <2>1. Onward
    BY <1>3, <1>17, TroubleOnward DEF NewId
  <2>2. StacksOK' /\ Harmless /\ UNCHANGED <<admin, token, store>>
    BY <1>15, <1>17, <2>1
  <2>3. QED
    BY <1>1, <1>2, <1>8, <1>17, <2>1, <2>2, WritesBlind
<1>18. CASE Local(r, f) \/ Local(r, Soiled(f))
  BY <1>1, <1>2, <1>3, <1>8, <1>18, GivesUp
<1>19. CASE Local(r, again)
  <2>1. again \in Memory
    BY <1>3, <1>7, Updates DEF Phase
  <2>2. again.pc = "again" /\ Same(m, again) /\ again.key = m.key
    BY <1>3, <1>7, <2>1 DEF Memory, Same, Tour
  <2>3. ShapeOf(again) /\ Mild(m, again) /\ VersionsOf(again)
    BY <1>2, <1>3, <2>1, <2>2, Moving DEF Repairing, Minted
  <2>4. QED
    BY <1>1, <1>2, <1>19, <2>1, <2>2, <2>3, GoesOn DEF Same
<1>20. QED
  BY <1>9, <1>16, <1>17, <1>18, <1>19 DEF Request

LEMMA LookAgainKeeps ==
  ASSUME IInv, NEW r \in Run, LookAgain(r)
  PROVE  IInv'
<1>1. PICK m : m = run[r]
  OBVIOUS
<1>2. m.pc = "again" /\ m.pc \in Repairing \ Minted
  BY <1>1 DEF LookAgain, Repairing, Minted
<1>3. m \in Memory /\ Fit(m) /\ StacksOK /\ m.slug \in Stack /\ "failed" \in Verdict \ Held
  BY <1>1, <1>2, RepairIs
<1>4. CASE Local(r, Reconciled([m EXCEPT !.sas = List(m.slug)]))
  <2>1. PICK k : k = [m EXCEPT !.sas = List(m.slug)]
    OBVIOUS
  <2>2. k \in Memory
    BY <1>3, <2>1, ListIs, Updates
  <2>3. k.pc = "again" /\ Same(m, k) /\ k.key = m.key /\ k.verdict = m.verdict /\ k.out = m.out
    BY <1>2, <1>3, <2>1, <2>2 DEF Memory, Same, Tour
  <2>4. ShapeOf(k) /\ Mild(m, k) /\ VersionsOf(k)
    BY <1>2, <1>3, <2>2, <2>3, Moving DEF Repairing, Minted
  <2>5. PICK n : n = Reconciled(k)
    OBVIOUS
  <2>6. n = [k EXCEPT !.have = NoRole,
               !.pc = IF k.sas.reader = None THEN "reader"
                      ELSE IF k.sas.reader.basic # "None" THEN "basic" ELSE "assign"]
    BY <2>5 DEF Reconciled
  <2>7. n \in Memory
    BY <2>2, <2>6, Defaults, Updates DEF Phase
  <2>8. /\ n.pc \in {"reader", "basic", "assign"} /\ (n.pc # "reader" => n.sas.reader # None)
        /\ Same(k, n) /\ n.key = k.key
    BY <2>2, <2>6, <2>7 DEF Memory, Same, Tour
  <2>9. Same(m, n) /\ n.key = m.key
    BY <2>3, <2>8 DEF Same
  <2>10. ShapeOf(n) /\ Mild(m, n) /\ VersionsOf(n)
    BY <1>2, <1>3, <2>7, <2>8, <2>9, Moving DEF Repairing, Minted
  <2>11. QED
    BY <1>1, <1>2, <1>4, <2>1, <2>5, <2>7, <2>9, <2>10, GoesOn DEF Same
<1>5. CASE Local(r, Soiled(Finally(m, "failed")))
  BY <1>1, <1>2, <1>3, <1>5, GivesUp
<1>6. QED
  BY <1>1, <1>4, <1>5 DEF LookAgain

LEMMA ResetBasicRoleKeeps ==
  ASSUME IInv, NEW r \in Run, ResetBasicRole(r)
  PROVE  IInv'
<1>1. PICK m : m = run[r]
  OBVIOUS
<1>2. m.pc = "basic" /\ m.pc \in Repairing \ Minted
  BY <1>1 DEF ResetBasicRole, Repairing, Minted
<1>3. m \in Memory /\ Fit(m) /\ StacksOK /\ m.slug \in Stack /\ "failed" \in Verdict \ Held
  BY <1>1, <1>2, RepairIs
<1>4. PICK n : n = [m EXCEPT !.pc = "assign"]
  OBVIOUS
<1>5. PICK f : f = Finally(m, "failed")
  OBVIOUS
<1>6. PICK account : account = [reader[m.slug] EXCEPT !.basic = "None"]
  OBVIOUS
<1>7. PICK accepted \in BOOLEAN : accepted = (Authorised(m) /\ Holds(m))
  BY DEF Authorised
<1>8. Request(r, accepted, SetReader(m.slug, account) /\ UNCHANGED ids, n, f)
  BY <1>1, <1>4, <1>5, <1>6, <1>7 DEF ResetBasicRole
<1>9. ASSUME accepted
      PROVE  /\ m.slug \in estate /\ account \in Account /\ account.basic = "None"
             /\ account.id <= ids /\ reader[m.slug] # None
             /\ account.assigned = reader[m.slug].assigned
  <2>1. Authorised(m) /\ Holds(m)
    BY <1>7, <1>9
  <2>2. reader[m.slug] # None /\ reader[m.slug] \in Account /\ reader[m.slug].id <= ids
    BY <1>3, <2>1 DEF Holds, StacksOK, Kept
  <2>3. QED
    BY <1>6, <2>1, <2>2 DEF Authorised, Account
<1>10. n \in Memory
  BY <1>3, <1>4, Updates DEF Phase
<1>11. n.pc = "assign" /\ Same(m, n) /\ n.key = m.key /\ n.sas.reader # None
  BY <1>2, <1>3, <1>4, <1>10 DEF Memory, Same, Tour, Fit, ShapeOf
<1>12. ShapeOf(n) /\ Mild(m, n) /\ VersionsOf(n)'
  BY <1>2, <1>3, <1>10, <1>11, Moving DEF Repairing, Minted
<1>13. ASSUME accepted, SetReader(m.slug, account), UNCHANGED ids, Onward
       PROVE  StacksOK' /\ Harmless /\ UNCHANGED <<admin, token, store>>
  <2>1. UNCHANGED <<admin, token, store>> /\ account.id <= ids'
    BY <1>9, <1>13 DEF SetReader
  <2>2. QED
    BY <1>3, <1>9, <1>13, <2>1, ReaderIsHarmless
<1>14. CASE accepted /\ SetReader(m.slug, account) /\ UNCHANGED ids /\ Become(r, n) /\ Calm
  <2>1. Onward
    BY <1>3, <1>14, CalmOnward
  <2>2. StacksOK' /\ Harmless /\ UNCHANGED <<admin, token, store>>
    BY <1>13, <1>14, <2>1
  <2>3. n.slug = m.slug /\ n.adm = m.adm
    BY <1>11 DEF Same
  <2>4. QED
    BY <1>1, <1>2, <1>10, <1>11, <1>12, <1>14, <2>1, <2>2, <2>3, WritesOn
<1>15. CASE /\ accepted /\ SetReader(m.slug, account) /\ UNCHANGED ids /\ Become(r, Soiled(f))
            /\ Trouble("lost") /\ UNCHANGED <<starts, churn, returned>>
  <2>1. Onward
    BY <1>3, <1>15, TroubleOnward
  <2>2. StacksOK' /\ Harmless /\ UNCHANGED <<admin, token, store>>
    BY <1>13, <1>15, <2>1
  <2>3. QED
    BY <1>1, <1>2, <1>5, <1>15, <2>1, <2>2, WritesBlind
<1>16. CASE Local(r, IF accepted THEN Soiled(f) ELSE f)
  BY <1>1, <1>2, <1>3, <1>5, <1>16, GivesUp
<1>17. QED
  BY <1>8, <1>14, <1>15, <1>16 DEF Request

LEMMA AssignRoleKeeps ==
  ASSUME IInv, NEW r \in Run, AssignRole(r)
  PROVE  IInv'
<1>1. PICK m : m = run[r]
  OBVIOUS
<1>2. m.pc = "assign" /\ m.pc \in Repairing \ Minted
  BY <1>1 DEF AssignRole, Repairing, Minted
<1>3. /\ m \in Memory /\ Fit(m) /\ StacksOK /\ m.slug \in Stack \ Skipped /\ m.slug # None
      /\ "failed" \in Verdict \ Held /\ m.verdict[m.slug] = "none"
  BY <1>1, <1>2, RepairIs
<1>4. PICK mint : mint = [m EXCEPT !.pc = "mint"]
  OBVIOUS
<1>5. PICK defer : defer = Finally(m, "pending")
  OBVIOUS
<1>6. PICK verify : verify = [m EXCEPT !.pc = "verify", !.key = m.stored[m.slug].token]
  OBVIOUS
<1>7. PICK n : n = IF NeedsMint(m) THEN mint ELSE IF m.deferred THEN defer ELSE verify
  OBVIOUS
<1>8. PICK f : f = Finally(m, "failed")
  OBVIOUS
<1>9. PICK account : account = [reader[m.slug] EXCEPT !.assigned = TRUE]
  OBVIOUS
<1>10. PICK accepted \in BOOLEAN : accepted = (Authorised(m) /\ Holds(m))
  BY DEF Authorised
<1>11. Request(r, accepted, SetReader(m.slug, account) /\ UNCHANGED ids, n, f)
  BY <1>1, <1>4, <1>5, <1>6, <1>7, <1>8, <1>9, <1>10 DEF AssignRole
<1>12. ASSUME accepted
       PROVE  /\ m.slug \in estate /\ account \in Account /\ account.id <= ids
              /\ Untouched => account.basic = "None"
              /\ account.assigned
  <2>1. Authorised(m) /\ Holds(m)
    BY <1>10, <1>12
  <2>2. /\ reader[m.slug] # None /\ reader[m.slug] \in Account /\ reader[m.slug].id <= ids
        /\ Untouched => reader[m.slug].basic = "None"
    BY <1>3, <2>1 DEF Holds, StacksOK, Kept, Trusted
  <2>3. QED
    BY <1>9, <2>1, <2>2 DEF Authorised, Account
<1>13. ASSUME accepted, SetReader(m.slug, account), UNCHANGED ids, Onward
       PROVE  StacksOK' /\ Harmless /\ UNCHANGED <<admin, token, store, ids>>
  <2>1. UNCHANGED <<admin, token, store>> /\ account.id <= ids'
    BY <1>12, <1>13 DEF SetReader
  <2>2. QED
    BY <1>3, <1>12, <1>13, <2>1, ReaderIsHarmless
<1>14. /\ mint \in Memory /\ mint.pc = "mint" /\ Same(m, mint) /\ mint.key = m.key
       /\ mint.sas.reader # None
  <2>1. mint \in Memory
    BY <1>3, <1>4, Updates DEF Phase
  <2>2. QED
    BY <1>2, <1>3, <1>4, <2>1 DEF Memory, Same, Tour, Fit, ShapeOf
<1>15. ShapeOf(mint) /\ Mild(m, mint) /\ VersionsOf(mint)'
  BY <1>2, <1>3, <1>14, Moving DEF Repairing, Minted
<1>16. ASSUME ~NeedsMint(m)
       PROVE  /\ HasSecret(m.stored[m.slug]) /\ m.stored[m.slug] \in Record
              /\ m.stored[m.slug].token \in Nat /\ m.stored[m.slug].token <= ids
  <2>1. HasSecret(m.stored[m.slug])
    BY <1>16 DEF NeedsMint
  <2>2. m.stored[m.slug] \in Record
    BY <1>3, <2>1 DEF HasSecret, Memory
  <2>3. QED
    BY <1>3, <2>1, <2>2 DEF Record, HasSecret, Fit, BoundsOf
<1>17. ASSUME ~NeedsMint(m), NEW n2 \in Memory, n2.pc \in {"verify", "cleanup"},
              n2.pc = "verify" => n2.key = m.stored[m.slug].token,
              n2.pc = "cleanup" => n2.out = "pending" /\ n2.key = 0,
              Same(m, n2), accepted, SetReader(m.slug, account), UNCHANGED ids, Onward, Calm,
              Become(r, n2)
       PROVE  IInv'
  <2>1. StacksOK' /\ Harmless /\ UNCHANGED <<admin, token, store, ids, churn>> /\ Worse
        /\ (NoneLost => NoneLost')
    BY <1>13, <1>17, CalmIsNoWorse DEF Onward
  <2>2. \A s : Working(s)' = Working(s)
    BY <2>1 DEF Working
  <2>3. n2.inventory = m.inventory /\ n2.stored = m.stored /\ n2.final = m.final
        /\ n2.slug = m.slug /\ n2.verdict = m.verdict /\ n2.todo = m.todo /\ n2.adm = m.adm
    BY <1>17 DEF Same, Tour
  <2>4. ShapeOf(n2)' /\ VersionsOf(n2)'
    BY <1>2, <1>3, <1>17, <2>3
    DEF Fit, ShapeOf, VersionsOf, AtStack, Repairing, Minted, Unverified
  <2>5. Engaged(m, m.slug)
    BY <1>2, <1>16, <1>17 DEF Engaged
  <2>6. NoneLost' => Working(m.slug)'
    BY <1>3, <1>16, <1>17, <2>1, <2>2 DEF Fit, SoundOf, Worse
  <2>7. Untouched' /\ n2.pc = "verify" /\ n2.key # 0 /\ token'[n2.slug] = n2.key => Working(n2.slug)'
    <3>1. Untouched /\ Live(m.slug, m.stored[m.slug]) => Working(m.slug)
      BY <1>3 DEF Fit, TokensOf
    <3>2. QED
      BY <1>16, <1>17, <2>1, <2>2, <2>3, <3>1 DEF Live, Worse
  <2>8. n2.adm <= ids' /\ n2.key <= ids'
    BY <1>3, <1>16, <1>17, <2>1, <2>3 DEF Fit, BoundsOf, StacksOK
  <2>9. \A s \in Stack : /\ Concluded(n2, s, Held) => Concluded(m, s, Held) \/ s = m.slug
                         /\ Concluded(n2, s, {"ok"}) => Concluded(m, s, {"ok"})
    BY <1>17, <2>3 DEF Concluded
  <2>10. Tame(m, n2)'
    BY <1>2, <1>17, <2>3, <2>4, <2>5, <2>6, <2>7, <2>8, <2>9 DEF Tame, Minted, Engaged, Concluded
  <2>11. Quietly' => \A s \in Stack : admin'[s] # 0 =>
           \/ n2.slug = s /\ n2.adm = admin'[s]
           \/ admin'[s] = admin[s] /\ ~(m.slug = s /\ m.adm = admin[s])
    BY <2>1, <2>3
  <2>12. QED
    BY <1>1, <1>2, <1>17, <2>1, <2>2, <2>10, <2>11, TameStep
<1>18. CASE accepted /\ SetReader(m.slug, account) /\ UNCHANGED ids /\ Become(r, n) /\ Calm
  <2>1. Onward
    BY <1>3, <1>18, CalmOnward
  <2>2. StacksOK' /\ Harmless /\ UNCHANGED <<admin, token, store>>
    BY <1>13, <1>18, <2>1
  <2>3. CASE NeedsMint(m)
    <3>1. Become(r, mint) /\ mint.slug = m.slug /\ mint.adm = m.adm
      BY <1>7, <1>14, <1>18, <2>3 DEF Same
    <3>2. QED
      BY <1>1, <1>2, <1>14, <1>15, <2>1, <2>2, <3>1, WritesOn
  <2>4. CASE ~NeedsMint(m) /\ m.deferred
    <3>1. /\ defer \in Memory /\ defer.pc = "cleanup" /\ defer.out = "pending"
          /\ defer.key = 0 /\ Same(m, defer)
      BY <1>3, <1>5, FinallyIs DEF Same, Verdict
    <3>2. Become(r, defer)
      BY <1>7, <1>18, <2>4
    <3>3. QED
      BY <1>17, <1>18, <2>1, <2>4, <3>1, <3>2
  <2>5. CASE ~NeedsMint(m) /\ ~m.deferred
    <3>1. verify \in Memory
      <4>1. [m EXCEPT !.pc = "verify"] \in Memory
        BY <1>3, Updates DEF Phase
      <4>2. QED
        BY <1>6, <1>16, <2>5, <4>1, Updates
    <3>2. /\ verify.pc = "verify" /\ verify.key = m.stored[m.slug].token /\ Same(m, verify)
      BY <1>3, <1>6, <3>1 DEF Memory, Same, Tour
    <3>3. Become(r, verify)
      BY <1>7, <1>18, <2>5
    <3>4. QED
      BY <1>17, <1>18, <2>1, <2>5, <3>1, <3>2, <3>3
  <2>6. QED
    BY <2>3, <2>4, <2>5
<1>19. CASE /\ accepted /\ SetReader(m.slug, account) /\ UNCHANGED ids /\ Become(r, Soiled(f))
            /\ Trouble("lost") /\ UNCHANGED <<starts, churn, returned>>
  <2>1. Onward
    BY <1>3, <1>19, TroubleOnward
  <2>2. StacksOK' /\ Harmless /\ UNCHANGED <<admin, token, store>>
    BY <1>13, <1>19, <2>1
  <2>3. QED
    BY <1>1, <1>2, <1>8, <1>19, <2>1, <2>2, WritesBlind
<1>20. CASE Local(r, IF accepted THEN Soiled(f) ELSE f)
  BY <1>1, <1>2, <1>3, <1>8, <1>20, GivesUp
<1>21. QED
  BY <1>11, <1>18, <1>19, <1>20 DEF Request

LEMMA VerifyKeeps ==
  ASSUME IInv, NEW r \in Run, Verify(r)
  PROVE  IInv'
<1>1. PICK m : m = run[r]
  OBVIOUS
<1>2. m.pc = "verify" /\ m.pc \in Repairing \ Minted
  BY <1>1 DEF Verify, Repairing, Minted
<1>3. /\ m \in Memory /\ Fit(m) /\ StacksOK /\ m.slug \in Stack \ Skipped /\ m.slug # None
      /\ "failed" \in Verdict \ Held
  BY <1>1, <1>2, RepairIs
<1>4. PICK account : account = List(m.slug).reader
  OBVIOUS
<1>5. CASE Local(r, Soiled(Finally(m, "failed")))
  BY <1>1, <1>2, <1>3, <1>5, GivesUp
<1>6. ASSUME NEW status \in StatusOf(m.slug, m.key),
             Local(r, Finally(
               [m EXCEPT !.clean = @ /\ status # "other"],
               IF ~NeedsRepair(account, TRUE, status, Answers(m.slug, status))
               THEN "ok"
               ELSE IF account = None THEN "failed" ELSE "unverified"))
      PROVE  IInv'
  <2>1. PICK k : k = [m EXCEPT !.clean = @ /\ status # "other"]
    OBVIOUS
  <2>2. PICK out : out = IF ~NeedsRepair(account, TRUE, status, Answers(m.slug, status))
                         THEN "ok" ELSE IF account = None THEN "failed" ELSE "unverified"
    OBVIOUS
  <2>3. PICK n : n = Finally(k, out)
    OBVIOUS
  <2>4. k \in Memory
    <3>1. (m.clean /\ status # "other") \in BOOLEAN
      OBVIOUS
    <3>2. QED
      BY <1>3, <2>1, <3>1, Updates
  <2>5. Same(m, k)
    BY <1>3, <2>1, <2>4 DEF Memory, Same, Tour
  <2>6. out \in {"ok", "failed", "unverified"} /\ out \in Verdict
    BY <2>2 DEF Verdict
  <2>7. n \in Memory /\ n.pc = "cleanup" /\ n.out = out /\ n.key = 0 /\ Same(m, n)
    BY <2>3, <2>4, <2>5, <2>6, FinallyIs DEF Same
  <2>8. /\ n.inventory = m.inventory /\ n.stored = m.stored /\ n.final = m.final
        /\ n.slug = m.slug /\ n.verdict = m.verdict /\ n.todo = m.todo /\ n.adm = m.adm
    BY <2>7 DEF Same, Tour
  <2>9. ShapeOf(n) /\ VersionsOf(n)
    BY <1>2, <1>3, <2>7, <2>8 DEF Fit, ShapeOf, VersionsOf, AtStack, Repairing, Minted
  <2>10. NoneLost => Working(m.slug)
    BY <1>2, <1>3 DEF Fit, SoundOf
  <2>11. out = "ok" /\ Untouched => Provisioned(m.slug)
    <3>1. SUFFICES ASSUME out = "ok", Untouched PROVE Provisioned(m.slug)
      OBVIOUS
    <3>2. ~NeedsRepair(account, TRUE, status, Answers(m.slug, status))
      BY <2>2, <3>1
    <3>3. status = "200" /\ ~Drift(answered[m.slug])
      BY <3>2 DEF NeedsRepair, Answers
    <3>4. token[m.slug] = m.key /\ m.key # 0
      BY <1>6, <3>3 DEF StatusOf
    <3>5. Working(m.slug)
      BY <1>2, <1>3, <3>1, <3>4 DEF Fit, TokensOf
    <3>6. Trusted(m.slug)
      BY <1>3 DEF StacksOK
    <3>7. QED
      BY <1>3, <3>1, <3>3, <3>5, <3>6 DEF Provisioned, Drift, Trusted, StacksOK, Role, Pair
  <2>12. \A s \in Stack : /\ Concluded(n, s, Held) => Concluded(m, s, Held) \/ s = m.slug
                          /\ Concluded(n, s, {"ok"}) =>
                               Concluded(m, s, {"ok"}) \/ (s = m.slug /\ out = "ok")
    BY <2>7, <2>8 DEF Concluded
  <2>13. Engaged(m, m.slug)
    BY <1>2 DEF Engaged
  <2>14. n.adm <= ids /\ n.key <= ids
    BY <1>3, <2>7, <2>8 DEF Fit, BoundsOf, StacksOK
  <2>15. Tame(m, n)
    BY <1>2, <2>7, <2>8, <2>9, <2>10, <2>11, <2>12, <2>13, <2>14
    DEF Tame, Minted, OneLost, Untouched
  <2>16. Local(r, n)
    BY <1>6, <2>1, <2>2, <2>3
  <2>17. QED
    BY <1>1, <1>2, <2>7, <2>8, <2>15, <2>16, LocalStep
<1>7. QED
  BY <1>1, <1>4, <1>5, <1>6 DEF Verify

LEMMA CleanupKeeps ==
  ASSUME IInv, NEW r \in Run, Cleanup(r)
  PROVE  IInv'
<1>1. PICK m : m = run[r]
  OBVIOUS
<1>2. m.pc = "cleanup" /\ m.pc \in Repairing \ Minted
  BY <1>1 DEF Cleanup, Repairing, Minted
<1>3. /\ m \in Memory /\ Fit(m) /\ StacksOK /\ m.slug \in Stack \ Skipped /\ m.slug # None
      /\ "failed" \in Verdict \ Held /\ m.out \in Verdict /\ m.pc \in AtStack
  BY <1>1, <1>2, RepairIs DEF Memory, AtStack
<1>4. PICK n : n = Conclude(m, m.out)
  OBVIOUS
<1>5. PICK f : f = Conclude(m, "failed")
  OBVIOUS
<1>6. PICK g : g = Soiled(f)
  OBVIOUS
<1>7. Delete(r, admin[m.slug] = m.adm, SetAdmin(m.slug, 0) /\ UNCHANGED ids, n, f)
  BY <1>1, <1>4, <1>5 DEF Cleanup
<1>8. ASSUME NEW k \in {n, f, g}
      PROVE  /\ k \in Memory /\ ShapeOf(k) /\ VersionsOf(k) /\ VersionsOf(k)' /\ Mild(m, k)
             /\ k.slug = None /\ k.adm = 0 /\ k.key = 0
  <2>1. CASE k = n
    BY <1>2, <1>3, <1>4, <2>1, Concluding
  <2>2. CASE k = f
    BY <1>3, <1>5, <2>2, Concluding
  <2>3. CASE k = g
    BY <1>3, <1>5, <1>6, <2>3, Concluding
  <2>4. QED
    BY <2>1, <2>2, <2>3
<1>9. ASSUME NEW k \in {n, g}, SetAdmin(m.slug, 0), UNCHANGED ids, Onward, Become(r, k)
      PROVE  IInv'
  <2>1. StacksOK' /\ Harmless /\ UNCHANGED <<token, store>>
    BY <1>3, <1>9, AdminIsHarmless DEF SetAdmin
  <2>2. /\ admin' = [admin EXCEPT ![m.slug] = 0] /\ admin \in [Stack -> Nat]
    BY <1>3, <1>9 DEF SetAdmin, StacksOK
  <2>3. \A s \in Stack : admin'[s] # 0 => admin'[s] = admin[s] /\ ~(m.slug = s /\ m.adm = admin[s])
    BY <1>3, <2>2
  <2>4. k.adm <= ids' /\ k.key <= ids'
    BY <1>3, <1>8, <1>9 DEF StacksOK
  <2>5. QED
    BY <1>1, <1>2, <1>8, <1>9, <2>1, <2>3, <2>4, MildStep
<1>10. CASE SetAdmin(m.slug, 0) /\ UNCHANGED ids /\ Become(r, n) /\ Calm
  BY <1>3, <1>9, <1>10, CalmOnward
<1>11. CASE /\ SetAdmin(m.slug, 0) /\ UNCHANGED ids /\ Become(r, g)
            /\ Trouble("lost") /\ UNCHANGED <<starts, churn, returned>>
  BY <1>3, <1>9, <1>11, TroubleOnward
<1>12. CASE /\ Become(r, g) /\ Trouble("undeleted")
            /\ UNCHANGED <<stacks, store, ids, starts, churn, returned>>
  <2>1. Onward /\ ~Quietly'
    BY <1>3, <1>12, TroubleOnward
  <2>2. StacksOK' /\ Harmless /\ UNCHANGED <<token, store>>
    BY <1>3, <1>12, <2>1, StillIsHarmless DEF Onward, stacks
  <2>3. g.adm <= ids' /\ g.key <= ids'
    BY <1>3, <1>8, <1>12 DEF StacksOK
  <2>4. QED
    BY <1>1, <1>2, <1>8, <1>12, <2>1, <2>2, <2>3, MildStep
<1>13. CASE admin[m.slug] # m.adm /\ Local(r, f)
  BY <1>1, <1>2, <1>8, <1>13, LocalMild
<1>14. QED
  BY <1>6, <1>7, <1>10, <1>11, <1>12, <1>13 DEF Delete

\* What a run does when it is at no stack.
LEMMA AtNoStack ==
  ASSUME NEW m \in Memory, Fit(m), m.pc \in {"load", "next", "final", "prune", "idle"}
  PROVE  /\ m.slug = None /\ m.adm = 0 /\ m.pc \notin Minted
         /\ \A s : /\ Concluded(m, s, Held) <=> m.verdict[s] \in Held
                  /\ Concluded(m, s, {"ok"}) <=> m.verdict[s] = "ok"
<1>1. m.pc \notin AtStack /\ m.pc \notin Repairing /\ m.pc \notin Minted /\ m.pc # "cleanup"
  BY DEF AtStack, Repairing, Minted
<1>2. QED
  BY <1>1 DEF Fit, ShapeOf, Concluded

LEMMA DieKeeps ==
  ASSUME IInv, NEW r \in Run, Die(r)
  PROVE  IInv'
<1>1. PICK m : m = run[r]
  OBVIOUS
<1>2. StacksOK /\ m \in Memory /\ Fit(m)
  BY <1>1, RunIs
<1>3. /\ Become(r, Idle) /\ Trouble("died")
      /\ UNCHANGED <<stacks, store, ids, starts, churn, returned>>
  BY DEF Die
<1>4. /\ Worse /\ ~Quietly' /\ (NoneLost => NoneLost')
      /\ trouble' \in [{"lost", "undeleted", "died"} -> Nat] /\ starts' \in Nat
  BY <1>2, <1>3, TroubleIsWorse DEF StacksOK
<1>5. StacksOK' /\ Harmless
  BY <1>2, <1>3, <1>4, StillIsHarmless
<1>6. Tame(m, Idle)
  BY <1>2, IdleIs
  DEF Tame, ShapeOf, VersionsOf, Concluded, AtStack, Repairing, Minted, Held, StacksOK
<1>7. Tame(m, Idle)'
  BY <1>3, <1>4, <1>6, TameStays
<1>8. QED
  BY <1>1, <1>3, <1>4, <1>5, <1>7, IdleIs, TameStep

LEMMA EndKeeps ==
  ASSUME IInv, NEW r \in Run, End(r)
  PROVE  IInv'
<1>1. PICK m : m = run[r]
  OBVIOUS
<1>2. StacksOK /\ m \in Memory /\ Fit(m) /\ m.pc = "prune"
  BY <1>1, RunIs DEF End
<1>3. PICK n : n = [Idle EXCEPT !.verdict = m.verdict]
  OBVIOUS
<1>4. Local(r, n)
  BY <1>1, <1>3 DEF End
<1>5. /\ n \in Memory /\ n.pc = "idle" /\ n.slug = None /\ n.adm = 0 /\ n.key = 0
      /\ n.stored = Nothing /\ n.final = Nothing /\ ~n.clean /\ n.verdict = m.verdict
  <2>1. n \in Memory
    BY <1>2, <1>3, IdleIs DEF Memory
  <2>2. QED
    BY <1>3, <2>1, IdleIs DEF Memory
<1>6. Tame(m, n)
  BY <1>2, <1>5 DEF Tame, ShapeOf, VersionsOf, Concluded, AtStack, Repairing, Minted, StacksOK
<1>7. QED
  BY <1>1, <1>2, <1>4, <1>5, <1>6, AtNoStack, LocalStep

LEMMA PruningIs ==
  ASSUME NEW m \in Memory, Fit(m), m.pc \in {"next", "final"}
  PROVE  \A n \in {Pruning(m), Soiled(Pruning(m))} :
           /\ n \in Memory /\ ShapeOf(n) /\ VersionsOf(n) /\ Mild(m, n)
           /\ n.slug = None /\ n.adm = 0 /\ n.key = m.key
<1>1. PICK k : k = Pruning(m)
  OBVIOUS
<1>2. Targets(m) \in SUBSET Stack /\ Targets(m) \cap m.inventory = {}
  BY DEF Targets
<1>3. k \in Memory
  <2>1. [m EXCEPT !.pc = "prune"] \in Memory
    BY Updates DEF Phase
  <2>2. [m EXCEPT !.pc = "prune", !.todo = Targets(m)] \in Memory
    BY <1>2, <2>1, Updates
  <2>3. [m EXCEPT !.pc = "prune", !.todo = Targets(m), !.final = Nothing] \in Memory
    BY <2>2, Defaults, Updates
  <2>4. QED
    BY <1>1, <2>3 DEF Pruning
<1>4. /\ k.pc = "prune" /\ k.todo = Targets(m) /\ k.final = Nothing /\ k.slug = m.slug
      /\ k.adm = m.adm /\ k.key = m.key /\ k.inventory = m.inventory /\ k.stored = m.stored
      /\ k.verdict = m.verdict
  BY <1>1, <1>3 DEF Pruning, Memory
<1>5. ASSUME NEW n \in Memory, n.pc = "prune", n.todo = Targets(m), n.final = Nothing,
             n.slug = m.slug, n.adm = m.adm, n.key = m.key, n.inventory = m.inventory,
             n.stored = m.stored, n.verdict = m.verdict
      PROVE  /\ ShapeOf(n) /\ VersionsOf(n) /\ Mild(m, n)
             /\ n.slug = None /\ n.adm = 0 /\ n.key = m.key
  <2>1. m.slug = None /\ m.adm = 0
    BY AtNoStack
  <2>2. ShapeOf(n) /\ VersionsOf(n)
    BY <1>2, <1>5, <2>1 DEF ShapeOf, VersionsOf, AtStack, Repairing, Minted
  <2>3. Mild(m, n)
    BY <1>5, <2>1 DEF Mild, Concluded, Minted
  <2>4. QED
    BY <1>5, <2>1, <2>2, <2>3
<1>6. /\ Soiled(k) \in Memory /\ Soiled(k).pc = "prune" /\ Soiled(k).todo = Targets(m)
      /\ Soiled(k).final = Nothing /\ Soiled(k).slug = m.slug /\ Soiled(k).adm = m.adm
      /\ Soiled(k).key = m.key /\ Soiled(k).inventory = m.inventory
      /\ Soiled(k).stored = m.stored /\ Soiled(k).verdict = m.verdict
  BY <1>3, <1>4, SoiledIs DEF Tour
<1>7. QED
  BY <1>1, <1>3, <1>4, <1>5, <1>6

LEMMA ReloadKeeps ==
  ASSUME IInv, NEW r \in Run, Reload(r)
  PROVE  IInv'
<1>1. PICK m : m = run[r]
  OBVIOUS
<1>2. StacksOK /\ m \in Memory /\ Fit(m) /\ m.pc = "next"
  BY <1>1, RunIs DEF Reload
<1>3. m.slug = None /\ m.adm = 0 /\ m.pc \notin Minted
  BY <1>2, AtNoStack
<1>4. CASE Local(r, Pruning(m)) \/ Local(r, Soiled(Pruning(m)))
  <2>1. PICK n \in {Pruning(m), Soiled(Pruning(m))} : Local(r, n)
    BY <1>4
  <2>2. /\ n \in Memory /\ ShapeOf(n) /\ VersionsOf(n) /\ Mild(m, n)
        /\ n.slug = None /\ n.adm = 0 /\ n.key = m.key
    BY <1>2, PruningIs
  <2>3. QED
    BY <1>1, <1>3, <2>1, <2>2, LocalMild
<1>5. CASE Local(r, [m EXCEPT !.pc = "final", !.todo = Unverified(m), !.final = store])
  <2>1. PICK n : n = [m EXCEPT !.pc = "final", !.todo = Unverified(m), !.final = store]
    OBVIOUS
  <2>2. n \in Memory
    <3>1. Unverified(m) \in SUBSET Stack /\ store \in [Stack -> Record \cup {None}]
      BY <1>2 DEF Unverified, StacksOK
    <3>2. [m EXCEPT !.pc = "final"] \in Memory
      BY <1>2, Updates DEF Phase
    <3>3. [m EXCEPT !.pc = "final", !.todo = Unverified(m)] \in Memory
      BY <3>1, <3>2, Updates
    <3>4. QED
      BY <2>1, <3>1, <3>3, Updates
  <2>3. /\ n.pc = "final" /\ n.todo = Unverified(m) /\ n.final = store /\ n.slug = m.slug
        /\ n.adm = m.adm /\ n.key = m.key /\ n.inventory = m.inventory /\ n.stored = m.stored
        /\ n.verdict = m.verdict
    BY <2>1, <2>2 DEF Memory
  <2>4. ShapeOf(n) /\ VersionsOf(n)
    BY <1>3, <2>3 DEF ShapeOf, VersionsOf, AtStack, Repairing, Minted, Unverified
  <2>5. n.adm <= ids /\ n.key <= ids
    BY <1>2, <2>3 DEF Fit, BoundsOf
  <2>6. Tame(m, n)
    BY <1>2, <1>3, <2>3, <2>4, <2>5 DEF Tame, Concluded, Minted
  <2>7. QED
    BY <1>1, <1>3, <1>5, <2>1, <2>2, <2>6, LocalStep
<1>6. QED
  BY <1>1, <1>4, <1>5 DEF Reload

LEMMA ReverifyKeeps ==
  ASSUME IInv, NEW r \in Run, Reverify(r)
  PROVE  IInv'
<1>1. PICK m : m = run[r]
  OBVIOUS
<1>2. StacksOK /\ m \in Memory /\ Fit(m) /\ m.pc = "final"
  BY <1>1, RunIs DEF Reverify
<1>3. m.slug = None /\ m.adm = 0 /\ m.pc \notin Minted /\ m.todo \subseteq Unverified(m)
  BY <1>2, AtNoStack DEF Fit, ShapeOf
<1>4. CASE Local(r, Pruning(m))
  <2>1. PICK n : n = Pruning(m)
    OBVIOUS
  <2>2. /\ n \in Memory /\ ShapeOf(n) /\ VersionsOf(n) /\ Mild(m, n)
        /\ n.slug = None /\ n.adm = 0 /\ n.key = m.key
    BY <1>2, <2>1, PruningIs
  <2>3. QED
    BY <1>1, <1>3, <1>4, <2>1, <2>2, LocalMild
<1>5. ASSUME NEW s \in m.todo PROVE
        LET rest == [m EXCEPT !.todo = @ \ {s}] IN
        /\ rest \in Memory /\ s \in Stack /\ m.verdict[s] \in {"pending", "unverified"}
        /\ rest.pc = "final" /\ rest.todo = m.todo \ {s} /\ rest.verdict = m.verdict
        /\ rest.slug = None /\ rest.adm = 0 /\ rest.key = m.key /\ Tour(rest) = Tour(m)
        /\ rest.clean = m.clean
  <2>1. m.todo \ {s} \in SUBSET Stack /\ s \in Stack
    BY <1>2 DEF Memory
  <2>2. [m EXCEPT !.todo = m.todo \ {s}] \in Memory
    BY <1>2, <2>1, Updates
  <2>3. m.verdict[s] \in {"pending", "unverified"}
    BY <1>3 DEF Unverified
  <2>4. QED
    BY <1>2, <1>3, <2>1, <2>2, <2>3 DEF Memory, Tour
<1>6. ASSUME NEW s \in m.todo, NEW n \in Memory, n.pc = "final", n.todo = m.todo \ {s},
             n.verdict = m.verdict, n.slug = None, n.adm = 0, n.key = m.key, Tour(n) = Tour(m),
             Local(r, n)
      PROVE  IInv'
  <2>1. n.inventory = m.inventory /\ n.stored = m.stored /\ n.final = m.final
    BY <1>6 DEF Tour
  <2>2. ShapeOf(n) /\ VersionsOf(n)
    BY <1>3, <1>6 DEF ShapeOf, VersionsOf, AtStack, Repairing, Minted, Unverified
  <2>3. Mild(m, n)
    BY <1>2, <1>6, <2>1 DEF Mild, Concluded, Minted
  <2>4. QED
    BY <1>1, <1>3, <1>6, <2>2, <2>3, LocalMild
<1>7. ASSUME NEW s \in m.todo, Local(r, [m EXCEPT !.todo = @ \ {s}])
      PROVE  IInv'
  <2>1. PICK rest : rest = [m EXCEPT !.todo = @ \ {s}]
    OBVIOUS
  <2>2. QED
    BY <1>5, <1>6, <1>7, <2>1
<1>8. ASSUME NEW s \in m.todo, NEW status,
             Local(r, [[m EXCEPT !.todo = @ \ {s}] EXCEPT !.clean = @ /\ status # "other"])
      PROVE  IInv'
  <2>1. PICK rest : rest = [m EXCEPT !.todo = @ \ {s}]
    OBVIOUS
  <2>2. PICK n : n = [rest EXCEPT !.clean = @ /\ status # "other"]
    OBVIOUS
  <2>3. rest \in Memory
    BY <1>5, <2>1
  <2>4. n \in Memory
    <3>1. (rest.clean /\ status # "other") \in BOOLEAN
      OBVIOUS
    <3>2. QED
      BY <2>2, <2>3, <3>1, Updates
  <2>5. /\ n.pc = rest.pc /\ n.todo = rest.todo /\ n.verdict = rest.verdict /\ n.slug = rest.slug
        /\ n.adm = rest.adm /\ n.key = rest.key /\ Tour(n) = Tour(rest)
    BY <2>2, <2>3, <2>4 DEF Memory, Tour
  <2>6. /\ n.pc = "final" /\ n.todo = m.todo \ {s} /\ n.verdict = m.verdict /\ n.slug = None
        /\ n.adm = 0 /\ n.key = m.key /\ Tour(n) = Tour(m)
    BY <1>5, <2>1, <2>5
  <2>7. Local(r, n)
    BY <1>8, <2>1, <2>2
  <2>8. QED
    BY <1>6, <2>4, <2>6, <2>7
<1>9. ASSUME NEW s \in m.todo, HasSecret(m.final[s]),
             NEW status \in StatusOf(s, m.final[s].token),
             ~NeedsRepair(List(s).reader, TRUE, status, Answers(s, status)),
             Local(r, [[m EXCEPT !.todo = @ \ {s}] EXCEPT !.verdict[s] = "ok"])
      PROVE  IInv'
  <2>1. PICK rest : rest = [m EXCEPT !.todo = @ \ {s}]
    OBVIOUS
  <2>2. PICK n : n = [rest EXCEPT !.verdict[s] = "ok"]
    OBVIOUS
  <2>3. rest \in Memory /\ s \in Stack /\ rest.verdict = m.verdict
    BY <1>5, <2>1
  <2>4. n \in Memory
    BY <2>2, <2>3, Updates DEF Verdict
  <2>5. /\ n.pc = rest.pc /\ n.todo = rest.todo /\ n.slug = rest.slug
        /\ n.verdict = [m.verdict EXCEPT ![s] = "ok"]
        /\ n.adm = rest.adm /\ n.key = rest.key /\ Tour(n) = Tour(rest)
    BY <2>2, <2>3, <2>4 DEF Memory, Tour
  <2>6. /\ n.pc = "final" /\ n.todo = m.todo \ {s} /\ n.slug = None /\ n.adm = 0
        /\ n.key = m.key /\ n.inventory = m.inventory /\ n.stored = m.stored
        /\ n.final = m.final /\ m.verdict[s] \in {"pending", "unverified"}
    BY <1>5, <2>1, <2>5 DEF Tour
  <2>7. m.verdict \in [Stack -> Verdict]
    BY <1>2 DEF Memory
  <2>8. ShapeOf(n) /\ VersionsOf(n)
    BY <1>3, <2>5, <2>6, <2>7 DEF ShapeOf, VersionsOf, AtStack, Repairing, Minted, Unverified
  <2>9. Untouched => Provisioned(s)
    BY <1>2, <1>9, <2>3, AnswerIsTrue DEF Fit, TokensOf
  <2>10. Engaged(m, s) /\ (s \notin Skipped => (NoneLost => Working(s)))
    BY <1>2, <2>3, <2>6 DEF Engaged, Held, Fit, SoundOf, Concluded
  <2>11. \A x \in Stack : x # s => /\ Concluded(n, x, Held) => Concluded(m, x, Held)
                                   /\ Concluded(n, x, {"ok"}) => Concluded(m, x, {"ok"})
    BY <2>5, <2>6, <2>7 DEF Concluded
  <2>12. n.adm <= ids /\ n.key <= ids
    BY <1>2, <2>6 DEF Fit, BoundsOf, StacksOK
  <2>13. Tame(m, n)
    BY <1>2, <2>6, <2>8, <2>9, <2>10, <2>11, <2>12 DEF Tame, Minted, OneLost, Untouched
  <2>14. QED
    BY <1>1, <1>3, <1>9, <2>1, <2>2, <2>4, <2>13, LocalStep
<1>10. QED
  BY <1>1, <1>4, <1>7, <1>8, <1>9 DEF Reverify

LEMMA PruneKeeps ==
  ASSUME IInv, NEW r \in Run, Prune(r)
  PROVE  IInv'
<1>1. PICK m : m = run[r]
  OBVIOUS
<1>2. StacksOK /\ m \in Memory /\ Fit(m) /\ m.pc = "prune"
  BY <1>1, RunIs DEF Prune
<1>3. m.slug = None /\ m.adm = 0 /\ m.pc \notin Minted /\ m.todo \cap m.inventory = {}
  BY <1>2, AtNoStack DEF Fit, ShapeOf
<1>4. PICK s \in m.todo :
        Request(r, store[s] # None, SetStore(s, None) /\ UNCHANGED ids,
                [m EXCEPT !.todo = @ \ {s}], [m EXCEPT !.todo = @ \ {s}])
  BY <1>1 DEF Prune
<1>5. s \in Stack /\ (Untouched => s \notin estate)
  BY <1>2, <1>3 DEF Memory, Fit, BoundsOf
<1>6. PICK n : n = [m EXCEPT !.todo = @ \ {s}]
  OBVIOUS
<1>7. n \in Memory
  <2>1. m.todo \ {s} \in SUBSET Stack
    BY <1>2 DEF Memory
  <2>2. QED
    BY <1>2, <1>6, <2>1, Updates
<1>8. /\ n.pc = "prune" /\ n.todo = m.todo \ {s} /\ n.slug = m.slug /\ n.adm = m.adm
      /\ n.key = m.key /\ n.verdict = m.verdict /\ Tour(n) = Tour(m)
  BY <1>2, <1>6, <1>7 DEF Memory, Tour
<1>9. /\ Soiled(n) \in Memory /\ Soiled(n).pc = "prune" /\ Soiled(n).todo = m.todo \ {s}
      /\ Soiled(n).slug = m.slug /\ Soiled(n).adm = m.adm /\ Soiled(n).key = m.key
      /\ Soiled(n).verdict = m.verdict /\ Tour(Soiled(n)) = Tour(m)
  BY <1>7, <1>8, SoiledIs
<1>10. ASSUME NEW k \in {n, Soiled(n)}
       PROVE  /\ k \in Memory /\ ShapeOf(k) /\ VersionsOf(k) /\ VersionsOf(k)' /\ Mild(m, k)
              /\ k.slug = None /\ k.adm = 0 /\ k.key = m.key
  <2>1. /\ k \in Memory /\ k.pc = "prune" /\ k.todo = m.todo \ {s} /\ k.slug = m.slug
        /\ k.adm = m.adm /\ k.key = m.key /\ k.verdict = m.verdict /\ Tour(k) = Tour(m)
    BY <1>7, <1>8, <1>9
  <2>2. k.inventory = m.inventory /\ k.stored = m.stored /\ k.final = m.final
    BY <2>1 DEF Tour
  <2>3. ShapeOf(k) /\ VersionsOf(k) /\ VersionsOf(k)'
    BY <1>3, <2>1, <2>2 DEF ShapeOf, VersionsOf, AtStack, Repairing, Minted
  <2>4. Mild(m, k)
    BY <1>2, <1>3, <2>1, <2>2 DEF Mild, Concluded, Minted
  <2>5. QED
    BY <1>3, <2>1, <2>3, <2>4
<1>11. ASSUME NEW k \in {n, Soiled(n)}, SetStore(s, None), UNCHANGED ids, Onward, Become(r, k)
       PROVE  IInv'
  <2>1. StacksOK' /\ Harmless /\ Worse
    BY <1>2, <1>5, <1>11, PruneIsHarmless DEF Onward
  <2>2. UNCHANGED <<admin, token>> /\ store' = [store EXCEPT ![s] = None]
    BY <1>11 DEF SetStore, stacks
  <2>3. k.adm <= ids' /\ k.key <= ids'
    BY <1>2, <1>10, <1>11 DEF Fit, BoundsOf, StacksOK
  <2>4. Tame(m, k)'
    BY <1>10, <2>3, MildNext
  <2>5. \A x \in Stack : x # s => Working(x)' = Working(x)
    BY <1>2, <2>2 DEF Working, StacksOK
  <2>6. churn' = 0 => token[s] = 0
    BY <1>2, <1>5, <1>11 DEF StacksOK, Kept, Onward, Untouched
  <2>7. QED
    BY <1>1, <1>3, <1>10, <1>11, <2>1, <2>2, <2>4, <2>5, <2>6, TameStep
<1>12. CASE SetStore(s, None) /\ UNCHANGED ids /\ Become(r, n) /\ Calm
  BY <1>2, <1>11, <1>12, CalmOnward
<1>13. CASE /\ SetStore(s, None) /\ UNCHANGED ids /\ Become(r, Soiled(n))
            /\ Trouble("lost") /\ UNCHANGED <<starts, churn, returned>>
  BY <1>2, <1>11, <1>13, TroubleOnward
<1>14. CASE Local(r, n) \/ Local(r, Soiled(n))
  BY <1>1, <1>3, <1>10, <1>14, LocalMild
<1>15. QED
  BY <1>4, <1>6, <1>12, <1>13, <1>14 DEF Request

-----------------------------------------------------------------------------
(* The token's own three steps.                                               *)

LEMMA ApartStays ==
  ASSUME Harmless, Worse, NEW k \in Memory, NEW l, Fit(k), Apart(k, l)
  PROVE  Apart(k, l)'
<1>1. Shaken(k)' => Shaken(k)
  BY DEF Harmless
<1>2. QED
  BY <1>1 DEF Apart, Unrelied, Worse, Concluded

\* A run that goes on from a minted token, or comes to one.
LEMMA MintKeeps ==
  ASSUME IInv, NEW r \in Run, Mint(r)
  PROVE  IInv'
<1>1. PICK m : m = run[r]
  OBVIOUS
<1>2. m.pc = "mint" /\ m.pc \in Repairing \ Minted
  BY <1>1 DEF Mint, Repairing, Minted
<1>3. /\ m \in Memory /\ Fit(m) /\ StacksOK /\ m.slug \in Stack \ Skipped /\ m.slug # None
      /\ "failed" \in Verdict \ Held /\ m.pc \in Repairing
  BY <1>1, <1>2, RepairIs
<1>4. PICK n : n = [m EXCEPT !.pc = "store", !.key = ids + 1]
  OBVIOUS
<1>5. PICK f : f = Finally(m, "failed")
  OBVIOUS
<1>6. PICK g : g = Soiled(f)
  OBVIOUS
<1>7. PICK accepted \in BOOLEAN : accepted = (m.slug \in estate /\ Holds(m) /\ token[m.slug] = 0)
  OBVIOUS
<1>8. Request(r, accepted, SetToken(m.slug, ids + 1) /\ NewId, n, f)
  BY <1>1, <1>4, <1>5, <1>7 DEF Mint
<1>9. ids \in Nat /\ m.key <= ids /\ m.adm <= ids /\ m.adm \in Nat /\ m.key \in Nat
  BY <1>3 DEF StacksOK, Fit, BoundsOf, Memory
<1>10. n \in Memory
  <2>1. [m EXCEPT !.pc = "store"] \in Memory
    BY <1>3, Updates DEF Phase
  <2>2. ids + 1 \in Nat
    BY <1>9
  <2>3. QED
    BY <1>4, <2>1, <2>2, Updates
<1>11. n.pc = "store" /\ n.key = ids + 1 /\ n.sas = m.sas /\ Same(m, n)
  BY <1>3, <1>4, <1>10 DEF Memory, Same, Tour
<1>12. /\ n.inventory = m.inventory /\ n.stored = m.stored /\ n.final = m.final
       /\ n.slug = m.slug /\ n.verdict = m.verdict /\ n.todo = m.todo /\ n.adm = m.adm
  BY <1>11 DEF Same, Tour
<1>13. ASSUME accepted, SetToken(m.slug, ids + 1), NewId, Onward
       PROVE  /\ StacksOK' /\ Harmless /\ UNCHANGED <<admin, store>> /\ ids' = ids + 1
              /\ token[m.slug] = 0 /\ token' = [token EXCEPT ![m.slug] = ids + 1]
              /\ token'[m.slug] = ids + 1
              /\ \A s \in Stack : s # m.slug => token'[s] = token[s] /\ Working(s)' = Working(s)
  <2>1. m.slug \in estate /\ token[m.slug] = 0
    BY <1>7, <1>13
  <2>2. /\ ids' = ids + 1 /\ UNCHANGED <<admin, store>>
        /\ token' = [token EXCEPT ![m.slug] = ids + 1]
    BY <1>13 DEF NewId, SetToken
  <2>3. StacksOK' /\ Harmless
    BY <1>3, <1>13, <2>1, <2>2, MintIsHarmless
  <2>4. token'[m.slug] = ids + 1 /\ \A s \in Stack : s # m.slug => token'[s] = token[s]
    BY <1>3, <2>2 DEF StacksOK
  <2>5. QED
    BY <2>1, <2>2, <2>3, <2>4 DEF Working
<1>14. CASE accepted /\ SetToken(m.slug, ids + 1) /\ NewId /\ Become(r, n) /\ Calm
  <2>1. Onward
    BY <1>3, <1>14, CalmOnward DEF NewId
  <2>2. /\ StacksOK' /\ Harmless /\ UNCHANGED <<admin, store>> /\ ids' = ids + 1
        /\ token[m.slug] = 0 /\ token'[m.slug] = ids + 1
        /\ \A s \in Stack : s # m.slug => token'[s] = token[s] /\ Working(s)' = Working(s)
    BY <1>13, <1>14, <2>1
  <2>3. Fit(m)' /\ Worse
    BY <1>3, <2>1, <2>2 DEF Harmless, Onward
  <2>4. ~Working(m.slug) /\ Kept(m.slug) /\ Trusted(m.slug)
    BY <1>3, <2>2 DEF Working, StacksOK
  <2>5. Fit(n)'
    <3>1. ShapeOf(n)' /\ VersionsOf(n)'
      BY <1>2, <1>3, <1>9, <1>11, <1>12
      DEF Fit, ShapeOf, VersionsOf, AtStack, Repairing, Minted, Unverified
    <3>2. BoundsOf(n)'
      BY <1>2, <1>9, <1>11, <1>12, <2>2, <2>3 DEF Fit, BoundsOf
    <3>3. ~Live(m.slug, store[m.slug])'
      <4>1. store[m.slug] # None => store[m.slug].token <= ids /\ store[m.slug].token \in Nat
        BY <1>3, <2>4 DEF Kept, StacksOK, Record
      <4>2. QED
        BY <1>9, <2>2, <4>1 DEF Live, HasSecret
    <3>4. TokensOf(n)'
      <4>1. \A s \in Stack : Untouched' /\ (Live(s, n.stored[s])' \/ Live(s, n.final[s])') => Working(s)'
        BY <1>12, <2>3 DEF Fit, TokensOf, Live
      <4>2. QED
        BY <1>11, <1>12, <2>2, <3>3, <4>1 DEF TokensOf, Minted, Live
    <3>5. \A s, V : Concluded(n, s, V) => Concluded(m, s, V)
      BY <1>11, <1>12 DEF Concluded
    <3>6. NoneLost' => ~HasSecret(store[m.slug])'
      BY <2>2, <2>3, <2>4 DEF Trusted, Worse
    <3>7. SoundOf(n)'
      BY <1>11, <1>12, <2>3, <3>5, <3>6 DEF Fit, SoundOf, Minted, Concluded
    <3>8. ReportedOf(n)'
      BY <1>11, <1>12, <2>3 DEF Fit, ReportedOf, Concluded
    <3>9. QED
      BY <3>1, <3>2, <3>4, <3>7, <3>8 DEF Fit
  <2>6. ASSUME NEW k \in Memory, Fit(k), Apart(m, k), Apart(k, m)
        PROVE  /\ Fit(k)' /\ (OneLost' /\ Shaken(k)' => Shaken(k))
               /\ Apart(n, k)' /\ Apart(k, n)'
    <3>1. Fit(k)' /\ (Shaken(k)' => Shaken(k))
      BY <2>2, <2>6 DEF Harmless
    <3>2. Untouched /\ k.pc \in Minted => k.slug # m.slug
      BY <2>2, <2>6 DEF Fit, TokensOf, ShapeOf
    <3>3. Apart(n, k)'
      BY <1>11, <1>12, <2>3, <3>2 DEF Apart, Unrelied, Shaken, Worse
    <3>4. ASSUME OneLost', Shaken(k)'
          PROVE  /\ ~Concluded(n, k.slug, Held)
                 /\ n.slug = k.slug => n.pc # "verify" /\ ~HasSecret(n.stored[k.slug])
      BY <1>2, <1>11, <1>12, <2>3, <2>6, <3>1, <3>4 DEF Apart, Unrelied, Concluded, Worse
    <3>5. Apart(k, n)'
      BY <1>11, <1>12, <2>3, <3>2, <3>4 DEF Apart, Unrelied, Worse, Concluded
    <3>6. QED
      BY <3>1, <3>3, <3>5
  <2>7. Quietly' => \A s \in Stack : admin'[s] # 0 =>
          \/ n.slug = s /\ n.adm = admin'[s]
          \/ admin'[s] = admin[s] /\ ~(m.slug = s /\ m.adm = admin[s])
    BY <1>12, <2>2
  <2>8. \A s \in Stack : token'[s] # 0 =>
          \/ n.pc \in Minted /\ n.slug = s /\ n.key = token'[s]
          \/ /\ token'[s] = token[s] /\ (Working(s) => Working(s)')
             /\ ~(m.pc \in Minted /\ m.slug = s /\ m.key = token[s])
    BY <1>2, <1>11, <1>12, <2>2 DEF Minted
  <2>9. QED
    BY <1>1, <1>10, <1>14, <2>2, <2>3, <2>5, <2>6, <2>7, <2>8, RunStep
<1>15. /\ f \in Memory /\ g \in Memory /\ ShapeOf(g) /\ VersionsOf(g)' /\ Mild(m, g)
       /\ g.slug = m.slug /\ g.adm = m.adm /\ g.key = 0
  BY <1>3, <1>5, <1>6, GivingUp
<1>16. CASE /\ accepted /\ SetToken(m.slug, ids + 1) /\ NewId /\ Become(r, g)
            /\ Trouble("lost") /\ UNCHANGED <<starts, churn, returned>>
  <2>1. Onward /\ ~Quietly'
    BY <1>3, <1>16, TroubleOnward DEF NewId
  <2>2. StacksOK' /\ Harmless /\ ids' = ids + 1
    BY <1>13, <1>16, <2>1
  <2>3. Tame(m, g)'
    BY <1>9, <1>15, <2>2, MildNext
  <2>4. QED
    BY <1>1, <1>15, <1>16, <2>1, <2>2, <2>3, TameStep DEF Onward
<1>17. CASE Local(r, IF accepted THEN g ELSE f)
  BY <1>1, <1>2, <1>3, <1>5, <1>6, <1>17, GivesUp
<1>18. QED
  BY <1>6, <1>8, <1>14, <1>16, <1>17 DEF Request

\* The secret of the token that a run minted is stored.
LEMMA StoreSuits ==
  ASSUME StacksOK, NEW m \in Memory, Fit(m), m.pc = "store", NEW record \in Record,
         record.token = m.key, SetStore(m.slug, record), Onward
  PROVE  /\ StacksOK' /\ (Untouched => Working(m.slug)')
         /\ UNCHANGED <<estate, admin, token>>
         /\ \A k \in Memory : Fit(k) /\ (Untouched /\ k.pc \in Minted => k.slug # m.slug) =>
              Fit(k)' /\ (OneLost' /\ Shaken(k)' => Shaken(k))
<1>1. /\ store' = [store EXCEPT ![m.slug] = record]
      /\ UNCHANGED <<estate, admin, reader, role, answered, token, churn, returned>>
  BY DEF SetStore, stacks, Onward
<1>2. /\ m.slug \in Stack /\ m.key # 0 /\ m.key <= ids /\ m.key \in Nat
      /\ record # None /\ Kept(m.slug)
  BY PlaceIs, NoneAssumption DEF Fit, ShapeOf, BoundsOf, AtStack, Repairing, Minted, Memory, StacksOK
<1>3. store'[m.slug] = record /\ \A s \in Stack : s # m.slug => store'[s] = store[s]
  BY <1>1, <1>2 DEF StacksOK
<1>4. /\ \A s \in Stack : s # m.slug => Working(s)' = Working(s) /\ Provisioned(s)' = Provisioned(s)
      /\ Untouched => Working(m.slug)'
      /\ Untouched => (Provisioned(m.slug) => Provisioned(m.slug)')
  <2>1. Untouched => token[m.slug] = m.key
    BY DEF Fit, TokensOf, Minted
  <2>2. Untouched => Working(m.slug)'
    BY <1>1, <1>2, <1>3, <2>1 DEF Working, HasSecret
  <2>3. QED
    BY <1>1, <1>3, <2>2 DEF Working, Provisioned
<1>5. StacksOK'
  <2>1. \A s \in Stack : Kept(s)'
    BY <1>1, <1>2, <1>3 DEF StacksOK, Kept, Onward, Account, Record
  <2>2. \A s \in Stack : Trusted(s)'
    BY <1>1, <1>3, <1>4 DEF StacksOK, Trusted, Onward, Worse, NoneLost, Untouched
  <2>3. QED
    BY <1>1, <2>1, <2>2 DEF StacksOK, Onward
<1>6. ASSUME NEW k \in Memory, Fit(k), Untouched /\ k.pc \in Minted => k.slug # m.slug
      PROVE  Fit(k)' /\ (OneLost' /\ Shaken(k)' => Shaken(k))
  <2>1. Authorised(k)' = Authorised(k)
    BY <1>1 DEF Authorised
  <2>2. ShapeOf(k)' /\ VersionsOf(k)'
    BY <1>1, <1>6, <2>1 DEF Fit, ShapeOf, VersionsOf, Unverified
  <2>3. BoundsOf(k)'
    BY <1>1, <1>6 DEF Fit, BoundsOf, Onward, Worse, Memory, Record, StacksOK
  <2>4. k.pc \in Minted \cup {"verify"} => k.slug \in Stack
    BY <1>6 DEF Fit, ShapeOf, AtStack, Repairing, Minted, Memory
  <2>5. Untouched /\ k.pc \in Minted => store'[k.slug] = store[k.slug]
    BY <1>3, <1>6, <2>4
  <2>6. TokensOf(k)'
    <3>1. SUFFICES ASSUME Untouched
                   PROVE  /\ k.pc \in Minted => token[k.slug] = k.key
                          /\ k.pc = "store" => ~Live(k.slug, store[k.slug])'
                          /\ k.pc = "verify" /\ k.key # 0 /\ token[k.slug] = k.key => Working(k.slug)'
                          /\ \A s \in Stack : Live(s, k.stored[s]) \/ Live(s, k.final[s]) => Working(s)'
      BY <1>1 DEF TokensOf, Onward, Worse, Live
    <3>2. k.pc = "store" => ~Live(k.slug, store[k.slug])'
      BY <1>1, <1>6, <2>5, <3>1 DEF Fit, TokensOf, Live, Minted
    <3>3. QED
      BY <1>4, <1>6, <2>4, <3>1, <3>2 DEF Fit, TokensOf
  <2>7. SoundOf(k)'
    <3>1. SUFFICES ASSUME NoneLost'
                   PROVE  /\ k.pc \in Minted => ~HasSecret(store[k.slug])'
                          /\ k.pc = "verify" => Working(k.slug)'
                          /\ \A s \in Stack : HasSecret(k.stored[s]) => Working(s)'
                          /\ \A s \in Stack \ Skipped : Concluded(k, s, Held) => Working(s)'
      BY DEF SoundOf, HasSecret, Concluded
    <3>2. NoneLost /\ Untouched
      BY <3>1 DEF Onward, Worse, NoneLost, Untouched
    <3>3. k.pc \in Minted => ~HasSecret(store[k.slug])'
      BY <1>6, <2>5, <3>2 DEF Fit, SoundOf, HasSecret
    <3>4. QED
      BY <1>4, <1>6, <2>4, <3>2, <3>3 DEF Fit, SoundOf
  <2>8. ReportedOf(k)'
    BY <1>1, <1>4, <1>6 DEF Fit, ReportedOf, Concluded, Onward, Worse, OneLost, Untouched
  <2>9. OneLost' /\ Shaken(k)' => Shaken(k)
    BY <1>1, <2>1, <2>5 DEF Shaken, Minted, Authorised, Live, HasSecret, OneLost, Untouched
  <2>10. QED
    BY <2>2, <2>3, <2>6, <2>7, <2>8, <2>9 DEF Fit
<1>7. QED
  BY <1>1, <1>4, <1>5, <1>6

\* The token that a run minted is revoked.
LEMMA RevokeSuits ==
  ASSUME StacksOK, NEW m \in Memory, Fit(m), m.pc = "revoke", Authorised(m),
         token[m.slug] = m.key, SetToken(m.slug, 0), Onward
  PROVE  /\ StacksOK' /\ UNCHANGED <<estate, admin, store>>
         /\ token'[m.slug] = 0
         /\ \A s \in Stack : s # m.slug => token'[s] = token[s] /\ Working(s)' = Working(s)
         /\ \A k \in Memory :
              /\ Fit(k) /\ (Untouched /\ k.pc \in Minted => k.slug # m.slug)
              /\ OneLost /\ Shaken(m) => ~Concluded(k, m.slug, {"ok"})
              => Fit(k)' /\ (Shaken(k)' => Shaken(k))
<1>1. /\ token' = [token EXCEPT ![m.slug] = 0]
      /\ UNCHANGED <<estate, admin, reader, role, answered, store, churn, returned>>
  BY DEF SetToken, Onward
<1>2. m.slug \in Stack /\ m.key # 0
  BY PlaceIs DEF Fit, ShapeOf, AtStack, Repairing, Minted
<1>3. token'[m.slug] = 0 /\ \A s \in Stack : s # m.slug => token'[s] = token[s]
  BY <1>1, <1>2 DEF StacksOK
<1>4. /\ \A s \in Stack : s # m.slug => Working(s)' = Working(s) /\ Provisioned(s)' = Provisioned(s)
      /\ NoneLost => ~HasSecret(store[m.slug]) /\ ~Working(m.slug)
      /\ ~Shaken(m) => ~Working(m.slug) /\ ~Provisioned(m.slug)
  <2>1. NoneLost => ~HasSecret(store[m.slug])
    BY DEF Fit, SoundOf, Minted
  <2>2. ~Shaken(m) => ~Working(m.slug)
    BY DEF Shaken, Live, Working
  <2>3. QED
    BY <1>1, <1>3, <2>1, <2>2 DEF Working, Provisioned
<1>5. StacksOK'
  <2>1. \A s \in Stack : Kept(s)'
    BY <1>1, <1>3 DEF StacksOK, Kept, Onward, Account, Record
  <2>2. \A s \in Stack : Trusted(s)'
    BY <1>1, <1>3, <1>4 DEF StacksOK, Trusted, Onward, Worse
  <2>3. QED
    BY <1>1, <2>1, <2>2 DEF StacksOK, Onward
<1>6. ASSUME NEW k \in Memory, Fit(k), Untouched /\ k.pc \in Minted => k.slug # m.slug,
             OneLost /\ Shaken(m) => ~Concluded(k, m.slug, {"ok"})
      PROVE  Fit(k)' /\ (Shaken(k)' => Shaken(k))
  <2>1. Authorised(k)' = Authorised(k)
    BY <1>1 DEF Authorised
  <2>2. ShapeOf(k)' /\ VersionsOf(k)'
    BY <1>1, <1>6, <2>1 DEF Fit, ShapeOf, VersionsOf, Unverified
  <2>3. BoundsOf(k)'
    BY <1>1, <1>6 DEF Fit, BoundsOf, Onward, Worse, Memory, Record, StacksOK
  <2>4. k.pc \in Minted \cup {"verify"} => k.slug \in Stack
    BY <1>6 DEF Fit, ShapeOf, AtStack, Repairing, Minted, Memory
  <2>5. /\ ~Live(m.slug, k.stored[m.slug])' /\ ~Live(m.slug, k.final[m.slug])'
        /\ ~Live(m.slug, store[m.slug])'
        /\ \A s \in Stack : s # m.slug => /\ Live(s, k.stored[s])' = Live(s, k.stored[s])
                                          /\ Live(s, k.final[s])' = Live(s, k.final[s])
                                          /\ Live(s, store[s])' = Live(s, store[s])
    BY <1>1, <1>3 DEF Live, HasSecret
  <2>6. TokensOf(k)'
    <3>1. SUFFICES ASSUME Untouched
                   PROVE  /\ k.pc \in Minted => token'[k.slug] = k.key
                          /\ k.pc = "store" => ~Live(k.slug, store[k.slug])'
                          /\ k.pc = "verify" /\ k.key # 0 /\ token'[k.slug] = k.key => Working(k.slug)'
                          /\ \A s \in Stack : Live(s, k.stored[s])' \/ Live(s, k.final[s])' => Working(s)'
      BY <1>1 DEF TokensOf, Onward, Worse, Live
    <3>2. QED
      BY <1>3, <1>4, <1>6, <2>4, <2>5, <3>1 DEF Fit, TokensOf, Minted
  <2>7. SoundOf(k)'
    <3>1. SUFFICES ASSUME NoneLost'
                   PROVE  /\ k.pc \in Minted => ~HasSecret(store[k.slug])'
                          /\ k.pc = "verify" => Working(k.slug)'
                          /\ \A s \in Stack : HasSecret(k.stored[s]) => Working(s)'
                          /\ \A s \in Stack \ Skipped : Concluded(k, s, Held) => Working(s)'
      BY DEF SoundOf, HasSecret, Concluded
    <3>2. NoneLost
      BY <3>1 DEF Onward, Worse
    <3>3. k.pc \in Minted => ~HasSecret(store[k.slug])'
      BY <1>1, <1>6, <3>2 DEF Fit, SoundOf, HasSecret
    <3>4. QED
      BY <1>4, <1>6, <2>4, <3>2, <3>3 DEF Fit, SoundOf
  <2>8. ReportedOf(k)'
    <3>1. OneLost => ~Concluded(k, m.slug, {"ok"}) \/ m.slug \in Skipped
      BY <1>2, <1>4, <1>6 DEF Fit, ReportedOf
    <3>2. QED
      BY <1>1, <1>4, <1>6, <3>1 DEF Fit, ReportedOf, Concluded, Onward, Worse
  <2>9. Shaken(k)' => Shaken(k)
    BY <1>1, <1>3, <2>1, <2>5 DEF Shaken, Authorised, Live, StacksOK
  <2>10. QED
    BY <2>2, <2>3, <2>6, <2>7, <2>8, <2>9 DEF Fit
<1>7. QED
  BY <1>1, <1>3, <1>4, <1>5, <1>6

\* A memory that goes on with a minted token: what it still takes to fit.
LEMMA StillFits ==
  ASSUME NEW l \in Memory, Fit(l), l.pc = "cleanup", l.out = "failed",
         NEW n \in Memory, n.inventory = l.inventory, n.stored = l.stored, n.final = l.final,
         n.verdict = l.verdict, n.adm = l.adm, n.key <= ids, n.pc \in {"verify", "revoke"},
         ShapeOf(n),
         Untouched /\ n.pc = "revoke" => token[n.slug] = n.key,
         Untouched /\ n.pc = "verify" => Working(n.slug),
         NoneLost /\ n.pc = "revoke" => ~HasSecret(store[n.slug]),
         NoneLost /\ n.pc = "verify" => Working(n.slug)
  PROVE  Fit(n)
<1>1. BoundsOf(n) /\ VersionsOf(n)
  BY DEF Fit, BoundsOf, VersionsOf
<1>2. TokensOf(n) /\ SoundOf(n) /\ ReportedOf(n)
  BY DEF Fit, TokensOf, SoundOf, ReportedOf, Concluded, Minted
<1>3. QED
  BY <1>1, <1>2 DEF Fit

LEMMA StillFitsNext ==
  StacksOK' => (\A l, n \in Memory :
    /\ Fit(l) /\ l.pc = "cleanup" /\ l.out = "failed"
    /\ n.inventory = l.inventory /\ n.stored = l.stored /\ n.final = l.final
    /\ n.verdict = l.verdict /\ n.adm = l.adm /\ n.key <= ids /\ n.pc \in {"verify", "revoke"}
    /\ ShapeOf(n)
    /\ Untouched /\ n.pc = "revoke" => token[n.slug] = n.key
    /\ Untouched /\ n.pc = "verify" => Working(n.slug)
    /\ NoneLost /\ n.pc = "revoke" => ~HasSecret(store[n.slug])
    /\ NoneLost /\ n.pc = "verify" => Working(n.slug)
    => Fit(n))'
<1>1. StacksOK => \A l, n \in Memory :
        /\ Fit(l) /\ l.pc = "cleanup" /\ l.out = "failed"
        /\ n.inventory = l.inventory /\ n.stored = l.stored /\ n.final = l.final
        /\ n.verdict = l.verdict /\ n.adm = l.adm /\ n.key <= ids /\ n.pc \in {"verify", "revoke"}
        /\ ShapeOf(n)
        /\ Untouched /\ n.pc = "revoke" => token[n.slug] = n.key
        /\ Untouched /\ n.pc = "verify" => Working(n.slug)
        /\ NoneLost /\ n.pc = "revoke" => ~HasSecret(store[n.slug])
        /\ NoneLost /\ n.pc = "verify" => Working(n.slug)
        => Fit(n)
  BY StillFits
<1>2. QED
  BY <1>1, PTL

\* The memory of a run that leaves its minted token behind.
LEMMA LeavesIt ==
  ASSUME StacksOK, NEW m \in Memory, Fit(m), m.pc \in Minted
  PROVE  \A l \in {Finally(m, "failed"), Soiled(Finally(m, "failed"))} :
           /\ l \in Memory /\ Fit(l) /\ l.pc = "cleanup" /\ l.out = "failed" /\ Mild(m, l)
           /\ ShapeOf(l) /\ VersionsOf(l) /\ VersionsOf(l)'
           /\ l.slug = m.slug /\ l.adm = m.adm /\ l.key = 0 /\ l.verdict = m.verdict
           /\ l.inventory = m.inventory /\ l.stored = m.stored /\ l.final = m.final
<1>1. m.pc \in Repairing /\ "failed" \in Verdict /\ "failed" \notin Held
  BY DEF Minted, Repairing, Verdict, Held
<1>2. PICK f : f = Finally(m, "failed")
  OBVIOUS
<1>3. /\ f \in Memory /\ f.pc = "cleanup" /\ f.out = "failed" /\ f.verdict = m.verdict
      /\ Tour(f) = Tour(m)
  BY <1>1, <1>2, FinallyIs
<1>4. Soiled(f).pc = "cleanup" /\ Soiled(f).out = "failed" /\ Soiled(f).verdict = m.verdict
      /\ Tour(Soiled(f)) = Tour(m)
  BY <1>3, SoiledIs
<1>5. ASSUME NEW l \in {f, Soiled(f)}
      PROVE  /\ l \in Memory /\ l.pc = "cleanup" /\ l.out = "failed" /\ Mild(m, l)
             /\ ShapeOf(l) /\ VersionsOf(l) /\ VersionsOf(l)'
             /\ l.slug = m.slug /\ l.adm = m.adm /\ l.key = 0 /\ l.verdict = m.verdict
             /\ l.inventory = m.inventory /\ l.stored = m.stored /\ l.final = m.final
  BY <1>1, <1>2, <1>3, <1>4, GivingUp DEF Tour
<1>6. ASSUME NEW l \in {f, Soiled(f)} PROVE Fit(l)
  <2>1. l.adm <= ids /\ l.key <= ids
    BY <1>5 DEF Fit, BoundsOf, StacksOK
  <2>2. QED
    BY <1>5, <2>1, MildIsTame, TameFits
<1>7. QED
  BY <1>2, <1>5, <1>6

LEMMA StoreKeeps ==
  ASSUME IInv, NEW r \in Run, Store(r)
  PROVE  IInv'
<1>1. PICK m : m = run[r]
  OBVIOUS
<1>2. m.pc = "store" /\ m.pc \in Repairing /\ m.pc \in Minted
  BY <1>1 DEF Store, Repairing, Minted
<1>3. /\ m \in Memory /\ Fit(m) /\ StacksOK /\ m.slug \in Stack \ Skipped /\ m.slug # None
      /\ m.verdict[m.slug] = "none" /\ m.key # 0 /\ m.key \in Nat /\ m.key <= ids
      /\ m.sas.reader # None
  <2>1. /\ m \in Memory /\ Fit(m) /\ StacksOK /\ m.slug \in Stack \ Skipped /\ m.slug # None
        /\ m.verdict[m.slug] = "none"
    BY <1>1, <1>2, RepairIs
  <2>2. m.key # 0 /\ m.key <= ids /\ m.sas.reader # None
    BY <1>2, <2>1 DEF Fit, ShapeOf, BoundsOf
  <2>3. m.key \in Nat
    BY <2>1 DEF Memory
  <2>4. QED
    BY <2>1, <2>2, <2>3
<1>4. PICK record : record = [token |-> m.key, sa |-> m.sas.reader.id]
  OBVIOUS
<1>5. PICK n : n = [m EXCEPT !.pc = "verify"]
  OBVIOUS
<1>6. PICK f : f = [m EXCEPT !.pc = "revoke"]
  OBVIOUS
<1>7. PICK g : g = Soiled(f)
  OBVIOUS
<1>8. Request(r, TRUE, SetStore(m.slug, record) /\ UNCHANGED ids, n, f)
  BY <1>1, <1>4, <1>5, <1>6 DEF Store
<1>9. record \in Record /\ record.token = m.key
  <2>1. m.sas.reader \in Seen
    BY <1>3 DEF Memory, Listing
  <2>2. QED
    BY <1>3, <1>4, <2>1 DEF Record, Seen
<1>10. n \in Memory /\ f \in Memory
  BY <1>3, <1>5, <1>6, Updates DEF Phase
<1>11. /\ n.pc = "verify" /\ Same(m, n) /\ n.key = m.key
       /\ f.pc = "revoke" /\ Same(m, f) /\ f.key = m.key
  BY <1>3, <1>5, <1>6, <1>10 DEF Memory, Same, Tour
<1>12. g \in Memory /\ g.pc = "revoke" /\ Same(m, g) /\ g.key = m.key
  BY <1>7, <1>10, <1>11, SoiledIs DEF Same, Tour
<1>13. PICK l : l = Finally(m, "failed")
  OBVIOUS
<1>14. /\ l \in Memory /\ Fit(l) /\ l.pc = "cleanup" /\ l.out = "failed"
       /\ l.slug = m.slug /\ l.adm = m.adm /\ l.verdict = m.verdict
       /\ l.inventory = m.inventory /\ l.stored = m.stored /\ l.final = m.final
  BY <1>2, <1>3, <1>13, LeavesIt
<1>15. ASSUME NEW k \in Memory, k.pc \in {"verify", "revoke"}, Same(m, k), k.key = m.key
       PROVE  /\ k.inventory = m.inventory /\ k.stored = m.stored /\ k.final = m.final
              /\ k.slug = m.slug /\ k.verdict = m.verdict /\ k.todo = m.todo /\ k.adm = m.adm
              /\ ShapeOf(k) /\ ShapeOf(k)'
  <2>1. /\ k.inventory = m.inventory /\ k.stored = m.stored /\ k.final = m.final
        /\ k.slug = m.slug /\ k.verdict = m.verdict /\ k.todo = m.todo /\ k.adm = m.adm
    BY <1>15 DEF Same, Tour
  <2>2. ShapeOf(k) /\ ShapeOf(k)'
    BY <1>2, <1>3, <1>15, <2>1 DEF Fit, ShapeOf, AtStack, Repairing, Minted, Unverified
  <2>3. QED
    BY <2>1, <2>2
<1>16. Untouched => token[m.slug] = m.key /\ ~Live(m.slug, store[m.slug])
  BY <1>2, <1>3 DEF Fit, TokensOf
<1>17. NoneLost => ~HasSecret(store[m.slug]) /\ ~Working(m.slug)
  BY <1>2, <1>3 DEF Fit, SoundOf, Working
\* Whoever is shaken is elsewhere, and does not lean on this run.
<1>18. ASSUME NEW k \in Memory, Apart(m, k), Apart(k, m), Shaken(k), OneLost,
              NEW p \in Memory, p.pc \in {"verify", "revoke"}, Same(m, p)
       PROVE  ~Concluded(p, k.slug, Held) /\ p.slug # k.slug
  <2>1. k.pc = "revoke" /\ Untouched
    BY <1>18 DEF Shaken, OneLost, Untouched
  <2>2. k.slug # m.slug
    BY <1>2, <1>18, <2>1 DEF Apart, Minted
  <2>3. ~Concluded(m, k.slug, Held)
    BY <1>18 DEF Apart, Unrelied
  <2>4. QED
    BY <1>18, <2>2, <2>3 DEF Same, Concluded
<1>19. ASSUME SetStore(m.slug, record), UNCHANGED ids, Onward,
              NEW p \in Memory, p.pc \in {"verify", "revoke"}, Same(m, p), p.key = m.key,
              Become(r, p),
              p.pc = "revoke" => ~NoneLost' /\ (OneLost' => NoneLost)
       PROVE  IInv'
  <2>1. /\ StacksOK' /\ Worse /\ (Untouched => Working(m.slug)')
        /\ UNCHANGED <<estate, admin, token>>
        /\ store' = [store EXCEPT ![m.slug] = record]
    BY <1>2, <1>3, <1>9, <1>19, StoreSuits DEF Onward, SetStore
  <2>2. ASSUME NEW k \in Memory, Fit(k), Untouched /\ k.pc \in Minted => k.slug # m.slug
        PROVE  Fit(k)' /\ (OneLost' /\ Shaken(k)' => Shaken(k))
    BY <1>2, <1>3, <1>9, <1>19, <2>2, StoreSuits
  <2>3. Fit(l)'
    BY <1>14, <2>2 DEF Minted
  <2>4. Untouched' => Untouched
    BY <2>1 DEF Worse
  <2>5. NoneLost' => Untouched'
    BY DEF NoneLost, Untouched
  <2>6. /\ p.inventory = m.inventory /\ p.stored = m.stored /\ p.final = m.final
        /\ p.slug = m.slug /\ p.verdict = m.verdict /\ p.todo = m.todo /\ p.adm = m.adm
        /\ ShapeOf(p)'
    BY <1>15, <1>19
  <2>7. Fit(p)'
    <3>1. p.key <= ids'
      BY <1>3, <1>19
    <3>2. /\ Untouched' /\ p.pc = "revoke" => token'[p.slug] = p.key
          /\ Untouched' /\ p.pc = "verify" => Working(p.slug)'
          /\ NoneLost' /\ p.pc = "revoke" => ~HasSecret(store[p.slug])'
          /\ NoneLost' /\ p.pc = "verify" => Working(p.slug)'
      <4>1. Working(p.slug)' = Working(m.slug)'
        BY <2>6 DEF Working
      <4>2. QED
        BY <1>16, <1>19, <2>1, <2>4, <2>5, <2>6, <4>1
    <3>3. QED
      BY <1>14, <1>19, <2>1, <2>3, <2>6, <3>1, <3>2, StillFitsNext
  <2>8. ASSUME NEW k \in Memory, Fit(k), Apart(m, k), Apart(k, m)
        PROVE  /\ Fit(k)' /\ (OneLost' /\ Shaken(k)' => Shaken(k))
               /\ Apart(p, k)' /\ Apart(k, p)'
    <3>1. Untouched /\ k.pc \in Minted => k.slug # m.slug
      BY <1>2, <2>8 DEF Apart
    <3>2. Fit(k)' /\ (OneLost' /\ Shaken(k)' => Shaken(k))
      BY <2>2, <2>8, <3>1
    <3>3. OneLost' => OneLost
      BY <2>1 DEF Worse
    <3>4. OneLost' /\ Shaken(k)' => ~Concluded(p, k.slug, Held) /\ p.slug # k.slug
      BY <1>18, <1>19, <2>8, <3>2, <3>3
    <3>5. Apart(k, p)'
      BY <2>4, <2>6, <3>1, <3>4 DEF Apart, Unrelied, Concluded
    <3>6. OneLost' /\ Shaken(p)' =>
            /\ ~Concluded(k, m.slug, Held)
            /\ k.slug = m.slug => k.pc # "verify" /\ ~HasSecret(k.stored[m.slug])
      <4>1. SUFFICES ASSUME OneLost', Shaken(p)'
                     PROVE  /\ ~Concluded(k, m.slug, Held)
                            /\ k.slug = m.slug => k.pc # "verify" /\ ~HasSecret(k.stored[m.slug])
        OBVIOUS
      <4>2. p.pc = "revoke"
        BY <4>1 DEF Shaken
      <4>3. NoneLost /\ ~Working(m.slug)
        BY <1>17, <1>19, <4>1, <4>2
      <4>4. QED
        BY <1>3, <2>8, <4>3 DEF Fit, SoundOf
    <3>7. Apart(p, k)'
      BY <2>4, <2>6, <3>1, <3>6 DEF Apart, Unrelied, Concluded
    <3>8. QED
      BY <3>2, <3>5, <3>7
  <2>9. Quietly' => \A s \in Stack : admin'[s] # 0 =>
          \/ p.slug = s /\ p.adm = admin'[s]
          \/ admin'[s] = admin[s] /\ ~(m.slug = s /\ m.adm = admin[s])
    BY <2>1, <2>6
  <2>10. Quietly' /\ churn' = 0 => \A s \in Stack : token'[s] # 0 =>
           \/ Working(s)'
           \/ p.pc \in Minted /\ p.slug = s /\ p.key = token'[s]
           \/ /\ token'[s] = token[s] /\ (Working(s) => Working(s)')
              /\ ~(m.pc \in Minted /\ m.slug = s /\ m.key = token[s])
    <3>1. \A s \in Stack : s # m.slug => Working(s)' = Working(s)
      BY <1>3, <2>1 DEF Working, StacksOK
    <3>2. churn' = 0 => Working(m.slug)'
      BY <2>1, <2>4 DEF Untouched
    <3>3. QED
      BY <2>1, <3>1, <3>2
  <2>11. QED
    BY <1>1, <1>19, <2>1, <2>7, <2>8, <2>9, <2>10, RunStep
<1>20. CASE SetStore(m.slug, record) /\ UNCHANGED ids /\ Become(r, n) /\ Calm
  <2>1. Onward
    BY <1>3, <1>20, CalmOnward
  <2>2. QED
    BY <1>10, <1>11, <1>19, <1>20, <2>1
<1>21. CASE /\ SetStore(m.slug, record) /\ UNCHANGED ids /\ Become(r, g)
            /\ Trouble("lost") /\ UNCHANGED <<starts, churn, returned>>
  <2>1. Onward /\ ~NoneLost' /\ (OneLost' => NoneLost)
    BY <1>3, <1>21, TroubleOnward, TroubleIsWorse
  <2>2. QED
    BY <1>12, <1>19, <1>21, <2>1
<1>22. CASE Local(r, g)
  <2>1. /\ g.inventory = m.inventory /\ g.stored = m.stored /\ g.final = m.final
        /\ g.slug = m.slug /\ g.verdict = m.verdict /\ g.todo = m.todo /\ g.adm = m.adm
        /\ ShapeOf(g)
    BY <1>12, <1>15
  <2>2. Fit(g)
    BY <1>3, <1>12, <1>14, <1>16, <1>17, <2>1, StillFits
  <2>3. Become(r, g) /\ UNCHANGED <<stacks, store, ids>> /\ Calm
    BY <1>22 DEF Local, Quiet
  <2>4. Worse /\ UNCHANGED <<starts, churn, returned, trouble>>
    BY <2>3, CalmIsNoWorse
  <2>5. StacksOK' /\ Harmless
    <3>1. starts' \in Nat /\ trouble' \in [{"lost", "undeleted", "died"} -> Nat]
      BY <1>3, <2>4 DEF StacksOK
    <3>2. QED
      BY <1>3, <2>3, <2>4, <3>1, StillIsHarmless
  <2>6. ASSUME NEW k \in Memory, Fit(k), Apart(m, k), Apart(k, m)
        PROVE  /\ Fit(k)' /\ (OneLost' /\ Shaken(k)' => Shaken(k))
               /\ Apart(g, k)' /\ Apart(k, g)'
    <3>1. Fit(k)' /\ (Shaken(k)' => Shaken(k))
      BY <2>5, <2>6 DEF Harmless
    <3>2. OneLost => ~Shaken(g)
      BY <1>16, <2>1 DEF Shaken, OneLost, Untouched
    <3>3. Untouched /\ k.pc \in Minted => k.slug # m.slug
      BY <1>2, <2>6 DEF Apart
    <3>4. Apart(g, k)
      BY <2>1, <3>2, <3>3 DEF Apart, Unrelied
    <3>5. OneLost /\ Shaken(k) => ~Concluded(g, k.slug, Held) /\ g.slug # k.slug
      BY <1>12, <1>18, <2>6
    <3>6. Apart(k, g)
      BY <2>1, <3>3, <3>5 DEF Apart, Unrelied
    <3>7. QED
      BY <1>12, <2>2, <2>4, <2>5, <2>6, <3>1, <3>4, <3>6, ApartStays
  <2>7. Fit(g)'
    BY <1>12, <2>2, <2>5 DEF Harmless
  <2>8. UNCHANGED <<admin, token, store>> /\ \A s : Working(s)' = Working(s)
    BY <2>3 DEF stacks, Working
  <2>9. Quietly' => \A s \in Stack : admin'[s] # 0 =>
          \/ g.slug = s /\ g.adm = admin'[s]
          \/ admin'[s] = admin[s] /\ ~(m.slug = s /\ m.adm = admin[s])
    BY <2>1, <2>8
  <2>10. \A s \in Stack : token'[s] # 0 =>
           \/ g.pc \in Minted /\ g.slug = s /\ g.key = token'[s]
           \/ /\ token'[s] = token[s] /\ (Working(s) => Working(s)')
              /\ ~(m.pc \in Minted /\ m.slug = s /\ m.key = token[s])
    BY <1>12, <2>1, <2>8 DEF Minted
  <2>11. QED
    BY <1>1, <1>12, <2>3, <2>4, <2>5, <2>6, <2>7, <2>9, <2>10, RunStep
<1>23. QED
  BY <1>7, <1>8, <1>20, <1>21, <1>22 DEF Request

LEMMA RevokeKeeps ==
  ASSUME IInv, NEW r \in Run, Revoke(r)
  PROVE  IInv'
<1>1. PICK m : m = run[r]
  OBVIOUS
<1>2. m.pc = "revoke" /\ m.pc \in Repairing /\ m.pc \in Minted
  BY <1>1 DEF Revoke, Repairing, Minted
<1>3. /\ m \in Memory /\ Fit(m) /\ StacksOK /\ m.slug \in Stack \ Skipped /\ m.slug # None
      /\ m.verdict[m.slug] = "none"
  BY <1>1, <1>2, RepairIs
<1>4. PICK f : f = Finally(m, "failed")
  OBVIOUS
<1>5. PICK g : g = Soiled(f)
  OBVIOUS
<1>6. ASSUME NEW l \in {f, g}
      PROVE  /\ l \in Memory /\ Fit(l) /\ l.pc = "cleanup" /\ l.out = "failed" /\ Mild(m, l)
             /\ ShapeOf(l) /\ VersionsOf(l) /\ VersionsOf(l)'
             /\ l.slug = m.slug /\ l.adm = m.adm /\ l.key = 0 /\ l.verdict = m.verdict
             /\ l.inventory = m.inventory /\ l.stored = m.stored /\ l.final = m.final
  BY <1>2, <1>3, <1>4, <1>5, <1>6, LeavesIt
<1>7. ASSUME NEW l \in {f, g}, Authorised(m), token[m.slug] = m.key,
             SetToken(m.slug, 0), UNCHANGED ids, Onward, Become(r, l)
      PROVE  IInv'
  <2>1. /\ l \in Memory /\ Fit(l) /\ l.pc = "cleanup" /\ l.out = "failed"
        /\ l.slug = m.slug /\ l.adm = m.adm /\ l.key = 0 /\ l.verdict = m.verdict
    BY <1>6
  <2>2. /\ StacksOK' /\ UNCHANGED <<estate, admin, store>> /\ token'[m.slug] = 0
        /\ \A s \in Stack : s # m.slug => token'[s] = token[s] /\ Working(s)' = Working(s)
    BY <1>2, <1>3, <1>7, RevokeSuits
  <2>3. ASSUME NEW k \in Memory, Fit(k), Untouched /\ k.pc \in Minted => k.slug # m.slug,
               OneLost /\ Shaken(m) => ~Concluded(k, m.slug, {"ok"})
        PROVE  Fit(k)' /\ (Shaken(k)' => Shaken(k))
    BY <1>2, <1>3, <1>7, <2>3, RevokeSuits
  <2>4. Worse
    BY <1>7 DEF Onward
  <2>5. ~Concluded(l, m.slug, {"ok"}) /\ l.pc \notin Minted
    BY <1>3, <2>1 DEF Concluded, Minted
  <2>6. Fit(l)'
    BY <2>1, <2>3, <2>5
  <2>7. ASSUME NEW k \in Memory, Fit(k), Apart(m, k), Apart(k, m)
        PROVE  /\ Fit(k)' /\ (OneLost' /\ Shaken(k)' => Shaken(k))
               /\ Apart(l, k)' /\ Apart(k, l)'
    <3>1. Untouched /\ k.pc \in Minted => k.slug # m.slug
      BY <1>2, <2>7 DEF Apart
    <3>2. OneLost /\ Shaken(m) => ~Concluded(k, m.slug, {"ok"})
      BY <2>7 DEF Apart, Unrelied, Concluded, Held
    <3>3. Fit(k)' /\ (Shaken(k)' => Shaken(k))
      BY <2>3, <2>7, <3>1, <3>2
    <3>4. Apart(l, k)'
      BY <2>1 DEF Apart, Unrelied, Shaken, Minted
    <3>5. OneLost' /\ Shaken(k)' => ~Concluded(l, k.slug, Held) /\ l.slug # k.slug
      <4>1. SUFFICES ASSUME OneLost', Shaken(k)'
                     PROVE  ~Concluded(l, k.slug, Held) /\ l.slug # k.slug
        OBVIOUS
      <4>2. OneLost /\ Untouched /\ Shaken(k)
        BY <2>4, <3>3, <4>1 DEF Worse, OneLost, Untouched
      <4>3. k.slug # m.slug
        BY <3>1, <4>2 DEF Shaken, Minted
      <4>4. ~Concluded(m, k.slug, Held)
        BY <2>7, <4>2 DEF Apart, Unrelied
      <4>5. QED
        BY <2>1, <4>3, <4>4 DEF Concluded
    <3>6. Apart(k, l)'
      BY <2>1, <3>5 DEF Apart, Unrelied, Minted, Concluded
    <3>7. QED
      BY <3>3, <3>4, <3>6
  <2>8. Quietly' => \A s \in Stack : admin'[s] # 0 =>
          \/ l.slug = s /\ l.adm = admin'[s]
          \/ admin'[s] = admin[s] /\ ~(m.slug = s /\ m.adm = admin[s])
    BY <2>1, <2>2
  <2>9. \A s \in Stack : token'[s] # 0 =>
          /\ token'[s] = token[s] /\ (Working(s) => Working(s)')
          /\ ~(m.pc \in Minted /\ m.slug = s /\ m.key = token[s])
    BY <2>2
  <2>10. QED
    BY <1>1, <1>7, <2>1, <2>2, <2>4, <2>6, <2>7, <2>8, <2>9, RunStep
<1>8. ASSUME NEW l \in {f, g}, Become(r, l), Trouble("undeleted"),
             UNCHANGED <<stacks, store, ids, starts, churn, returned>>
      PROVE  IInv'
  <2>1. Onward /\ ~Quietly'
    BY <1>3, <1>8, TroubleOnward
  <2>2. StacksOK' /\ Harmless /\ Worse
    BY <1>3, <1>8, <2>1, StillIsHarmless DEF Onward
  <2>3. l \in Memory /\ l.adm <= ids' /\ l.key <= ids'
    BY <1>3, <1>6, <1>8 DEF Fit, BoundsOf, StacksOK
  <2>4. Tame(m, l)'
    BY <1>6, <2>3, MildNext
  <2>5. QED
    BY <1>1, <1>8, <2>1, <2>2, <2>3, <2>4, TameStep
<1>9. CASE token[m.slug] # m.key /\ Local(r, f)
  BY <1>1, <1>6, <1>9, LocalMild
<1>10. CASE /\ Authorised(m)
            /\ Delete(r, token[m.slug] = m.key, SetToken(m.slug, 0) /\ UNCHANGED ids, f, f)
  <2>1. CASE /\ token[m.slug] = m.key /\ SetToken(m.slug, 0) /\ UNCHANGED ids
             /\ Become(r, f) /\ Calm
    BY <1>3, <1>7, <1>10, <2>1, CalmOnward
  <2>2. CASE /\ token[m.slug] = m.key /\ SetToken(m.slug, 0) /\ UNCHANGED ids
             /\ Become(r, g) /\ Trouble("lost") /\ UNCHANGED <<starts, churn, returned>>
    BY <1>3, <1>7, <1>10, <2>2, TroubleOnward
  <2>3. CASE /\ Become(r, g) /\ Trouble("undeleted")
             /\ UNCHANGED <<stacks, store, ids, starts, churn, returned>>
    BY <1>8, <2>3
  <2>4. QED
    BY <1>5, <1>9, <1>10, <2>1, <2>2, <2>3 DEF Delete
<1>11. CASE /\ Become(r, f) /\ Trouble("undeleted")
            /\ UNCHANGED <<stacks, store, ids, starts, churn, returned>>
  BY <1>8, <1>11
<1>12. QED
  BY <1>1, <1>4, <1>9, <1>10, <1>11 DEF Revoke

-----------------------------------------------------------------------------
(* Steps that are not a run's.                                                *)

\* The runs stay as they are.
LEMMA RunsStay ==
  ASSUME IInv, UNCHANGED run, StacksOK',
         \A k \in Memory : Fit(k) => Fit(k)',
         \A k, l \in Memory : Fit(k) /\ Apart(k, l) => Apart(k, l)',
         AdminsAccounted', SecretsAccounted'
  PROVE  IInv'
<1>1. ASSUME NEW q \in Run PROVE Fit(run[q])'
  <2>1. PICK k : k = run[q]
    OBVIOUS
  <2>2. k \in Memory /\ Fit(k)
    BY <2>1 DEF IInv, TypeOK
  <2>3. Fit(k)' /\ run'[q] = k
    BY <2>1, <2>2
  <2>4. QED
    BY <2>3, FitNext
<1>2. ASSUME NEW p \in Run, NEW q \in Run, p # q PROVE Apart(run[p], run[q])'
  <2>1. PICK k : k = run[p]
    OBVIOUS
  <2>2. PICK l : l = run[q]
    OBVIOUS
  <2>3. k \in Memory /\ l \in Memory /\ Fit(k) /\ Apart(k, l)
    BY <1>2, <2>1, <2>2 DEF IInv, TypeOK
  <2>4. Apart(k, l)' /\ run'[p] = k /\ run'[q] = l
    BY <2>1, <2>2, <2>3
  <2>5. QED
    BY <2>4, ApartNext
<1>3. TypeOK' /\ \A s \in Stack : (Kept(s) /\ Trusted(s))'
  BY DEF IInv, TypeOK, StacksOK
<1>4. QED
  BY <1>1, <1>2, <1>3 DEF IInv

LEMMA PropagateKeeps ==
  ASSUME IInv, NEW s \in Stack, Propagate(s)
  PROVE  IInv'
<1>1. /\ answered' = [answered EXCEPT ![s] = Effective(s)]
      /\ UNCHANGED <<estate, admin, reader, role, token, store, run, ids>> /\ Calm
  BY DEF Propagate
<1>2. StacksOK
  BY DEF IInv, TypeOK, StacksOK
<1>3. Onward /\ Worse
  BY <1>1, <1>2, CalmOnward DEF Onward
<1>4. StacksOK' /\ Harmless
  BY <1>1, <1>2, <1>3, AnswersAreHarmless
<1>5. \A k \in Memory : Fit(k) => Fit(k)'
  BY <1>4 DEF Harmless
<1>6. \A k, l \in Memory : Fit(k) /\ Apart(k, l) => Apart(k, l)'
  BY <1>3, <1>4, ApartStays
<1>7. AdminsAccounted' /\ SecretsAccounted'
  <2>1. \A x : Working(x)' = Working(x)
    BY <1>1 DEF Working
  <2>2. UNCHANGED <<churn, trouble>>
    BY <1>1 DEF Calm
  <2>3. Quietly' = Quietly
    BY <2>2 DEF Quietly, Troubles
  <2>4. QED
    BY <1>1, <2>1, <2>2, <2>3 DEF IInv, AdminsAccounted, SecretsAccounted
<1>8. QED
  BY <1>1, <1>4, <1>5, <1>6, <1>7, RunsStay

\* What someone outside does leaves of each memory its shape, the ids it knows and
\* the versions it has read.
LEMMA ChurnKeeps ==
  ASSUME IInv, Churn,
         estate' \in SUBSET Stack, admin' \in [Stack -> Nat],
         reader' \in [Stack -> Account \cup {None}], role' \in [Stack -> Role],
         answered' \in [Stack -> SUBSET Pair], token' \in [Stack -> Nat],
         returned' \in SUBSET Stack,
         \A s \in Stack : Kept(s)' /\ (admin'[s] # 0 => admin'[s] = admin[s]),
         estate' \ estate \subseteq returned', returned \subseteq returned',
         \A k \in Memory : Fit(k) => VersionsOf(k)'
  PROVE  IInv'
<1>1. StacksOK
  BY DEF IInv, TypeOK, StacksOK
<1>2. churn' = churn + 1 /\ UNCHANGED <<store, run, ids, starts, trouble>>
  BY DEF Churn
<1>3. churn' \in Nat /\ churn' # 0
  BY <1>1, <1>2 DEF StacksOK
<1>4. ~Untouched' /\ ~NoneLost' /\ ~OneLost'
  BY <1>3 DEF Untouched, NoneLost, OneLost
<1>5. \A s \in Stack : Trusted(s)'
  BY <1>4 DEF Trusted
<1>6. StacksOK'
  BY <1>1, <1>2, <1>3, <1>5 DEF StacksOK
<1>7. ASSUME NEW k \in Memory, Fit(k) PROVE Fit(k)'
  <2>1. ShapeOf(k)'
    BY <1>7 DEF Fit, ShapeOf, Unverified
  <2>2. BoundsOf(k)'
    BY <1>2, <1>4, <1>7 DEF Fit, BoundsOf
  <2>3. TokensOf(k)' /\ SoundOf(k)' /\ ReportedOf(k)'
    BY <1>4 DEF TokensOf, SoundOf, ReportedOf
  <2>4. QED
    BY <1>7, <2>1, <2>2, <2>3 DEF Fit
<1>8. \A k, l \in Memory : Fit(k) /\ Apart(k, l) => Apart(k, l)'
  BY <1>4 DEF Apart, Unrelied
<1>9. AdminsAccounted'
  <2>1. Quietly' = Quietly
    BY <1>2 DEF Quietly, Troubles
  <2>2. QED
    BY <1>2, <2>1 DEF IInv, AdminsAccounted
<1>10. SecretsAccounted'
  BY <1>3 DEF SecretsAccounted
<1>11. QED
  BY <1>2, <1>6, <1>7, <1>8, <1>9, <1>10, RunsStay

LEMMA LeaveKeeps ==
  ASSUME IInv, NEW s \in Stack, Leave(s)
  PROVE  IInv'
<1>1. StacksOK
  BY DEF IInv, TypeOK, StacksOK
<1>2. /\ estate' = estate \ {s} /\ admin' = [admin EXCEPT ![s] = 0]
      /\ reader' = [reader EXCEPT ![s] = None] /\ role' = [role EXCEPT ![s] = NoRole]
      /\ answered' = [answered EXCEPT ![s] = {}] /\ token' = [token EXCEPT ![s] = 0]
      /\ UNCHANGED returned /\ Churn /\ UNCHANGED <<store, ids>>
  BY DEF Leave, Churn
<1>3. /\ estate' \in SUBSET Stack /\ admin' \in [Stack -> Nat]
      /\ reader' \in [Stack -> Account \cup {None}] /\ role' \in [Stack -> Role]
      /\ answered' \in [Stack -> SUBSET Pair] /\ token' \in [Stack -> Nat]
      /\ returned' \in SUBSET Stack
  BY <1>1, <1>2, Defaults DEF StacksOK
<1>4. \A x \in Stack : Kept(x)' /\ (admin'[x] # 0 => admin'[x] = admin[x])
  BY <1>1, <1>2 DEF StacksOK, Kept
<1>5. ASSUME NEW k \in Memory, Fit(k) PROVE VersionsOf(k)'
  <2>1. Authorised(k)' => Authorised(k) /\ role'[k.slug] = role[k.slug]
    BY <1>1, <1>2 DEF Authorised, StacksOK
  <2>2. QED
    BY <1>5, <2>1 DEF Fit, VersionsOf
<1>6. QED
  BY <1>2, <1>3, <1>4, <1>5, ChurnKeeps

LEMMA ReturnKeeps ==
  ASSUME IInv, NEW s \in Stack, Return(s)
  PROVE  IInv'
<1>1. StacksOK
  BY DEF IInv, TypeOK, StacksOK
<1>2. /\ s \notin estate /\ estate' = estate \cup {s} /\ returned' = returned \cup {s}
      /\ UNCHANGED <<admin, reader, role, answered, token, store, ids>> /\ Churn
  BY DEF Return, Churn
<1>3. /\ estate' \in SUBSET Stack /\ admin' \in [Stack -> Nat]
      /\ reader' \in [Stack -> Account \cup {None}] /\ role' \in [Stack -> Role]
      /\ answered' \in [Stack -> SUBSET Pair] /\ token' \in [Stack -> Nat]
      /\ returned' \in SUBSET Stack
  BY <1>1, <1>2 DEF StacksOK
<1>4. \A x \in Stack : Kept(x)' /\ (admin'[x] # 0 => admin'[x] = admin[x])
  BY <1>1, <1>2 DEF StacksOK, Kept
<1>5. ASSUME NEW k \in Memory, Fit(k) PROVE VersionsOf(k)'
  <2>1. Authorised(k)' => Authorised(k) /\ role'[k.slug] = role[k.slug]
    BY <1>1, <1>2 DEF Authorised, StacksOK, Kept
  <2>2. QED
    BY <1>5, <2>1 DEF Fit, VersionsOf
<1>6. estate' \ estate \subseteq returned' /\ returned \subseteq returned'
  BY <1>2
<1>7. QED
  BY <1>2, <1>3, <1>4, <1>5, <1>6, ChurnKeeps

LEMMA EditKeeps ==
  ASSUME IInv, NEW s \in Stack, Edit(s)
  PROVE  IInv'
<1>1. StacksOK
  BY DEF IInv, TypeOK, StacksOK
<1>2. UNCHANGED <<estate, admin, answered, token, returned, store, ids>> /\ Churn
  BY DEF Edit, Churn
<1>3. CASE /\ role[s] # NoRole /\ UNCHANGED reader
           /\ \E p \in Pair :
                role' = [role EXCEPT ![s] = [version |-> @.version + 1,
                  pairs |-> IF p \in @.pairs THEN @.pairs \ {p} ELSE @.pairs \cup {p}]]
  <2>1. PICK p \in Pair :
          role' = [role EXCEPT ![s] = [version |-> @.version + 1,
            pairs |-> IF p \in @.pairs THEN @.pairs \ {p} ELSE @.pairs \cup {p}]]
    BY <1>3
  <2>2. role[s] \in Role /\ role[s].version \in Nat /\ role[s].pairs \in SUBSET Pair
    BY <1>1 DEF StacksOK, Role
  <2>3. PICK new : new = [version |-> role[s].version + 1,
          pairs |-> IF p \in role[s].pairs THEN role[s].pairs \ {p} ELSE role[s].pairs \cup {p}]
    OBVIOUS
  <2>4. new \in Role /\ new.version = role[s].version + 1
    BY <2>2, <2>3 DEF Role
  <2>5. role' = [role EXCEPT ![s] = new] /\ role' \in [Stack -> Role]
    BY <1>1, <2>1, <2>3, <2>4 DEF StacksOK
  <2>6. /\ estate' \in SUBSET Stack /\ admin' \in [Stack -> Nat]
        /\ reader' \in [Stack -> Account \cup {None}]
        /\ answered' \in [Stack -> SUBSET Pair] /\ token' \in [Stack -> Nat]
        /\ returned' \in SUBSET Stack
    BY <1>1, <1>2, <1>3 DEF StacksOK
  <2>7. \A x \in Stack : Kept(x)' /\ (admin'[x] # 0 => admin'[x] = admin[x])
    BY <1>1, <1>2, <1>3, <2>5 DEF StacksOK, Kept
  <2>8. ASSUME NEW k \in Memory, Fit(k) PROVE VersionsOf(k)'
    <3>1. Authorised(k)' = Authorised(k)
      BY <1>2 DEF Authorised
    <3>2. CASE k.slug = s
      <4>1. role'[k.slug].version = role[k.slug].version + 1 /\ role[k.slug].version \in Nat
        BY <1>1, <2>2, <2>4, <2>5, <3>2 DEF StacksOK
      <4>2. k.have.version \in Nat
        BY DEF Memory, Role
      <4>3. QED
        BY <2>8, <3>1, <4>1, <4>2 DEF Fit, VersionsOf
    <3>3. CASE k.slug # s
      <4>1. k.slug \in estate => role'[k.slug] = role[k.slug]
        BY <1>1, <2>5, <3>3 DEF StacksOK
      <4>2. QED
        BY <2>8, <3>1, <4>1 DEF Fit, VersionsOf, Authorised
    <3>4. QED
      BY <3>2, <3>3
  <2>9. QED
    BY <1>2, <2>5, <2>6, <2>7, <2>8, ChurnKeeps
<1>4. CASE /\ reader[s] # None /\ reader' = [reader EXCEPT ![s].basic = "other"]
           /\ UNCHANGED role
  <2>1. reader[s] \in Account
    BY <1>1, <1>4 DEF StacksOK
  <2>2. PICK new : new = [reader[s] EXCEPT !.basic = "other"]
    OBVIOUS
  <2>3. new \in Account /\ new.id = reader[s].id
    BY <2>1, <2>2 DEF Account
  <2>4. reader' = [reader EXCEPT ![s] = new] /\ reader' \in [Stack -> Account \cup {None}]
    BY <1>1, <1>4, <2>2, <2>3 DEF StacksOK
  <2>5. /\ estate' \in SUBSET Stack /\ admin' \in [Stack -> Nat] /\ role' \in [Stack -> Role]
        /\ answered' \in [Stack -> SUBSET Pair] /\ token' \in [Stack -> Nat]
        /\ returned' \in SUBSET Stack
    BY <1>1, <1>2, <1>4 DEF StacksOK
  <2>6. \A x \in Stack : Kept(x)' /\ (admin'[x] # 0 => admin'[x] = admin[x])
    BY <1>1, <1>2, <1>4, <2>3, <2>4 DEF StacksOK, Kept
  <2>7. \A k \in Memory : Fit(k) => VersionsOf(k)'
    BY <1>2, <1>4 DEF Fit, VersionsOf, Authorised
  <2>8. QED
    BY <1>2, <2>4, <2>5, <2>6, <2>7, ChurnKeeps
<1>5. QED
  BY <1>3, <1>4 DEF Edit

LEMMA RevokeOutsideKeeps ==
  ASSUME IInv, NEW s \in Stack, RevokeOutside(s)
  PROVE  IInv'
<1>1. StacksOK
  BY DEF IInv, TypeOK, StacksOK
<1>2. /\ token' = [token EXCEPT ![s] = 0]
      /\ UNCHANGED <<estate, admin, reader, role, answered, returned, store, ids>> /\ Churn
  BY DEF RevokeOutside, Churn
<1>3. /\ estate' \in SUBSET Stack /\ admin' \in [Stack -> Nat]
      /\ reader' \in [Stack -> Account \cup {None}] /\ role' \in [Stack -> Role]
      /\ answered' \in [Stack -> SUBSET Pair] /\ token' \in [Stack -> Nat]
      /\ returned' \in SUBSET Stack
  BY <1>1, <1>2 DEF StacksOK
<1>4. \A x \in Stack : Kept(x)' /\ (admin'[x] # 0 => admin'[x] = admin[x])
  BY <1>1, <1>2 DEF StacksOK, Kept
<1>5. \A k \in Memory : Fit(k) => VersionsOf(k)'
  BY <1>2 DEF Fit, VersionsOf, Authorised
<1>6. QED
  BY <1>2, <1>3, <1>4, <1>5, ChurnKeeps

LEMMA NothingKeeps ==
  ASSUME IInv, UNCHANGED vars
  PROVE  IInv'
<1>1. StacksOK
  BY DEF IInv, TypeOK, StacksOK
<1>2. /\ UNCHANGED <<stacks, store, run, ids, starts, trouble, churn, returned>>
      /\ UNCHANGED <<estate, admin, reader, role, answered, token>>
  BY DEF vars, stacks
<1>3. Calm /\ Worse
  BY <1>2, CalmIsNoWorse DEF Calm
<1>4. starts' \in Nat /\ trouble' \in [{"lost", "undeleted", "died"} -> Nat]
  BY <1>1, <1>2 DEF StacksOK
<1>5. StacksOK' /\ Harmless
  BY <1>1, <1>2, <1>3, <1>4, StillIsHarmless
<1>6. \A k \in Memory : Fit(k) => Fit(k)'
  BY <1>5 DEF Harmless
<1>7. \A k, l \in Memory : Fit(k) /\ Apart(k, l) => Apart(k, l)'
  BY <1>3, <1>5, ApartStays
<1>8. AdminsAccounted' /\ SecretsAccounted'
  BY <1>2 DEF IInv, AdminsAccounted, SecretsAccounted, Quietly, Troubles, Working
<1>9. QED
  BY <1>2, <1>5, <1>6, <1>7, <1>8, RunsStay

LEMMA InitHolds ==
  ASSUME Init
  PROVE  IInv
<1>1. /\ \A s \in Stack : admin[s] = 0 /\ reader[s] = None /\ answered[s] = {} /\ token[s] = 0
      /\ \A r \in Run : run[r] = Idle
      /\ ids = 0 /\ starts = 0 /\ churn = 0 /\ returned = {}
  BY DEF Init
<1>2. estate \in SUBSET Stack
  BY StackAssumption DEF Init
<1>3. PICK old \in {NoRole, OldRole} :
        role = [s \in Stack |-> IF s \in estate \ Skipped THEN old ELSE NoRole]
  BY DEF Init
<1>4. NoRole \in Role /\ OldRole \in Role /\ "dangerous" \notin NoRole.pairs \cup OldRole.pairs
  BY DEF NoRole, OldRole, Role, Pair
<1>5. /\ role \in [Stack -> Role]
      /\ \A s \in Stack : "dangerous" \notin role[s].pairs /\ (s \notin estate => role[s] = NoRole)
  BY <1>3, <1>4
<1>6. Unreadable \in Record /\ Unreadable.token = 0 /\ Unreadable # None
  BY NoneAssumption DEF Unreadable, Record
<1>7. /\ store \in [Stack -> Record \cup {None}]
      /\ \A s \in Stack : store[s] = None \/ store[s] = Unreadable
  BY <1>6 DEF Init
<1>8. trouble \in [{"lost", "undeleted", "died"} -> Nat]
  BY DEF Init
<1>9. TypeOK
  BY <1>1, <1>2, <1>5, <1>7, <1>8, IdleIs DEF Init, TypeOK
<1>10. ASSUME NEW s \in Stack PROVE Kept(s) /\ Trusted(s)
  BY <1>1, <1>5, <1>6, <1>7 DEF Kept, Trusted, HasSecret
<1>11. Fit(Idle)
  <2>1. ShapeOf(Idle)
    BY IdleIs DEF ShapeOf, AtStack, Repairing, Minted
  <2>2. BoundsOf(Idle)
    BY <1>1, IdleIs, Defaults DEF BoundsOf
  <2>3. VersionsOf(Idle) /\ TokensOf(Idle)
    BY IdleIs, Defaults DEF VersionsOf, Authorised, TokensOf, Minted, Live, HasSecret
  <2>4. SoundOf(Idle) /\ ReportedOf(Idle)
    BY IdleIs, Defaults DEF SoundOf, ReportedOf, Concluded, Held, Minted, HasSecret
  <2>5. QED
    BY <2>1, <2>2, <2>3, <2>4 DEF Fit
<1>12. Apart(Idle, Idle)
  BY IdleIs DEF Apart, Unrelied, Shaken, Minted
<1>13. \A r \in Run : Fit(run[r])
  <2>1. ASSUME NEW r \in Run PROVE Fit(run[r])
    <3>1. run[r] = Idle
      BY <1>1
    <3>2. QED
      BY <1>11, <3>1
  <2>2. QED
    BY <2>1
<1>14. \A r, q \in Run : r # q => Apart(run[r], run[q])
  <2>1. ASSUME NEW r \in Run, NEW q \in Run PROVE Apart(run[r], run[q])
    <3>1. run[r] = Idle /\ run[q] = Idle
      BY <1>1
    <3>2. QED
      BY <1>12, <3>1
  <2>2. QED
    BY <2>1
<1>15. AdminsAccounted /\ SecretsAccounted
  BY <1>1 DEF AdminsAccounted, SecretsAccounted
<1>16. QED
  BY <1>9, <1>10, <1>13, <1>14, <1>15 DEF IInv

LEMMA NextKeeps ==
  ASSUME IInv, [Next]_vars
  PROVE  IInv'
<1>1. ASSUME NEW r \in Run, Repair(r) PROVE IInv'
  <2>1. CASE CreateAdmin(r)
    BY <2>1, CreateAdminKeeps
  <2>2. CASE AdminToken(r)
    BY <2>2, AdminTokenKeeps
  <2>3. CASE ListRoles(r)
    BY <2>3, ListRolesKeeps
  <2>4. CASE MakeRole(r)
    BY <2>4, MakeRoleKeeps
  <2>5. CASE ReadRole(r)
    BY <2>5, ReadRoleKeeps
  <2>6. CASE PutRole(r)
    BY <2>6, PutRoleKeeps
  <2>7. CASE CreateReader(r)
    BY <2>7, CreateReaderKeeps
  <2>8. CASE LookAgain(r)
    BY <2>8, LookAgainKeeps
  <2>9. CASE ResetBasicRole(r)
    BY <2>9, ResetBasicRoleKeeps
  <2>10. CASE AssignRole(r)
    BY <2>10, AssignRoleKeeps
  <2>11. CASE Mint(r)
    BY <2>11, MintKeeps
  <2>12. CASE Store(r)
    BY <2>12, StoreKeeps
  <2>13. CASE Revoke(r)
    BY <2>13, RevokeKeeps
  <2>14. CASE Verify(r)
    BY <2>14, VerifyKeeps
  <2>15. CASE Cleanup(r)
    BY <2>15, CleanupKeeps
  <2>16. QED
    BY <1>1, <2>1, <2>2, <2>3, <2>4, <2>5, <2>6, <2>7, <2>8, <2>9, <2>10, <2>11, <2>12,
       <2>13, <2>14, <2>15 DEF Repair
<1>2. ASSUME NEW r \in Run, Proceed(r) PROVE IInv'
  <2>1. CASE Load(r)
    BY <2>1, LoadKeeps
  <2>2. CASE NextStack(r)
    BY <2>2, NextStackKeeps
  <2>3. CASE Sweep(r)
    BY <2>3, SweepKeeps
  <2>4. CASE Relist(r)
    BY <2>4, RelistKeeps
  <2>5. CASE Probe(r)
    BY <2>5, ProbeKeeps
  <2>6. CASE Repair(r)
    BY <1>1, <2>6
  <2>7. CASE Reload(r)
    BY <2>7, ReloadKeeps
  <2>8. CASE Reverify(r)
    BY <2>8, ReverifyKeeps
  <2>9. CASE Prune(r)
    BY <2>9, PruneKeeps
  <2>10. CASE End(r)
    BY <2>10, EndKeeps
  <2>11. QED
    BY <1>2, <2>1, <2>2, <2>3, <2>4, <2>5, <2>6, <2>7, <2>8, <2>9, <2>10 DEF Proceed
<1>3. CASE \E r \in Run : Start(r) \/ Proceed(r) \/ Die(r)
  BY <1>2, <1>3, StartKeeps, DieKeeps
<1>4. CASE \E s \in Stack : Propagate(s)
  BY <1>4, PropagateKeeps
<1>5. CASE Outside
  BY <1>5, LeaveKeeps, ReturnKeeps, EditKeeps, RevokeOutsideKeeps DEF Outside
<1>6. CASE UNCHANGED vars
  BY <1>6, NothingKeeps
<1>7. QED
  BY <1>3, <1>4, <1>5, <1>6 DEF Next

-----------------------------------------------------------------------------
(* What a step may never do.                                                  *)

\* Only two requests write a role, and two the parameter store.
LEMMA Writers ==
  ASSUME NEW r \in Run, Start(r) \/ Proceed(r) \/ Die(r)
  PROVE  /\ role' = role \/ MakeRole(r) \/ PutRole(r)
         /\ store' = store \/ Store(r) \/ Prune(r)
<1>1. /\ \A m : Local(r, m) => role' = role /\ store' = store
      /\ UNCHANGED stacks => role' = role
  BY DEF Local, Quiet, stacks
<1>2. /\ \A s, id : SetAdmin(s, id) => role' = role /\ store' = store
      /\ \A s, a : SetReader(s, a) => role' = role /\ store' = store
      /\ \A s, id : SetToken(s, id) => role' = role /\ store' = store
      /\ \A s, v, p : SetRole(s, v, p) => store' = store
      /\ \A s, x : SetStore(s, x) => role' = role
  BY <1>1 DEF SetAdmin, SetReader, SetToken, SetRole, SetStore
<1>3. Start(r) \/ Die(r) => role' = role /\ store' = store
  BY <1>1 DEF Start, Die
<1>4. Load(r) \/ NextStack(r) \/ Relist(r) \/ Probe(r) => role' = role /\ store' = store
  BY <1>1 DEF Load, NextStack, Relist, Probe
<1>5. Sweep(r) \/ Cleanup(r) => role' = role /\ store' = store
  BY <1>1, <1>2 DEF Sweep, Cleanup, Delete
<1>6. Reload(r) => role' = role /\ store' = store
  BY <1>1 DEF Reload
<1>7. Reverify(r) => role' = role /\ store' = store
  BY <1>1 DEF Reverify
<1>8. End(r) => role' = role /\ store' = store
  BY <1>1 DEF End
<1>9. CreateAdmin(r) \/ CreateReader(r) => role' = role /\ store' = store
  BY <1>1, <1>2 DEF CreateAdmin, CreateReader, Request
<1>10. AdminToken(r) \/ ListRoles(r) \/ ReadRole(r) \/ LookAgain(r) => role' = role /\ store' = store
  BY <1>1 DEF AdminToken, ListRoles, ReadRole, LookAgain
<1>11. ResetBasicRole(r) => role' = role /\ store' = store
  BY <1>1, <1>2 DEF ResetBasicRole, Request
<1>12. AssignRole(r) => role' = role /\ store' = store
  BY <1>1, <1>2 DEF AssignRole, Request
<1>13. Mint(r) => role' = role /\ store' = store
  BY <1>1, <1>2 DEF Mint, Request
<1>14. Revoke(r) => role' = role /\ store' = store
  BY <1>1, <1>2 DEF Revoke, Delete
<1>15. Verify(r) => role' = role /\ store' = store
  BY <1>1 DEF Verify
<1>16. MakeRole(r) \/ PutRole(r) => store' = store
  BY <1>1, <1>2 DEF MakeRole, PutRole, Request
<1>17. Store(r) \/ Prune(r) => role' = role
  BY <1>1, <1>2 DEF Store, Prune, Request
<1>18. QED
  BY <1>3, <1>4, <1>5, <1>6, <1>7, <1>8, <1>9, <1>10, <1>11, <1>12, <1>13, <1>14, <1>15,
     <1>16, <1>17 DEF Proceed, Repair

\* A replacement holds what was read, and nothing has been added since.
LEMMA RolesGrow ==
  ASSUME IInv, [Next]_vars, VersionChecked, churn' = churn,
         NEW s \in Stack, "foreign" \in role[s].pairs
  PROVE  "foreign" \in role'[s].pairs
<1>1. StacksOK
  BY DEF IInv, TypeOK, StacksOK
<1>2. CASE role' = role
  BY <1>2
<1>3. ASSUME NEW r \in Run, MakeRole(r) PROVE "foreign" \in role'[s].pairs
  <2>1. CASE role[run[r].slug] = NoRole /\ SetRole(run[r].slug, 1, {"declared"})
    <3>1. run[r].slug # s
      BY <2>1 DEF NoRole
    <3>2. QED
      BY <1>1, <2>1, <3>1 DEF SetRole, StacksOK
  <2>2. CASE UNCHANGED stacks
    BY <2>2 DEF stacks
  <2>3. QED
    BY <1>3, <2>1, <2>2 DEF MakeRole, Request, Local, Quiet
<1>4. ASSUME NEW r \in Run, PutRole(r) PROVE "foreign" \in role'[s].pairs
  <2>1. PICK m : m = run[r]
    OBVIOUS
  <2>2. m \in Memory /\ Fit(m) /\ m.pc = "put"
    BY <1>4, <2>1, RunIs DEF PutRole
  <2>3. CASE /\ Authorised(m) /\ m.have.version >= role[m.slug].version
             /\ SetRole(m.slug, m.have.version + 1, {"declared"} \cup (m.have.pairs \ {"retired"}))
    <3>1. CASE m.slug # s
      BY <1>1, <2>3, <3>1 DEF SetRole, StacksOK
    <3>2. CASE m.slug = s
      <4>1. m.have.version \in Nat /\ role[s].version \in Nat
        BY <1>1, <2>2 DEF StacksOK, Memory, Role
      <4>2. m.have.pairs = role[s].pairs
        BY <2>2, <2>3, <3>2, <4>1 DEF Fit, VersionsOf
      <4>3. role'[s].pairs = {"declared"} \cup (m.have.pairs \ {"retired"})
        BY <1>1, <2>3, <3>2 DEF SetRole, StacksOK
      <4>4. QED
        BY <4>2, <4>3
    <3>3. QED
      BY <3>1, <3>2
  <2>4. CASE UNCHANGED stacks
    BY <2>4 DEF stacks
  <2>5. QED
    BY <1>4, <2>1, <2>3, <2>4 DEF PutRole, Request, Local, Quiet
<1>5. ASSUME NEW r \in Run, Start(r) \/ Proceed(r) \/ Die(r) PROVE "foreign" \in role'[s].pairs
  BY <1>2, <1>3, <1>4, <1>5, Writers
<1>6. CASE \E x \in Stack : Propagate(x)
  BY <1>2, <1>6 DEF Propagate
<1>7. CASE Outside
  <2>1. churn' = churn + 1 /\ churn \in Nat
    BY <1>1, <1>7 DEF Outside, Leave, Return, Edit, RevokeOutside, Churn, StacksOK
  <2>2. QED
    BY <2>1
<1>8. CASE UNCHANGED vars
  BY <1>2, <1>8 DEF vars, stacks
<1>9. QED
  BY <1>5, <1>6, <1>7, <1>8 DEF Next

\* What is pruned was not in the inventory; since then its stack can only have come
\* back.
LEMMA PruningSpares ==
  ASSUME IInv, [Next]_vars, NEW s \in Stack, store[s] # None, store'[s] = None
  PROVE  s \notin estate \/ s \in returned
<1>1. StacksOK
  BY DEF IInv, TypeOK, StacksOK
<1>2. store' # store
  OBVIOUS
<1>3. ASSUME NEW r \in Run, Store(r) PROVE FALSE
  <2>1. PICK m : m = run[r]
    OBVIOUS
  <2>2. m \in Memory /\ Fit(m) /\ m.pc = "store"
    BY <1>3, <2>1, RunIs DEF Store
  <2>3. PICK record : record = [token |-> m.key, sa |-> m.sas.reader.id]
    OBVIOUS
  <2>4. m.sas.reader \in Seen
    BY <2>2 DEF Fit, ShapeOf, Memory, Listing
  <2>5. record \in Record
    BY <2>2, <2>3, <2>4 DEF Record, Seen, Memory
  <2>6. SetStore(m.slug, record)
    BY <1>2, <1>3, <2>1, <2>3 DEF Store, Request, Local, Quiet
  <2>7. store' = [store EXCEPT ![m.slug] = record]
    BY <2>6 DEF SetStore
  <2>8. QED
    BY <1>1, <2>5, <2>7, NoneAssumption DEF StacksOK
<1>4. ASSUME NEW r \in Run, Prune(r) PROVE s \notin estate \/ s \in returned
  <2>1. PICK m : m = run[r]
    OBVIOUS
  <2>2. m \in Memory /\ Fit(m) /\ m.pc = "prune"
    BY <1>4, <2>1, RunIs DEF Prune
  <2>3. PICK x \in m.todo : SetStore(x, None)
    BY <1>2, <1>4, <2>1 DEF Prune, Request, Local, Quiet
  <2>4. x = s
    BY <1>1, <2>3 DEF SetStore, StacksOK
  <2>5. s \notin m.inventory
    BY <2>2, <2>4 DEF Fit, ShapeOf
  <2>6. QED
    BY <2>2, <2>5 DEF Fit, BoundsOf
<1>5. ASSUME NEW r \in Run, Start(r) \/ Proceed(r) \/ Die(r)
      PROVE  s \notin estate \/ s \in returned
  BY <1>2, <1>3, <1>4, <1>5, Writers
<1>6. Propagate(s) \/ Outside => store' = store
  BY DEF Propagate, Outside, Leave, Return, Edit, RevokeOutside, Churn
<1>7. ~\E x \in Stack : Propagate(x)
  BY <1>2 DEF Propagate
<1>8. ~(UNCHANGED vars)
  BY <1>2 DEF vars
<1>9. QED
  BY <1>2, <1>5, <1>6, <1>7, <1>8 DEF Next

-----------------------------------------------------------------------------
(* A run that is alone.                                                       *)

\* Whether a run is alone and was refused nothing does not get better.
Track(m, n) ==
  /\ n.birth \in {0, m.birth} /\ n.era \in {0, m.era}
  /\ n.clean => m.clean /\ n.birth = m.birth /\ n.era = m.era
Goes(m, n) == Track(m, n) /\ (n.clean /\ Lone(m) => Lone(n)')

Unmoved == UNCHANGED <<estate, admin, reader, role, answered, token, store, ids>>

\* Nothing changes but at one stack.
Elsewhere(s) ==
  /\ UNCHANGED estate
  /\ \A x \in Stack \ {s} :
       /\ admin'[x] = admin[x] /\ reader'[x] = reader[x] /\ role'[x] = role[x]
       /\ answered'[x] = answered[x] /\ token'[x] = token[x] /\ store'[x] = store[x]

LEMMA ElsewhereIs ==
  ASSUME StacksOK, NEW s \in Stack
  PROVE  /\ Unmoved => Elsewhere(s)
         /\ \A v : SetAdmin(s, v) => Elsewhere(s)
         /\ \A v : SetReader(s, v) => Elsewhere(s)
         /\ \A v, p : SetRole(s, v, p) => Elsewhere(s)
         /\ \A v : SetToken(s, v) => Elsewhere(s)
         /\ \A v : SetStore(s, v) => Elsewhere(s)
<1>1. Unmoved => Elsewhere(s)
  BY DEF Unmoved, Elsewhere
<1>2. ASSUME NEW v, SetAdmin(s, v) PROVE Elsewhere(s)
  BY <1>2 DEF SetAdmin, Elsewhere, StacksOK
<1>3. ASSUME NEW v, SetReader(s, v) PROVE Elsewhere(s)
  BY <1>3 DEF SetReader, Elsewhere, StacksOK
<1>4. ASSUME NEW v, NEW p, SetRole(s, v, p) PROVE Elsewhere(s)
  BY <1>4 DEF SetRole, Elsewhere, StacksOK
<1>5. ASSUME NEW v, SetToken(s, v) PROVE Elsewhere(s)
  BY <1>5 DEF SetToken, Elsewhere, StacksOK
<1>6. ASSUME NEW v, SetStore(s, v) PROVE Elsewhere(s)
  BY <1>6 DEF SetStore, stacks, Elsewhere, StacksOK
<1>7. QED
  BY <1>1, <1>2, <1>3, <1>4, <1>5, <1>6

LEMMA RightElsewhere ==
  ASSUME NEW s, Elsewhere(s), NEW x \in Stack, x # s
  PROVE  Right(x)' = Right(x) /\ Effective(x)' = Effective(x)
BY DEF Elsewhere, Right, Settled, Stuck, Working, Effective

LEMMA HereIs ==
  ASSUME IInv, IInv', NEW r \in Run, NEW m, m = run[r], NEW n, n = run'[r]
  PROVE  /\ StacksOK /\ m \in Memory /\ Fit(m) /\ n \in Memory
         /\ \A x : Become(r, x) => n = x
         /\ \A x : Local(r, x) => n = x /\ Unmoved
<1>1. StacksOK /\ m \in Memory /\ Fit(m)
  BY RunIs
<1>2. run \in [Run -> Memory] /\ run' \in [Run -> Memory]
  BY DEF IInv, TypeOK
<1>3. \A x : Become(r, x) => n = x
  BY <1>2 DEF Become
<1>4. QED
  BY <1>1, <1>2, <1>3 DEF Local, Quiet, stacks, Unmoved

LEMMA StandingIs ==
  ASSUME NEW m \in Memory, Fit(m), Lone(m), m.pc \in AtStack
  PROVE  /\ m.slug \in Stack \ Skipped /\ m.slug # None /\ m.slug \in m.todo
         /\ m.slug \in estate /\ Going(m)
         /\ m.pc \in Repairing => Authorised(m) /\ m.adm # 0
<1>1. /\ m.slug \in Stack \ Skipped /\ m.slug # None /\ m.slug \in m.todo
      /\ m.todo \subseteq m.inventory /\ (m.pc \in Repairing => m.adm # 0)
  BY PlaceIs
<1>2. m.inventory = estate /\ Going(m)
  BY DEF Lone
<1>3. m.pc \in Repairing => admin[m.slug] = m.adm
  BY <1>2 DEF Going
<1>4. QED
  BY <1>1, <1>2, <1>3 DEF Authorised

\* The run stays at its stack.
LEMMA GoesAt ==
  ASSUME NEW m \in Memory, Fit(m), m.pc \in AtStack,
         NEW n, n.pc \in AtStack, n.slug = m.slug, n.todo = m.todo, Tour(n) = Tour(m),
         n.clean => m.clean, Elsewhere(m.slug),
         n.clean /\ Lone(m) => Going(n)'
  PROVE  Goes(m, n)
<1>1. Track(m, n)
  BY DEF Track, Tour
<1>2. ASSUME n.clean, Lone(m) PROVE Lone(n)'
  <2>1. n.inventory = m.inventory /\ n.stored = m.stored
    BY DEF Tour
  <2>2. m.slug \in Stack /\ m.slug \in m.todo /\ m.todo \in SUBSET Stack /\ m.inventory \in SUBSET Stack
    BY PlaceIs DEF Memory
  <2>3. \A x \in Stack : x # m.slug =>
          /\ Right(x)' = Right(x) /\ Effective(x)' = Effective(x)
          /\ answered'[x] = answered[x] /\ store'[x] = store[x]
    BY RightElsewhere DEF Elsewhere
  <2>4. n.pc \notin {"load", "next", "final", "prune"} /\ m.pc \notin {"load", "next", "final", "prune"}
    BY DEF AtStack, Repairing
  <2>5. Ahead(n)'
    BY <1>2, <2>1, <2>2, <2>3, <2>4 DEF Lone, Ahead
  <2>6. Behind(n)'
    BY <1>2, <2>1, <2>2, <2>3, <2>4 DEF Lone, Behind
  <2>7. n.inventory = estate'
    BY <1>2, <2>1 DEF Lone, Elsewhere
  <2>8. QED
    BY <1>2, <2>4, <2>5, <2>6, <2>7 DEF Lone
<1>3. QED
  BY <1>1, <1>2 DEF Goes

\* The run leaves its stack for the next one.
LEMMA GoesOff ==
  ASSUME NEW m \in Memory, Fit(m), m.pc \in AtStack,
         NEW n, n.pc = "next", n.slug = None, n.todo = m.todo \ {m.slug}, Tour(n) = Tour(m),
         n.clean => m.clean, Elsewhere(m.slug),
         n.clean /\ Lone(m) => Right(m.slug)'
  PROVE  Goes(m, n)
<1>1. Track(m, n)
  BY DEF Track, Tour
<1>2. ASSUME n.clean, Lone(m) PROVE Lone(n)'
  <2>1. n.inventory = m.inventory /\ n.stored = m.stored
    BY DEF Tour
  <2>2. m.slug \in Stack /\ m.slug \in m.todo /\ m.todo \in SUBSET Stack /\ m.inventory \in SUBSET Stack
    BY PlaceIs DEF Memory
  <2>3. \A x \in Stack : x # m.slug =>
          /\ Right(x)' = Right(x) /\ Effective(x)' = Effective(x)
          /\ answered'[x] = answered[x] /\ store'[x] = store[x]
    BY RightElsewhere DEF Elsewhere
  <2>4. m.pc \notin {"load", "next", "final", "prune"}
    BY DEF AtStack, Repairing
  <2>5. Ahead(n)'
    BY <1>2, <2>1, <2>2, <2>3, <2>4 DEF Lone, Ahead
  <2>6. Behind(n)'
    BY <1>2, <2>1, <2>2, <2>3, <2>4 DEF Lone, Behind
  <2>7. n.inventory = estate'
    BY <1>2, <2>1 DEF Lone, Elsewhere
  <2>8. QED
    BY <2>5, <2>6, <2>7 DEF Lone, AtStack, Repairing
<1>3. QED
  BY <1>1, <1>2 DEF Goes

\* A request was refused, or the run ended: nothing is promised any more.
LEMMA GoesSoiled ==
  ASSUME NEW m \in Memory, NEW x \in Memory, Tour(x) = Tour(m)
  PROVE  Goes(m, Soiled(x))
<1>1. ~Soiled(x).clean /\ Tour(Soiled(x)) = Tour(m)
  BY SoiledIs
<1>2. QED
  BY <1>1 DEF Goes, Track, Tour

LEMMA GoesIdle ==
  ASSUME NEW m, NEW n, ~n.clean, n.birth = 0, n.era = 0
  PROVE  Goes(m, n)
BY DEF Goes, Track

LEMMA GoesGivenUp ==
  ASSUME NEW m \in Memory, NEW out \in Verdict
  PROVE  Goes(m, Soiled(Finally(m, out)))
BY GoesSoiled, FinallyIs

LEMMA LoadGoes ==
  ASSUME IInv, IInv', NEW r \in Run, Load(r), NEW m, m = run[r], NEW n, n = run'[r]
  PROVE  Goes(m, n)
<1>1. StacksOK /\ m \in Memory /\ Fit(m) /\ m.pc = "load" /\ m.slug = None
  BY HereIs DEF Load, Fit, ShapeOf, AtStack, Repairing
<1>2. CASE Local(r, [m EXCEPT !.pc = "next", !.stored = store])
  <2>1. n = [m EXCEPT !.pc = "next", !.stored = store] /\ Unmoved
    BY <1>2, HereIs
  <2>2. /\ n.pc = "next" /\ n.stored = store /\ n.slug = None /\ n.todo = m.todo
        /\ n.inventory = m.inventory /\ n.clean = m.clean /\ n.birth = m.birth /\ n.era = m.era
    BY <1>1, <2>1 DEF Memory
  <2>3. m.todo \in SUBSET Stack
    BY <1>1 DEF Memory
  <2>4. \A s : Effective(s)' = Effective(s)
    BY <2>1 DEF Unmoved, Effective
  <2>5. Lone(m) => Lone(n)'
    BY <1>1, <2>1, <2>2, <2>3, <2>4 DEF Lone, Ahead, Behind, Unmoved, AtStack, Repairing
  <2>6. QED
    BY <2>2, <2>5 DEF Goes, Track
<1>3. CASE Local(r, Idle)
  <2>1. n = Idle
    BY <1>3, HereIs
  <2>2. QED
    BY <2>1, GoesIdle DEF Idle
<1>4. QED
  BY <1>2, <1>3 DEF Load

LEMMA NextStackGoes ==
  ASSUME IInv, IInv', NEW r \in Run, NextStack(r), NEW m, m = run[r], NEW n, n = run'[r]
  PROVE  Goes(m, n)
<1>1. /\ StacksOK /\ m \in Memory /\ Fit(m) /\ m.pc = "next" /\ m.slug = None
      /\ m.todo \in SUBSET Stack
  <2>1. StacksOK /\ m \in Memory /\ Fit(m)
    BY HereIs
  <2>2. m.pc = "next"
    BY DEF NextStack
  <2>3. QED
    BY <2>1, <2>2 DEF Fit, ShapeOf, AtStack, Repairing, Memory
<1>2. PICK s \in m.todo :
       \/ s \in Skipped /\ Local(r, [m EXCEPT !.todo = @ \ {s}])
       \/ s \notin Skipped /\ s \in estate
          /\ Local(r, [m EXCEPT !.pc = IF admin[s] # 0 THEN "sweep" ELSE "probe",
                                !.slug = s, !.sas = List(s)])
       \/ s \notin Skipped
          /\ Local(r, Soiled(Conclude([m EXCEPT !.slug = s], "failed")))
  BY DEF NextStack
<1>3. s \in Stack /\ s # None
  BY <1>1, StackAssumption
<1>4. CASE s \in Skipped /\ Local(r, [m EXCEPT !.todo = @ \ {s}])
  <2>1. n = [m EXCEPT !.todo = @ \ {s}] /\ Unmoved
    BY <1>4, HereIs
  <2>2. /\ n.pc = "next" /\ n.stored = m.stored /\ n.slug = None /\ n.todo = m.todo \ {s}
        /\ n.inventory = m.inventory /\ n.clean = m.clean /\ n.birth = m.birth /\ n.era = m.era
    BY <1>1, <2>1 DEF Memory
  <2>3. \A x : /\ Effective(x)' = Effective(x) /\ Right(x)' = Right(x)
             /\ answered'[x] = answered[x] /\ store'[x] = store[x]
    BY <2>1 DEF Unmoved, Effective, Right, Settled, Stuck, Working
  <2>4. ASSUME Lone(m) PROVE Lone(n)'
    <3>1. Ahead(n)'
      <4>1. Ahead(m)
        BY <2>4 DEF Lone
      <4>2. QED
        BY <1>1, <2>2, <2>3, <4>1 DEF Ahead
    <3>2. Behind(n)'
      <4>1. Behind(m) /\ s \in Skipped
        BY <1>4, <2>4 DEF Lone
      <4>2. ASSUME NEW x \in m.inventory \ Skipped, x \notin n.todo PROVE Right(x)'
        <5>1. x \notin m.todo
          BY <2>2, <4>1, <4>2
        <5>2. Right(x)
          BY <1>1, <4>1, <4>2, <5>1 DEF Behind
        <5>3. QED
          BY <2>3, <5>2
      <4>3. QED
        BY <2>2, <4>2 DEF Behind
    <3>3. QED
      BY <2>1, <2>2, <2>4, <3>1, <3>2 DEF Lone, Unmoved, AtStack, Repairing
  <2>5. QED
    BY <2>2, <2>4 DEF Goes, Track
<1>5. CASE s \notin Skipped /\ s \in estate
          /\ Local(r, [m EXCEPT !.pc = IF admin[s] # 0 THEN "sweep" ELSE "probe",
                                !.slug = s, !.sas = List(s)])
  <2>1. /\ n = [m EXCEPT !.pc = IF admin[s] # 0 THEN "sweep" ELSE "probe",
                                !.slug = s, !.sas = List(s)]
        /\ Unmoved
    BY <1>5, HereIs
  <2>2. /\ n.pc = (IF admin[s] # 0 THEN "sweep" ELSE "probe") /\ n.slug = s /\ n.sas = List(s)
        /\ n.stored = m.stored /\ n.todo = m.todo
        /\ n.inventory = m.inventory /\ n.clean = m.clean /\ n.birth = m.birth /\ n.era = m.era
    BY <1>1, <2>1 DEF Memory
  <2>3. \A x : /\ Effective(x)' = Effective(x) /\ Right(x)' = Right(x)
             /\ answered'[x] = answered[x] /\ store'[x] = store[x]
    BY <2>1 DEF Unmoved, Effective, Right, Settled, Stuck, Working
  <2>4. ASSUME Lone(m) PROVE Lone(n)'
    <3>0. n.pc \in {"sweep", "probe"} /\ Ahead(m) /\ Behind(m)
      BY <2>2, <2>4 DEF Lone
    <3>1. Ahead(n)'
      BY <1>1, <2>2, <2>3, <3>0, StackAssumption DEF Ahead
    <3>2. Behind(n)'
      BY <1>1, <2>2, <2>3, <3>0 DEF Behind
    <3>3. answered[s] = Effective(s) /\ m.stored[s] = store[s]
      BY <1>1, <1>3, <2>4 DEF Lone, Ahead
    <3>4. List(s).admin = admin[s] /\ List(s).reader =
            IF reader[s] = None THEN None ELSE [id |-> reader[s].id, basic |-> reader[s].basic]
      BY DEF List
    <3>5. Listed(n)'
      BY <2>1, <2>2, <3>4 DEF Listed, Unmoved
    <3>6. Going(n)'
      BY <2>1, <2>2, <2>3, <3>3, <3>4, <3>5 DEF Going, Unmoved, AtStack, Repairing
    <3>7. QED
      BY <2>1, <2>2, <2>4, <3>1, <3>2, <3>6 DEF Lone, Unmoved
  <2>5. QED
    BY <2>2, <2>4 DEF Goes, Track
<1>6. CASE Local(r, Soiled(Conclude([m EXCEPT !.slug = s], "failed")))
  <2>1. PICK l : l = [m EXCEPT !.slug = s]
    OBVIOUS
  <2>2. l \in Memory /\ l.slug = s /\ Tour(l) = Tour(m)
    <3>1. l \in Memory
      BY <1>1, <1>3, <2>1, Updates
    <3>2. QED
      BY <1>1, <2>1, <3>1 DEF Memory, Tour
  <2>3. Conclude(l, "failed") \in Memory /\ Tour(Conclude(l, "failed")) = Tour(m)
    BY <1>3, <2>2, ConcludeIs DEF Verdict
  <2>4. n = Soiled(Conclude(l, "failed"))
    BY <1>6, <2>1, HereIs
  <2>5. QED
    BY <1>1, <2>3, <2>4, GoesSoiled
<1>7. QED
  BY <1>2, <1>4, <1>5, <1>6

LEMMA SweepGoes ==
  ASSUME IInv, IInv', NEW r \in Run, Sweep(r), NEW m, m = run[r], NEW n, n = run'[r]
  PROVE  Goes(m, n)
<1>1. StacksOK /\ m \in Memory /\ Fit(m)
  BY HereIs
<1>2. PICK l : l = [m EXCEPT !.ledger = @ \cup {m.sas.admin}]
  OBVIOUS
<1>3. l \in Memory
  <2>1. m.ledger \cup {m.sas.admin} \in SUBSET Nat
    BY <1>1 DEF Memory, Listing
  <2>2. QED
    BY <1>1, <1>2, <2>1, Updates
<1>4. /\ l.pc = m.pc /\ l.slug = m.slug /\ l.todo = m.todo /\ l.sas = m.sas /\ l.stored = m.stored
      /\ l.clean = m.clean /\ Tour(l) = Tour(m)
  BY <1>1, <1>2 DEF Memory, Tour
<1>5. PICK p : p = [l EXCEPT !.pc = "relist"]
  OBVIOUS
<1>6. PICK f : f = [l EXCEPT !.pc = "probe"]
  OBVIOUS
<1>7. /\ l.pc = "sweep"
      /\ Delete(r, admin[l.slug] = l.sas.admin, SetAdmin(l.slug, 0) /\ UNCHANGED ids, p, f)
  BY <1>2, <1>5, <1>6 DEF Sweep
<1>8. m.pc = "sweep" /\ m.pc \in AtStack /\ m.slug \in Stack
  BY <1>1, <1>4, <1>7, PlaceIs DEF AtStack
<1>9. /\ p \in Memory /\ p.pc = "relist" /\ f \in Memory /\ f.pc = "probe"
      /\ \A x \in {p, f} : /\ x.slug = m.slug /\ x.todo = m.todo /\ x.stored = m.stored
                           /\ x.clean = m.clean /\ Tour(x) = Tour(m)
  <2>1. p \in Memory /\ f \in Memory
    BY <1>3, <1>5, <1>6, Updates DEF Phase
  <2>2. QED
    BY <1>3, <1>4, <1>5, <1>6, <2>1 DEF Memory, Tour
<1>10. \/ SetAdmin(m.slug, 0) /\ n = p
       \/ n = Soiled(f)
       \/ admin[m.slug] # m.sas.admin /\ n = f /\ Unmoved
  BY <1>4, <1>7, HereIs DEF Delete
<1>11. CASE SetAdmin(m.slug, 0) /\ n = p
  <2>1. Elsewhere(m.slug)
    BY <1>1, <1>8, <1>11, ElsewhereIs
  <2>2. /\ admin'[m.slug] = 0 /\ UNCHANGED <<reader, role, answered, store>>
    BY <1>1, <1>8, <1>11 DEF SetAdmin, StacksOK
  <2>3. Effective(m.slug)' = Effective(m.slug)
    BY <2>2 DEF Effective
  <2>4. ASSUME Lone(m) PROVE Going(n)'
    <3>1. answered[m.slug] = Effective(m.slug) /\ m.stored[m.slug] = store[m.slug]
      BY <1>8, <2>4 DEF Lone, Going, AtStack, Repairing
    <3>2. QED
      BY <1>9, <1>11, <2>2, <2>3, <3>1 DEF Going, Repairing
  <2>5. QED
    BY <1>1, <1>8, <1>9, <1>11, <2>1, <2>4, GoesAt DEF AtStack
<1>12. CASE n = Soiled(f)
  BY <1>1, <1>9, <1>12, GoesSoiled
<1>13. CASE admin[m.slug] # m.sas.admin /\ n = f /\ Unmoved
  <2>1. ~Lone(m)
    BY <1>8, <1>13 DEF Lone, Going
  <2>2. QED
    BY <1>1, <1>8, <1>9, <1>13, <2>1, ElsewhereIs, GoesAt DEF AtStack
<1>14. QED
  BY <1>10, <1>11, <1>12, <1>13

LEMMA ListIsListed ==
  ASSUME NEW n, n.sas = List(n.slug)
  PROVE  Listed(n)
BY DEF Listed, List

LEMMA RelistGoes ==
  ASSUME IInv, IInv', NEW r \in Run, Relist(r), NEW m, m = run[r], NEW n, n = run'[r]
  PROVE  Goes(m, n)
<1>1. StacksOK /\ m \in Memory /\ Fit(m) /\ m.pc = "relist"
  BY HereIs DEF Relist
<1>2. m.pc \in AtStack /\ m.slug \in Stack
  BY <1>1, PlaceIs DEF AtStack
<1>3. PICK l : l = [m EXCEPT !.pc = "probe"]
  OBVIOUS
<1>4. l \in Memory
  BY <1>1, <1>3, Updates DEF Phase
<1>5. /\ l.pc = "probe" /\ l.slug = m.slug /\ l.todo = m.todo /\ l.stored = m.stored
      /\ l.clean = m.clean /\ Tour(l) = Tour(m)
  BY <1>1, <1>3 DEF Memory, Tour
<1>6. CASE Local(r, [l EXCEPT !.sas = List(l.slug)])
  <2>1. n = [l EXCEPT !.sas = List(l.slug)] /\ Unmoved
    BY <1>6, HereIs
  <2>2. /\ n.pc = "probe" /\ n.slug = m.slug /\ n.todo = m.todo /\ n.stored = m.stored
        /\ n.sas = List(n.slug) /\ n.clean = m.clean /\ Tour(n) = Tour(m)
    BY <1>4, <1>5, <2>1 DEF Memory, Tour
  <2>3. ASSUME Lone(m) PROVE Going(n)'
    <3>1. /\ answered[m.slug] = Effective(m.slug) /\ m.stored[m.slug] = store[m.slug]
          /\ admin[m.slug] = 0
      BY <1>1, <1>2, <2>3 DEF Lone, Going, AtStack, Repairing
    <3>2. Listed(n)
      BY <2>2, ListIsListed
    <3>3. Listed(n)' /\ Effective(m.slug)' = Effective(m.slug)
      BY <2>1, <3>2 DEF Listed, Unmoved, Effective
    <3>4. QED
      BY <2>1, <2>2, <3>1, <3>3 DEF Going, Unmoved, Repairing
  <2>4. QED
    BY <1>1, <1>2, <2>1, <2>2, <2>3, ElsewhereIs, GoesAt DEF AtStack
<1>7. CASE Local(r, Soiled([l EXCEPT !.sas = NoListing]))
  <2>1. PICK x : x = [l EXCEPT !.sas = NoListing]
    OBVIOUS
  <2>2. x \in Memory
    BY <1>4, <2>1, Updates, Defaults
  <2>3. Tour(x) = Tour(m)
    BY <1>4, <1>5, <2>1 DEF Memory, Tour
  <2>4. n = Soiled(x)
    BY <1>7, <2>1, HereIs
  <2>5. QED
    BY <1>1, <2>2, <2>3, <2>4, GoesSoiled
<1>8. QED
  BY <1>3, <1>6, <1>7 DEF Relist

LEMMA ProbeGoes ==
  ASSUME IInv, IInv', NEW r \in Run, Probe(r), NEW m, m = run[r], NEW n, n = run'[r]
  PROVE  Goes(m, n)
<1>1. StacksOK /\ m \in Memory /\ Fit(m) /\ m.pc = "probe"
  BY HereIs DEF Probe
<1>2. m.pc \in AtStack /\ m.slug \in Stack /\ m.pc \notin Repairing
  BY <1>1, PlaceIs DEF AtStack, Repairing
<1>3. PICK s : s = m.slug
  OBVIOUS
<1>4. PICK secret \in BOOLEAN : secret = HasSecret(m.stored[s])
  BY DEF HasSecret
<1>5. PICK status \in IF secret THEN StatusOf(s, m.stored[s].token) ELSE {"none"} :
        Local(r, IF NeedsRepair(m.sas.reader, secret, status, Answers(s, status))
                 THEN [[m EXCEPT !.status = status, !.clean = @ /\ status # "other"]
                         EXCEPT !.pc = "admin"]
                 ELSE Conclude([m EXCEPT !.status = status, !.clean = @ /\ status # "other"], "ok"))
  BY <1>3, <1>4 DEF Probe
<1>6. PICK l : l = [m EXCEPT !.status = status, !.clean = @ /\ status # "other"]
  OBVIOUS
<1>7. status \in {"none", "200", "401", "other"}
  BY DEF StatusOf
<1>8. PICK c \in BOOLEAN : c = (m.clean /\ status # "other")
  OBVIOUS
<1>9. l = [m EXCEPT !.status = status, !.clean = c] /\ l \in Memory
  <2>1. l = [m EXCEPT !.status = status, !.clean = c]
    BY <1>6, <1>8
  <2>2. QED
    BY <1>1, <1>7, <2>1, Updates
<1>10. /\ l.pc = "probe" /\ l.slug = s /\ l.todo = m.todo /\ l.stored = m.stored
       /\ l.sas = m.sas /\ l.status = status /\ (l.clean => m.clean /\ status # "other")
       /\ Tour(l) = Tour(m)
  <2>1. /\ l.pc = "probe" /\ l.slug = s /\ l.todo = m.todo /\ l.stored = m.stored
        /\ l.sas = m.sas /\ l.status = status /\ l.clean = c /\ Tour(l) = Tour(m)
    BY <1>1, <1>3, <1>9 DEF Memory, Tour
  <2>2. l.clean => m.clean /\ status # "other"
    BY <1>8, <2>1
  <2>3. QED
    BY <2>1, <2>2
<1>11. secret => status = "other" \/
         IF s \in estate /\ m.stored[s].token # 0 /\ token[s] = m.stored[s].token
         THEN status = "200" ELSE status = "401"
  BY DEF StatusOf
<1>12. n = (IF NeedsRepair(m.sas.reader, secret, status, Answers(s, status))
            THEN [l EXCEPT !.pc = "admin"] ELSE Conclude(l, "ok")) /\ Unmoved
  BY <1>5, <1>6, HereIs
<1>13. Elsewhere(s)
  BY <1>1, <1>2, <1>3, <1>12, ElsewhereIs
<1>14. ASSUME Lone(m)
       PROVE  /\ s \in estate /\ answered[s] = Effective(s) /\ m.stored[s] = store[s]
              /\ admin[s] = 0 /\ Listed(m)
  <2>1. s \in estate /\ Going(m)
    BY <1>1, <1>2, <1>3, <1>14, StandingIs
  <2>2. QED
    BY <1>1, <1>3, <2>1 DEF Going, AtStack
<1>15. CASE NeedsRepair(m.sas.reader, secret, status, Answers(s, status))
  <2>1. n = [l EXCEPT !.pc = "admin"]
    BY <1>12, <1>15
  <2>2. /\ n.pc = "admin" /\ n.slug = s /\ n.todo = m.todo /\ n.stored = m.stored
        /\ n.sas = m.sas /\ n.status = status /\ n.clean = l.clean
        /\ Tour(n) = Tour(m)
    BY <1>9, <1>10, <2>1 DEF Memory, Tour
  <2>3. ASSUME n.clean, Lone(m) PROVE Going(n)'
    <3>0. m.clean /\ status # "other"
      BY <1>10, <2>2, <2>3
    <3>1. Listed(n)'
      BY <1>3, <1>12, <1>14, <2>2, <2>3 DEF Listed, Unmoved
    <3>2. Known(n)
      BY <1>4, <1>11, <1>14, <2>2, <2>3, <3>0 DEF Known, Working, HasSecret
    <3>3. Known(n)'
      BY <1>12, <3>2 DEF Known, Working, Unmoved
    <3>4. QED
      BY <1>12, <1>14, <2>2, <2>3, <3>1, <3>3 DEF Going, Unmoved, Repairing
  <2>4. QED
    BY <1>1, <1>2, <1>3, <1>10, <1>13, <2>2, <2>3, GoesAt DEF AtStack
<1>16. CASE ~NeedsRepair(m.sas.reader, secret, status, Answers(s, status))
  <2>1. n = Conclude(l, "ok")
    BY <1>12, <1>16
  <2>2. n.clean = l.clean /\ Tour(n) = Tour(l) /\ n.pc = "next" /\ n.todo = l.todo \ {l.slug}
        /\ n.slug = None
    <3>1. l.slug \in Stack /\ "ok" \in Verdict
      BY <1>2, <1>3, <1>10 DEF Verdict
    <3>2. l \in Memory
      BY <1>9
    <3>3. PICK k : k = Conclude(l, "ok")
      OBVIOUS
    <3>4. k.clean = l.clean /\ Tour(k) = Tour(l) /\ k.pc = "next" /\ k.todo = l.todo \ {l.slug}
          /\ k.slug = None
      BY <3>1, <3>2, <3>3, ConcludeIs
    <3>5. QED
      BY <2>1, <3>3, <3>4
  <2>3. ASSUME n.clean, Lone(m) PROVE Right(s)'
    <3>1. /\ m.sas.reader # None /\ secret /\ m.sas.reader.basic = "None" /\ status = "200"
          /\ ~Drift(answered[s])
      BY <1>16 DEF NeedsRepair, Answers
    <3>2. Working(s)
      BY <1>4, <1>11, <1>14, <2>3, <3>1 DEF Working, HasSecret
    <3>3. reader[s] # None /\ reader[s].basic = "None"
      BY <1>3, <1>14, <2>3, <3>1 DEF Listed
    <3>4. reader[s].assigned /\ ~Drift(role[s].pairs)
      BY <1>14, <2>3, <3>1 DEF Effective, Drift
    <3>5. QED
      BY <1>12, <1>14, <2>3, <3>2, <3>3, <3>4 DEF Right, Settled, Working, Unmoved
  <2>4. QED
    BY <1>1, <1>2, <1>3, <1>10, <1>13, <2>2, <2>3, GoesOff
<1>17. QED
  BY <1>15, <1>16

\* What a repair has before it: where it is, and what it was the last to write.
LEMMA AtRepair ==
  ASSUME IInv, IInv', NEW r \in Run, NEW m, m = run[r], NEW n, n = run'[r], m.pc \in Repairing
  PROVE  /\ StacksOK /\ m \in Memory /\ Fit(m) /\ n \in Memory /\ m.pc \in AtStack
         /\ m.slug \in Stack \ Skipped /\ "failed" \in Verdict
         /\ Lone(m) => Going(m) /\ Authorised(m) /\ m.slug \in estate /\ admin[m.slug] = m.adm
         /\ Goes(m, Soiled(Finally(m, "failed")))
<1>1. StacksOK /\ m \in Memory /\ Fit(m) /\ n \in Memory
  BY HereIs
<1>2. m.pc \in AtStack /\ m.slug \in Stack \ Skipped /\ "failed" \in Verdict
  BY <1>1, PlaceIs DEF AtStack, Verdict
<1>3. Lone(m) => Going(m) /\ Authorised(m) /\ m.slug \in estate
  BY <1>1, <1>2, StandingIs
<1>4. QED
  BY <1>1, <1>2, <1>3, GoesGivenUp DEF Authorised

\* A repair that goes on within itself, or towards its cleanup.
LEMMA RepairGoes ==
  ASSUME NEW m \in Memory, Fit(m), m.pc \in AtStack,
         NEW n, n.pc \in Repairing, Same(m, n), n.clean => m.clean, Elsewhere(m.slug),
         n.clean /\ Lone(m) => Going(n)'
  PROVE  Goes(m, n)
BY GoesAt DEF Same, AtStack

LEMMA FinallyGoes ==
  ASSUME StacksOK, NEW m \in Memory, Fit(m), m.pc \in Repairing, NEW out \in Verdict,
         NEW n, n = Finally(m, out), Elsewhere(m.slug),
         Lone(m) => admin'[m.slug] = m.adm /\ (\/ Provisioned(m.slug)' \/ Stuck(m.slug)'
                                               \/ "dangerous" \in role'[m.slug].pairs)
  PROVE  Goes(m, n)
<1>1. n.clean = m.clean /\ Same(m, n) /\ n.pc = "cleanup"
  BY FinallyIs DEF Same
<1>2. ASSUME Lone(m) PROVE Going(n)'
  BY <1>1, <1>2 DEF Going, Same
<1>3. QED
  BY <1>1, <1>2, RepairGoes DEF AtStack, Repairing

LEMMA CreateAdminGoes ==
  ASSUME IInv, IInv', NEW r \in Run, CreateAdmin(r), NEW m, m = run[r], NEW n, n = run'[r]
  PROVE  Goes(m, n)
<1>1. StacksOK /\ m \in Memory /\ Fit(m) /\ n \in Memory /\ m.pc = "admin"
  BY HereIs DEF CreateAdmin
<1>2. m.pc \in AtStack /\ m.slug \in Stack
  BY <1>1, PlaceIs DEF AtStack
<1>3. PICK p : p = [m EXCEPT !.pc = "key", !.adm = ids + 1, !.ledger = @ \cup {ids + 1}]
  OBVIOUS
<1>4. PICK f : f = Conclude(m, "failed")
  OBVIOUS
<1>5. f \in Memory /\ Tour(f) = Tour(m) /\ f.pc = "next" /\ f.slug = None
      /\ f.todo = m.todo \ {m.slug} /\ f.clean = m.clean
  <2>1. "failed" \in Verdict
    BY DEF Verdict
  <2>2. QED
    BY <1>1, <1>2, <1>4, <2>1, ConcludeIs
<1>6. \/ SetAdmin(m.slug, ids + 1) /\ n = p
      \/ n = Soiled(f)
      \/ ~(m.slug \in estate /\ admin[m.slug] = 0) /\ n = f /\ Unmoved
  BY <1>3, <1>4, HereIs DEF CreateAdmin, Request
<1>7. CASE SetAdmin(m.slug, ids + 1) /\ n = p
  <2>1. Elsewhere(m.slug)
    BY <1>1, <1>2, <1>7, ElsewhereIs
  <2>2. admin'[m.slug] = ids + 1 /\ UNCHANGED <<reader, role, token, store>>
    BY <1>1, <1>2, <1>7 DEF SetAdmin, StacksOK
  <2>3. /\ n.pc = "key" /\ n.slug = m.slug /\ n.todo = m.todo /\ n.stored = m.stored
        /\ n.sas = m.sas /\ n.status = m.status /\ n.adm = ids + 1
        /\ n.clean = m.clean /\ Tour(n) = Tour(m)
    BY <1>1, <1>3, <1>7 DEF Memory, Tour
  <2>4. ASSUME Lone(m) PROVE Going(n)'
    <3>1. Listed(m) /\ Known(m) /\ m.stored[m.slug] = store[m.slug]
      BY <1>1, <1>2, <2>4 DEF Lone, Going, AtStack, Repairing
    <3>2. Listed(n)' /\ Known(n)'
      BY <2>2, <2>3, <3>1 DEF Listed, Known, Working
    <3>3. QED
      BY <2>2, <2>3, <3>1, <3>2 DEF Going
  <2>5. QED
    BY <1>1, <1>2, <2>1, <2>3, <2>4, GoesAt DEF AtStack, Repairing
<1>8. CASE n = Soiled(f)
  BY <1>1, <1>5, <1>8, GoesSoiled
<1>9. CASE ~(m.slug \in estate /\ admin[m.slug] = 0) /\ n = f /\ Unmoved
  <2>1. ~Lone(m)
    <3>1. SUFFICES ASSUME Lone(m) PROVE FALSE
      OBVIOUS
    <3>2. m.slug \in estate /\ Going(m)
      BY <1>1, <1>2, <3>1, StandingIs
    <3>3. QED
      BY <1>1, <1>9, <3>2 DEF Going
  <2>2. QED
    BY <1>1, <1>2, <1>5, <1>9, <2>1, ElsewhereIs, GoesOff
<1>10. QED
  BY <1>6, <1>7, <1>8, <1>9

LEMMA AdminTokenGoes ==
  ASSUME IInv, IInv', NEW r \in Run, AdminToken(r), NEW m, m = run[r], NEW n, n = run'[r]
  PROVE  Goes(m, n)
<1>1. m.pc = "key" /\ m.pc \in Repairing
  BY DEF AdminToken, Repairing
<1>2. /\ StacksOK /\ m \in Memory /\ Fit(m) /\ m.pc \in AtStack /\ m.slug \in Stack
      /\ Lone(m) => Going(m)
      /\ Goes(m, Soiled(Finally(m, "failed")))
  BY <1>1, AtRepair
<1>3. CASE n = [m EXCEPT !.pc = "roles"] /\ Unmoved
  <2>1. /\ n.pc = "roles" /\ Same(m, n) /\ n.sas = m.sas /\ n.status = m.status
        /\ n.stored = m.stored /\ n.slug = m.slug /\ n.adm = m.adm /\ n.clean = m.clean
    BY <1>2, <1>3 DEF Memory, Same, Tour
  <2>2. ASSUME Lone(m) PROVE Going(n)'
    <3>1. Listed(m) /\ Known(m) /\ m.stored[m.slug] = store[m.slug] /\ admin[m.slug] = m.adm
      BY <1>1, <1>2, <2>2 DEF Going, AtStack
    <3>2. Listed(n)' /\ Known(n)'
      BY <1>3, <2>1, <3>1 DEF Listed, Known, Working, Unmoved
    <3>3. QED
      BY <1>3, <2>1, <3>1, <3>2 DEF Going, Unmoved
  <2>3. Elsewhere(m.slug) /\ n.pc \in Repairing
    BY <1>2, <1>3, <2>1, ElsewhereIs DEF Repairing
  <2>4. QED
    BY <1>2, <2>1, <2>2, <2>3, RepairGoes
<1>4. CASE n = Soiled(Finally(m, "failed"))
  BY <1>2, <1>4
<1>5. QED
  BY <1>3, <1>4, HereIs DEF AdminToken

LEMMA ListRolesGoes ==
  ASSUME IInv, IInv', NEW r \in Run, ListRoles(r), NEW m, m = run[r], NEW n, n = run'[r]
  PROVE  Goes(m, n)
<1>1. m.pc = "roles" /\ m.pc \in Repairing
  BY DEF ListRoles, Repairing
<1>2. /\ StacksOK /\ m \in Memory /\ Fit(m) /\ m.pc \in AtStack /\ m.slug \in Stack
      /\ Lone(m) => Going(m)
      /\ Goes(m, Soiled(Finally(m, "failed"))) /\ n \in Memory
  BY <1>1, AtRepair
<1>3. PICK there \in BOOLEAN : there = (role[m.slug] # NoRole)
  OBVIOUS
<1>4. CASE /\ n = [m EXCEPT !.pc = IF there THEN "read" ELSE "make",
                            !.have.version = role[m.slug].version,
                            !.deferred = there /\ Eligible(m)]
           /\ Unmoved
  <2>1. /\ n.pc = (IF there THEN "read" ELSE "make") /\ Same(m, n) /\ n.sas = m.sas
        /\ n.status = m.status /\ n.stored = m.stored /\ n.slug = m.slug /\ n.adm = m.adm
        /\ n.have.version = role[m.slug].version /\ n.clean = m.clean
    BY <1>2, <1>4 DEF Memory, Same, Tour, Role
  <2>2. ASSUME Lone(m) PROVE Going(n)'
    <3>1. Listed(m) /\ Known(m) /\ m.stored[m.slug] = store[m.slug] /\ admin[m.slug] = m.adm
      BY <1>1, <1>2, <2>2 DEF Going, AtStack
    <3>2. Listed(n)' /\ Known(n)'
      BY <1>4, <2>1, <3>1 DEF Listed, Known, Working, Unmoved
    <3>3. n.pc = "make" => role[m.slug] = NoRole
      BY <1>3, <2>1
    <3>4. n.pc \in {"read", "make"}
      BY <2>1
    <3>5. QED
      BY <1>4, <2>1, <3>1, <3>2, <3>3, <3>4 DEF Going, Unmoved
  <2>3. Elsewhere(m.slug) /\ n.pc \in Repairing
    <3>1. Unmoved
      BY <1>4
    <3>2. n.pc \in {"read", "make"}
      BY <2>1
    <3>3. QED
      BY <1>2, <3>1, <3>2, ElsewhereIs DEF Repairing
  <2>4. QED
    BY <1>2, <2>1, <2>2, <2>3, RepairGoes
<1>5. CASE n = Soiled(Finally(m, "failed"))
  BY <1>2, <1>5
<1>6. \/ Local(r, [m EXCEPT !.pc = IF there THEN "read" ELSE "make",
                            !.have.version = role[m.slug].version,
                            !.deferred = there /\ Eligible(m)])
      \/ Local(r, Soiled(Finally(m, "failed")))
  BY <1>3 DEF ListRoles
<1>7. QED
  BY <1>4, <1>5, <1>6, HereIs

\* The role is as it should be: on to the reader's account.
LEMMA ReconciledGoes ==
  ASSUME StacksOK, NEW m \in Memory, Fit(m), m.pc \in {"make", "read", "put"},
         NEW n, n = Reconciled(m), Elsewhere(m.slug), UNCHANGED <<admin, reader, token, store>>,
         Lone(m) => ~Drift(role'[m.slug].pairs)
  PROVE  Goes(m, n)
<1>1. /\ n = [m EXCEPT !.have = NoRole,
            !.pc = IF m.sas.reader = None THEN "reader"
                   ELSE IF m.sas.reader.basic # "None" THEN "basic" ELSE "assign"]
  BY DEF Reconciled
<1>2. /\ n.pc = (IF m.sas.reader = None THEN "reader"
                 ELSE IF m.sas.reader.basic # "None" THEN "basic" ELSE "assign")
      /\ Same(m, n) /\ n.sas = m.sas /\ n.status = m.status
      /\ n.stored = m.stored /\ n.slug = m.slug /\ n.adm = m.adm /\ n.clean = m.clean
  BY <1>1 DEF Memory, Same, Tour
<1>3. n.pc \in {"reader", "basic", "assign"}
  BY <1>2
<1>4. m.pc \in AtStack /\ m.slug \in Stack
  BY PlaceIs DEF AtStack, Repairing
<1>5. ASSUME Lone(m) PROVE Going(n)'
  <2>1. Listed(m) /\ Known(m) /\ m.stored[m.slug] = store[m.slug] /\ admin[m.slug] = m.adm
    BY <1>4, <1>5 DEF Lone, Going, AtStack, Repairing
  <2>2. Listed(n)' /\ Known(n)'
    BY <1>2, <2>1 DEF Listed, Known, Working
  <2>3. reader[m.slug] # None =>
          /\ m.sas.reader = [id |-> reader[m.slug].id, basic |-> reader[m.slug].basic]
          /\ m.sas.reader # None
    <3>1. ASSUME reader[m.slug] # None PROVE reader[m.slug] \in Account
      BY <1>4, <3>1 DEF StacksOK
    <3>2. reader[m.slug] # None =>
            [id |-> reader[m.slug].id, basic |-> reader[m.slug].basic] \in Seen
      BY <3>1 DEF Account, Seen
    <3>3. QED
      BY <2>1, <3>2, NoneAssumption DEF Listed
  <2>4. n.pc = "reader" => reader[m.slug] = None
    BY <1>2, <2>3
  <2>5. n.pc \in {"basic", "assign"} => reader[m.slug] # None
    BY <1>2, <2>1 DEF Listed
  <2>6. n.pc \in {"basic", "assign"} => Found(n)'
    BY <1>2, <2>3, <2>5 DEF Found
  <2>7. n.pc = "assign" => reader[m.slug].basic = "None"
    BY <1>2, <2>3, <2>5
  <2>8. ~Drift(role'[m.slug].pairs)
    BY <1>5
  <2>9. QED
    BY <1>2, <1>3, <2>1, <2>2, <2>4, <2>6, <2>7, <2>8 DEF Going
<1>6. QED
  BY <1>2, <1>3, <1>4, <1>5, RepairGoes DEF Repairing

LEMMA MakeRoleGoes ==
  ASSUME IInv, IInv', NEW r \in Run, MakeRole(r), NEW m, m = run[r], NEW n, n = run'[r]
  PROVE  Goes(m, n)
<1>1. m.pc = "make" /\ m.pc \in Repairing
  BY DEF MakeRole, Repairing
<1>2. /\ StacksOK /\ m \in Memory /\ Fit(m) /\ m.pc \in AtStack /\ m.slug \in Stack
      /\ Lone(m) => Going(m) /\ Authorised(m)
      /\ Goes(m, Soiled(Finally(m, "failed"))) /\ "failed" \in Verdict
  BY <1>1, AtRepair
<1>3. \/ SetRole(m.slug, 1, {"declared"}) /\ n = Reconciled(m)
      \/ n = Soiled(Finally(m, "failed"))
      \/ ~(Authorised(m) /\ role[m.slug] = NoRole) /\ n = Finally(m, "failed") /\ Unmoved
  BY HereIs DEF MakeRole, Request
<1>4. CASE SetRole(m.slug, 1, {"declared"}) /\ n = Reconciled(m)
  <2>1. Elsewhere(m.slug) /\ UNCHANGED <<admin, reader, token, store>>
    BY <1>2, <1>4, ElsewhereIs DEF SetRole
  <2>2. role'[m.slug].pairs = {"declared"}
    BY <1>2, <1>4 DEF SetRole, StacksOK
  <2>3. QED
    BY <1>1, <1>2, <1>4, <2>1, <2>2, ReconciledGoes DEF Drift
<1>5. CASE n = Soiled(Finally(m, "failed"))
  BY <1>2, <1>5
<1>6. CASE ~(Authorised(m) /\ role[m.slug] = NoRole) /\ n = Finally(m, "failed") /\ Unmoved
  <2>1. ~Lone(m)
    BY <1>1, <1>2, <1>6 DEF Going
  <2>2. QED
    BY <1>1, <1>2, <1>6, <2>1, ElsewhereIs, FinallyGoes
<1>7. QED
  BY <1>3, <1>4, <1>5, <1>6

LEMMA ReadRoleGoes ==
  ASSUME IInv, IInv', NEW r \in Run, ReadRole(r), NEW m, m = run[r], NEW n, n = run'[r]
  PROVE  Goes(m, n)
<1>1. m.pc = "read" /\ m.pc \in Repairing
  BY DEF ReadRole, Repairing
<1>2. /\ StacksOK /\ m \in Memory /\ Fit(m) /\ m.pc \in AtStack /\ m.slug \in Stack
      /\ Lone(m) => Going(m) /\ Authorised(m) /\ admin[m.slug] = m.adm
      /\ Goes(m, Soiled(Finally(m, "failed"))) /\ "failed" \in Verdict
  BY <1>1, AtRepair
<1>3. \/ "dangerous" \in role[m.slug].pairs /\ n = Finally(m, "failed") /\ Unmoved
      \/ ~Drift(role[m.slug].pairs) /\ n = Reconciled(m) /\ Unmoved
      \/ n = [m EXCEPT !.pc = "put", !.have.pairs = role[m.slug].pairs] /\ Unmoved
      \/ n = Soiled(Finally(m, "failed"))
  BY HereIs DEF ReadRole
<1>4. Unmoved => Elsewhere(m.slug) /\ UNCHANGED <<admin, reader, role, token, store>>
  BY <1>2, ElsewhereIs DEF Unmoved
<1>5. CASE "dangerous" \in role[m.slug].pairs /\ n = Finally(m, "failed") /\ Unmoved
  BY <1>1, <1>2, <1>4, <1>5, FinallyGoes
<1>6. CASE ~Drift(role[m.slug].pairs) /\ n = Reconciled(m) /\ Unmoved
  BY <1>1, <1>2, <1>4, <1>6, ReconciledGoes
<1>7. CASE n = [m EXCEPT !.pc = "put", !.have.pairs = role[m.slug].pairs] /\ Unmoved
  <2>1. /\ n.pc = "put" /\ Same(m, n) /\ n.sas = m.sas /\ n.status = m.status
        /\ n.stored = m.stored /\ n.slug = m.slug /\ n.adm = m.adm /\ n.clean = m.clean
        /\ n.have = [m.have EXCEPT !.pairs = role[m.slug].pairs]
    BY <1>2, <1>7 DEF Memory, Same, Tour
  <2>2. m.have \in Role /\ role[m.slug] \in Role
    BY <1>2 DEF Memory, StacksOK
  <2>3. Unmoved
    BY <1>7
  <2>4. ASSUME Lone(m) PROVE Going(n)'
    <3>1. /\ Listed(m) /\ Known(m) /\ m.stored[m.slug] = store[m.slug] /\ admin[m.slug] = m.adm
          /\ m.have.version = role[m.slug].version
      BY <1>1, <1>2, <2>4 DEF Going, AtStack
    <3>2. n.have = role[m.slug]
      BY <2>1, <2>2, <3>1 DEF Role
    <3>3. Listed(n)' /\ Known(n)'
      BY <2>1, <2>3, <3>1 DEF Listed, Known, Working, Unmoved
    <3>4. QED
      BY <2>1, <2>3, <3>1, <3>2, <3>3 DEF Going, Unmoved
  <2>5. QED
    BY <1>2, <1>4, <2>1, <2>3, <2>4, RepairGoes DEF Repairing
<1>8. CASE n = Soiled(Finally(m, "failed"))
  BY <1>2, <1>8
<1>9. QED
  BY <1>3, <1>5, <1>6, <1>7, <1>8

LEMMA PutRoleGoes ==
  ASSUME IInv, IInv', NEW r \in Run, PutRole(r), NEW m, m = run[r], NEW n, n = run'[r]
  PROVE  Goes(m, n)
<1>1. m.pc = "put" /\ m.pc \in Repairing
  BY DEF PutRole, Repairing
<1>2. /\ StacksOK /\ m \in Memory /\ Fit(m) /\ m.pc \in AtStack /\ m.slug \in Stack
      /\ Lone(m) => Going(m) /\ Authorised(m)
      /\ Goes(m, Soiled(Finally(m, "failed"))) /\ "failed" \in Verdict
  BY <1>1, AtRepair
<1>3. PICK pairs : pairs = {"declared"} \cup (m.have.pairs \ {"retired"})
  OBVIOUS
<1>4. \/ SetRole(m.slug, m.have.version + 1, pairs) /\ n = Reconciled(m)
      \/ n = Soiled(Finally(m, "failed"))
      \/ ~(Authorised(m) /\ (VersionChecked => m.have.version >= role[m.slug].version))
         /\ n = Finally(m, "failed") /\ Unmoved
  BY <1>3, HereIs DEF PutRole, Request
<1>5. CASE SetRole(m.slug, m.have.version + 1, pairs) /\ n = Reconciled(m)
  <2>1. Elsewhere(m.slug) /\ UNCHANGED <<admin, reader, token, store>>
    BY <1>2, <1>5, ElsewhereIs DEF SetRole
  <2>2. role'[m.slug].pairs = pairs
    BY <1>2, <1>5 DEF SetRole, StacksOK
  <2>3. ~Drift(pairs)
    BY <1>1, <1>2, <1>3 DEF Fit, ShapeOf, Drift
  <2>4. QED
    BY <1>1, <1>2, <1>5, <2>1, <2>2, <2>3, ReconciledGoes
<1>6. CASE n = Soiled(Finally(m, "failed"))
  BY <1>2, <1>6
<1>7. CASE ~(Authorised(m) /\ (VersionChecked => m.have.version >= role[m.slug].version))
           /\ n = Finally(m, "failed") /\ Unmoved
  <2>1. role[m.slug].version \in Nat
    BY <1>2 DEF StacksOK, Role
  <2>2. ~Lone(m)
    BY <1>1, <1>2, <1>7, <2>1 DEF Going
  <2>3. QED
    BY <1>1, <1>2, <1>7, <2>2, ElsewhereIs, FinallyGoes
<1>8. QED
  BY <1>4, <1>5, <1>6, <1>7

\* A run that was not alone, or was refused something, may go anywhere.
LEMMA GoesNot ==
  ASSUME NEW m, NEW n, Tour(n) = Tour(m), n.clean => m.clean, ~Lone(m)
  PROVE  Goes(m, n)
BY DEF Goes, Track, Tour

LEMMA CreateReaderGoes ==
  ASSUME IInv, IInv', NEW r \in Run, CreateReader(r), NEW m, m = run[r], NEW n, n = run'[r]
  PROVE  Goes(m, n)
<1>1. m.pc = "reader" /\ m.pc \in Repairing
  BY DEF CreateReader, Repairing
<1>2. /\ StacksOK /\ m \in Memory /\ Fit(m) /\ m.pc \in AtStack /\ m.slug \in Stack
      /\ Lone(m) => Going(m) /\ m.slug \in estate
      /\ "failed" \in Verdict
  BY <1>1, AtRepair
<1>3. PICK account : account = [id |-> ids + 1, basic |-> "None", assigned |-> FALSE]
  OBVIOUS
<1>4. PICK p : p = [m EXCEPT !.pc = "assign", !.ledger = @ \cup {ids + 1},
                             !.sas.reader = [id |-> ids + 1, basic |-> "None"]]
  OBVIOUS
<1>5. PICK f : f = IF reader[m.slug] # None THEN [m EXCEPT !.pc = "again"] ELSE Finally(m, "failed")
  OBVIOUS
<1>6. f \in Memory /\ Tour(f) = Tour(m) /\ f.clean = m.clean
  <2>1. [m EXCEPT !.pc = "again"] \in Memory
    BY <1>2, Updates DEF Phase
  <2>2. Tour([m EXCEPT !.pc = "again"]) = Tour(m) /\ [m EXCEPT !.pc = "again"].clean = m.clean
    BY <1>2 DEF Memory, Tour
  <2>3. PICK k : k = Finally(m, "failed")
    OBVIOUS
  <2>4. k \in Memory /\ Tour(k) = Tour(m) /\ k.clean = m.clean
    BY <1>2, <2>3, FinallyIs
  <2>5. QED
    BY <1>5, <2>1, <2>2, <2>3, <2>4
<1>7. \/ SetReader(m.slug, account) /\ n = p
      \/ n = Soiled(f)
      \/ ~(m.slug \in estate /\ reader[m.slug] = None) /\ n = f
  BY <1>3, <1>4, <1>5, HereIs DEF CreateReader, Request
<1>8. CASE SetReader(m.slug, account) /\ n = p
  <2>1. Elsewhere(m.slug)
    BY <1>2, <1>8, ElsewhereIs
  <2>2. reader'[m.slug] = account /\ UNCHANGED <<admin, role, token, store>>
    BY <1>2, <1>8 DEF SetReader, StacksOK
  <2>3. /\ n.pc = "assign" /\ Same(m, n) /\ n.status = m.status /\ n.stored = m.stored
        /\ n.slug = m.slug /\ n.adm = m.adm /\ n.clean = m.clean
        /\ n.sas = [m.sas EXCEPT !.reader = [id |-> ids + 1, basic |-> "None"]]
    BY <1>2, <1>4, <1>8 DEF Memory, Same, Tour
  <2>4. n.sas.reader = [id |-> ids + 1, basic |-> "None"]
    BY <1>2, <2>3 DEF Memory, Listing
  <2>5. ids + 1 \in Nat
    BY <1>2 DEF StacksOK
  <2>6. account \in Account /\ n.sas.reader \in Seen
    BY <1>3, <2>4, <2>5 DEF Account, Seen
  <2>7. account # None /\ n.sas.reader # None
    BY <2>6, NoneAssumption
  <2>8. Found(n)' /\ reader'[m.slug].basic = "None"
    BY <1>3, <2>2, <2>3, <2>4, <2>7 DEF Found
  <2>9. ASSUME Lone(m) PROVE Going(n)'
    <3>1. /\ Known(m) /\ m.stored[m.slug] = store[m.slug] /\ admin[m.slug] = m.adm
          /\ ~Drift(role[m.slug].pairs)
      BY <1>1, <1>2, <2>9 DEF Going, AtStack
    <3>2. Known(n)'
      BY <2>2, <2>3, <3>1 DEF Known, Working
    <3>3. QED
      BY <2>2, <2>3, <2>8, <3>1, <3>2 DEF Going
  <2>10. QED
    BY <1>2, <2>1, <2>3, <2>9, RepairGoes DEF Repairing
<1>9. CASE n = Soiled(f)
  BY <1>2, <1>6, <1>9, GoesSoiled
<1>10. CASE ~(m.slug \in estate /\ reader[m.slug] = None) /\ n = f
  <2>1. ~Lone(m)
    BY <1>1, <1>2, <1>10 DEF Going
  <2>2. QED
    BY <1>6, <1>10, <2>1, GoesNot
<1>11. QED
  BY <1>7, <1>8, <1>9, <1>10

LEMMA LookAgainGoes ==
  ASSUME IInv, IInv', NEW r \in Run, LookAgain(r), NEW m, m = run[r], NEW n, n = run'[r]
  PROVE  Goes(m, n)
<1>1. m.pc = "again" /\ m.pc \in Repairing
  BY DEF LookAgain, Repairing
<1>2. /\ StacksOK /\ m \in Memory /\ Fit(m) /\ m.slug \in Stack /\ ~Lone(m)
      /\ Goes(m, Soiled(Finally(m, "failed")))
  BY <1>1, AtRepair DEF Going
<1>3. PICK l : l = [m EXCEPT !.sas = List(m.slug)]
  OBVIOUS
<1>4. l \in Memory
  BY <1>2, <1>3, ListIs, Updates
<1>5. Tour(l) = Tour(m) /\ l.clean = m.clean
  BY <1>2, <1>3, <1>4 DEF Memory, Tour
<1>6. CASE n = Reconciled(l)
  <2>1. Tour(n) = Tour(l) /\ n.clean = l.clean
    BY <1>4, <1>6 DEF Reconciled, Memory, Tour
  <2>2. QED
    BY <1>2, <1>5, <2>1, GoesNot
<1>7. CASE n = Soiled(Finally(m, "failed"))
  BY <1>2, <1>7
<1>8. QED
  BY <1>3, <1>6, <1>7, HereIs DEF LookAgain

LEMMA ResetBasicRoleGoes ==
  ASSUME IInv, IInv', NEW r \in Run, ResetBasicRole(r), NEW m, m = run[r], NEW n, n = run'[r]
  PROVE  Goes(m, n)
<1>1. m.pc = "basic" /\ m.pc \in Repairing
  BY DEF ResetBasicRole, Repairing
<1>2. /\ StacksOK /\ m \in Memory /\ Fit(m) /\ m.pc \in AtStack /\ m.slug \in Stack
      /\ Lone(m) => Going(m) /\ Authorised(m)
      /\ Goes(m, Soiled(Finally(m, "failed"))) /\ "failed" \in Verdict
  BY <1>1, AtRepair
<1>3. PICK account : account = [reader[m.slug] EXCEPT !.basic = "None"]
  OBVIOUS
<1>4. \/ Holds(m) /\ SetReader(m.slug, account) /\ n = [m EXCEPT !.pc = "assign"]
      \/ n = Soiled(Finally(m, "failed"))
      \/ ~(Authorised(m) /\ Holds(m)) /\ n = Finally(m, "failed") /\ Unmoved
  BY <1>3, HereIs DEF ResetBasicRole, Request
<1>5. CASE Holds(m) /\ SetReader(m.slug, account) /\ n = [m EXCEPT !.pc = "assign"]
  <2>1. Elsewhere(m.slug)
    BY <1>2, <1>5, ElsewhereIs
  <2>2. reader'[m.slug] = account /\ UNCHANGED <<admin, role, token, store>>
    BY <1>2, <1>5 DEF SetReader, StacksOK
  <2>3. /\ n.pc = "assign" /\ Same(m, n) /\ n.status = m.status /\ n.stored = m.stored
        /\ n.slug = m.slug /\ n.adm = m.adm /\ n.clean = m.clean /\ n.sas = m.sas
    BY <1>2, <1>5 DEF Memory, Same, Tour
  <2>4. /\ account \in Account /\ account.id = reader[m.slug].id /\ account.basic = "None"
        /\ m.sas.reader # None /\ reader[m.slug].id = m.sas.reader.id
    BY <1>2, <1>3, <1>5 DEF Holds, StacksOK, Account
  <2>5. Found(n)' /\ reader'[m.slug].basic = "None"
    BY <2>2, <2>3, <2>4, NoneAssumption DEF Found
  <2>6. ASSUME Lone(m) PROVE Going(n)'
    <3>1. /\ Known(m) /\ m.stored[m.slug] = store[m.slug] /\ admin[m.slug] = m.adm
          /\ ~Drift(role[m.slug].pairs)
      BY <1>1, <1>2, <2>6 DEF Going, AtStack
    <3>2. Known(n)'
      BY <2>2, <2>3, <3>1 DEF Known, Working
    <3>3. QED
      BY <2>2, <2>3, <2>5, <3>1, <3>2 DEF Going
  <2>7. QED
    BY <1>2, <2>1, <2>3, <2>6, RepairGoes DEF Repairing
<1>6. CASE n = Soiled(Finally(m, "failed"))
  BY <1>2, <1>6
<1>7. CASE ~(Authorised(m) /\ Holds(m)) /\ n = Finally(m, "failed") /\ Unmoved
  <2>1. ~Lone(m)
    BY <1>1, <1>2, <1>7 DEF Going, Found, Holds
  <2>2. QED
    BY <1>1, <1>2, <1>7, <2>1, ElsewhereIs, FinallyGoes
<1>8. QED
  BY <1>4, <1>5, <1>6, <1>7

LEMMA AssignRoleGoes ==
  ASSUME IInv, IInv', NEW r \in Run, AssignRole(r), NEW m, m = run[r], NEW n, n = run'[r]
  PROVE  Goes(m, n)
<1>1. m.pc = "assign" /\ m.pc \in Repairing
  BY DEF AssignRole, Repairing
<1>2. /\ StacksOK /\ m \in Memory /\ Fit(m) /\ m.pc \in AtStack /\ m.slug \in Stack
      /\ Lone(m) => Going(m) /\ Authorised(m)
      /\ Goes(m, Soiled(Finally(m, "failed"))) /\ "failed" \in Verdict /\ "pending" \in Verdict
  BY <1>1, AtRepair DEF Verdict
<1>3. PICK account : account = [reader[m.slug] EXCEPT !.assigned = TRUE]
  OBVIOUS
<1>4. PICK p : p = IF NeedsMint(m) THEN [m EXCEPT !.pc = "mint"]
                   ELSE IF m.deferred THEN Finally(m, "pending")
                   ELSE [m EXCEPT !.pc = "verify", !.key = m.stored[m.slug].token]
  OBVIOUS
<1>5. \/ Holds(m) /\ SetReader(m.slug, account) /\ n = p
      \/ n = Soiled(Finally(m, "failed"))
      \/ ~(Authorised(m) /\ Holds(m)) /\ n = Finally(m, "failed") /\ Unmoved
  BY <1>3, <1>4, HereIs DEF AssignRole, Request
<1>6. CASE Holds(m) /\ SetReader(m.slug, account) /\ n = p
  <2>1. Elsewhere(m.slug)
    BY <1>2, <1>6, ElsewhereIs
  <2>2. reader'[m.slug] = account /\ UNCHANGED <<admin, role, token, store>>
    BY <1>2, <1>6 DEF SetReader, StacksOK
  <2>3. /\ account \in Account /\ account.id = reader[m.slug].id
        /\ account.basic = reader[m.slug].basic /\ account.assigned
        /\ m.sas.reader # None /\ reader[m.slug].id = m.sas.reader.id
    BY <1>2, <1>3, <1>6 DEF Holds, StacksOK, Account
  <2>4. account # None
    BY <2>3, NoneAssumption
  <2>5. ASSUME Lone(m)
        PROVE  /\ Known(m) /\ m.stored[m.slug] = store[m.slug] /\ admin[m.slug] = m.adm
               /\ ~Drift(role[m.slug].pairs) /\ reader[m.slug].basic = "None"
    BY <1>1, <1>2, <2>5 DEF Going, AtStack
  <2>6. CASE NeedsMint(m)
    <3>1. n = [m EXCEPT !.pc = "mint"]
      BY <1>4, <1>6, <2>6
    <3>2. /\ n.pc = "mint" /\ Same(m, n) /\ n.stored = m.stored
          /\ n.slug = m.slug /\ n.adm = m.adm /\ n.clean = m.clean /\ n.sas = m.sas
      BY <1>2, <3>1 DEF Memory, Same, Tour
    <3>3. ASSUME Lone(m) PROVE Going(n)'
      <4>1. ~Working(m.slug)
        BY <2>5, <2>6, <3>3 DEF NeedsMint, Known, Working
      <4>2. ~Working(m.slug)'
        BY <2>2, <4>1 DEF Working
      <4>3. Found(n)'
        BY <2>2, <2>3, <2>4, <3>2 DEF Found
      <4>4. QED
        BY <2>2, <2>3, <2>5, <3>2, <3>3, <4>2, <4>3 DEF Going
    <3>4. QED
      BY <1>2, <2>1, <3>2, <3>3, RepairGoes DEF Repairing
  <2>7. ASSUME ~NeedsMint(m), Lone(m) PROVE Provisioned(m.slug)'
    <3>1. Working(m.slug)
      BY <2>5, <2>7 DEF NeedsMint, Known
    <3>2. Working(m.slug)'
      BY <2>2, <3>1 DEF Working
    <3>3. QED
      BY <2>2, <2>3, <2>4, <2>5, <2>7, <3>2 DEF Provisioned
  <2>8. CASE ~NeedsMint(m) /\ m.deferred
    <3>1. n = Finally(m, "pending")
      BY <1>4, <1>6, <2>8
    <3>2. Lone(m) => admin'[m.slug] = m.adm
      BY <2>2, <2>5
    <3>3. QED
      BY <1>1, <1>2, <2>1, <2>7, <2>8, <3>1, <3>2, FinallyGoes
  <2>9. CASE ~NeedsMint(m) /\ ~m.deferred
    <3>1. n = [m EXCEPT !.pc = "verify", !.key = m.stored[m.slug].token]
      BY <1>4, <1>6, <2>9
    <3>2. /\ n.pc = "verify" /\ Same(m, n) /\ n.slug = m.slug /\ n.adm = m.adm
          /\ n.clean = m.clean
      BY <1>2, <3>1 DEF Memory, Same, Tour
    <3>3. ASSUME Lone(m) PROVE Going(n)'
      BY <2>2, <2>5, <2>7, <2>9, <3>2, <3>3 DEF Going
    <3>4. QED
      BY <1>2, <2>1, <3>2, <3>3, RepairGoes DEF Repairing
  <2>10. QED
    BY <2>6, <2>8, <2>9
<1>7. CASE n = Soiled(Finally(m, "failed"))
  BY <1>2, <1>7
<1>8. CASE ~(Authorised(m) /\ Holds(m)) /\ n = Finally(m, "failed") /\ Unmoved
  <2>1. ~Lone(m)
    BY <1>1, <1>2, <1>8 DEF Going, Found, Holds
  <2>2. QED
    BY <1>1, <1>2, <1>8, <2>1, ElsewhereIs, FinallyGoes
<1>9. QED
  BY <1>5, <1>6, <1>7, <1>8

LEMMA MintGoes ==
  ASSUME IInv, IInv', NEW r \in Run, Mint(r), NEW m, m = run[r], NEW n, n = run'[r]
  PROVE  Goes(m, n)
<1>1. m.pc = "mint" /\ m.pc \in Repairing
  BY DEF Mint, Repairing
<1>2. /\ StacksOK /\ m \in Memory /\ Fit(m) /\ m.pc \in AtStack /\ m.slug \in Stack
      /\ Lone(m) => Going(m) /\ m.slug \in estate /\ admin[m.slug] = m.adm
      /\ Goes(m, Soiled(Finally(m, "failed"))) /\ "failed" \in Verdict
  BY <1>1, AtRepair
<1>3. \/ SetToken(m.slug, ids + 1) /\ n = [m EXCEPT !.pc = "store", !.key = ids + 1]
      \/ n = Soiled(Finally(m, "failed"))
      \/ /\ ~(m.slug \in estate /\ Holds(m) /\ token[m.slug] = 0)
         /\ n = Finally(m, "failed") /\ Unmoved
  BY HereIs DEF Mint, Request
<1>4. CASE SetToken(m.slug, ids + 1) /\ n = [m EXCEPT !.pc = "store", !.key = ids + 1]
  <2>1. Elsewhere(m.slug)
    BY <1>2, <1>4, ElsewhereIs
  <2>2. token'[m.slug] = ids + 1 /\ UNCHANGED <<admin, reader, role, store>>
    BY <1>2, <1>4 DEF SetToken, StacksOK
  <2>3. /\ n.pc = "store" /\ Same(m, n) /\ n.stored = m.stored /\ n.key = ids + 1
        /\ n.slug = m.slug /\ n.adm = m.adm /\ n.clean = m.clean /\ n.sas = m.sas
    BY <1>2, <1>4 DEF Memory, Same, Tour
  <2>4. ASSUME Lone(m) PROVE Going(n)'
    <3>1. /\ Found(m) /\ admin[m.slug] = m.adm /\ ~Drift(role[m.slug].pairs)
          /\ reader[m.slug].basic = "None" /\ reader[m.slug].assigned
      BY <1>1, <1>2, <2>4 DEF Going
    <3>2. Found(n)'
      BY <2>2, <2>3, <3>1 DEF Found
    <3>3. QED
      BY <2>2, <2>3, <3>1, <3>2 DEF Going
  <2>5. QED
    BY <1>2, <2>1, <2>3, <2>4, RepairGoes DEF Repairing
<1>5. CASE n = Soiled(Finally(m, "failed"))
  BY <1>2, <1>5
<1>6. CASE /\ ~(m.slug \in estate /\ Holds(m) /\ token[m.slug] = 0)
           /\ n = Finally(m, "failed") /\ Unmoved
  <2>1. Lone(m) => Holds(m) /\ ~Working(m.slug)
    BY <1>1, <1>2 DEF Going, Found, Holds
  <2>2. Lone(m) => Stuck(m.slug)
    BY <1>2, <1>6, <2>1 DEF Stuck
  <2>3. Lone(m) => Stuck(m.slug)' /\ admin'[m.slug] = m.adm
    BY <1>2, <1>6, <2>2 DEF Stuck, Working, Unmoved
  <2>4. QED
    BY <1>1, <1>2, <1>6, <2>3, ElsewhereIs, FinallyGoes
<1>7. QED
  BY <1>3, <1>4, <1>5, <1>6

LEMMA StoreGoes ==
  ASSUME IInv, IInv', NEW r \in Run, Store(r), NEW m, m = run[r], NEW n, n = run'[r]
  PROVE  Goes(m, n)
<1>1. m.pc = "store" /\ m.pc \in Repairing
  BY DEF Store, Repairing
<1>2. /\ StacksOK /\ m \in Memory /\ Fit(m) /\ m.pc \in AtStack /\ m.slug \in Stack
      /\ Lone(m) => Going(m)
  BY <1>1, AtRepair
<1>3. PICK record : record = [token |-> m.key, sa |-> m.sas.reader.id]
  OBVIOUS
<1>4. PICK f : f = [m EXCEPT !.pc = "revoke"]
  OBVIOUS
<1>5. f \in Memory /\ Tour(f) = Tour(m)
  <2>1. f \in Memory
    BY <1>2, <1>4, Updates DEF Phase
  <2>2. QED
    BY <1>2, <1>4, <2>1 DEF Memory, Tour
<1>6. \/ SetStore(m.slug, record) /\ n = [m EXCEPT !.pc = "verify"]
      \/ n = Soiled(f)
  BY <1>3, <1>4, HereIs DEF Store, Request
<1>7. CASE SetStore(m.slug, record) /\ n = [m EXCEPT !.pc = "verify"]
  <2>1. Elsewhere(m.slug)
    BY <1>2, <1>7, ElsewhereIs
  <2>2. store'[m.slug] = record /\ UNCHANGED <<admin, reader, role, token>>
    BY <1>2, <1>7 DEF SetStore, stacks, StacksOK
  <2>3. /\ n.pc = "verify" /\ Same(m, n)
        /\ n.slug = m.slug /\ n.adm = m.adm /\ n.clean = m.clean
    BY <1>2, <1>7 DEF Memory, Same, Tour
  <2>4. m.sas.reader \in Seen /\ m.key # 0
    BY <1>1, <1>2 DEF Fit, ShapeOf, Memory, Listing, Minted
  <2>5. record \in Record /\ record.token = m.key
    BY <1>2, <1>3, <2>4 DEF Record, Seen, Memory
  <2>6. ASSUME Lone(m) PROVE Going(n)'
    <3>1. /\ token[m.slug] = m.key /\ reader[m.slug] # None /\ admin[m.slug] = m.adm
          /\ ~Drift(role[m.slug].pairs)
          /\ reader[m.slug].basic = "None" /\ reader[m.slug].assigned
      BY <1>1, <1>2, <2>6 DEF Going, Found
    <3>2. Working(m.slug)'
      BY <2>2, <2>4, <2>5, <3>1, NoneAssumption DEF Working, HasSecret
    <3>3. Provisioned(m.slug)'
      BY <2>2, <3>1, <3>2 DEF Provisioned
    <3>4. QED
      BY <2>2, <2>3, <3>1, <3>3 DEF Going
  <2>7. QED
    BY <1>2, <2>1, <2>3, <2>6, RepairGoes DEF Repairing
<1>8. CASE n = Soiled(f)
  BY <1>2, <1>5, <1>8, GoesSoiled
<1>9. QED
  BY <1>6, <1>7, <1>8

LEMMA RevokeGoes ==
  ASSUME IInv, IInv', NEW r \in Run, Revoke(r), NEW m, m = run[r], NEW n, n = run'[r]
  PROVE  Goes(m, n)
<1>1. m.pc = "revoke" /\ m.pc \in Repairing
  BY DEF Revoke, Repairing
<1>2. m \in Memory /\ ~Lone(m) /\ Goes(m, Soiled(Finally(m, "failed"))) /\ "failed" \in Verdict
  BY <1>1, AtRepair DEF Going
<1>3. PICK f : f = Finally(m, "failed")
  OBVIOUS
<1>4. Tour(f) = Tour(m) /\ f.clean = m.clean
  BY <1>2, <1>3, FinallyIs
<1>5. n = f \/ n = Soiled(f)
  BY <1>3, HereIs DEF Revoke, Delete
<1>6. QED
  BY <1>2, <1>3, <1>4, <1>5, GoesNot

LEMMA VerifyGoes ==
  ASSUME IInv, IInv', NEW r \in Run, Verify(r), NEW m, m = run[r], NEW n, n = run'[r]
  PROVE  Goes(m, n)
<1>1. m.pc = "verify" /\ m.pc \in Repairing
  BY DEF Verify, Repairing
<1>2. /\ StacksOK /\ m \in Memory /\ Fit(m) /\ m.pc \in AtStack /\ m.slug \in Stack
      /\ Lone(m) => Going(m)
      /\ Goes(m, Soiled(Finally(m, "failed")))
  BY <1>1, AtRepair
<1>3. ASSUME NEW status, NEW out \in Verdict,
             n = Finally([m EXCEPT !.clean = @ /\ status # "other"], out), Unmoved
      PROVE  Goes(m, n)
  <2>1. PICK c \in BOOLEAN : c = (m.clean /\ status # "other")
    OBVIOUS
  <2>2. PICK l : l = [m EXCEPT !.clean = c]
    OBVIOUS
  <2>3. n = Finally(l, out)
    BY <1>3, <2>1, <2>2
  <2>4. l \in Memory
    BY <1>2, <2>2, Updates
  <2>5. l.clean = c /\ Same(m, l)
    BY <1>2, <2>2 DEF Memory, Same, Tour
  <2>6. l.clean => m.clean
    BY <2>1, <2>5
  <2>7. n.clean = l.clean /\ Same(m, n) /\ n.pc = "cleanup"
    BY <1>3, <2>3, <2>4, <2>5, FinallyIs DEF Same
  <2>8. ASSUME Lone(m) PROVE Going(n)'
    <3>1. Provisioned(m.slug) /\ admin[m.slug] = m.adm
      BY <1>1, <1>2, <2>8 DEF Going
    <3>2. Provisioned(m.slug)' /\ admin'[m.slug] = m.adm
      BY <1>3, <3>1 DEF Provisioned, Working, Unmoved
    <3>3. QED
      BY <2>7, <3>2 DEF Going, Same
  <2>9. QED
    BY <1>2, <1>3, <2>6, <2>7, <2>8, ElsewhereIs, RepairGoes DEF Repairing
<1>4. ASSUME NEW status \in StatusOf(m.slug, m.key),
             Local(r, Finally([m EXCEPT !.clean = @ /\ status # "other"],
               IF ~NeedsRepair(List(m.slug).reader, TRUE, status, Answers(m.slug, status))
               THEN "ok" ELSE IF List(m.slug).reader = None THEN "failed" ELSE "unverified"))
      PROVE  Goes(m, n)
  <2>1. PICK out : out =
          IF ~NeedsRepair(List(m.slug).reader, TRUE, status, Answers(m.slug, status))
          THEN "ok" ELSE IF List(m.slug).reader = None THEN "failed" ELSE "unverified"
    OBVIOUS
  <2>2. out \in Verdict
    BY <2>1 DEF Verdict
  <2>3. Local(r, Finally([m EXCEPT !.clean = @ /\ status # "other"], out))
    BY <1>4, <2>1
  <2>4. PICK k : k = Finally([m EXCEPT !.clean = @ /\ status # "other"], out)
    OBVIOUS
  <2>5. Local(r, k)
    BY <2>3, <2>4
  <2>6. n = k /\ Unmoved
    BY <2>5, HereIs
  <2>7. n = Finally([m EXCEPT !.clean = @ /\ status # "other"], out)
    BY <2>4, <2>6
  <2>8. QED
    BY <1>3, <2>2, <2>6, <2>7
<1>5. Local(r, Soiled(Finally(m, "failed"))) => Goes(m, n)
  BY <1>2, HereIs
<1>6. QED
  BY <1>4, <1>5 DEF Verify

LEMMA CleanupGoes ==
  ASSUME IInv, IInv', NEW r \in Run, Cleanup(r), NEW m, m = run[r], NEW n, n = run'[r]
  PROVE  Goes(m, n)
<1>1. m.pc = "cleanup" /\ m.pc \in Repairing
  BY DEF Cleanup, Repairing
<1>2. /\ StacksOK /\ m \in Memory /\ Fit(m) /\ m.pc \in AtStack /\ m.slug \in Stack
      /\ Lone(m) => Going(m) /\ admin[m.slug] = m.adm
      /\ "failed" \in Verdict
  BY <1>1, AtRepair
<1>3. m.out \in Verdict
  BY <1>2 DEF Memory
<1>4. PICK p : p = Conclude(m, m.out)
  OBVIOUS
<1>5. PICK f : f = Conclude(m, "failed")
  OBVIOUS
<1>6. /\ p.clean = m.clean /\ Tour(p) = Tour(m) /\ p.pc = "next" /\ p.todo = m.todo \ {m.slug}
      /\ p.slug = None
      /\ f \in Memory /\ f.clean = m.clean /\ Tour(f) = Tour(m)
  BY <1>2, <1>3, <1>4, <1>5, ConcludeIs
<1>7. \/ SetAdmin(m.slug, 0) /\ n = p
      \/ n = Soiled(f)
      \/ admin[m.slug] # m.adm /\ n = f
  BY <1>4, <1>5, HereIs DEF Cleanup, Delete
<1>8. CASE SetAdmin(m.slug, 0) /\ n = p
  <2>1. Elsewhere(m.slug)
    BY <1>2, <1>8, ElsewhereIs
  <2>2. admin'[m.slug] = 0 /\ UNCHANGED <<reader, role, token, store>>
    BY <1>2, <1>8 DEF SetAdmin, StacksOK
  <2>3. ASSUME Lone(m) PROVE Right(m.slug)'
    <3>1. Provisioned(m.slug) \/ "dangerous" \in role[m.slug].pairs \/ Stuck(m.slug)
      BY <1>1, <1>2, <2>3 DEF Going
    <3>2. QED
      BY <2>2, <3>1 DEF Provisioned, Stuck, Working, Right, Settled
  <2>4. QED
    BY <1>2, <1>6, <1>8, <2>1, <2>3, GoesOff
<1>9. CASE n = Soiled(f)
  BY <1>2, <1>6, <1>9, GoesSoiled
<1>10. CASE admin[m.slug] # m.adm /\ n = f
  BY <1>2, <1>6, <1>10, GoesNot
<1>11. QED
  BY <1>7, <1>8, <1>9, <1>10

\* After the last stack.
LEMMA GoesLast ==
  ASSUME NEW m \in Memory, m.pc \in {"next", "final", "prune"}, m.pc = "next" => m.todo = {},
         NEW n, n.pc \in {"final", "prune"}, n.inventory = m.inventory,
         n.birth = m.birth, n.era = m.era, n.clean => m.clean, UNCHANGED estate,
         \A x \in m.inventory \ Skipped : Right(x) => Right(x)'
  PROVE  Goes(m, n)
<1>1. Track(m, n)
  BY DEF Track
<1>2. ASSUME Lone(m) PROVE Lone(n)'
  <2>1. \A x \in m.inventory \ Skipped : Right(x)
    BY <1>2 DEF Lone, Behind
  <2>2. Behind(n)'
    BY <2>1 DEF Behind
  <2>3. Ahead(n)'
    BY DEF Ahead, AtStack, Repairing
  <2>4. QED
    BY <1>2, <2>2, <2>3 DEF Lone, AtStack, Repairing
<1>3. QED
  BY <1>1, <1>2 DEF Goes

LEMMA UnmovedIsRight ==
  ASSUME Unmoved
  PROVE  UNCHANGED estate /\ \A x : Right(x) => Right(x)'
BY DEF Unmoved, Right, Settled, Stuck, Working

LEMMA PruningGoes ==
  ASSUME NEW m \in Memory, Fit(m), m.pc \in {"next", "final"}, m.pc = "next" => m.todo = {},
         Unmoved
  PROVE  Goes(m, Pruning(m)) /\ Goes(m, Soiled(Pruning(m)))
<1>1. PICK k : k = Pruning(m)
  OBVIOUS
<1>2. k \in Memory
  BY <1>1, PruningIs
<1>3. /\ k.pc = "prune" /\ k.inventory = m.inventory /\ k.birth = m.birth /\ k.era = m.era
      /\ k.clean = m.clean
  BY <1>1, <1>2 DEF Pruning, Memory
<1>4. Goes(m, k)
  BY <1>3, UnmovedIsRight, GoesLast
<1>5. /\ ~Soiled(k).clean /\ Soiled(k).pc = "prune" /\ Soiled(k).inventory = m.inventory
      /\ Soiled(k).birth = m.birth /\ Soiled(k).era = m.era
  BY <1>2, <1>3, SoiledIs DEF Tour
<1>6. Goes(m, Soiled(k))
  BY <1>5, UnmovedIsRight, GoesLast
<1>7. QED
  BY <1>1, <1>4, <1>6

LEMMA ReloadGoes ==
  ASSUME IInv, IInv', NEW r \in Run, Reload(r), NEW m, m = run[r], NEW n, n = run'[r]
  PROVE  Goes(m, n)
<1>1. StacksOK /\ m \in Memory /\ Fit(m)
  BY HereIs
<1>2. m.pc = "next" /\ m.todo = {}
  BY DEF Reload
<1>3. \/ Local(r, Pruning(m))
      \/ Local(r, [m EXCEPT !.pc = "final", !.todo = Unverified(m), !.final = store])
      \/ Local(r, Soiled(Pruning(m)))
  BY DEF Reload
<1>4. CASE Local(r, Pruning(m)) \/ Local(r, Soiled(Pruning(m)))
  BY <1>1, <1>2, <1>4, HereIs, PruningGoes
<1>5. CASE Local(r, [m EXCEPT !.pc = "final", !.todo = Unverified(m), !.final = store])
  <2>1. n = [m EXCEPT !.pc = "final", !.todo = Unverified(m), !.final = store] /\ Unmoved
    BY <1>5, HereIs
  <2>2. /\ n.pc = "final" /\ n.inventory = m.inventory /\ n.birth = m.birth /\ n.era = m.era
        /\ n.clean = m.clean
    BY <1>1, <2>1 DEF Memory
  <2>3. UNCHANGED estate /\ \A x : Right(x) => Right(x)'
    BY <2>1, UnmovedIsRight
  <2>4. QED
    BY <1>1, <1>2, <2>2, <2>3, GoesLast
<1>6. QED
  BY <1>3, <1>4, <1>5

LEMMA ReverifyGoes ==
  ASSUME IInv, IInv', NEW r \in Run, Reverify(r), NEW m, m = run[r], NEW n, n = run'[r]
  PROVE  Goes(m, n)
<1>1. StacksOK /\ m \in Memory /\ Fit(m)
  BY HereIs
<1>2. m.pc = "final"
  BY DEF Reverify
<1>3. CASE Local(r, Pruning(m))
  BY <1>1, <1>2, <1>3, HereIs, PruningGoes
<1>4. ASSUME NEW s \in m.todo, Local(r, [m EXCEPT !.todo = @ \ {s}])
      PROVE  Goes(m, n)
  <2>1. n = [m EXCEPT !.todo = @ \ {s}] /\ Unmoved
    BY <1>4, HereIs
  <2>2. /\ n.pc = "final" /\ n.inventory = m.inventory /\ n.birth = m.birth /\ n.era = m.era
        /\ n.clean = m.clean
    BY <1>1, <1>2, <2>1 DEF Memory
  <2>3. UNCHANGED estate /\ \A x : Right(x) => Right(x)'
    BY <2>1, UnmovedIsRight
  <2>4. QED
    BY <1>1, <1>2, <2>2, <2>3, GoesLast
<1>5. ASSUME NEW s \in m.todo, Local(r, [[m EXCEPT !.todo = @ \ {s}] EXCEPT !.verdict[s] = "ok"])
      PROVE  Goes(m, n)
  <2>1. n = [[m EXCEPT !.todo = @ \ {s}] EXCEPT !.verdict[s] = "ok"] /\ Unmoved
    BY <1>5, HereIs
  <2>2. /\ n.pc = "final" /\ n.inventory = m.inventory /\ n.birth = m.birth /\ n.era = m.era
        /\ n.clean = m.clean
    BY <1>1, <1>2, <2>1 DEF Memory
  <2>3. UNCHANGED estate /\ \A x : Right(x) => Right(x)'
    BY <2>1, UnmovedIsRight
  <2>4. QED
    BY <1>1, <1>2, <2>2, <2>3, GoesLast
<1>6. ASSUME NEW s \in m.todo, NEW status,
             Local(r, [[m EXCEPT !.todo = @ \ {s}] EXCEPT !.clean = @ /\ status # "other"])
      PROVE  Goes(m, n)
  <2>1. PICK k : k = [m EXCEPT !.todo = @ \ {s}]
    OBVIOUS
  <2>2. PICK l : l = [k EXCEPT !.clean = @ /\ status # "other"]
    OBVIOUS
  <2>3. n = l /\ Unmoved
    <3>1. Local(r, l)
      BY <1>6, <2>1, <2>2
    <3>2. QED
      BY <3>1, HereIs
  <2>4. /\ k.pc = "final" /\ k.inventory = m.inventory /\ k.birth = m.birth /\ k.era = m.era
        /\ k.clean = m.clean /\ k \in Memory
    <3>1. m.todo \ {s} \in SUBSET Stack
      BY <1>1 DEF Memory
    <3>2. k \in Memory
      BY <1>1, <2>1, <3>1, Updates
    <3>3. QED
      BY <1>1, <1>2, <2>1, <3>2 DEF Memory
  <2>5. PICK c \in BOOLEAN : c = (k.clean /\ status # "other")
    OBVIOUS
  <2>6. l = [k EXCEPT !.clean = c]
    BY <2>2, <2>5
  <2>7. /\ n.pc = "final" /\ n.inventory = m.inventory /\ n.birth = m.birth /\ n.era = m.era
        /\ n.clean = c
    BY <2>3, <2>4, <2>6 DEF Memory
  <2>8. n.clean => m.clean
    BY <2>4, <2>5, <2>7
  <2>9. UNCHANGED estate /\ \A x : Right(x) => Right(x)'
    BY <2>3, UnmovedIsRight
  <2>10. QED
    BY <1>1, <1>2, <2>7, <2>8, <2>9, GoesLast
<1>7. QED
  BY <1>3, <1>4, <1>5, <1>6 DEF Reverify

LEMMA PruneGoes ==
  ASSUME IInv, IInv', NEW r \in Run, Prune(r), NEW m, m = run[r], NEW n, n = run'[r]
  PROVE  Goes(m, n)
<1>1. StacksOK /\ m \in Memory /\ Fit(m)
  BY HereIs
<1>2. m.pc = "prune"
  BY DEF Prune
<1>3. m.todo \cap m.inventory = {} /\ m.todo \in SUBSET Stack /\ m.inventory \in SUBSET Stack
  BY <1>1, <1>2 DEF Fit, ShapeOf, Memory
<1>4. PICK s \in m.todo :
        Request(r, store[s] # None, SetStore(s, None) /\ UNCHANGED ids,
                [m EXCEPT !.todo = @ \ {s}], [m EXCEPT !.todo = @ \ {s}])
  BY DEF Prune
<1>5. PICK k : k = [m EXCEPT !.todo = @ \ {s}]
  OBVIOUS
<1>6. k \in Memory
  <2>1. m.todo \ {s} \in SUBSET Stack
    BY <1>3
  <2>2. QED
    BY <1>1, <1>5, <2>1, Updates
<1>7. /\ k.pc = "prune" /\ k.inventory = m.inventory /\ k.clean = m.clean /\ Tour(k) = Tour(m)
      /\ k.birth = m.birth /\ k.era = m.era
  BY <1>1, <1>2, <1>5, <1>6 DEF Memory, Tour
<1>8. \/ SetStore(s, None) /\ n = k
      \/ n = Soiled(k)
      \/ Unmoved /\ n = k
  BY <1>4, <1>5, HereIs DEF Request
<1>9. CASE SetStore(s, None) /\ n = k
  <2>1. Elsewhere(s) /\ s \in Stack /\ s \notin m.inventory
    BY <1>1, <1>3, <1>9, ElsewhereIs
  <2>2. \A x \in m.inventory \ Skipped : Right(x) => Right(x)'
    BY <1>3, <2>1, RightElsewhere
  <2>3. QED
    BY <1>1, <1>2, <1>7, <1>9, <2>1, <2>2, GoesLast DEF Elsewhere
<1>10. CASE n = Soiled(k)
  BY <1>1, <1>6, <1>7, <1>10, GoesSoiled
<1>11. CASE Unmoved /\ n = k
  BY <1>1, <1>2, <1>7, <1>11, UnmovedIsRight, GoesLast
<1>12. QED
  BY <1>8, <1>9, <1>10, <1>11

LEMMA EndGoes ==
  ASSUME IInv, IInv', NEW r \in Run, End(r) \/ Die(r), NEW m, m = run[r], NEW n, n = run'[r]
  PROVE  Goes(m, n)
<1>1. n = [Idle EXCEPT !.verdict = m.verdict] \/ n = Idle
  BY HereIs DEF End, Die
<1>2. ~n.clean /\ n.birth = 0 /\ n.era = 0
  BY <1>1 DEF Idle
<1>3. QED
  BY <1>2, GoesIdle

\* A step of a run that has begun.
LEMMA ProceedGoes ==
  ASSUME IInv, IInv', NEW r \in Run, Proceed(r) \/ Die(r), NEW m, m = run[r], NEW n, n = run'[r]
  PROVE  Goes(m, n)
<1>1. Repair(r) => Goes(m, n)
  BY CreateAdminGoes, AdminTokenGoes, ListRolesGoes, MakeRoleGoes, ReadRoleGoes, PutRoleGoes,
     CreateReaderGoes, LookAgainGoes, ResetBasicRoleGoes, AssignRoleGoes, MintGoes, StoreGoes,
     RevokeGoes, VerifyGoes, CleanupGoes DEF Repair
<1>2. QED
  BY <1>1, LoadGoes, NextStackGoes, SweepGoes, RelistGoes, ProbeGoes, ReloadGoes, ReverifyGoes,
     PruneGoes, EndGoes DEF Proceed

\* What a run says of itself, in the next state.
LEMMA LoneNext ==
  ASSUME NEW r \in Run, NEW k, run'[r] = k, Lone(k)'
  PROVE  Lone(run[r])'
BY DEF Lone, Ahead, Behind, Going, Listed, Found, Known, Right, Settled, Stuck, Working,
       Provisioned, Effective

\* A run changes no other run's memory, and is on its way.
Only(r) ==
  starts' = starts /\ churn' = churn /\ \A q \in Run : q # r => run'[q] = run[q]

LEMMA ProceedIs ==
  ASSUME run \in [Run -> Memory], NEW r \in Run, Proceed(r) \/ Die(r)
  PROVE  run[r].pc # "idle" /\ Only(r)
<1>1. \A x : Become(r, x) /\ UNCHANGED <<starts, churn>> => Only(r)
  BY DEF Become, Only
<1>2. \A x : Local(r, x) => Only(r)
  BY <1>1 DEF Local, Quiet, Calm
<1>3. ASSUME NEW a, NEW e, NEW x, NEW y, Request(r, a, e, x, y) PROVE Only(r)
  BY <1>1, <1>2, <1>3 DEF Request, Calm
<1>4. ASSUME NEW a, NEW e, NEW x, NEW y, Delete(r, a, e, x, y) PROVE Only(r)
  BY <1>1, <1>2, <1>4 DEF Delete, Calm
<1>5. Load(r) => run[r].pc # "idle" /\ Only(r)
  BY <1>2 DEF Load
<1>6. NextStack(r) => run[r].pc # "idle" /\ Only(r)
  BY <1>2 DEF NextStack
<1>7. Sweep(r) => run[r].pc # "idle" /\ Only(r)
  BY <1>4 DEF Sweep
<1>8. Relist(r) => run[r].pc # "idle" /\ Only(r)
  BY <1>2 DEF Relist
<1>9. Probe(r) => run[r].pc # "idle" /\ Only(r)
  BY <1>2 DEF Probe
<1>10. CreateAdmin(r) => run[r].pc # "idle" /\ Only(r)
  BY <1>3 DEF CreateAdmin
<1>11. AdminToken(r) => run[r].pc # "idle" /\ Only(r)
  BY <1>2 DEF AdminToken
<1>12. ListRoles(r) => run[r].pc # "idle" /\ Only(r)
  BY <1>2 DEF ListRoles
<1>13. MakeRole(r) => run[r].pc # "idle" /\ Only(r)
  BY <1>3 DEF MakeRole
<1>14. ReadRole(r) => run[r].pc # "idle" /\ Only(r)
  BY <1>2 DEF ReadRole
<1>15. PutRole(r) => run[r].pc # "idle" /\ Only(r)
  BY <1>3 DEF PutRole
<1>16. CreateReader(r) => run[r].pc # "idle" /\ Only(r)
  BY <1>3 DEF CreateReader
<1>17. LookAgain(r) => run[r].pc # "idle" /\ Only(r)
  BY <1>2 DEF LookAgain
<1>18. ResetBasicRole(r) => run[r].pc # "idle" /\ Only(r)
  BY <1>3 DEF ResetBasicRole
<1>19. AssignRole(r) => run[r].pc # "idle" /\ Only(r)
  BY <1>3 DEF AssignRole
<1>20. Mint(r) => run[r].pc # "idle" /\ Only(r)
  BY <1>3 DEF Mint
<1>21. Store(r) => run[r].pc # "idle" /\ Only(r)
  BY <1>3 DEF Store
<1>22. Revoke(r) => run[r].pc # "idle" /\ Only(r)
  BY <1>1, <1>2, <1>4 DEF Revoke
<1>23. Verify(r) => run[r].pc # "idle" /\ Only(r)
  BY <1>2 DEF Verify
<1>24. Cleanup(r) => run[r].pc # "idle" /\ Only(r)
  BY <1>4 DEF Cleanup
<1>25. Reload(r) => run[r].pc # "idle" /\ Only(r)
  BY <1>2 DEF Reload
<1>26. Reverify(r) => run[r].pc # "idle" /\ Only(r)
  BY <1>2 DEF Reverify
<1>27. Prune(r) => run[r].pc # "idle" /\ Only(r)
  BY <1>3 DEF Prune
<1>28. End(r) => run[r].pc # "idle" /\ Only(r)
  BY <1>2 DEF End
<1>29. Die(r) => run[r].pc # "idle" /\ Only(r)
  BY <1>1 DEF Die
<1>30. QED
  BY <1>5, <1>6, <1>7, <1>8, <1>9, <1>10, <1>11, <1>12, <1>13, <1>14, <1>15, <1>16, <1>17,
     <1>18, <1>19, <1>20, <1>21, <1>22, <1>23, <1>24, <1>25, <1>26, <1>27, <1>28, <1>29 DEF
     Proceed, Repair

LEMMA StartIsLonely ==
  ASSUME IInv, IInv', Lonely, NEW r \in Run, Start(r)
  PROVE  Lonely'
<1>1. run \in [Run -> Memory] /\ starts \in Nat /\ churn \in Nat /\ run' \in [Run -> Memory]
  BY DEF IInv, TypeOK
<1>2. PICK c : c = (/\ \A q \in Run : run[q].pc = "idle"
                    /\ \A s \in estate : answered[s] = Effective(s))
  OBVIOUS
<1>3. PICK n : n = [Idle EXCEPT !.pc = "load", !.inventory = estate, !.todo = estate,
                                !.clean = c, !.birth = starts + 1, !.era = churn]
  OBVIOUS
<1>4. run'[r] = n /\ \A q \in Run : q # r => run'[q] = run[q]
  BY <1>1, <1>2, <1>3 DEF Start, Become
<1>5. /\ n.pc = "load" /\ n.inventory = estate /\ n.todo = estate /\ n.clean = c
      /\ n.birth = starts + 1 /\ n.era = churn /\ n.slug = None
  BY <1>3 DEF Idle
<1>6. starts' = starts + 1 /\ churn' = churn /\ UNCHANGED <<stacks, store>>
  BY DEF Start
<1>7. ASSUME NEW q \in Run
      PROVE  /\ run'[q].birth <= starts' /\ run'[q].era <= churn'
             /\ Clean(q)' => q = r
  <2>1. CASE q = r
    BY <1>1, <1>4, <1>5, <1>6, <2>1
  <2>2. CASE q # r
    <3>1. run'[q] = run[q] /\ run[q].birth <= starts /\ run[q].era <= churn
      BY <1>4, <2>2 DEF Lonely
    <3>2. run[q].birth \in Nat /\ run[q].birth # starts + 1
      BY <1>1, <3>1 DEF Memory
    <3>3. QED
      BY <1>1, <1>6, <3>1, <3>2 DEF Clean
  <2>3. QED
    BY <2>1, <2>2
<1>8. ASSUME Clean(r)'
      PROVE  Lone(run[r])' /\ \A q \in Run : q # r => run'[q].pc = "idle"
  <2>1. c
    BY <1>4, <1>5, <1>8 DEF Clean
  <2>2. \A q \in Run : q # r => run'[q].pc = "idle"
    BY <1>2, <1>4, <2>1
  <2>3. \A s \in estate : answered'[s] = Effective(s)'
    BY <1>2, <1>6, <2>1 DEF stacks, Effective
  <2>4. Lone(n)'
    BY <1>5, <1>6, <2>3 DEF Lone, Ahead, Behind, AtStack, Repairing, stacks
  <2>5. QED
    BY <1>4, <2>2, <2>4, LoneNext
<1>9. QED
  BY <1>7, <1>8 DEF Lonely

LEMMA ProceedIsLonely ==
  ASSUME IInv, IInv', Lonely, NEW r \in Run, Proceed(r) \/ Die(r)
  PROVE  Lonely'
<1>1. /\ run \in [Run -> Memory] /\ starts \in Nat /\ churn \in Nat
      /\ run' \in [Run -> Memory]
  BY DEF IInv, TypeOK
<1>2. PICK m : m = run[r]
  OBVIOUS
<1>3. PICK n : n = run'[r]
  OBVIOUS
<1>4. Goes(m, n)
  BY <1>2, <1>3, ProceedGoes
<1>5. /\ run[r].pc # "idle" /\ starts' = starts /\ churn' = churn
      /\ \A q \in Run : q # r => run'[q] = run[q]
  BY <1>1, ProceedIs DEF Only
<1>6. /\ m.birth <= starts /\ m.era <= churn
      /\ n.birth <= starts' /\ n.era <= churn'
  BY <1>1, <1>2, <1>4, <1>5 DEF Lonely, Goes, Track
<1>7. ASSUME NEW q \in Run, q # r
      PROVE  run'[q].birth <= starts' /\ run'[q].era <= churn' /\ ~Clean(q)'
  <2>1. run'[q] = run[q]
    BY <1>5, <1>7
  <2>2. ~Clean(q)
    BY <1>5, <1>7 DEF Lonely
  <2>3. QED
    BY <1>5, <2>1, <2>2 DEF Clean, Lonely
<1>8. ASSUME Clean(r)'
      PROVE  Lone(run[r])' /\ \A q \in Run : q # r => run'[q].pc = "idle"
  <2>1. n.clean /\ m.clean /\ n.birth = m.birth /\ n.era = m.era
    BY <1>3, <1>4, <1>8 DEF Clean, Goes, Track
  <2>2. n.birth = starts /\ n.era = churn
    BY <1>3, <1>5, <1>8 DEF Clean
  <2>3. Clean(r)
    BY <1>2, <2>1, <2>2 DEF Clean
  <2>4. Lone(m) /\ \A q \in Run : q # r => run[q].pc = "idle"
    BY <1>2, <2>3 DEF Lonely
  <2>5. Lone(n)'
    BY <1>4, <2>1, <2>4 DEF Goes
  <2>6. QED
    BY <1>3, <1>5, <2>4, <2>5, LoneNext
<1>9. QED
  BY <1>3, <1>6, <1>7, <1>8 DEF Lonely

LEMMA PropagateIsLonely ==
  ASSUME IInv, Lonely, NEW s \in Stack, Propagate(s)
  PROVE  Lonely'
<1>1. StacksOK /\ run \in [Run -> Memory]
  BY DEF IInv, TypeOK, StacksOK
<1>2. /\ UNCHANGED <<estate, admin, reader, role, token, store, run, ids, starts, churn>>
      /\ answered' = [answered EXCEPT ![s] = Effective(s)]
  BY DEF Propagate, Calm
<1>3. answered'[s] = Effective(s) /\ \A x \in Stack : x # s => answered'[x] = answered[x]
  BY <1>1, <1>2 DEF StacksOK
<1>4. /\ \A x : Effective(x)' = Effective(x) /\ Working(x)' = Working(x)
      /\ \A x : Right(x)' = Right(x) /\ Provisioned(x)' = Provisioned(x)
      /\ \A x : Stuck(x)' = Stuck(x)
  BY <1>2 DEF Effective, Working, Right, Settled, Stuck, Provisioned
<1>5. ASSUME NEW m \in Memory, Fit(m), Lone(m)
      PROVE  Lone(m)'
  <2>1. m.todo \in SUBSET Stack
    BY DEF Memory
  <2>2. Ahead(m)'
    BY <1>2, <1>3, <1>4, <1>5, <2>1 DEF Lone, Ahead
  <2>3. Behind(m)'
    BY <1>2, <1>4, <1>5 DEF Lone, Behind
  <2>4. ASSUME m.pc \in AtStack PROVE Going(m)'
    <3>1. m.slug \in Stack /\ Going(m)
      BY <1>5, <2>4, StandingIs
    <3>2. m.pc \in {"sweep", "relist", "probe"} => answered'[m.slug] = Effective(m.slug)'
      BY <1>3, <1>4, <3>1 DEF Going
    <3>3. (Listed(m) => Listed(m)') /\ (Known(m) => Known(m)') /\ (Found(m) => Found(m)')
      BY <1>2, <1>4 DEF Listed, Known, Found
    <3>4. QED
      BY <1>2, <1>4, <3>1, <3>2, <3>3 DEF Going
  <2>5. QED
    BY <1>2, <1>5, <2>2, <2>3, <2>4 DEF Lone
<1>6. ASSUME NEW r \in Run, Clean(r)
      PROVE  Lone(run[r])' /\ \A q \in Run : q # r => run'[q].pc = "idle"
  <2>1. PICK m : m = run[r]
    OBVIOUS
  <2>2. m \in Memory /\ Fit(m)
    BY <2>1, RunIs
  <2>3. Lone(m) /\ \A q \in Run : q # r => run[q].pc = "idle"
    BY <1>6, <2>1 DEF Lonely
  <2>4. Lone(m)' /\ run'[r] = m
    BY <1>2, <1>5, <2>1, <2>2, <2>3
  <2>5. QED
    BY <1>2, <2>3, <2>4, LoneNext
<1>7. QED
  BY <1>2, <1>6 DEF Lonely, Clean

LEMMA OutsideIsLonely ==
  ASSUME IInv, Lonely, Outside
  PROVE  Lonely'
<1>1. run' = run /\ starts' = starts /\ churn' = churn + 1 /\ churn \in Nat
  BY DEF Outside, Leave, Return, Edit, RevokeOutside, Churn, IInv, TypeOK
<1>2. \A r \in Run : run[r] \in Memory
  BY DEF IInv, TypeOK
<1>3. \A r \in Run : run[r].era \in Nat
  BY <1>2 DEF Memory
<1>4. \A r \in Run : run[r].birth <= starts' /\ run[r].era <= churn' /\ run[r].era # churn'
  BY <1>1, <1>3 DEF Lonely
<1>5. QED
  BY <1>1, <1>4 DEF Lonely, Clean

LEMMA LonelyKeeps == IInv /\ IInv' /\ Lonely /\ [Next]_vars => Lonely'
<1>1. SUFFICES ASSUME IInv, IInv', Lonely, [Next]_vars PROVE Lonely'
  OBVIOUS
<1>2. CASE UNCHANGED vars
  BY <1>1, <1>2 DEF vars, stacks, Lonely, Clean, Lone, Ahead, Behind, Going, Listed, Found, Known,
     Right, Settled, Stuck, Working, Provisioned, Effective
<1>3. QED
  BY <1>1, <1>2, StartIsLonely, ProceedIsLonely, PropagateIsLonely, OutsideIsLonely DEF Next

-----------------------------------------------------------------------------
(* The theorems.                                                              *)

\* The inductive invariant holds of every behaviour of the provisioner, with any
\* number of runs, stacks, troubles and changes from outside.
THEOREM Invariance == Spec => []IInv
<1>1. Init => IInv
  BY InitHolds
<1>2. IInv /\ [Next]_vars => IInv'
  BY NextKeeps
<1>3. QED
  BY <1>1, <1>2, PTL DEF Spec

\* Every variable of the provisioner keeps its type: what repair reads, makes and
\* stores is never anything else.
THEOREM TypeCorrect == Spec => []TypeOK
<1>1. IInv => TypeOK
  BY DEF IInv
<1>2. QED
  BY <1>1, Invariance, PTL

\* No credential is without an owner: a token is stored or in the hands of the run
\* that minted it, an Admin account in those of the run that made it (repair).
THEOREM CredentialsHaveOwners == Spec => []CredentialsAccounted
<1>1. IInv => CredentialsAccounted
  BY DEF IInv, CredentialsAccounted
<1>2. QED
  BY <1>1, Invariance, PTL

\* What a run has reported provisioned is so until someone outside changes it, if
\* no more went wrong than one lost answer or one Admin that was not deleted.
THEOREM ReportsAreTrue == Spec => []ReportedIsProvisioned
<1>1. IInv => ReportedIsProvisioned
  BY DEF IInv, Fit, ReportedOf, OneLost, Concluded, Provisioned, ReportedIsProvisioned
<1>2. QED
  BY <1>1, Invariance, PTL

\* A pair that somebody added to the role is never taken out by a run, if the
\* server refuses versions that are not newer (ensure_role).
THEOREM ForeignPairsAreKept == Spec => ForeignPairsStay
<1>1. IInv /\ [Next]_vars =>
        [VersionChecked /\ churn' = churn =>
          \A s \in Stack : "foreign" \in role[s].pairs => "foreign" \in role'[s].pairs]_role
  BY RolesGrow
<1>2. QED
  BY <1>1, Invariance, PTL DEF Spec, ForeignPairsStay

\* The secret of a stack that is there is never pruned, unless the stack came back
\* while a run that knew it as gone was on its way (prune_targets).
THEOREM LivingAreSpared == Spec => PruneSparesTheLiving
<1>1. IInv /\ [Next]_vars =>
        [\A s \in Stack :
           store[s] # None /\ store'[s] = None => s \notin estate \/ s \in returned]_store
  BY PruningSpares
<1>2. QED
  BY <1>1, Invariance, PTL DEF Spec, PruneSparesTheLiving

\* A run that began alone, was refused nothing and saw no change from outside
\* leaves every stack of its inventory right, dangerous or stuck (main,
\* plan_action, repair).
THEOREM CleanRunsSettle == Spec => []CleanRunSettles
<1>1. Init => Lonely
  BY DEF Init, Lonely, Clean, Idle
<1>2. Lonely => CleanRunSettles
  BY DEF Lonely, Lone, Behind, Right, CleanRunSettles
<1>3. QED
  BY <1>1, <1>2, LonelyKeeps, Invariance, PTL DEF Spec
=============================================================================
