---------------------------- MODULE Provisioner ----------------------------
(* bin/provision.py with the decisions of collector/provision.py: one reader  *)
(* account, role and token per stack, repaired request by request through a   *)
(* transient Admin account, with the token's secret in the parameter store.   *)
(* Nothing excludes two runs of it.                                           *)
(*                                                                            *)
(* Any request may be refused; a write may also be applied and its answer     *)
(* lost; a run may die anywhere.  Whatever changes the stacks from outside    *)
(* counts as churn.  Dry runs write nothing and are left out.                 *)
EXTENDS Integers, FiniteSets

CONSTANTS
  Run,            \* provisioner processes
  Stack,          \* slugs
  Skipped,        \* stacks that are paused or opted out
  None,           \* no record, no account
  VersionChecked, \* whether Grafana refuses a role whose version is not newer
  MaxId,          \* bound: accounts and tokens ever created
  MaxStarts,      \* bound: runs begun
  MaxTrouble,     \* bound: lost answers, failed deletes and deaths
  MaxChurn,       \* bound: changes from outside
  MaxUpsets       \* bound: of both

ASSUME StackAssumption == Skipped \subseteq Stack /\ None \notin Stack
ASSUME VersionAssumption == VersionChecked \in BOOLEAN
ASSUME BoundAssumption ==
  /\ MaxId \in Nat /\ MaxStarts \in Nat
  /\ MaxTrouble \in Nat /\ MaxChurn \in Nat /\ MaxUpsets \in Nat

VARIABLES
  estate,   \* the stacks of the organisation
  admin,    \* of each stack, the id of the account named ADMIN_SA_NAME, or 0
  reader,   \* of each stack, the account named READER_SA_NAME
  role,     \* of each stack, the role named ROLE_NAME
  answered, \* the permissions a stack's reader is answered: they take time
  token,    \* of each stack, the id of the live token named token_name, or 0
  store,    \* the parameter store
  run,      \* the memory of each run
  ids,      \* bound: ids handed out
  starts,   \* bound: runs begun
  trouble,  \* what has gone wrong, for the properties
  churn,    \* changes from outside, for the properties
  returned  \* stacks that left and came back, for the properties

stacks == <<estate, admin, reader, role, answered, token>>
vars == <<stacks, store, run, ids, starts, trouble, churn, returned>>

\* Permissions, as the reconciliation tells them apart.
Pair == {"declared", "retired", "foreign", "dangerous"}
Account == [id : Nat, basic : {"None", "other"}, assigned : BOOLEAN]
Role == [version : Nat, pairs : SUBSET Pair]
NoRole == [version |-> 0, pairs |-> {}]

\* A parameter: the token and its account; 0 where it does not parse.
Record == [token : Nat, sa : Nat]
Unreadable == [token |-> 0, sa |-> 0]

\* list_sas of one stack.
Seen == [id : Nat, basic : {"None", "other"}]
ASSUME NoneAssumption == None \notin Account \cup Record \cup Seen

Listing == [admin : Nat, reader : Seen \cup {None}]
NoListing == [admin |-> 0, reader |-> None]

Phase ==
  {"idle", "load", "next", "sweep", "relist", "probe", "admin", "key", "roles",
   "make", "read", "put", "reader", "again", "basic", "assign", "mint", "store",
   "revoke", "verify", "cleanup", "final", "prune"}
Verdict == {"none", "ok", "pending", "unverified", "failed"}

\* The memory of one run; from slug to out, that of the stack it is at.
Memory ==
  [pc : Phase,
   inventory : SUBSET Stack,
   todo : SUBSET Stack,
   stored : [Stack -> Record \cup {None}],   \* ssm_load_all at the start
   final : [Stack -> Record \cup {None}],    \* and after the repairs
   verdict : [Stack -> Verdict],
   ledger : SUBSET Nat,
   slug : Stack \cup {None},
   sas : Listing,
   status : {"none", "200", "401", "other"}, \* Presence.token_status
   deferred : BOOLEAN,                       \* eligible, and the role is not new
   have : Role,                              \* the role as it was read
   adm : Nat,                                \* its transient Admin account
   key : Nat,                                \* the reader's token
   out : Verdict,                            \* outcome, until the cleanup
   clean : BOOLEAN,                          \* for the properties: began alone,
   birth : Nat, era : Nat]                   \* no request refused; when it began

Nothing == [s \in Stack |-> None]
Idle ==
  [pc |-> "idle", inventory |-> {}, todo |-> {}, stored |-> Nothing,
   final |-> Nothing, verdict |-> [s \in Stack |-> "none"], ledger |-> {},
   slug |-> None, sas |-> NoListing, status |-> "none", deferred |-> FALSE,
   have |-> NoRole, adm |-> 0, key |-> 0, out |-> "none", clean |-> FALSE,
   birth |-> 0, era |-> 0]

\* What an earlier release made, and somebody added to.
OldRole == [version |-> 1, pairs |-> {"declared", "retired", "foreign"}]

\* A fresh estate, or one whose roles an earlier release left; of a stack that
\* is not there a parameter may be left that does not parse.
Init ==
  /\ estate \in {Stack, Skipped}
  /\ admin = [s \in Stack |-> 0]
  /\ reader = [s \in Stack |-> None]
  /\ \E old \in {NoRole, OldRole} :
       role = [s \in Stack |-> IF s \in estate \ Skipped THEN old ELSE NoRole]
  /\ answered = [s \in Stack |-> {}]
  /\ token = [s \in Stack |-> 0]
  /\ store = [s \in Stack |-> IF s \in estate THEN None ELSE Unreadable]
  /\ run = [r \in Run |-> Idle]
  /\ ids = 0 /\ starts = 0
  /\ trouble = [lost |-> 0, undeleted |-> 0, died |-> 0]
  /\ churn = 0 /\ returned = {}

-----------------------------------------------------------------------------
(* Decisions.                                                                 *)

\* role_drift: a declared pair is missing, or one is there that must not be.
Drift(pairs) == "declared" \notin pairs \/ pairs \cap {"retired", "dangerous"} # {}

HasSecret(record) == record # None /\ record.token # 0

\* What the reader's effective permissions will be.
Effective(s) ==
  IF reader[s] # None /\ reader[s].assigned THEN role[s].pairs ELSE {}

\* probe: the permissions the stored token is answered, {} unless with 200.
Answers(s, status) == IF status = "200" THEN answered[s] ELSE {}

\* The status a token is answered with; any request may fail otherwise.
StatusOf(s, key) ==
  {"other", IF s \in estate /\ key # 0 /\ token[s] = key THEN "200" ELSE "401"}

\* needs_repair of the presence that a listing, a secret and its probe make.
NeedsRepair(seen, secret, status, pairs) ==
  \/ seen = None \/ ~secret
  \/ seen.basic # "None"
  \/ status # "200" \/ Drift(pairs)

\* needs_token_mint: no secret, or a dead one.  A refusal never mints.
NeedsMint(m) == ~HasSecret(m.stored[m.slug]) \/ m.status = "401"

\* repair's eligible: a working reader whose record names it.
Eligible(m) ==
  /\ m.status = "200" /\ m.sas.reader # None
  /\ m.sas.reader.basic = "None"
  /\ m.stored[m.slug].sa = m.sas.reader.id

\* Mutant: what was stored and was not found provisioned is pruned.
UnprovisionedTargets(m) == {s \in Stack : m.stored[s] # None /\ m.verdict[s] # "ok"}

\* prune_targets: what was stored and is not in the estate; an empty inventory
\* prunes nothing.
Targets(m) ==
  IF m.inventory = {} THEN {}
  ELSE {s \in Stack : m.stored[s] # None} \ m.inventory

-----------------------------------------------------------------------------
(* Requests.  `done' and `failed' are the run's memory after the answer.      *)

Become(r, m) == run' = [run EXCEPT ![r] = m]
Soiled(m) == [m EXCEPT !.clean = FALSE]

\* Something goes wrong that no answer tells of.
Troubles == trouble.lost + trouble.undeleted + trouble.died
Trouble(kind) ==
  /\ Troubles < MaxTrouble /\ Troubles + churn < MaxUpsets
  /\ trouble' = [trouble EXCEPT ![kind] = @ + 1]

Calm == UNCHANGED <<starts, churn, returned, trouble>>
Quiet == UNCHANGED <<stacks, store, ids>> /\ Calm

\* A read, or a write that the server refuses.
Local(r, m) == Become(r, m) /\ Quiet

\* A write: applied and confirmed, applied without an answer, or not applied.
Request(r, accepted, effect, done, failed) ==
  \/ accepted /\ effect /\ Become(r, done) /\ Calm
  \/ accepted /\ effect /\ Become(r, Soiled(failed))
     /\ Trouble("lost") /\ UNCHANGED <<starts, churn, returned>>
  \/ Local(r, IF accepted THEN Soiled(failed) ELSE failed)

\* A delete: that one fails which had something to delete is trouble.
Delete(r, present, effect, done, failed) ==
  \/ present /\ effect /\ Become(r, done) /\ Calm
  \/ present /\ effect /\ Become(r, Soiled(failed))
     /\ Trouble("lost") /\ UNCHANGED <<starts, churn, returned>>
  \/ present /\ Become(r, Soiled(failed)) /\ Trouble("undeleted")
     /\ UNCHANGED <<stacks, store, ids, starts, churn, returned>>
  \/ ~present /\ Local(r, failed)

NewId == ids < MaxId /\ ids' = ids + 1

SetAdmin(s, id) ==
  /\ admin' = [admin EXCEPT ![s] = id]
  /\ UNCHANGED <<estate, reader, role, answered, token, store>>
SetReader(s, account) ==
  /\ reader' = [reader EXCEPT ![s] = account]
  /\ UNCHANGED <<estate, admin, role, answered, token, store>>
SetRole(s, version, pairs) ==
  /\ role' = [role EXCEPT ![s] = [version |-> version, pairs |-> pairs]]
  /\ UNCHANGED <<estate, admin, reader, answered, token, store>>
SetToken(s, id) ==
  /\ token' = [token EXCEPT ![s] = id]
  /\ UNCHANGED <<estate, admin, reader, role, answered, store>>
SetStore(s, record) ==
  /\ store' = [store EXCEPT ![s] = record]
  /\ UNCHANGED stacks

\* The run's Admin token is good for as long as its account is there.
Authorised(m) == m.slug \in estate /\ m.adm # 0 /\ admin[m.slug] = m.adm

Holds(m) == reader[m.slug] # None /\ m.sas.reader # None
            /\ reader[m.slug].id = m.sas.reader.id

List(s) ==
  [admin |-> admin[s],
   reader |-> IF reader[s] = None THEN None
              ELSE [id |-> reader[s].id, basic |-> reader[s].basic]]

\* The outcome of this stack, and on to the next one.
Conclude(m, verdict) ==
  [m EXCEPT !.pc = "next", !.todo = @ \ {m.slug},
            !.verdict[m.slug] = verdict, !.slug = None, !.sas = NoListing,
            !.status = "none", !.deferred = FALSE, !.have = NoRole,
            !.adm = 0, !.key = 0, !.out = "none"]

\* apply_repair returns: the transient account is deleted last.
Finally(m, out) ==
  [m EXCEPT !.pc = "cleanup", !.out = out, !.sas = NoListing, !.status = "none",
            !.deferred = FALSE, !.have = NoRole, !.key = 0]

-----------------------------------------------------------------------------
(* main.                                                                      *)

\* The inventory; a run without it ends at once.
Start(r) ==
  /\ run[r].pc = "idle"
  /\ starts < MaxStarts
  /\ starts' = starts + 1
  /\ Become(r, [Idle EXCEPT
       !.pc = "load", !.inventory = estate, !.todo = estate,
       !.clean = /\ \A q \in Run : run[q].pc = "idle"
                 /\ \A s \in estate : answered[s] = Effective(s),
       !.birth = starts + 1, !.era = churn])
  /\ UNCHANGED <<stacks, store, ids, trouble, churn, returned>>

\* ssm_load_all, once; an unreadable store ends the run.
Load(r) ==
  /\ run[r].pc = "load"
  /\ \/ Local(r, [run[r] EXCEPT !.pc = "next", !.stored = store])
     \/ Local(r, Idle)

\* classify, then the listing of the stack's accounts.
NextStack(r) ==
  LET m == run[r] IN
  /\ m.pc = "next"
  /\ \E s \in m.todo :
       \/ s \in Skipped /\ Local(r, [m EXCEPT !.todo = @ \ {s}])
       \/ s \notin Skipped /\ s \in estate
          /\ Local(r, [m EXCEPT !.pc = IF admin[s] # 0 THEN "sweep" ELSE "probe",
                                !.slug = s, !.sas = List(s)])
       \/ s \notin Skipped
          /\ Local(r, Soiled(Conclude([m EXCEPT !.slug = s], "failed")))

\* sweep_leftover_admin: an account of that name is adopted and deleted.
Sweep(r) ==
  LET m == [run[r] EXCEPT !.ledger = @ \cup {run[r].sas.admin}] IN
  /\ m.pc = "sweep"
  /\ Delete(r, admin[m.slug] = m.sas.admin,
            SetAdmin(m.slug, 0) /\ UNCHANGED ids,
            [m EXCEPT !.pc = "relist"], [m EXCEPT !.pc = "probe"])

\* main: the listing after a sweep; if it fails, it is taken for empty.
Relist(r) ==
  LET m == [run[r] EXCEPT !.pc = "probe"] IN
  /\ run[r].pc = "relist"
  /\ \/ m.slug \in estate /\ Local(r, [m EXCEPT !.sas = List(m.slug)])
     \/ Local(r, Soiled([m EXCEPT !.sas = NoListing]))

\* probe with the secret read at the start, and needs_repair.
Probe(r) ==
  LET m == run[r]
      secret == HasSecret(m.stored[m.slug])
  IN
  /\ m.pc = "probe"
  /\ \E status \in IF secret THEN StatusOf(m.slug, m.stored[m.slug].token)
                             ELSE {"none"} :
       LET probed == [m EXCEPT !.status = status,
                               !.clean = @ /\ status # "other"] IN
       Local(r, IF NeedsRepair(m.sas.reader, secret, status,
                               Answers(m.slug, status))
                THEN [probed EXCEPT !.pc = "admin"]
                ELSE Conclude(probed, "ok"))

-----------------------------------------------------------------------------
(* repair.                                                                    *)

\* A name that is taken, or any other refusal, ends this repair.
CreateAdmin(r) ==
  LET m == run[r] IN
  /\ m.pc = "admin"
  /\ Request(r, m.slug \in estate /\ admin[m.slug] = 0,
             SetAdmin(m.slug, ids + 1) /\ NewId,
             [m EXCEPT !.pc = "key", !.adm = ids + 1,
                       !.ledger = @ \cup {ids + 1}],
             Conclude(m, "failed"))

\* The Admin's own token, good for ADMIN_TOKEN_TTL.
AdminToken(r) ==
  LET m == run[r] IN
  /\ m.pc = "key"
  /\ \/ Authorised(m) /\ Local(r, [m EXCEPT !.pc = "roles"])
     \/ Local(r, Soiled(Finally(m, "failed")))

\* ensure_role has been through: what comes next for the reader.
Reconciled(m) ==
  [m EXCEPT !.have = NoRole,
            !.pc = IF m.sas.reader = None THEN "reader"
                   ELSE IF m.sas.reader.basic # "None" THEN "basic" ELSE "assign"]

\* Mutant: a role that is there is taken for the declared one.
ListRolesTrusting(r) ==
  LET m == run[r] IN
  /\ m.pc = "roles"
  /\ Authorised(m)
  /\ Local(r, IF role[m.slug] # NoRole THEN Reconciled(m) ELSE [m EXCEPT !.pc = "make"])

\* The list of roles; whether verification can wait rests on it too.
ListRoles(r) ==
  LET m == run[r]
      there == role[m.slug] # NoRole
  IN
  /\ m.pc = "roles"
  /\ \/ Authorised(m)
        /\ Local(r, [m EXCEPT !.pc = IF there THEN "read" ELSE "make",
                              !.have.version = role[m.slug].version,
                              !.deferred = there /\ Eligible(m)])
     \/ Local(r, Soiled(Finally(m, "failed")))

MakeRole(r) ==
  LET m == run[r] IN
  /\ m.pc = "make"
  /\ Request(r, Authorised(m) /\ role[m.slug] = NoRole,
             SetRole(m.slug, 1, {"declared"}) /\ UNCHANGED ids,
             Reconciled(m), Finally(m, "failed"))

\* The role in full: refused if it is dangerous, left alone if nothing drifted.
ReadRole(r) ==
  LET m == run[r]
      pairs == role[m.slug].pairs
  IN
  /\ m.pc = "read"
  /\ \/ /\ Authorised(m)
        /\ \/ "dangerous" \in pairs /\ Local(r, Finally(m, "failed"))
           \/ ~Drift(pairs) /\ Local(r, Reconciled(m))
           \/ "dangerous" \notin pairs /\ Drift(pairs)
              /\ Local(r, [m EXCEPT !.pc = "put", !.have.pairs = pairs])
     \/ Local(r, Soiled(Finally(m, "failed")))

\* Mutant: the replacement holds the declared pairs only.
ReplaceRole(r) ==
  LET m == run[r] IN
  /\ m.pc = "put"
  /\ Request(r,
             Authorised(m) /\ (VersionChecked => m.have.version >= role[m.slug].version),
             SetRole(m.slug, m.have.version + 1, {"declared"}) /\ UNCHANGED ids,
             Reconciled(m), Finally(m, "failed"))

\* The role is replaced: what is declared, and what others had added to it.
PutRole(r) ==
  LET m == run[r] IN
  /\ m.pc = "put"
  /\ Request(r,
             Authorised(m) /\ (VersionChecked => m.have.version >= role[m.slug].version),
             SetRole(m.slug, m.have.version + 1,
                     {"declared"} \cup (m.have.pairs \ {"retired"})) /\ UNCHANGED ids,
             Reconciled(m), Finally(m, "failed"))

\* The reader's account; a name that is taken is looked up again.
CreateReader(r) ==
  LET m == run[r]
      taken == reader[m.slug] # None
  IN
  /\ m.pc = "reader"
  /\ Request(r, m.slug \in estate /\ ~taken,
             SetReader(m.slug, [id |-> ids + 1, basic |-> "None", assigned |-> FALSE])
               /\ NewId,
             [m EXCEPT !.pc = "assign", !.ledger = @ \cup {ids + 1},
                       !.sas.reader = [id |-> ids + 1, basic |-> "None"]],
             IF taken THEN [m EXCEPT !.pc = "again"] ELSE Finally(m, "failed"))

LookAgain(r) ==
  LET m == run[r] IN
  /\ m.pc = "again"
  /\ \/ m.slug \in estate /\ reader[m.slug] # None
        /\ Local(r, Reconciled([m EXCEPT !.sas = List(m.slug)]))
     \/ Local(r, Soiled(Finally(m, "failed")))

\* The reader's basic role goes back to None.
ResetBasicRole(r) ==
  LET m == run[r] IN
  /\ m.pc = "basic"
  /\ Request(r, Authorised(m) /\ Holds(m),
             SetReader(m.slug, [reader[m.slug] EXCEPT !.basic = "None"]) /\ UNCHANGED ids,
             [m EXCEPT !.pc = "assign"], Finally(m, "failed"))

\* Then a token, if there is no working one; else only the verification.
AssignRole(r) ==
  LET m == run[r] IN
  /\ m.pc = "assign"
  /\ Request(r, Authorised(m) /\ Holds(m),
             SetReader(m.slug, [reader[m.slug] EXCEPT !.assigned = TRUE]) /\ UNCHANGED ids,
             IF NeedsMint(m) THEN [m EXCEPT !.pc = "mint"]
             ELSE IF m.deferred THEN Finally(m, "pending")
             ELSE [m EXCEPT !.pc = "verify", !.key = m.stored[m.slug].token],
             Finally(m, "failed"))

\* Token names are unique in the organisation, and the reader's has one name.
Mint(r) ==
  LET m == run[r] IN
  /\ m.pc = "mint"
  /\ Request(r, m.slug \in estate /\ Holds(m) /\ token[m.slug] = 0,
             SetToken(m.slug, ids + 1) /\ NewId,
             [m EXCEPT !.pc = "store", !.key = ids + 1], Finally(m, "failed"))

\* Mutant: a secret that was not stored leaves its token alone.
StoreWithoutRevoking(r) ==
  LET m == run[r] IN
  /\ m.pc = "store"
  /\ Request(r, TRUE,
             SetStore(m.slug, [token |-> m.key, sa |-> m.sas.reader.id]) /\ UNCHANGED ids,
             [m EXCEPT !.pc = "verify"], Finally(m, "failed"))

\* Mutant: the put's return code is not looked at.
StoreUnchecked(r) ==
  LET m == run[r]
      verifying == [m EXCEPT !.pc = "verify"]
  IN
  /\ m.pc = "store"
  /\ Request(r, TRUE,
             SetStore(m.slug, [token |-> m.key, sa |-> m.sas.reader.id]) /\ UNCHANGED ids,
             verifying, verifying)

\* ssm_put; anything but success has the token revoked.
Store(r) ==
  LET m == run[r] IN
  /\ m.pc = "store"
  /\ Request(r, TRUE,
             SetStore(m.slug, [token |-> m.key, sa |-> m.sas.reader.id]) /\ UNCHANGED ids,
             [m EXCEPT !.pc = "verify"], [m EXCEPT !.pc = "revoke"])

Revoke(r) ==
  LET m == run[r]
      failed == Finally(m, "failed")
  IN
  /\ m.pc = "revoke"
  /\ IF Authorised(m)
     THEN Delete(r, token[m.slug] = m.key,
                 SetToken(m.slug, 0) /\ UNCHANGED ids, failed, failed)
     ELSE IF token[m.slug] = m.key
     THEN Become(r, failed) /\ Trouble("undeleted")
          /\ UNCHANGED <<stacks, store, ids, starts, churn, returned>>
     ELSE Local(r, failed)

\* verify_reader: probed again for as long as the permissions may take; only a
\* readable reader that lacks pairs is worth another look at the end.
Verify(r) ==
  LET m == run[r]
      account == List(m.slug).reader
  IN
  /\ m.pc = "verify"
  /\ \/ \E status \in StatusOf(m.slug, m.key) :
          Local(r, Finally(
            [m EXCEPT !.clean = @ /\ status # "other"],
            IF ~NeedsRepair(account, TRUE, status, Answers(m.slug, status))
            THEN "ok"
            ELSE IF account = None THEN "failed" ELSE "unverified"))
     \/ Local(r, Soiled(Finally(m, "failed")))

\* repair's finally: an account whose deletion is not confirmed is a failure.
Cleanup(r) ==
  LET m == run[r] IN
  /\ m.pc = "cleanup"
  /\ m.adm \in m.ledger
  /\ Delete(r, admin[m.slug] = m.adm, SetAdmin(m.slug, 0) /\ UNCHANGED ids,
            Conclude(m, m.out), Conclude(m, "failed"))

-----------------------------------------------------------------------------
(* main, after the last stack.                                                *)

Unverified(m) == {s \in Stack : m.verdict[s] \in {"pending", "unverified"}}
Pruning(m) == [m EXCEPT !.pc = "prune", !.todo = Targets(m), !.final = Nothing]

\* The store again, if anything is still propagating.
Reload(r) ==
  LET m == run[r] IN
  /\ m.pc = "next" /\ m.todo = {}
  /\ \/ Unverified(m) = {} /\ Local(r, Pruning(m))
     \/ Unverified(m) # {}
        /\ \/ Local(r, [m EXCEPT !.pc = "final", !.todo = Unverified(m), !.final = store])
           \/ Local(r, Soiled(Pruning(m)))

\* reverify_pending: one probe with the credential that scans will use, for a
\* deferred one only of the account that its record named at the start.
Reverify(r) ==
  LET m == run[r] IN
  /\ m.pc = "final"
  /\ \/ m.todo = {} /\ Local(r, Pruning(m))
     \/ \E s \in m.todo :
          LET record == m.final[s]
              account == List(s).reader
              named == \/ m.verdict[s] = "unverified"
                       \/ /\ record.sa = m.stored[s].sa
                          /\ account # None /\ account.id = record.sa
                          /\ account.basic = "None"
              rest == [m EXCEPT !.todo = @ \ {s}]
          IN
          \/ ~HasSecret(record) /\ Local(r, rest)
          \/ /\ HasSecret(record)
             /\ \E status \in StatusOf(s, record.token) :
                  Local(r,
                    IF named /\ ~NeedsRepair(account, TRUE, status, Answers(s, status))
                    THEN [rest EXCEPT !.verdict[s] = "ok"]
                    ELSE [rest EXCEPT !.clean = @ /\ status # "other"])

\* prune_targets, from what the run read at its start; answers are not looked at.
Prune(r) ==
  LET m == run[r] IN
  /\ m.pc = "prune"
  /\ \E s \in m.todo :
       Request(r, store[s] # None, SetStore(s, None) /\ UNCHANGED ids,
               [m EXCEPT !.todo = @ \ {s}], [m EXCEPT !.todo = @ \ {s}])

\* The summary; what a run reported stays on record.
End(r) ==
  LET m == run[r] IN
  /\ m.pc = "prune" /\ m.todo = {}
  /\ Local(r, [Idle EXCEPT !.verdict = m.verdict])

Die(r) ==
  /\ run[r].pc # "idle"
  /\ Become(r, Idle)
  /\ Trouble("died")
  /\ UNCHANGED <<stacks, store, ids, starts, churn, returned>>

Repair(r) ==
  \/ CreateAdmin(r) \/ AdminToken(r) \/ ListRoles(r) \/ MakeRole(r) \/ ReadRole(r)
  \/ PutRole(r) \/ CreateReader(r) \/ LookAgain(r) \/ ResetBasicRole(r)
  \/ AssignRole(r) \/ Mint(r) \/ Store(r) \/ Revoke(r) \/ Verify(r) \/ Cleanup(r)
Proceed(r) ==
  \/ Load(r) \/ NextStack(r) \/ Sweep(r) \/ Relist(r) \/ Probe(r) \/ Repair(r)
  \/ Reload(r) \/ Reverify(r) \/ Prune(r) \/ End(r)

-----------------------------------------------------------------------------
(* The organisation.                                                          *)

\* A reader's effective permissions catch up.
Propagate(s) ==
  /\ answered[s] # Effective(s)
  /\ answered' = [answered EXCEPT ![s] = Effective(s)]
  /\ UNCHANGED <<estate, admin, reader, role, token, store, run, ids>> /\ Calm

Churn ==
  /\ churn < MaxChurn /\ Troubles + churn < MaxUpsets
  /\ churn' = churn + 1
  /\ UNCHANGED <<store, run, ids, starts, trouble>>

\* A stack leaves with its accounts, its role and its tokens.
Leave(s) ==
  /\ s \in estate
  /\ estate' = estate \ {s}
  /\ admin' = [admin EXCEPT ![s] = 0]
  /\ reader' = [reader EXCEPT ![s] = None]
  /\ role' = [role EXCEPT ![s] = NoRole]
  /\ answered' = [answered EXCEPT ![s] = {}]
  /\ token' = [token EXCEPT ![s] = 0]
  /\ UNCHANGED returned /\ Churn

\* A stack of the same name comes, or comes back.
Return(s) ==
  /\ s \notin estate
  /\ estate' = estate \cup {s}
  /\ returned' = returned \cup {s}
  /\ UNCHANGED <<admin, reader, role, answered, token>> /\ Churn

\* Someone else edits the role, or gives the reader a basic role.
Edit(s) ==
  /\ \/ /\ role[s] # NoRole
        /\ \E p \in Pair :
             role' = [role EXCEPT ![s] = [version |-> @.version + 1,
               pairs |-> IF p \in @.pairs THEN @.pairs \ {p} ELSE @.pairs \cup {p}]]
        /\ UNCHANGED reader
     \/ /\ reader[s] # None /\ reader[s].basic = "None"
        /\ reader' = [reader EXCEPT ![s].basic = "other"]
        /\ UNCHANGED role
  /\ UNCHANGED <<estate, admin, answered, token, returned>> /\ Churn

\* Someone else revokes the reader's token.
RevokeOutside(s) ==
  /\ token[s] # 0
  /\ token' = [token EXCEPT ![s] = 0]
  /\ UNCHANGED <<estate, admin, reader, role, answered, returned>> /\ Churn

Outside == \E s \in Stack : Leave(s) \/ Return(s) \/ Edit(s) \/ RevokeOutside(s)

Next ==
  \/ \E r \in Run : Start(r) \/ Proceed(r) \/ Die(r)
  \/ \E s \in Stack : Propagate(s)
  \/ Outside
Spec == Init /\ [][Next]_vars

-----------------------------------------------------------------------------
TypeOK ==
  /\ estate \in SUBSET Stack
  /\ admin \in [Stack -> Nat]
  /\ reader \in [Stack -> Account \cup {None}]
  /\ role \in [Stack -> Role]
  /\ answered \in [Stack -> SUBSET Pair]
  /\ token \in [Stack -> Nat]
  /\ store \in [Stack -> Record \cup {None}]
  /\ run \in [Run -> Memory]
  /\ ids \in Nat /\ starts \in Nat /\ churn \in Nat
  /\ trouble \in [{"lost", "undeleted", "died"} -> Nat]
  /\ returned \in SUBSET Stack

Quietly == Troubles = 0

\* The store holds the secret of the stack's live token.
Working(s) == token[s] # 0 /\ HasSecret(store[s]) /\ store[s].token = token[s]

\* What a run has reported provisioned stays so until someone outside changes
\* the stack, whatever other runs, overlapping or dying, do to it: repair's
\* fixed token name, exact revocation and role reconciliation.  It takes two
\* troubles to break it: a put whose answer is lost is followed by the revocation
\* of its token, and an Admin that outlived its sweep lets another run vouch for
\* that token in between.
ReportedIsProvisioned ==
  churn = 0 /\ trouble.lost + trouble.undeleted <= 1 =>
    \A r \in Run, s \in Stack \ Skipped :
      run[r].verdict[s] = "ok" =>
        /\ Working(s)
        /\ reader[s] # None /\ reader[s].basic = "None" /\ reader[s].assigned
        /\ ~Drift(role[s].pairs)

\* No token without its secret in the store or in the memory of the run that
\* minted it, as long as nothing died, no answer was lost and every delete got
\* through: an unstored token is revoked (repair's ssm_write_failed).
SecretsAccounted ==
  Quietly /\ churn = 0 =>
    \A s \in Stack :
      token[s] # 0 =>
        \/ Working(s)
        \/ \E r \in Run : /\ run[r].pc \in {"store", "revoke"}
                          /\ run[r].slug = s /\ run[r].key = token[s]

\* No transient administrator outlives the repair that made it, although runs
\* overlap and sweep each other's (repair's finally, sweep_leftover_admin).
AdminsAccounted ==
  Quietly =>
    \A s \in Stack :
      admin[s] # 0 => \E r \in Run : run[r].slug = s /\ run[r].adm = admin[s]

\* A pair that somebody added to the role on purpose is never taken out by a
\* run, if the server refuses versions that are not newer (ensure_role's union).
ForeignPairsStay ==
  [][VersionChecked /\ churn' = churn =>
       \A s \in Stack : "foreign" \in role[s].pairs => "foreign" \in role'[s].pairs]_role

\* A secret is pruned only of a stack that is not there, unless it came back
\* while runs that knew it as gone were still on their way (prune_targets).
PruneSparesTheLiving ==
  [][\A s \in Stack :
       store[s] # None /\ store'[s] = None => s \notin estate \/ s \in returned]_store

Clean(r) == run[r].clean /\ run[r].birth = starts /\ run[r].era = churn

\* What a run that has the stack to itself, and is refused nothing, leaves.
Settled(s) ==
  /\ Working(s)
  /\ admin[s] = 0
  /\ reader[s] # None /\ reader[s].basic = "None" /\ reader[s].assigned
  /\ ~Drift(role[s].pairs)

\* The name of the reader's token is held by one whose secret is lost.
Stuck(s) == token[s] # 0 /\ ~Working(s)

\* Whatever earlier runs left behind, a run that is alone, is refused nothing
\* and sees no change from outside sets every stack right; except one whose role
\* is dangerous or whose token's name is taken (plan_action, repair).
CleanRunSettles ==
  \A r \in Run :
    run[r].pc = "prune" /\ Clean(r) =>
      \A s \in run[r].inventory \ Skipped :
        Settled(s) \/ "dangerous" \in role[s].pairs \/ Stuck(s)

\* What collector/provision.py:23 promises by its three-part check: that a crash
\* between the account and its token does not leave the stack broken for ever.
CrashesAreRepaired ==
  \A r \in Run :
    run[r].pc = "prune" /\ Clean(r) =>
      \A s \in run[r].inventory \ Skipped :
        Settled(s) \/ "dangerous" \in role[s].pairs

\* No credential without an owner: neither a token whose secret is nowhere, nor an administrator
\* that no run is using.
CredentialsAccounted == TypeOK /\ SecretsAccounted /\ AdminsAccounted
=============================================================================
