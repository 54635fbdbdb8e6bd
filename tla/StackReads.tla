----------------------------- MODULE StackReads -----------------------------
(***************************************************************************)
(* The count-only product reads of the daily tier (collector/sources): a    *)
(* selected product is read on every live stack with the token that the     *)
(* credential store held when the gatherer swept it, while the provisioner  *)
(* rotates tokens and people change what the stacks hold.  A page of the    *)
(* store holds one parameter, and each request of a stack is a step.        *)
(***************************************************************************)
EXTENDS Integers, Sequences, FiniteSetsExt

CONSTANTS
    Stack,       \* a sequence: the order of the parameters.  The first of them may hold and answer
                 \* anything; the others hold one object, and list it or refuse
    Holdings,    \* what the first may hold of a product: sequences of Objects
    MaxChanges,  \* bound: changes of a holding
    MaxFaults    \* bound: pages of the store that cannot be read

Stacks == Range(Stack)
First == Stack[1]

\* Whose reader takes a bare array, an envelope, an object of counters, a count, three lists.
Products == {"reports", "playlists", "faro_apps", "slo", "cloud_accounts", "ml_jobs",
             "irm_integrations", "irm_alert_groups", "synthetic"}
\* An object as its route lists it, of either sort; without what makes it one; not an object; with
\* a Grafana API key at its top; with another credential in it.
Objects == {"plain", "other", "blank", "scalar", "keyed", "secret"}

VARIABLES
    task,      \* the product, whether GCINSIGHT_PRODUCT_READS selects it, the inventory's status of
               \* each stack, and what is wrong with its row
    held,      \* what each stack holds of the product
    tokens,    \* its parameter in the store, and which of its tokens are valid
    run,       \* the gatherer: pages read, tokens found, answers so far, records, errors
    view,      \* the inventory that is composed with, and the rows
    since      \* ghosts: who had a token all along, what was held when it was listed; bounds

vars == <<task, held, tokens, run, view, since>>

Valid == {"old", "new"}
NoRecord == [available |-> FALSE, reason |-> "none", count |-> 0, sorted |-> 0, exact |-> FALSE]

product == task.product
creds == run.creds
Live(stacks) == {s \in Stacks : stacks[s] = "active"}

Init ==
    /\ \E p \in Products, sel \in BOOLEAN, st \in [Stacks -> {"active", "paused"}], f \in {"none", "url", "id"} :
           /\ st[First] = "active"
           /\ task = [product |-> p, selected |-> sel, inventory |-> st,
                      flaw |-> [s \in Stacks |-> IF s = First THEN f ELSE "none"]]
           /\ view = [inventory |-> st, rows |-> [s \in {} |-> NoRecord]]
    /\ \E h \in Holdings : held = [s \in Stacks |-> IF s = First THEN h ELSE <<"plain">>]
    /\ \E stored \in [Stacks -> {"absent", "unusable", "old"}] :
           /\ \A s \in Stacks \ {First} : stored[s] # "unusable"
           /\ tokens = [stored |-> stored, valid |-> [s \in Stacks |-> {"old"}]]
    /\ run = [pc |-> "start", page |-> 0, creds |-> [s \in Stacks |-> "none"],
              asked |-> [s \in Stacks |-> <<>>], out |-> [s \in {} |-> NoRecord], errors |-> 0]
    /\ since = [kept |-> Stacks, truth |-> held, changes |-> 0, faults |-> 0]

-----------------------------------------------------------------------------
(* The provisioner, and the people who use the stacks *)

\* A token is stored as soon as it is minted, and the old one is deleted after that.
Rotate ==
    /\ "new" \notin tokens.valid[First] /\ run.pc \in {"sweep", "read"}
    /\ tokens' = [tokens EXCEPT !.stored[First] = "new", !.valid[First] = @ \cup {"new"}]
    /\ UNCHANGED <<task, held, run, view, since>>
Revoke ==
    /\ tokens.valid[First] = Valid /\ run.pc \in {"sweep", "read"}
    /\ tokens' = [tokens EXCEPT !.valid[First] = {"new"}]
    /\ UNCHANGED <<task, held, run, view, since>>
\* An object comes, or the last one goes, between two requests.
Change ==
    /\ since.changes < MaxChanges /\ run.asked[First] # <<>>
    /\ LET mine == held[First] IN
       \E h \in {Append(mine, "plain")} \cup {SubSeq(mine, 1, n) : n \in {Len(mine) - 1} \cap Nat} :
           held' = [held EXCEPT ![First] = h]
    /\ since' = [since EXCEPT !.changes = @ + 1]
    /\ UNCHANGED <<task, tokens, run, view>>

-----------------------------------------------------------------------------
(* The sweep of the store *)

\* A product that is not selected costs no request of any kind.
Deselected ==
    /\ run.pc = "start" /\ ~task.selected
    /\ run' = [run EXCEPT !.pc = "done"]
    /\ UNCHANGED <<task, held, tokens, view, since>>

Begin ==
    /\ run.pc = "start" /\ task.selected
    /\ run' = [run EXCEPT !.pc = "sweep"]
    /\ since' = [since EXCEPT !.kept = {s \in Stacks : tokens.stored[s] \in Valid}]
    /\ UNCHANGED <<task, held, tokens, view>>

\* Mutant: a page that cannot be read is taken for the last one.
PageFailsQuietly ==
    /\ run.pc = "sweep" /\ since.faults < MaxFaults
    /\ run' = [run EXCEPT !.pc = "read"]
    /\ since' = [since EXCEPT !.faults = @ + 1]
    /\ UNCHANGED <<task, held, tokens, view>>

\* StoreUnavailable on any page: what the earlier pages gave is dropped.
PageFails ==
    /\ run.pc = "sweep" /\ since.faults < MaxFaults
    /\ run' = [run EXCEPT !.pc = "done", !.errors = 1]
    /\ since' = [since EXCEPT !.faults = @ + 1]
    /\ UNCHANGED <<task, held, tokens, view>>

\* A parameter that will not parse, or has no token, is as good as none.
Page ==
    LET s == Stack[run.page + 1] IN
    /\ run.pc = "sweep"
    /\ run' = [run EXCEPT
           !.creds[s] = IF tokens.stored[s] \in Valid THEN tokens.stored[s] ELSE "none",
           !.page = @ + 1,
           !.pc = IF run.page + 1 = Len(Stack) THEN "read" ELSE "sweep"]
    /\ UNCHANGED <<task, held, tokens, view, since>>

-----------------------------------------------------------------------------
(* What a response is taken for *)

No(reason) == [NoRecord EXCEPT !.reason = reason]
Count(n, sorted) == [available |-> TRUE, reason |-> "none", count |-> n, sorted |-> sorted, exact |-> TRUE]

\* The reason of the first check that applies, else what is counted.
FirstOf(checks, counted) ==
    LET hits == {i \in DOMAIN checks : checks[i][1]} IN
    IF hits = {} THEN counted ELSE No(checks[Min(hits)][2])

Holds(a, kinds) == \E i \in DOMAIN a.items : a.items[i] \in kinds
Number(a) == Len(a.items)
Plain(a) == Cardinality({i \in DOMAIN a.items : a.items[i] = "plain"})
Ok(a) == a.status \in {200, 204}
Whole(a) == a.shape = "whole"
Lost(a) == a.status = 0
\* Not JSON; a 204 has no body.
Garbled(a) == a.shape = "garbled" \/ a.status = 204

\* guard_resource: a credential anywhere in the body.
Unsafe(a) == Holds(a, {"keyed", "secret"})

Reports(a) == FirstOf(<<
    <<Lost(a), "transport_error">>, <<a.status # 200, "unreadable">>, <<Garbled(a), "transport_error">>,
    <<~Whole(a), "invalid_response">>, <<Unsafe(a), "unsafe_schema">>,
    <<Holds(a, {"blank", "scalar"}), "invalid_response">>>>, Count(Number(a), 0))

Playlists(a) == FirstOf(<<
    <<Lost(a), "transport_error">>, <<a.status # 200, "unreadable">>, <<Garbled(a), "transport_error">>,
    <<~Whole(a), "invalid_response">>, <<Unsafe(a), "unsafe_schema">>,
    <<Holds(a, {"blank", "scalar"}), "invalid_response">>>>, Count(Number(a), 0))

\* No fence: nothing but the type of an app is looked at, and one without a type counts.
FaroApps(a) == FirstOf(<<
    <<Lost(a), "transport_error">>, <<a.status # 200, "unreadable">>, <<Garbled(a), "transport_error">>,
    <<~Whole(a) \/ Holds(a, {"scalar"}), "invalid_response">>>>, Count(Number(a), Plain(a)))

\* The fence before the envelope, and any success for a success.
SloInventory(a) == FirstOf(<<
    <<Lost(a), "transport_error">>, <<~Ok(a), "unreadable">>, <<Garbled(a), "transport_error">>,
    <<Unsafe(a), "unsafe_schema">>, <<~Whole(a) \/ Holds(a, {"scalar"}), "unreadable">>>>,
    Count(Number(a), Plain(a)))

\* No accounts at all come as a null.
CloudAccounts(a) == FirstOf(<<
    <<Lost(a), "transport_error">>, <<a.status # 200, "unreadable">>, <<Garbled(a), "transport_error">>,
    <<a.shape \notin {"whole", "null"}, "invalid_response">>, <<Unsafe(a), "unsafe_schema">>,
    <<Holds(a, {"blank", "scalar"}), "invalid_response">>>>, Count(Number(a), 0))

\* The API key at the top of a job is dropped before the fence.
MlJobs(a) == FirstOf(<<
    <<Lost(a), "transport_error">>, <<a.status # 200, "unreadable">>, <<Garbled(a), "transport_error">>,
    <<~Whole(a) \/ Holds(a, {"scalar"}), "invalid_response">>, <<Holds(a, {"secret"}), "unsafe_schema">>,
    <<Holds(a, {"blank"}), "invalid_response">>>>, Count(Number(a), 0))

\* Two counters and nothing else: no fence is needed.
IrmIntegrations(a) == FirstOf(<<
    <<Lost(a), "transport_error">>, <<a.status # 200, "unreadable">>, <<Garbled(a), "transport_error">>,
    <<~Whole(a) \/ Holds(a, Objects \ {"plain", "other"}), "invalid_response">>>>, Count(Number(a), 0))

\* A count, and whether there are more.
IrmAlertGroups(a) == FirstOf(<<
    <<Lost(a), "transport_error">>, <<a.status # 200, "unreadable">>, <<Garbled(a), "transport_error">>,
    <<a.shape \notin {"whole", "paged"}, "invalid_response">>>>,
    [Count(Number(a), 0) EXCEPT !.exact = Whole(a)])

\* synthetic_datasource_uid, then two lists; both are judged when both are there.
SyntheticUid(a) == FirstOf(<<
    <<Lost(a), "transport_error">>, <<~Ok(a), "unreadable">>, <<Garbled(a), "transport_error">>,
    <<~Whole(a), "unreadable">>,
    <<a.matches = 0, "no_datasource">>, <<a.matches > 1, "ambiguous">>,
    <<a.odd, "invalid_uid">>>>, Count(0, 0))
SyntheticList(a, what) == FirstOf(<<
    <<Lost(a), "transport_error">>, <<~Ok(a), what>>, <<Garbled(a), "transport_error">>>>, Count(0, 0))
Synthetic(as) == FirstOf(<<
    <<\E i \in 2 .. 3 : ~Whole(as[i]), "invalid_schema">>,
    <<\E i \in 2 .. 3 : Holds(as[i], {"blank", "scalar"}), "invalid_schema">>>>,
    Count(Number(as[2]), Plain(as[2])))

\* What the answers so far come to; a synthetic stack that is not refused is asked three times.
Reading(as) ==
    LET a == as[Len(as)] IN
    CASE product = "reports" -> Reports(a) [] product = "playlists" -> Playlists(a)
      [] product = "faro_apps" -> FaroApps(a) [] product = "slo" -> SloInventory(a)
      [] product = "cloud_accounts" -> CloudAccounts(a) [] product = "ml_jobs" -> MlJobs(a)
      [] product = "irm_integrations" -> IrmIntegrations(a)
      [] product = "irm_alert_groups" -> IrmAlertGroups(a)
      [] product = "synthetic" /\ Len(as) = 1 -> SyntheticUid(a)
      [] product = "synthetic" /\ Len(as) = 2 -> SyntheticList(a, "checks_unreadable")
      [] product = "synthetic" /\ Len(as) = 3 ->
           LET seen == SyntheticList(a, "probes_unreadable") IN IF seen.available THEN Synthetic(as) ELSE seen
Requests == IF product = "synthetic" THEN 3 ELSE 1

-----------------------------------------------------------------------------
(* The gatherer's threads *)

\* What keeps a stack from being asked; slo looks for the token first and names no invalid URL.
Unasked(s) ==
    LET unnamed == <<creds[s] = "none", "no_credential">> IN
    IF product = "slo" THEN FirstOf(<<unnamed, <<task.flaw[s] = "url", "unreadable">>>>, Count(0, 0))
    ELSE IF product = "cloud_accounts"
         THEN FirstOf(<<<<task.flaw[s] = "url", "invalid_url">>, <<task.flaw[s] = "id", "invalid_stack_id">>, unnamed>>,
                      Count(0, 0))
    ELSE FirstOf(<<<<task.flaw[s] = "url", "invalid_url">>, unnamed>>, Count(0, 0))

\* on_error is called for every record that is not available.
Return(s, record) ==
    [run EXCEPT !.out = [x \in DOMAIN run.out \cup {s} |-> IF x = s THEN record ELSE run.out[x]],
                !.asked[s] = <<>>,
                !.errors = IF record.available THEN @ ELSE @ + 1]

Waiting == IF run.pc = "read" THEN Live(task.inventory) \ DOMAIN run.out ELSE {}

Skip(s) ==
    /\ s \in Waiting /\ ~Unasked(s).available
    /\ run' = Return(s, Unasked(s))
    /\ UNCHANGED <<task, held, tokens, view, since>>

\* A stack's answer: what its list holds, or its first page with a mark that there are more; `null'
\* where there is nothing; nothing that can be read; or a refusal, certain for a token that is revoked.
Items(s, n) == IF product = "synthetic" /\ n # 2 THEN <<"plain">> ELSE held[s]
Answer(status, shape, items, matches, odd) ==
    [status |-> status, shape |-> shape, items |-> items, matches |-> matches, odd |-> odd]
Refusals == {Answer(status, "whole", <<>>, 1, FALSE) : status \in {0, 204, 403}}
Answers(s, n) == Refusals \cup
    (IF creds[s] \notin tokens.valid[s] THEN {}
     ELSE IF s # First THEN {Answer(200, "whole", Items(s, n), 1, FALSE)}
     ELSE {Answer(200, "garbled", <<>>, 1, FALSE), Answer(200, "whole", Items(s, n), 1, FALSE)}
          \cup (IF Items(s, n) = <<>> THEN {Answer(200, "null", <<>>, 1, FALSE)}
                ELSE {Answer(200, "paged", SubSeq(Items(s, n), 1, Len(Items(s, n)) - 1), 1, FALSE)})
          \cup (IF product = "synthetic" /\ n = 1
                THEN {Answer(200, "whole", <<"plain">>, m, FALSE) : m \in {0, 2}}
                     \cup {Answer(200, "whole", <<"plain">>, 1, TRUE)}
                ELSE {}))

Ask(s) == \E a \in Answers(s, Len(run.asked[s]) + 1) :
    LET as == Append(run.asked[s], a)
        record == Reading(as)
    IN
    /\ s \in Waiting /\ Unasked(s).available
    /\ run' = IF Len(as) = Requests \/ ~record.available THEN Return(s, record)
              ELSE [run EXCEPT !.asked[s] = as]
    /\ since' = IF product = "synthetic" /\ Len(as) # 2 THEN since
                ELSE [since EXCEPT !.truth[s] = held[s]]
    /\ UNCHANGED <<task, held, tokens, view>>

Gathered ==
    /\ run.pc = "read" /\ Waiting = {}
    /\ run' = [run EXCEPT !.pc = "done"]
    /\ UNCHANGED <<task, held, tokens, view, since>>

-----------------------------------------------------------------------------
(* The report of synthetic monitoring: who has no such datasource is not expected to have one *)

Available == {s \in DOMAIN run.out : run.out[s].available}
Expected == IF task.selected THEN Cardinality(Live(task.inventory)) ELSE 0
NotApplicable == Min({Expected, Cardinality({s \in DOMAIN run.out : run.out[s].reason = "no_datasource"})})
SyntheticReport ==
    [expected |-> Expected - NotApplicable, absent |-> NotApplicable,
     available |-> Min({Expected - NotApplicable, Cardinality(Available)})]

-----------------------------------------------------------------------------
(* The view: composed in this run, or hourly later with the inventory of that hour *)

SloRow(r) == [count |-> r.count, sorted |-> r.sorted, exact |-> TRUE]
SyntheticRow(r) == [count |-> r.count, sorted |-> r.sorted, exact |-> TRUE]
FaroRow(r) == [count |-> r.count, sorted |-> r.sorted, exact |-> TRUE]
AlertGroupsRow(r) == [count |-> r.count, sorted |-> 0, exact |-> r.exact]
CountRow(r) == [count |-> r.count, sorted |-> 0, exact |-> TRUE]
Row(r) ==
    IF product = "slo" THEN SloRow(r) ELSE IF product = "synthetic" THEN SyntheticRow(r)
    ELSE IF product = "faro_apps" THEN FaroRow(r) ELSE IF product = "irm_alert_groups" THEN AlertGroupsRow(r)
    ELSE CountRow(r)

\* Between the gathering and the composing a stack may have been paused or deleted.
Compose == \E status \in {"active", "paused", "gone"} :
    LET now == [task.inventory EXCEPT ![First] = status] IN
    /\ run.pc = "done"
    /\ run' = [run EXCEPT !.pc = "composed"]
    /\ view' = [inventory |-> now, rows |-> [s \in Live(now) \cap Available |-> Row(run.out[s])]]
    /\ UNCHANGED <<task, held, tokens, since>>

Next ==
    \/ Rotate \/ Revoke \/ Change
    \/ Deselected \/ Begin \/ PageFails \/ Page
    \/ \E s \in Stacks : Skip(s) \/ Ask(s)
    \/ Gathered \/ Compose

Spec == Init /\ [][Next]_vars
-----------------------------------------------------------------------------
\* What is counted was there, all of it, when it was listed; `at least' is said of the rest.
CountsAreWhole == \A s \in Available :
    IF run.out[s].exact THEN run.out[s].count = Len(since.truth[s]) ELSE run.out[s].count <= Len(since.truth[s])

\* Only a stack whose parameter did not hold a token is said to have none: neither a page that
\* cannot be read nor a rotation that is under way is laid at a stack's door.
NobodyAccused == \A s \in DOMAIN run.out : run.out[s].reason = "no_credential" => s \notin since.kept

\* Where a body is fenced nothing is counted of one that holds a credential, the key apart that
\* the jobs' reader drops.
CredentialsDiscarded == \A s \in Available :
    LET secrets == {"secret"} \cup (IF product = "ml_jobs" THEN {} ELSE {"keyed"}) IN
    product \in {"reports", "playlists", "slo", "cloud_accounts", "ml_jobs"} =>
        Range(since.truth[s]) \cap secrets = {}

\* A live stack has one record, none other has any, and each that failed is one error, or else the
\* store is the only one.
AllAccounted == run.pc \in {"done", "composed"} =>
    \/ DOMAIN run.out = {} /\ run.page < Len(Stack) /\ run.errors = since.faults
    \/ /\ DOMAIN run.out = Live(task.inventory) /\ run.errors = Cardinality(DOMAIN run.out \ Available)
       /\ LET r == SyntheticReport IN product = "synthetic" =>
             /\ r.expected + r.absent = Cardinality(Live(task.inventory))
             /\ r.available = Cardinality(Available)

\* No row of a stack that is not there any more or was not read, and no zero for it.
RowsAreLive == run.pc = "composed" =>
    /\ DOMAIN view.rows = {s \in Available : view.inventory[s] = "active"}
    /\ \A s \in DOMAIN view.rows : view.rows[s].count = run.out[s].count /\ view.rows[s].exact = run.out[s].exact

ReadsAreTrue ==
    CountsAreWhole /\ NobodyAccused /\ CredentialsDiscarded /\ AllAccounted /\ RowsAreLive
=============================================================================
