---------------------------- MODULE UsageInsights ----------------------------
(***************************************************************************)
(* What people do on a stack, asked of the Loki of its region: the figures  *)
(* of the day (collector/sources/usage_insights.py), and which of its        *)
(* dashboards were opened (gather_dashboard_inventory of scan.py).  Every    *)
(* query of a probe is evaluated for the same window, but one is sent after  *)
(* the other while events of that window still arrive, so that no two of     *)
(* them need to have seen the same log.                                     *)
(***************************************************************************)
EXTENDS Integers, FiniteSetsExt

CONSTANTS
    Event,       \* id -> an event that Grafana may log, of this stack or of a neighbour
    TopMix,      \* TOP_QUERY_MIX
    MaxLate,     \* bound: events that arrive during a probe
    MaxFaults    \* bound: queries that fail

VARIABLES
    task,      \* the gatherer, and how many of its queries are answered
    log,       \* the events that Loki answers from
    boards,    \* the dashboards of the stack
    out,       \* what the answers have filled in
    record,    \* what the gatherer makes of the stack
    since      \* ghost: the log when the first query was sent, and what has happened then

vars == <<task, log, boards, out, record, since>>

-----------------------------------------------------------------------------
(* Loki *)

\* The datasource holds the whole region: the selector names the stack's instance.
Own(l) == {e \in l : Event[e].stack = "own"}

Scoped(l) == Own(l)

Requests(l) == {e \in Scoped(l) : Event[e].kind = "request"}
Opened(l) == {Event[e].board : e \in {v \in Scoped(l) : Event[v].kind = "view"}}

\* The sources that the metrics know by name, and the ones they fold.
Direct == {"dashboard", "explore"}
Blank == {"", "unknown"}
Mapped == Direct \cup Blank
Surface(source) == IF source \in Direct THEN source ELSE IF source \in Blank THEN "unknown" ELSE "other"
Surfaces == Direct \cup {"unknown", "other"}

Of(es, field, values) == {e \in es : Event[e][field] \in values}
From(l, surface) == {e \in Requests(l) : Surface(Event[e].source) = surface}
Identified(es) == {e \in es : Event[e].user # ""}
Users(es) == {Event[e].user : e \in es} \ {"", "-1"}
Typed(l) == {e \in Requests(l) : Event[e].type # ""}
Types(l) == {Event[e].type : e \in Typed(l)}
OfType(l, t) == Cardinality(Of(Requests(l), "type", {t}))
Placed(l) == {e \in Requests(l) : Event[e].panel # ""}

\* topk: some of the most frequent types, ties as they fall.
Top(l) ==
    {ts \in SUBSET Types(l) :
        /\ Cardinality(ts) = Min({TopMix, Cardinality(Types(l))})
        /\ \A t \in ts, u \in Types(l) \ ts : OfType(l, t) >= OfType(l, u)}

Answers(field, l) ==
    CASE field = "requests"     -> {Cardinality(Requests(l))}
      [] field = "other_ids"    -> {Cardinality(Identified(From(l, "other")))}
      [] field = "placed"       -> {Cardinality(Placed(l))}
      [] field = "panels"       -> {Cardinality({Event[e].panel : e \in Placed(l)})}
      [] field = "sources"      -> {[s \in Mapped |-> Cardinality(Of(Requests(l), "source", {s}))]}
      [] field = "identified"   -> {[s \in Mapped |-> Cardinality(Identified(Of(Requests(l), "source", {s})))]}
      [] field = "users"        -> {[s \in Direct |-> Cardinality(Users(From(l, s)))]}
      [] field = "fallback"     -> {[s \in {"unknown", "other"} |-> Cardinality(Users(From(l, s)))]}
      [] field = "mix_requests" -> {Cardinality(Typed(l))}
      [] field = "mix_distinct" -> {Cardinality(Types(l))}
      [] field = "mix_rows"     -> {[t \in ts |-> OfType(l, t)] : ts \in Top(l)}

-----------------------------------------------------------------------------
(* The figures of the day *)

\* Scalars, breakdowns, and the mix, which is optional.
Queries ==
    <<"requests", "other_ids", "placed", "panels", "sources", "identified", "users", "fallback",
      "mix_requests", "mix_distinct", "mix_rows">>
Required == 8

\* What the numbers of a breakdown and of the rows come to.
Total(f) == f["dashboard"] + f["explore"] + f[""] + f["unknown"]
Sum(rows) == Cardinality(UNION {{t} \X (1 .. rows[t]) : t \in DOMAIN rows})

NoIdentity == -1
Withheld == [rows |-> <<>>, remainder |-> -1]
Unavailable(reason) == [state |-> reason]

\* Raw sources become surfaces; what the mapped ones leave of all requests is `other'.
OnSurface(f, s) == IF s = "unknown" THEN f[""] + f["unknown"] ELSE f[s]
Residual(o) == o.requests - Total(o.sources)
Asked(o, s) == IF s = "other" THEN Residual(o) ELSE OnSurface(o.sources, s)
Known(o, s) == IF s = "other" THEN o.other_ids ELSE OnSurface(o.identified, s)

\* The answers contradict each other: events have come between them.
Contradictory(o) ==
    \/ Residual(o) < 0
    \/ \E s \in Surfaces : Known(o, s) > Asked(o, s)

\* Nobody is counted where no request names its user.
UsersFound(o, s) == IF s \in Direct THEN o.users[s] ELSE o.fallback[s]
UsersOn(o, s) == IF Known(o, s) = 0 THEN NoIdentity ELSE UsersFound(o, s)

SurfaceRows(o) ==
    [s \in {x \in Surfaces : Asked(o, x) > 0} |-> [requests |-> Asked(o, s), users |-> UsersOn(o, s)]]

\* The types that come in the rows and the ones that do not are all of them.
MixFits(o) ==
    LET shown == Cardinality(DOMAIN o.mix_rows)
        rest == o.mix_requests - Sum(o.mix_rows)
    IN  /\ o.mix_requests <= o.requests
        /\ shown <= TopMix /\ shown <= o.mix_distinct
        /\ rest >= 0
        /\ o.mix_distinct > 0 => shown > 0
        /\ (o.mix_requests = 0) = (o.mix_distinct = 0)
        /\ o.mix_distinct > shown => rest > 0
        /\ o.mix_distinct = shown => rest = 0

MixOf(o) ==
    IF MixFits(o) THEN [rows |-> o.mix_rows, remainder |-> o.mix_requests - Sum(o.mix_rows)]
    ELSE Withheld

Figures(o, mix) ==
    IF Contradictory(o) THEN Unavailable("malformed_response")
    ELSE [state |-> "available", requests |-> o.requests, surfaces |-> SurfaceRows(o), mix |-> mix]

Pending == [state |-> "pending"]
Initially(name) == task = [name |-> name, answered |-> 0, retried |-> FALSE]

Done(r) == task' = [task EXCEPT !.name = "done"] /\ record' = r /\ out' = [nothing |-> 0]
Filled(field, answer) == out' = [x \in DOMAIN out \cup {field} |-> IF x = field THEN answer ELSE out[x]]

PanelsFit(o) == o.panels <= o.placed

Query ==
    /\ task.name = "insights"
    /\ LET field == Queries[task.answered + 1] IN
       \E answer \in Answers(field, log) :
           LET o == [x \in DOMAIN out \cup {field} |-> IF x = field THEN answer ELSE out[x]] IN
           IF field = "panels" /\ ~PanelsFit(o) THEN Done(Unavailable("malformed_response"))
           ELSE IF field = "mix_rows" THEN Done(Figures(o, MixOf(o)))
           ELSE /\ task' = [task EXCEPT !.answered = @ + 1]
                /\ Filled(field, answer) /\ UNCHANGED record
    /\ UNCHANGED <<log, boards, since>>

\* A 403 of the very first query is tried once more (a role just patched is not
\* yet in force); any other failure ends the probe, except that the mix is optional.
Fail(reason) ==
    IF task.answered = 0 /\ ~task.retried /\ reason = "forbidden_403" THEN
        task' = [task EXCEPT !.retried = TRUE] /\ UNCHANGED <<out, record>>
    ELSE IF task.answered >= Required THEN Done(Figures(out, Withheld))
    ELSE Done(Unavailable(reason))

QueryFails ==
    /\ task.name = "insights" /\ since.faults < MaxFaults
    /\ \E reason \in {"forbidden_403", "token_401", "transport_error", "malformed_response"} : Fail(reason)
    /\ since' = [since EXCEPT !.faults = @ + 1]
    /\ UNCHANGED <<log, boards>>

-----------------------------------------------------------------------------
(* The dashboards and their opening *)

\* The catalogue is read before the activity.
Readings == <<"catalogue", "activity">>

Verdicts(o) ==
    [b \in o.catalogue |-> IF "activity" \notin DOMAIN o THEN "unknown"
                           ELSE IF b \in o.activity THEN "opened" ELSE "unopened"]
Joined(o) ==
    IF "catalogue" \notin DOMAIN o THEN Unavailable("inventory unavailable")
    ELSE [state |-> "available", verdicts |-> Verdicts(o)]

\* A reading succeeds, or it fails and the other is made all the same.
Read ==
    /\ task.name = "opening"
    /\ LET what == Readings[task.answered + 1]
           answer == IF what = "catalogue" THEN boards ELSE Opened(log)
           filled == [x \in DOMAIN out \cup {what} |-> IF x = what THEN answer ELSE out[x]]
       IN  \E failed \in BOOLEAN :
             /\ failed => since.faults < MaxFaults
             /\ LET o == IF failed THEN out ELSE filled IN
                IF task.answered = 1 THEN Done(Joined(o))
                ELSE task' = [task EXCEPT !.answered = 1] /\ out' = o /\ UNCHANGED record
             /\ since' = [since EXCEPT
                    !.faults = IF failed THEN @ + 1 ELSE @,
                    !.opened = IF what = "catalogue" THEN Opened(Own(log)) ELSE @]
    /\ UNCHANGED <<log, boards>>

-----------------------------------------------------------------------------
(* People *)

\* An event arrives, of whenever in the window it is.
Late ==
    /\ task.name # "done" /\ Cardinality(log \ since.log) < MaxLate
    /\ \E e \in DOMAIN Event \ log :
         /\ Event[e].kind = (IF task.name = "opening" THEN "view" ELSE "request")
         /\ Event[e].kind = "view" => Event[e].board \in boards
         /\ log' = log \cup {e}
    /\ UNCHANGED <<task, boards, out, record, since>>

Create ==
    /\ task.name = "opening"
    /\ \E e \in DOMAIN Event : Event[e].board \notin boards \cup {""} /\ boards' = boards \cup {Event[e].board}
    /\ UNCHANGED <<task, log, out, record, since>>
Delete ==
    /\ task.name = "opening"
    /\ \E b \in boards : boards' = boards \ {b}
    /\ UNCHANGED <<task, log, out, record, since>>

Init ==
    /\ \/ /\ Initially("insights")
          /\ log \in SUBSET {e \in DOMAIN Event : Event[e].kind = "request"}
          /\ boards = {}
       \/ /\ Initially("opening")
          /\ log \in SUBSET {e \in DOMAIN Event : Event[e].kind = "view"}
          /\ boards = {Event[e].board : e \in log}
    /\ out = [nothing |-> 0]
    /\ record = Pending
    /\ since = [log |-> log, opened |-> {}, faults |-> 0]

Next == Query \/ QueryFails \/ Read \/ Late \/ Create \/ Delete
Spec == Init /\ [][Next]_vars

-----------------------------------------------------------------------------
(* Properties *)

\* The ghost of a reading: nothing has come and nothing has failed.
Quiet == log = since.log /\ since.faults = 0

\* What is true of a surface in a log.
CountIn(l, s) == Cardinality({e \in Own(l) : Event[e].kind = "request" /\ Surface(Event[e].source) = s})
PeopleIn(l, s) ==
    Users({e \in Own(l) : Event[e].kind = "request" /\ Surface(Event[e].source) = s})

\* Every request is on one surface, whatever came while the queries were sent: a
\* surface has no more requests than the stack has had, a mapped one no fewer
\* than it had before, and `other' lacks at most those that came.
SurfacesAddUp ==
    task.name = "done" /\ record.state = "available" /\ "surfaces" \in DOMAIN record =>
        LET Shown(s) == IF s \in DOMAIN record.surfaces THEN record.surfaces[s].requests ELSE 0 IN
        /\ Shown("dashboard") + Shown("explore") + Shown("unknown") + Shown("other") = record.requests
        /\ \A s \in Surfaces :
             /\ Shown(s) <= CountIn(log, s)
             /\ Shown(s) >= CountIn(since.log, s) - (IF s = "other" THEN Cardinality(log \ since.log) ELSE 0)

\* Nobody is counted twice, and no surface has zero users because none was named.
PeopleAreSeen ==
    task.name = "done" /\ record.state = "available" /\ "surfaces" \in DOMAIN record =>
        \A s \in DOMAIN record.surfaces :
            LET users == record.surfaces[s].users
                named == {e \in Own(log) : Event[e].kind = "request" /\ Surface(Event[e].source) = s
                                           /\ Event[e].user # ""}
            IN  IF users = NoIdentity THEN named \subseteq log \ since.log
                ELSE named # {} /\ users <= Cardinality(PeopleIn(log, s))
                     /\ users >= Cardinality(PeopleIn(since.log, s))

\* The rows of the mix and their remainder are requests that have a type, and
\* where nothing remains no type is missing, except that one which came since may
\* have taken its place among the most frequent.
MixIsWhole ==
    task.name = "done" /\ record.state = "available" /\ "mix" \in DOMAIN record /\ record.mix # Withheld =>
        LET missing == Types(Own(log)) \ DOMAIN record.mix.rows IN
        /\ record.mix.remainder + Sum(record.mix.rows) <= record.requests
        /\ record.mix.remainder >= 0
        /\ record.mix.remainder > 0 => missing # {}
        /\ record.mix.remainder = 0 =>
              Cardinality(missing \cap Types(Own(since.log))) <= Cardinality(log \ since.log)

\* A stack whose log stands still is measured, with its mix, and exactly.
StillIsMeasured ==
    task.name = "done" /\ Quiet =>
        /\ record.state = "available"
        /\ "surfaces" \in DOMAIN record =>
             /\ record.mix # Withheld
             /\ \A s \in DOMAIN record.surfaces :
                  record.surfaces[s].users # NoIdentity =>
                      record.surfaces[s].users = Cardinality(PeopleIn(log, s))

\* A dashboard that people had opened when the catalogue was read is not called
\* unopened, and where the activity is unknown none is called anything.
OpenedIsSeen ==
    task.name = "done" /\ "verdicts" \in DOMAIN record =>
        \A b \in DOMAIN record.verdicts :
            /\ record.verdicts[b] = "unopened" => b \notin since.opened
            /\ record.verdicts[b] = "opened" => b \in Opened(Own(log))

UsageIsTrue == SurfacesAddUp /\ PeopleAreSeen /\ MixIsWhole /\ StillIsMeasured /\ OpenedIsSeen
=============================================================================
