-------------------------- MODULE DashboardPublish --------------------------
(***************************************************************************)
(* bin/dashboards.py --publish: one dashboard after the other is read,      *)
(* written over the version that was read, or created, and read back, and   *)
(* what Grafana has made of it is compared with what was built.  Two such   *)
(* commands may run at once, and people save dashboards in the UI.          *)
(***************************************************************************)
EXTENDS Naturals, Sequences

CONSTANTS
    Commands,   \* runs of --publish
    Names,      \* the dashboards that each publishes, in the order of BUILDERS
    Build,      \* command -> the revision that it builds
    MaxEdits,   \* bound: saves in the UI
    MaxFaults   \* bound: requests that go wrong, and dashboards that Grafana alters

VARIABLES
    stack,    \* name -> the dashboard on the write stack
    cmd,      \* command -> how far it is
    edits,
    faults

vars == <<stack, cmd, edits, faults>>

\* What a dashboard has that verify_persisted tells apart, and how closely it looks: where a link leads
\* is compared, of how it looks (icon, tooltip, tags, tabs) only that it is there.
Exactly == {"elements", "link_targets"}
AtLeast == {"plugin_options", "queries", "layout", "link_looks"}
Unlooked == {"core_options"}
Parts == Exactly \cup AtLeast \cup Unlooked

\* Grafana keeps a part as it was built, adds to it (or gives a link another look), or drops some of it.
Kept == [p \in Parts |-> "kept"]
Altered == {[Kept EXCEPT ![p] = how] : p \in Parts, how \in {"extended", "dropped"}}

Dashboard(by, build, saved) ==
    [there |-> TRUE, by |-> by, build |-> build, saved |-> saved, known |-> {}]
Absent == [Dashboard("nobody", "none", Kept) EXCEPT !.there = FALSE]

Builds == {Build[c] : c \in Commands}
Published == {Names[i] : i \in DOMAIN Names}
Ready == [pc |-> "resolve", at |-> 1, ok |-> {}, rc |-> 0]

TypeOK ==
    /\ \A d \in Published :
           /\ stack[d].by \in Commands \cup {"people", "nobody"}
           /\ stack[d].build \in Builds \cup {"other", "none"}
           /\ stack[d].saved \in {Kept} \cup Altered
           /\ stack[d].known \subseteq Commands
           /\ ~ stack[d].there => stack[d] = Absent
    /\ \A c \in Commands :
           /\ cmd[c].pc \in {"resolve", "get", "put", "post", "read", "done", "died"}
           /\ cmd[c].at \in 1 .. Len(Names) + 1
           /\ cmd[c].ok \subseteq Published /\ cmd[c].rc \in 0 .. 2
    /\ edits \in 0 .. MaxEdits /\ faults \in 0 .. MaxFaults

Init ==
    /\ stack \in [Published -> {Absent, Dashboard("people", "other", Kept)}]
    /\ cmd = [c \in Commands |-> Ready]
    /\ edits = 0 /\ faults = 0

-----------------------------------------------------------------------------
(* People and Grafana *)

\* Somebody saves a dashboard in the UI, and may put back what was built.
Edit ==
    /\ edits < MaxEdits /\ edits' = edits + 1
    /\ \E d \in Published, build \in Builds \cup {"other"} :
           /\ stack[d].there
           /\ stack' = [stack EXCEPT ![d] = Dashboard("people", build, Kept)]
    /\ UNCHANGED <<cmd, faults>>

Trouble == faults < MaxFaults /\ faults' = faults + 1

-----------------------------------------------------------------------------
(* main *)

Become(c, next) == cmd' = [cmd EXCEPT ![c] = next]
Goto(c, pc) == Become(c, [cmd[c] EXCEPT !.pc = pc])
Dies(c) == Goto(c, "died")
Name(c) == Names[cmd[c].at]

\* Credentials, stack, data source, folder and rate card, before anything is written.
Resolve(c) ==
    /\ cmd[c].pc = "resolve"
    /\ \/ Goto(c, "get") /\ UNCHANGED faults
       \/ Trouble /\ Become(c, [cmd[c] EXCEPT !.pc = "done", !.rc = 2])
    /\ UNCHANGED <<stack, edits>>

\* On to the next dashboard, or out of the loop.
Proceed(c, next) ==
    Become(c, [next EXCEPT !.at = @ + 1, !.pc = IF next.at = Len(Names) THEN "done" ELSE "get"])

\* A dashboard that was not published does not keep the others from it.
Failed(c) == Proceed(c, [cmd[c] EXCEPT !.rc = 1])
Succeeded(c) == Proceed(c, [cmd[c] EXCEPT !.ok = @ \cup {Name(c)}])

-----------------------------------------------------------------------------
(* publish *)

\* Anything but 200 is taken for a dashboard that is not there.
Get(c) ==
    /\ cmd[c].pc = "get"
    /\ \/ /\ stack[Name(c)].there
          /\ stack' = [stack EXCEPT ![Name(c)].known = @ \cup {c}]
          /\ Goto(c, "put") /\ UNCHANGED faults
       \/ ~ stack[Name(c)].there /\ Goto(c, "post") /\ UNCHANGED <<stack, faults>>
       \/ Trouble /\ (Goto(c, "post") \/ Dies(c)) /\ UNCHANGED stack
    /\ UNCHANGED edits

\* Mutant: the dashboard is replaced whatever its version is by now.
Overwritable(c) == stack[Name(c)].there

\* The resource version that was read is sent along.
Replaceable(c) == stack[Name(c)].there /\ c \in stack[Name(c)].known

Stores(c, saved) == stack' = [stack EXCEPT ![Name(c)] = Dashboard(c, Build[c], saved)]

\* A write that Grafana accepts: stored as it was sent or altered; or stored and answered badly.
Accepted(c) ==
    \/ Stores(c, Kept) /\ Goto(c, "read") /\ UNCHANGED faults
    \/ Trouble /\ (\E saved \in Altered : Stores(c, saved)) /\ Goto(c, "read")
    \/ Trouble /\ Stores(c, Kept) /\ (Failed(c) \/ Dies(c))

\* One that it refuses, or that does not reach it.
Refused(c) ==
    \/ Failed(c) /\ UNCHANGED <<stack, faults>>
    \/ Trouble /\ Dies(c) /\ UNCHANGED stack

Write(c, acceptable) ==
    /\ (acceptable /\ Accepted(c)) \/ Refused(c)
    /\ UNCHANGED edits

Put(c) == cmd[c].pc = "put" /\ Write(c, Replaceable(c))
Post(c) == cmd[c].pc = "post" /\ Write(c, ~ stack[Name(c)].there)

\* Mutant: defaults are allowed, and so is what is missing of an open part.
AcceptsAnySubset(c, d) ==
    d.there /\ d.build = Build[c] /\ \A p \in Exactly : d.saved[p] = "kept"

\* verify_persisted: everything that was built of the parts it looks at is there, with no more in
\* those that are compared exactly.
Accepts(c, d) ==
    /\ d.there /\ d.build = Build[c]
    /\ \A p \in Exactly : d.saved[p] = "kept"
    /\ \A p \in AtLeast : d.saved[p] # "dropped"

ReadBack(c) ==
    /\ cmd[c].pc = "read"
    /\ \/ (IF Accepts(c, stack[Name(c)]) THEN Succeeded(c) ELSE Failed(c)) /\ UNCHANGED faults
       \/ Trouble /\ (Failed(c) \/ Dies(c))
    /\ UNCHANGED <<stack, edits>>

Command(c) == Resolve(c) \/ Get(c) \/ Put(c) \/ Post(c) \/ ReadBack(c)
Next == Edit \/ \E c \in Commands : Command(c)
Spec == Init /\ [][Next]_vars

-----------------------------------------------------------------------------
(* Properties *)

\* What a command has called published, and nobody has written since, is on the stack as it was built
\* but for the defaults that Grafana adds: although the stack may have changed between the write and
\* the reading back ("verify what Grafana actually persisted", bin/dashboards.py:5598).
PublishedIsIntact ==
    \A c \in Commands : \A d \in cmd[c].ok :
        stack[d].by = c => /\ stack[d].build = Build[c]
                           /\ \A p \in Exactly : stack[d].saved[p] = "kept"
                           /\ \A p \in AtLeast : stack[d].saved[p] # "dropped"

\* A command that succeeds has published every dashboard, one that fails has not stopped at it.
SuccessIsComplete ==
    \A c \in Commands : cmd[c].pc = "done" =>
        /\ cmd[c].rc = 0 => cmd[c].ok = Published
        /\ cmd[c].rc = 1 => cmd[c].ok # Published /\ cmd[c].at > Len(Names)

DashboardsAreIntact == TypeOK /\ PublishedIsIntact /\ SuccessIsComplete

\* A command replaces no version but the one that it has read: what somebody saved in the meantime,
\* or the other command published, stays.
NothingUnreadIsReplaced ==
    \A c \in Commands : \A d \in Published :
        (stack[d].there /\ stack'[d] # stack[d] /\ stack'[d].by = c /\ cmd'[c] # cmd[c]) =>
            c \in stack[d].known \/ stack'[d].known # {}
=============================================================================
