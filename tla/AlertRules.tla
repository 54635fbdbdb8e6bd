----------------------------- MODULE AlertRules -----------------------------
(***************************************************************************)
(* The alert rules on the write stack (bin/alerts.py): `--publish`,         *)
(* `--activate`, `--deactivate` and `--migrate-titles` each list the live   *)
(* rules once, check the listing, and write rule by rule, while people      *)
(* pause, route and delete rules in the UI.                                 *)
(*                                                                          *)
(* A rule is known by its uid: `canonical' is the one in RULE_UIDS,         *)
(* `legacy' the one that Grafana gave it before RULE_UIDS existed, when it  *)
(* was known by its title.  Expressions and wording are left out.           *)
(***************************************************************************)
EXTENDS Naturals

CONSTANTS
    Alerts,      \* what build_all builds
    Renamed,     \* those with an entry in RENAMED_TITLES
    Receivers,   \* contact points of the stack
    MaxEdits,    \* changes that people make
    MaxCommands  \* commands that are run

VARIABLES
    live,     \* uid -> the rule on the stack, or Absent
    cmd,      \* the command that runs: its mode, what it has listed and what it has still to write
    touched,  \* ghost: uids that people have changed since the command listed them
    edits,
    commands

vars == <<live, cmd, touched, edits, commands>>

Uids == Alerts \X {"canonical", "legacy"}
Unrouted == "unrouted"
Absent == [there |-> FALSE]
Rule == [there : {TRUE}, ours : BOOLEAN, title : {"old", "new"}, paused : BOOLEAN,
         receiver : Receivers \cup {Unrouted}]
Listings == [Uids -> Rule \cup {Absent}]

Modes == {"publish", "activate", "deactivate", "migrate"}
NoListing == [u \in Uids |-> Absent]
NoCommand == [mode |-> "none", receiver |-> Unrouted, seen |-> NoListing, todo |-> {}, failed |-> {}]

Ours(rules) == {u \in Uids : rules[u].there /\ rules[u].ours}
Sane(rule) == rule.there => rule.paused \/ rule.receiver # Unrouted
LiveState(rule) == <<rule.paused, rule.receiver>>

TypeOK ==
    /\ live \in Listings
    /\ cmd.mode \in Modes \cup {"none", "done"} /\ cmd.receiver \in Receivers \cup {Unrouted}
    /\ cmd.seen \in Listings /\ cmd.todo \subseteq Alerts /\ cmd.failed \subseteq Alerts
    /\ touched \subseteq Uids
    /\ edits \in 0 .. MaxEdits /\ commands \in 0 .. MaxCommands

\* Each alert has no rule yet, one by its canonical uid, or one from before; a uid may also be taken
\* by a rule of another folder.
Init ==
    /\ live \in {rules \in [Uids -> {r \in Rule : Sane(r)} \cup {Absent}] :
           \A a \in Alerts :
               LET canonical == rules[<<a, "canonical">>] legacy == rules[<<a, "legacy">>]
               IN  /\ canonical.there => canonical.title = "new"
                   /\ legacy.there => legacy.ours /\ a \in Renamed
                   /\ ~ (legacy.there /\ canonical.there /\ canonical.ours)}
    /\ cmd = NoCommand
    /\ touched = {}
    /\ edits = 0 /\ commands = 0

-----------------------------------------------------------------------------
(* People *)

\* A rule is paused, unpaused, routed or deleted in the UI; nobody leaves one live and unrouted.
Edit(u) ==
    /\ edits < MaxEdits /\ live[u].there
    /\ edits' = edits + 1
    /\ \E p \in BOOLEAN, r \in Receivers \cup {Unrouted} :
        live' = [live EXCEPT ![u].paused = p, ![u].receiver = r]
    /\ live' # live /\ Sane(live'[u])
    /\ touched' = touched \cup {u}
    /\ UNCHANGED <<cmd, commands>>

Delete(u) ==
    /\ edits < MaxEdits /\ live[u].there
    /\ edits' = edits + 1
    /\ live' = [live EXCEPT ![u] = Absent]
    /\ touched' = touched \cup {u}
    /\ UNCHANGED <<cmd, commands>>

-----------------------------------------------------------------------------
(* Listing and preflight *)

Titled(a, title) == {u \in Ours(live) : u[1] = a /\ live[u].title = title}

\* A migrated rule keeps its uid, and is adopted under it while the canonical one is free.
Uid(rules, a) ==
    IF a \in Renamed /\ ~ rules[<<a, "canonical">>].there
         /\ rules[<<a, "legacy">>].there /\ rules[<<a, "legacy">>].ours /\ rules[<<a, "legacy">>].title = "new"
    THEN <<a, "legacy">> ELSE <<a, "canonical">>

\* No uid is taken by a rule of another folder, no rule of ours is unknown, and no title of ours is
\* at another uid: otherwise nothing is written at all.
Preflight ==
    /\ \A a \in Alerts : Uid(live, a) \in Ours(live) \/ ~ live[Uid(live, a)].there
    /\ Ours(live) \subseteq {Uid(live, a) : a \in Alerts}
    /\ \A a \in Alerts : Titled(a, "new") \subseteq {Uid(live, a)}

\* The rules that `--migrate-titles` will rename: a title that is there twice is not.
Renames == {a \in Renamed : Titled(a, "old") # {} /\ Titled(a, "new") = {}}

\* `--activate` needs a receiver, and only a plain publish may have one besides.
Routings(mode) ==
    CASE mode = "activate" -> Receivers
      [] mode = "publish" -> Receivers \cup {Unrouted}
      [] OTHER -> {Unrouted}

\* A command starts, lists the rules and checks what it sees.  It stops here when the listing fails
\* or is malformed, or the preflight refuses.
Begin ==
    /\ cmd.mode \in {"none", "done"} /\ commands < MaxCommands
    /\ commands' = commands + 1
    /\ \E mode \in Modes : \E r \in Routings(mode) :
        \/ cmd' = NoCommand
        \/ /\ mode # "migrate" => Preflight
           /\ cmd' = [mode |-> mode, receiver |-> r, seen |-> live, failed |-> {},
                      todo |-> IF mode = "migrate" THEN Renames ELSE Alerts]
    /\ touched' = {}
    /\ UNCHANGED <<live, edits>>

-----------------------------------------------------------------------------
(* Writing *)

\* Mutant: a plain publish keeps the pause of a rule and forgets its receiver.
KeepsPauseOnly(a, seen) ==
    [there |-> TRUE, ours |-> TRUE, title |-> "new",
     paused |-> IF seen.there /\ cmd.mode = "publish" THEN seen.paused ELSE cmd.mode # "activate",
     receiver |-> cmd.receiver]

\* Mutant: a plain publish writes what is built, as it did until 2026-08-20.
KeepsNothing(a, seen) ==
    [there |-> TRUE, ours |-> TRUE, title |-> "new", paused |-> cmd.mode # "activate",
     receiver |-> cmd.receiver]

\* The rule that is sent: built paused and unrouted, or live and routed to `--receiver`; a plain
\* publish keeps the pause and the routing that it has listed.
Built(a, seen) ==
    LET keep == cmd.mode = "publish" /\ seen.there
    IN  [there |-> TRUE, ours |-> TRUE, title |-> "new",
         paused |-> IF keep THEN seen.paused ELSE cmd.mode # "activate",
         receiver |-> IF keep THEN seen.receiver ELSE cmd.receiver]

\* PUT replaces a rule that is there; POST makes one whose uid is free.
Sent(u, rule, exists) == live[u].there = exists /\ live' = [live EXCEPT ![u] = rule]

Sending(a) ==
    IF cmd.mode = "migrate"
    THEN LET u == CHOOSE x \in Uids : x[1] = a /\ cmd.seen[x].there /\ cmd.seen[x].title = "old"
         IN  Sent(u, [cmd.seen[u] EXCEPT !.title = "new"], TRUE)
    ELSE LET u == Uid(cmd.seen, a)
         IN  Sent(u, Built(a, cmd.seen[u]), cmd.seen[u].there)

\* The next rule is written.
Write(a) ==
    /\ a \in cmd.todo
    /\ Sending(a)
    /\ cmd' = [cmd EXCEPT !.todo = @ \ {a}]
    /\ UNCHANGED <<touched, edits, commands>>

\* The answer is an error, with the write done or not: it is counted, and the next one is tried.
WriteFails(a) ==
    /\ a \in cmd.todo
    /\ Sending(a) \/ UNCHANGED live
    /\ cmd' = [cmd EXCEPT !.todo = @ \ {a}, !.failed = @ \cup {a}]
    /\ UNCHANGED <<touched, edits, commands>>

\* The connection breaks, with the write done or not, or the command is interrupted.
Die ==
    /\ cmd.mode \in Modes /\ cmd.todo # {}
    /\ \/ \E a \in cmd.todo : Sending(a)
       \/ UNCHANGED live
    /\ cmd' = NoCommand
    /\ UNCHANGED <<touched, edits, commands>>

\* The last rule has been tried.  If none failed, the interval of the rules' group is set as well, which
\* is no rule's and a failure of which is only a warning.
Finish ==
    /\ cmd.mode \in Modes /\ cmd.todo = {}
    /\ cmd' = IF cmd.failed = {} /\ cmd.mode = "activate" THEN [cmd EXCEPT !.mode = "done"] ELSE NoCommand
    /\ UNCHANGED <<live, touched, edits, commands>>

Next ==
    \/ \E u \in Uids : Edit(u) \/ Delete(u)
    \/ \E a \in Alerts : Write(a) \/ WriteFails(a)
    \/ Begin \/ Die \/ Finish

Spec == Init /\ [][Next]_vars

-----------------------------------------------------------------------------
(* Properties *)

\* No rule of ours is ever live without a receiver, so that none inherits the stack's notification
\* policy: not when a command writes some rules and dies, and not when it writes over what people
\* have changed since it listed ("an unrouted unpaused rule inherits", bin/alerts.py:639).
LiveRulesAreRouted == \A u \in Ours(live) : Sane(live[u])

\* No command makes a second rule for an alert that has one, which would leave the old one firing
\* beside it: neither a change of title nor a migration that stopped half way.
OneRulePerAlert == \A u, v \in Ours(live) : u[1] = v[1] => u = v

\* A plain publish, and a migration, leave the pause and the routing of every rule that exists as
\* they are.  One that people have changed since it was listed may get both as they were when it was
\* listed, so that the change is lost (although "existing rules kept whatever pause and routing they
\* already had", bin/alerts.py:890), but never the pause of one moment with the receiver of another.
\* A rule that was listed and has been deleted is brought back by no command.
LiveStateKept ==
    edits' = edits => \A u \in Uids :
        /\ cmd.mode \in {"publish", "migrate"} /\ live[u].there =>
             /\ live'[u].there
             /\ \/ LiveState(live'[u]) = LiveState(live[u])
                \/ /\ u \in touched /\ cmd.seen[u].there
                   /\ LiveState(live'[u]) = LiveState(cmd.seen[u])
        /\ cmd.seen[u].there /\ ~ live[u].there => ~ live'[u].there

\* An activation that reports no failure leaves every rule live and routed to its receiver, except
\* what people have changed since it listed.
ActivationIsComplete ==
    cmd.mode = "done" => \A a \in Alerts :
        LET u == Uid(cmd.seen, a)
        IN  u \in touched \/ (live[u].there /\ ~ live[u].paused /\ live[u].receiver = cmd.receiver)

\* Whatever commands died half way, every rule that is live has its receiver and is the only one of
\* its alert, and an activation that reports success is one.
AlertsStayRouted == TypeOK /\ LiveRulesAreRouted /\ OneRulePerAlert /\ ActivationIsComplete
=============================================================================
