------------------------------- MODULE Parts -------------------------------
(* What a scan lists and publishes at all (Listing, FleetScan), what the scans *)
(* keep between runs and read back (GapState, EstateDiff), and the operator's  *)
(* tools (ManifestUpgrade, AlertRules, DashboardPublish).  They share no       *)
(* state, so a behaviour moves one of them, the variables of the others are    *)
(* unused, and a name that two of them have stands for either's.               *)
EXTENDS Naturals, Sequences, FiniteSets

CONSTANTS
  Id, Regions, PageSize, MaxPages, MaxMoves,                 \* Listing
  Slugs, Threads, Exceptions, Origins,                       \* FleetScan
  Optional, NonBlocking, Population, Shares,
  Stacks, MaxClock,                                          \* GapState
  Windows, Least, Target, Most, Now, MaxScans, MaxChanges,   \* EstateDiff
  Revisions, MaxFaults,                                      \* ManifestUpgrade
  Alerts, Renamed, Receivers, MaxCommands,                   \* AlertRules
  Commands, Names, Build, MaxFailures,                       \* DashboardPublish
  MaxEdits                                                   \* each of the last three

VARIABLES
  part,                                                   \* the module that moves
  reader, hidden, rows, signing, list, result, happened,    \* Listing
  tier, paused, enabled, queue, work, counts,             \* FleetScan
  failed, skipped, results, measured, verdict,
  clock, gaps, store, payload, t2, age, since, blind,     \* GapState
  archive, changes, t4, views, listed, lost,              \* EstateDiff
  files, journal, unguarded,                              \* ManifestUpgrade
  live, touched, commands,                                \* AlertRules
  stack,                                                  \* DashboardPublish
  cmd, edits, faults                                      \* each of the last three

List == INSTANCE Listing WITH src <- reader, since <- happened, MaxChanges <- MaxMoves
Fleet == INSTANCE FleetScan
  WITH Stacks <- Slugs, Reasons <- Exceptions, Sources <- Origins, Floor <- Shares
Gap == INSTANCE GapState
Diff == INSTANCE EstateDiff
Upgrade == INSTANCE ManifestUpgrade
Rules == INSTANCE AlertRules
Dash == INSTANCE DashboardPublish WITH MaxFaults <- MaxFailures

listVars == <<reader, hidden, rows, signing, list, result, happened>>
fleetVars ==
  <<tier, paused, enabled, queue, work, counts, failed, skipped, results, measured, verdict>>
gapVars == <<clock, gaps, store, payload, t2, age, since, blind>>
diffVars == <<archive, changes, t4, views, listed, lost>>
upgradeVars == <<files, journal, unguarded>>
alertVars == <<live, touched, commands>>
commandVars == <<cmd, edits, faults>>
vars == <<part, listVars, fleetVars, gapVars, diffVars, upgradeVars, alertVars, stack, commandVars>>

Unused == "unused"
NoList ==
  /\ reader = Unused /\ hidden = Unused /\ rows = Unused /\ signing = Unused
  /\ list = Unused /\ result = Unused /\ happened = Unused
NoFleet ==
  /\ tier = Unused /\ paused = Unused /\ enabled = Unused /\ queue = Unused
  /\ work = Unused /\ counts = Unused /\ failed = Unused /\ skipped = Unused
  /\ results = Unused /\ measured = Unused /\ verdict = Unused
NoGap ==
  /\ clock = Unused /\ gaps = Unused /\ store = Unused /\ payload = Unused
  /\ t2 = Unused /\ age = Unused /\ since = Unused /\ blind = Unused
NoDiff ==
  /\ archive = Unused /\ changes = Unused /\ t4 = Unused
  /\ views = Unused /\ listed = Unused /\ lost = Unused
NoUpgrade == files = Unused /\ journal = Unused /\ unguarded = Unused
NoAlerts == live = Unused /\ touched = Unused /\ commands = Unused
NoDash == stack = Unused
NoCommand == cmd = Unused /\ edits = Unused /\ faults = Unused

-----------------------------------------------------------------------------
(* What the constants are in the code.                                         *)

\* There are places, and rows, which have the names of where they were first.
ListConstants ==
  /\ Regions \in Seq(STRING) /\ Regions # <<>>
  /\ IsFiniteSet(Id) /\ Id = 1 .. Cardinality(Id) /\ {1, 2} \subseteq Id
  /\ PageSize \in 1 .. Cardinality(Id) /\ MaxPages \in Nat \ {0} /\ MaxMoves \in Nat
ASSUME ListAssumption == ListConstants

\* An exception is no counter's other name, and a share that may be missing is
\* no more than the whole.
FleetConstants ==
  /\ IsFiniteSet(Slugs) /\ IsFiniteSet(Exceptions)
  /\ Exceptions \cap (Fleet!Skips \cup {"scanned", "none"}) = {}
  /\ {"stack_detail", "no_datasource"} \cap Origins = {}
  /\ \A src \in Origins \cup {"stack_detail"} :
       Shares[src] \in Nat \X Nat /\ Shares[src][1] <= Shares[src][2]
  /\ \A src \in Origins : Population[src] \in {"scannable", "live", "producer", "org", "sourced"}
ASSUME FleetAssumption == FleetConstants

ASSUME ClockAssumption == MaxClock \in Nat

\* diff.WINDOWS: each label is its own and reaches at least as far above its
\* target as below.
DiffConstants ==
  /\ Windows \in Seq(STRING) /\ Windows # <<>>
  /\ \A i, j \in DOMAIN Windows : Windows[i] = Windows[j] => i = j
  /\ Least \in [Diff!Range(Windows) -> Nat \ {0}]
  /\ Target \in [Diff!Range(Windows) -> Nat]
  /\ Most \in [Diff!Range(Windows) -> Nat]
  /\ \A w \in Diff!Range(Windows) : Least[w] <= Target[w] /\ Target[w] <= Most[w]
                                    /\ Target[w] - Least[w] <= Most[w] - Target[w]
  /\ Now \in Nat \ {0} /\ MaxChanges \in Nat
ASSUME DiffAssumption == DiffConstants

\* There is an image to upgrade to.
UpgradeConstants == Revisions # {} /\ MaxEdits \in Nat /\ MaxFaults \in Nat
ASSUME UpgradeAssumption == UpgradeConstants

\* A contact point has a name of its own.
AlertConstants == MaxEdits \in Nat /\ MaxCommands \in Nat /\ Rules!Unrouted \notin Receivers
ASSUME AlertAssumption == AlertConstants

\* There are dashboards, each built once; a command is no person.
DashConstants ==
  /\ Names \in Seq(STRING) /\ Names # <<>>
  /\ \A i, j \in DOMAIN Names : Names[i] = Names[j] => i = j
  /\ "people" \notin Commands /\ "nobody" \notin Commands
  /\ MaxEdits \in Nat /\ MaxFailures \in Nat
ASSUME DashAssumption == DashConstants

-----------------------------------------------------------------------------
Init ==
  \/ /\ part = "listing" /\ List!Init
     /\ NoFleet /\ NoGap /\ NoDiff /\ NoUpgrade /\ NoAlerts /\ NoDash /\ NoCommand
  \/ /\ part = "fleet" /\ Fleet!Init
     /\ NoList /\ NoGap /\ NoDiff /\ NoUpgrade /\ NoAlerts /\ NoDash /\ NoCommand
  \/ /\ part = "gap" /\ Gap!Init
     /\ NoList /\ NoFleet /\ NoDiff /\ NoUpgrade /\ NoAlerts /\ NoDash /\ NoCommand
  \/ /\ part = "diff" /\ Diff!Init
     /\ NoList /\ NoFleet /\ NoGap /\ NoUpgrade /\ NoAlerts /\ NoDash /\ NoCommand
  \/ /\ part = "upgrade" /\ Upgrade!Init
     /\ NoList /\ NoFleet /\ NoGap /\ NoDiff /\ NoAlerts /\ NoDash
  \/ /\ part = "alerts" /\ Rules!Init
     /\ NoList /\ NoFleet /\ NoGap /\ NoDiff /\ NoUpgrade /\ NoDash /\ faults = Unused
  \/ /\ part = "dashboards" /\ Dash!Init
     /\ NoList /\ NoFleet /\ NoGap /\ NoDiff /\ NoUpgrade /\ NoAlerts

ListMoves ==
  /\ part = "listing" /\ List!Next
  /\ UNCHANGED <<part, fleetVars, gapVars, diffVars, upgradeVars, alertVars, stack, commandVars>>
FleetMoves ==
  /\ part = "fleet" /\ Fleet!Next
  /\ UNCHANGED <<part, listVars, gapVars, diffVars, upgradeVars, alertVars, stack, commandVars>>
GapMoves ==
  /\ part = "gap" /\ Gap!Next
  /\ UNCHANGED <<part, listVars, fleetVars, diffVars, upgradeVars, alertVars, stack, commandVars>>
DiffMoves ==
  /\ part = "diff" /\ Diff!Next
  /\ UNCHANGED <<part, listVars, fleetVars, gapVars, upgradeVars, alertVars, stack, commandVars>>
UpgradeMoves ==
  /\ part = "upgrade" /\ Upgrade!Next
  /\ UNCHANGED <<part, listVars, fleetVars, gapVars, diffVars, alertVars, stack>>
AlertsMove ==
  /\ part = "alerts" /\ Rules!Next
  /\ UNCHANGED <<part, listVars, fleetVars, gapVars, diffVars, upgradeVars, stack, faults>>
DashMoves ==
  /\ part = "dashboards" /\ Dash!Next
  /\ UNCHANGED <<part, listVars, fleetVars, gapVars, diffVars, upgradeVars, alertVars>>

Next ==
  \/ ListMoves \/ FleetMoves
  \/ GapMoves \/ DiffMoves
  \/ UpgradeMoves \/ AlertsMove \/ DashMoves

Spec == Init /\ [][Next]_vars

-----------------------------------------------------------------------------
\* Listing: a list that moves under its reader is told whole, or not at all.
ListingsAreTrue == part = "listing" => List!ListingsAreTrue

\* FleetScan: the fan-out loses no stack, and t2 publishes only what covers them.
FleetIsCovered == part = "fleet" => Fleet!FleetIsCovered

\* GapState: stamps neither outlive their gap nor restart within it, and an age
\* is that of a gap in the payload beside it.
GapAgesAreTrue == [][part = "gap" => Gap!AgesTrue]_vars

\* EstateDiff: what is compared fits its label, what is refused has no pair.
BaselinesAreHonest == part = "diff" => Diff!BaselinesAreHonest

\* ManifestUpgrade: half an upgrade is announced by a journal that still fits.
UpgradeIsRecoverable == part = "upgrade" => Upgrade!UpgradeIsRecoverable

\* AlertRules: live rules are routed and single, and activations complete.
AlertsStayRouted == part = "alerts" => Rules!AlertsStayRouted

\* ManifestUpgrade, AlertRules and DashboardPublish: no recovery or rollback, and
\* no publication of a dashboard, replaces what somebody has changed unless it had
\* read it.  A publish of the rules may, and then puts back the pause and the
\* routing that it had listed, both together; no rule is brought back.
OperatorsDecide ==
  [][/\ part = "upgrade" => Upgrade!EditsKept
     /\ part = "alerts" => Rules!LiveStateKept
     /\ part = "dashboards" => Dash!NothingUnreadIsReplaced]_vars

\* DashboardPublish: what was called published is stored as it was built, and a
\* failure neither stops the rest nor is forgotten.
DashboardsAreIntact == part = "dashboards" => Dash!DashboardsAreIntact
=============================================================================
