-------------------------- MODULE ManifestUpgrade --------------------------
(***************************************************************************)
(* The consumer manifest and the Terraform file that pins the same          *)
(* revision (bin/consumer_manifest.py): `upgrade` replaces both under a     *)
(* journal, rolls both back when a write fails, and recovers what an        *)
(* earlier upgrade left; `regenerate` rewrites the manifest alone; the      *)
(* operator edits either file between commands.                             *)
(*                                                                          *)
(* One command runs at a time, and nobody edits while it does: the tool     *)
(* takes no lock.  A file is replaced in one step (os.replace) that is      *)
(* durable when atomic_write_text returns; a failure may come before the    *)
(* replacement or after it.                                                 *)
(***************************************************************************)
EXTENDS Naturals

CONSTANTS
    Revisions,    \* commits that may be pinned
    MaxEdits,     \* edits of the operator
    MaxFaults     \* failing writes and interrupted commands

Files == {"manifest", "terraform"}

\* A file: the revision that it pins, the operator's edits that it holds; of the manifest also
\* whether its digests match and whether keys that equal a default have been pruned.
Content == [rev : Revisions, edits : 0 .. MaxEdits, sealed : BOOLEAN, pruned : BOOLEAN]
Pair == [Files -> Content]
NoJournal == [there |-> FALSE]
Journals == {NoJournal} \cup [there : {TRUE}, original : Pair, target : Pair]

VARIABLES
    files,
    journal,
    cmd,       \* the command that runs: its step, its revision, and what it holds in memory
    edits,     \* edits made
    faults,    \* faults that have happened
    unguarded  \* ghost: a rollback has begun with its journal already removed

vars == <<files, journal, cmd, edits, faults, unguarded>>

Blank == [rev |-> CHOOSE r \in Revisions : TRUE, edits |-> 0, sealed |-> TRUE, pruned |-> FALSE]
BlankPair == [f \in Files |-> Blank]
NoCommand == [pc |-> "none", rev |-> Blank.rev, original |-> BlankPair, target |-> BlankPair, clean |-> TRUE]

Steps == {"none", "recover", "restore manifest", "restore terraform", "forget", "prepare", "journal",
          "terraform", "manifest", "unlink", "sync", "undo terraform", "undo manifest", "undo journal"}

TypeOK ==
    /\ files \in Pair
    /\ journal \in Journals
    /\ cmd \in [pc : Steps, rev : Revisions, original : Pair, target : Pair, clean : BOOLEAN]
    /\ edits \in 0 .. MaxEdits /\ faults \in 0 .. MaxFaults
    /\ unguarded \in BOOLEAN

Init ==
    /\ \E r \in Revisions : files = [f \in Files |-> [Blank EXCEPT !.rev = r]]
    /\ journal = NoJournal
    /\ cmd = NoCommand
    /\ edits = 0 /\ faults = 0
    /\ unguarded = FALSE

-----------------------------------------------------------------------------
(* The operator *)

\* A file is edited between commands; digests no longer match an edited manifest.
Edit(f) ==
    /\ cmd.pc = "none" /\ edits < MaxEdits
    /\ edits' = edits + 1
    /\ files' = [files EXCEPT ![f].edits = edits + 1, ![f].sealed = (f = "terraform")]
    /\ UNCHANGED <<journal, cmd, faults, unguarded>>

\* `regenerate` seals the manifest, and prunes it on request; an incomplete upgrade stops it.
Regenerate ==
    /\ cmd.pc = "none" /\ ~ journal.there
    /\ \E prune \in BOOLEAN :
        files' = [files EXCEPT !["manifest"].sealed = TRUE, !["manifest"].pruned = @ \/ prune]
    /\ UNCHANGED <<journal, cmd, edits, faults, unguarded>>

\* `upgrade` of a revision begins with what an earlier one has left.
Upgrade(r) ==
    /\ cmd.pc = "none"
    /\ cmd' = [NoCommand EXCEPT !.pc = IF journal.there THEN "recover" ELSE "prepare", !.rev = r]
    /\ UNCHANGED <<files, journal, edits, faults, unguarded>>

-----------------------------------------------------------------------------
(* Writes *)

End == cmd' = NoCommand
Goto(pc) == cmd' = [cmd EXCEPT !.pc = pc]
Fault == faults < MaxFaults /\ faults' = faults + 1

Put(f, content) == files' = [files EXCEPT ![f] = content]

\* The file is replaced and the command goes on.
Written(f, content, pc) ==
    /\ Put(f, content) /\ Goto(pc)
    /\ UNCHANGED <<journal, edits, faults, unguarded>>

\* The write fails, before the replacement or after it.
WriteFails(f, content) ==
    /\ Fault
    /\ files' = files \/ Put(f, content)
    /\ UNCHANGED <<journal, edits>>

-----------------------------------------------------------------------------
(* recover_incomplete_upgrade *)

\* A file that is neither the original nor the target was edited: the command refuses.
Recover ==
    /\ cmd.pc = "recover"
    /\ IF \A f \in Files : files[f] \in {journal.original[f], journal.target[f]}
       THEN Goto("restore manifest") ELSE End
    /\ UNCHANGED <<files, journal, edits, faults, unguarded>>

RestoreManifest ==
    /\ cmd.pc = "restore manifest"
    /\ \/ Written("manifest", journal.original["manifest"], "restore terraform")
       \/ WriteFails("manifest", journal.original["manifest"]) /\ End /\ UNCHANGED unguarded

RestoreTerraform ==
    /\ cmd.pc = "restore terraform"
    /\ \/ Written("terraform", journal.original["terraform"], "forget")
       \/ WriteFails("terraform", journal.original["terraform"]) /\ End /\ UNCHANGED unguarded

\* The journal goes; a failure comes before that or, of the directory's fsync, after.
Forget ==
    /\ cmd.pc = "forget"
    /\ \/ journal' = NoJournal /\ Goto("prepare") /\ UNCHANGED faults
       \/ Fault /\ journal' \in {journal, NoJournal} /\ End
    /\ UNCHANGED <<files, edits, unguarded>>

-----------------------------------------------------------------------------
(* command_upgrade *)

\* The manifest must be sealed; a check of the checkout, the remote or the target's defaults may
\* refuse too.  Both targets are computed from the files as they are.
Prepare ==
    /\ cmd.pc = "prepare"
    /\ \/ End
       \/ /\ files["manifest"].sealed
          /\ cmd' = [cmd EXCEPT !.pc = "journal", !.original = files,
                                !.target = [f \in Files |-> [files[f] EXCEPT !.rev = cmd.rev]]]
    /\ UNCHANGED <<files, journal, edits, faults, unguarded>>

OwnJournal == [there |-> TRUE, original |-> cmd.original, target |-> cmd.target]
Undo == Goto("undo terraform")

WriteJournal ==
    /\ cmd.pc = "journal"
    /\ \/ journal' = OwnJournal /\ Goto("terraform") /\ UNCHANGED faults
       \/ Fault /\ journal' \in {journal, OwnJournal} /\ Undo
    /\ UNCHANGED <<files, edits, unguarded>>

WriteTerraform ==
    /\ cmd.pc = "terraform"
    /\ \/ Written("terraform", cmd.target["terraform"], "manifest")
       \/ WriteFails("terraform", cmd.target["terraform"]) /\ Undo /\ UNCHANGED unguarded

WriteManifest ==
    /\ cmd.pc = "manifest"
    /\ \/ Written("manifest", cmd.target["manifest"], "unlink")
       \/ WriteFails("manifest", cmd.target["manifest"]) /\ Undo /\ UNCHANGED unguarded

Unlink ==
    /\ cmd.pc = "unlink"
    /\ \/ journal' = NoJournal /\ Goto("sync") /\ UNCHANGED faults
       \/ Fault /\ Undo /\ UNCHANGED journal
    /\ UNCHANGED <<files, edits, unguarded>>

\* The fsync after the unlink is the last thing that can fail, inside the same try.
Sync ==
    /\ cmd.pc = "sync"
    /\ \/ End /\ UNCHANGED <<faults, unguarded>>
       \/ Fault /\ Undo /\ unguarded' = TRUE
    /\ UNCHANGED <<files, journal, edits>>

\* The rollback tries both files, and keeps the journal unless both are restored.
UndoTerraform ==
    /\ cmd.pc = "undo terraform"
    /\ \/ Written("terraform", cmd.original["terraform"], "undo manifest")
       \/ /\ WriteFails("terraform", cmd.original["terraform"])
          /\ cmd' = [cmd EXCEPT !.pc = "undo manifest", !.clean = FALSE]
          /\ UNCHANGED unguarded

\* Mutant: a restore that failed does not keep the journal.
UndoManifestForgetful ==
    /\ cmd.pc = "undo manifest"
    /\ \/ Written("manifest", cmd.original["manifest"], "undo journal")
       \/ WriteFails("manifest", cmd.original["manifest"]) /\ Goto("undo journal") /\ UNCHANGED unguarded

UndoManifest ==
    /\ cmd.pc = "undo manifest"
    /\ \/ /\ Put("manifest", cmd.original["manifest"])
          /\ IF cmd.clean THEN Goto("undo journal") ELSE End
          /\ UNCHANGED <<journal, edits, faults, unguarded>>
       \/ WriteFails("manifest", cmd.original["manifest"]) /\ End /\ UNCHANGED unguarded

UndoJournal ==
    /\ cmd.pc = "undo journal"
    /\ \/ journal' = NoJournal /\ UNCHANGED faults
       \/ Fault /\ journal' \in {journal, NoJournal}
    /\ End
    /\ UNCHANGED <<files, edits, unguarded>>

\* The command is interrupted between two of its steps.
Die ==
    /\ cmd.pc # "none"
    /\ Fault /\ End
    /\ UNCHANGED <<files, journal, edits, unguarded>>

Next ==
    \/ \E f \in Files : Edit(f)
    \/ \E r \in Revisions : Upgrade(r)
    \/ Regenerate \/ Recover \/ RestoreManifest \/ RestoreTerraform \/ Forget \/ Prepare
    \/ WriteJournal \/ WriteTerraform \/ WriteManifest \/ Unlink \/ Sync
    \/ UndoTerraform \/ UndoManifest \/ UndoJournal \/ Die

Spec == Init /\ [][Next]_vars

-----------------------------------------------------------------------------
(* Properties *)

PairAgrees == files["manifest"].rev = files["terraform"].rev

\* Whenever no command runs and no journal says otherwise, both files pin the same revision, however
\* writes failed and commands were interrupted: half an upgrade is always announced by its journal,
\* except after a rollback that began with the journal gone.
HalfAnUpgradeIsJournalled ==
    (cmd.pc = "none" /\ ~ journal.there) => PairAgrees \/ unguarded

\* Neither file ever loses an edit of its operator: what recovery and rollback write back is never
\* older than what was there ("it refuses recovery if either file was independently edited",
\* consumer/MIGRATION-RUNBOOK.md:71).
EditsKept == \A f \in Files : files'[f].edits >= files[f].edits

\* As long as nobody has edited a file since, the journal knows both files, so that the next upgrade
\* can always recover what an interrupted one, an interrupted rollback or an interrupted recovery left.
JournalKnowsTheFiles ==
    journal.there => \A f \in Files :
        \/ files[f] \in {journal.original[f], journal.target[f]}
        \/ files[f].edits > journal.original[f].edits

\* Half an upgrade is always announced, by a journal that can be recovered from.
UpgradeIsRecoverable == TypeOK /\ HalfAnUpgradeIsJournalled /\ JournalKnowsTheFiles
=============================================================================
