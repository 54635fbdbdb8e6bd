---------------------------- MODULE MCScanLock ----------------------------
(* An instance of ScanLock for TLC: three tasks of one tier, with deadlines   *)
(* of one clock unit.                                                        *)
EXTENDS ScanLock, TLC

CONSTANTS r1, r2, r3

MCRun == {r1, r2, r3}
MCBypass == {r3}
MCDeadline == [r \in MCRun |-> 1]
\* r2's clock is ahead of the others by one unit.
MCSkew == [r \in MCRun |-> IF r = r2 THEN 1 ELSE 0]
=============================================================================
