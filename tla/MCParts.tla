------------------------------ MODULE MCParts ------------------------------
(* The parts of Parts with constants.                                          *)
EXTENDS Parts, TLC

CONSTANTS s1, s2, s3, p1, p2

-----------------------------------------------------------------------------
\* A weekly and a daily window over five units of time.
MCWindows == <<"weekly", "daily">>
MCLeast == [weekly |-> 2, daily |-> 1]
MCTarget == [weekly |-> 3, daily |-> 2]
MCMost == [weekly |-> 4, daily |-> 3]

\* Two commands that publish different builds of two dashboards.
MCNames == <<"cost", "risk">>
MCBuild == [c1 |-> "new", c2 |-> "old"]

-----------------------------------------------------------------------------
\* Three stacks, two threads, and four sources of t2: with stack_detail one of each
\* population and with each kind of share.
MCSlugs == {s1, s2, s3}
MCThreads == {p1, p2}
MCPopulation ==
  [synthetic_inventory |-> "sourced", loki_volume |-> "producer",
   label_inventory |-> "live", capability_adoption |-> "org"]
MCOrigins == DOMAIN MCPopulation
MCShares ==
  [synthetic_inventory |-> <<1, 3>>, loki_volume |-> <<1, 3>>, label_inventory |-> <<1, 2>>,
   capability_adoption |-> <<1, 3>>, stack_detail |-> <<1, 3>>]

\* Two pages of two rows, and more rows than that.
MCId == 1 .. 4
MCRegions == <<"us", "eu">>

Symmetry == Permutations({p1, p2})
=============================================================================
