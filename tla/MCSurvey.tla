------------------------------ MODULE MCSurvey ------------------------------
(* Survey for TLC: what there is for each of its parts to find.                 *)
EXTENDS Survey, TLC

CONSTANTS a1, a2, o1, o2, t1, t4, v1

-----------------------------------------------------------------------------
\* What two people ask of one stack, an anonymous one, one whom no request names,
\* and a neighbour in the same region; two dashboards that they open.
Request(stack, source, user, type, panel) ==
  [stack |-> stack, kind |-> "request", source |-> source, user |-> user,
   type |-> type, panel |-> panel, board |-> ""]
Look(stack, user, board) ==
  [stack |-> stack, kind |-> "view", source |-> "", user |-> user,
   type |-> "", panel |-> "", board |-> board]
MCLog ==
  [named    |-> Request("own", "dashboard", "u1", "prometheus", "p1"),
   plugin   |-> Request("own", "plugin", "u1", "loki", ""),
   second   |-> Request("own", "plugin", "u2", "loki", ""),
   unnamed  |-> Request("own", "", "", "prometheus", "p1"),
   public   |-> Request("own", "dashboard", "-1", "", ""),
   abroad   |-> Request("neighbour", "explore", "u3", "tempo", "p2"),
   first    |-> Look("own", "u1", "d1"),
   other    |-> Look("own", "u2", "d2"),
   foreign  |-> Look("neighbour", "u3", "d2")]

\* A signal that is judged on four fifths of its rules, and one on too few.
MCUsers == {2, 4, 10}
MCCounts == {0, 2, 40}
MCWeights ==
  {[applicable |-> 5, evaluated |-> 4, passed |-> 1], [applicable |-> 10, evaluated |-> 7, passed |-> 7]}

-----------------------------------------------------------------------------
\* Three labels under a bound on the rows and values, on the names and keys, and
\* under bounds that leave all of them.
MCBounds ==
  {[names |-> 4, rows |-> 2, keys |-> 3, values |-> 3],
   [names |-> 3, rows |-> 3, keys |-> 2, values |-> 4],
   [names |-> 4, rows |-> 4, keys |-> 4, values |-> 4]}

\* Two stacks, and on the first of them every kind of object.
MCStack == <<"s1", "s2">>
MCHoldings == {<<>>, <<"plain">>, <<"plain", "blank">>, <<"keyed">>, <<"other", "secret">>, <<"scalar">>}

-----------------------------------------------------------------------------
Symmetry == Permutations(Attempt) \cup Permutations(Observing)
=============================================================================
