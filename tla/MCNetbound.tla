----------------------------- MODULE MCNetbound -----------------------------
(* An instance of Netbound for TLC: a caller that comes back while what it    *)
(* abandoned still runs, so that slots run out with as few callers as workers.*)
EXTENDS Netbound

CONSTANTS c1, c2, w1, w2

MCCaller == {c1, c2}
MCWorker == {w1, w2}
=============================================================================
