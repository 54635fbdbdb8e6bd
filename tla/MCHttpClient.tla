---------------------------- MODULE MCHttpClient ----------------------------
(* Instances of HttpClient for TLC.                                           *)
EXTENDS HttpClient

CONSTANTS c1, s1, s2, gcom, stack

\* A plain call and an oversized one of a paced host, an oversized one of another.
MCHostOf == [c \in Caller |-> IF c = s2 THEN stack ELSE gcom]
=============================================================================
