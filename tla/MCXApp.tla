------------------------------- MODULE MCXApp -------------------------------
(* A small instance of XApp for TLC. *)
EXTENDS XApp, TLC

CONSTANTS g1, g2, p1, p2, meid

\* two agents next to at most one request; next to two requests a gNB that
\* answers, any number of times
TwoAgents == [n \in 0..MaxList |-> IF n < 2 THEN 2 ELSE 0]
OneAnswerer == [n \in 0..MaxList |-> IF n < 2 THEN 0 ELSE 1]
=============================================================================
