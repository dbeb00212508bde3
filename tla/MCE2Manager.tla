----------------------------- MODULE MCE2Manager -----------------------------
(* Small instances of E2Manager for TLC. *)
EXTENDS E2Manager, TLC

CONSTANTS e1, e2, r1, r2, h1, h2, w

\* RANs, E2Ts and handlers are interchangeable; the worker is not
Symmetric == Permutations({h1, h2}) \cup Permutations(Ran) \cup Permutations(E2T)

\* bounds on the requests by the strongest overlap among them
FewerIfMoreOverlap == [o \in Overlaps |-> IF o \in {"none", "distinct"} THEN 6 ELSE 5]
FiveInAll == [o \in Overlaps |-> 5]
FourInAll == [o \in Overlaps |-> 4]
OneAtATime == [o \in Overlaps |-> IF o = "none" THEN 5 ELSE 0]
==============================================================================
