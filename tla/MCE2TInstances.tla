---------------------------- MODULE MCE2TInstances ----------------------------
(* Small instances of E2TInstances for TLC. *)
EXTENDS E2TInstances, TLC

CONSTANTS e1, e2, r1, r2, h1, h2, w

\* the handlers and the RANs are interchangeable; the worker is not
Symmetric == Permutations({h1, h2}) \cup Permutations(Ran)

AllOps == AllKinds
LockedOps == AllKinds \ {"Shutdown"}
ProductionOps == AllKinds \ {"SetState"}
===============================================================================
