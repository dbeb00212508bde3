--------------------------- MODULE MCE2Termination ---------------------------
(* Small instances of E2Termination for TLC. *)
EXTENDS E2Termination, TLC

CONSTANTS c1, c2, n1, n2, listenFD, rmrListenFd

\* connections are interchangeable, and so are RANs
Symmetric == Permutations(Conn) \cup Permutations(Ran)

\* a run sees a dropped report or a crash, not both
OneFault == drops + crashes <= 1
==============================================================================
