--------------------------- MODULE MCDriverClients ---------------------------
(* Model values for the runs of DriverClients. *)
EXTENDS DriverClients, TLC

CONSTANTS p1, p2, h1, h2, h3, d1, d2

Symmetry == Permutations(Callers) \cup Permutations(Profiles) \cup Permutations(Drivers)
=============================================================================
