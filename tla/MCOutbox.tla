------------------------------ MODULE MCOutbox ------------------------------
(* Instances of Outbox for TLC. *)
EXTENDS Outbox, TLC

\* Live workers are interchangeable, and so are API requests.
Symmetry == Permutations(Workers \ DryRunWorkers) \cup Permutations(Requests)
=============================================================================
