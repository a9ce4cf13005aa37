------------------------------ MODULE MCEmail ------------------------------
(* The subscriptions on a small instance: see README.md for the bounds. *)
EXTENDS EmailSubscriptions, TLC

Interchangeable == Permutations(Handlers) \cup Permutations(Choices)
=============================================================================
