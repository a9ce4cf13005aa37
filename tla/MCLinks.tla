------------------------------ MODULE MCLinks ------------------------------
(* The links on a small instance: see README.md for the bounds. *)
EXTENDS TelegramLinks, TLC

Interchangeable == Permutations(Handlers) \cup Permutations(Chats)
=============================================================================
