----------------------------- MODULE MCStorage -----------------------------
(* Rooms and a user whose storages have the same number, and two nicks     *)
(* that are as good as each other.                                         *)
EXTENDS Storage, TLC

Symmetry == Permutations(Nick)
=============================================================================
