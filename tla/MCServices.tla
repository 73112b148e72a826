----------------------------- MODULE MCServices -----------------------------
(***************************************************************************)
(* An instance of ServiceLifecycle for TLC: process ids are interchangeable.*)
(***************************************************************************)
EXTENDS ServiceLifecycle, TLC

Interchangeable == Permutations(Pid)
=============================================================================
