-------------------------- MODULE MCBridgeService --------------------------
(***************************************************************************)
(* Instances of BridgeService for TLC.  Sessions are numbered, so that the *)
(* first two can belong to one identity and the third to another.          *)
(***************************************************************************)
EXTENDS BridgeService, TLC

MCIdentityOf == [s \in Session |-> IF s <= 2 THEN "alice" ELSE "bob"]

\* Replay identities are interchangeable, and so are projects.
Interchangeable == Permutations(Op) \cup Permutations(Project)
=============================================================================
