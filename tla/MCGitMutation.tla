--------------------------- MODULE MCGitMutation ---------------------------
(***************************************************************************)
(* Instances of GitMutation for TLC.                                       *)
(***************************************************************************)
EXTENDS GitMutation, TLC

\* From the last look to the call that relies on it: git_others leaves both out.
AmendWindow == {"verifyShared", "commit"}
ResetWindow == {"cas", "snapshot", "ref", "row", "reset"}

MCOutside ==
  ({"change"} \X ((StatusPoints \cup {"ref", "row", "footer", "shared", "rm", "verify"}) \ AmendWindow))
    \cup
  ({"restore"} \X ((StatusPoints \cup {"checkref"}) \ ResetWindow))

\* Between the compare-and-swap check and the look that the safety checkpoint takes, where
\* RollbackRespectsOthers fails.
MCOutsideOfReset == {<<"restore", "snapshot">>}

\* Between `git commit` and the look at what it did, where RecordsOwnCommit fails.
MCOutsideOfFinal == {<<"change", "final">>}

Interchangeable == Permutations(Op) \cup Permutations(Path) \cup Permutations(Content)
=============================================================================
