-------------------------- MODULE SnapshotPromise --------------------------
(***************************************************************************)
(* What the project registry promises to those who ask it for a project:   *)
(* they see one whole, valid configuration that the file has held since    *)
(* the Bridge read it for the first time, and a project's root changes     *)
(* only by way of a configuration without the project.  Nothing here says  *)
(* how a change of the file is noticed.                                    *)
(***************************************************************************)
CONSTANTS
  Project, Unregistered,
  Valid      \* the valid configurations: the root, if any, of each project

VARIABLES
  served,    \* the configuration in use; {} while there is no Bridge
  offered    \* valid configurations the file has held in this Bridge's life

\* No project that both know has another root.
SameRoots(c, d) ==
  \A p \in Project : c[p] = d[p] \/ Unregistered \in {c[p], d[p]}

PromiseInit == served = {} /\ offered = {}

\* A Bridge starts with what it read, although more may have been offered since.
Begin ==
  /\ served = {}
  /\ \E c \in Valid : served' = {c} /\ offered' = {c}

Offer ==
  /\ served # {}
  /\ \E c \in Valid : offered' = offered \cup {c}
  /\ UNCHANGED served

Serve ==
  /\ \E c \in served, d \in offered : SameRoots(c, d) /\ served' = {d}
  /\ UNCHANGED offered

End == served # {} /\ served' = {} /\ offered' = {}

PromiseNext == Begin \/ Offer \/ Serve \/ End
Promise == PromiseInit /\ [][PromiseNext]_<<served, offered>>
=============================================================================
