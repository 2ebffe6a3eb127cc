------------------------------ MODULE MCNodeBoot -------------------------------
(***************************************************************************)
(* Small instances of NodeBoot for TLC: the failures each run allows.      *)
(***************************************************************************)
EXTENDS NodeBootInv

\* Boot fails or dies at any step; the power stays on.
FailingBoots == {"detect", "snapshot", "kill", "record"}

\* ... and the power may go at any moment.
Crashes == FailingBoots \cup {"power"}

\* What makes Prune leave half-removed directories behind, and stops after it.
RemovalFaults == {"remove", "restore", "record", "power"}

\* Everything, but for a directory removed in part.
AllButRemove == FaultKinds \ {"remove"}
=============================================================================
