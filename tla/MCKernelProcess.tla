-------------------------- MODULE MCKernelProcess --------------------------
(***************************************************************************)
(* Instances of KernelProcess for TLC.                                     *)
(***************************************************************************)
EXTENDS KernelProcess, TLC

\* A parent with two threads and a child, or two parents of one; two threads
\* that get signals; a program of the shell and its child.
MCMaxTasks == [family |-> 3, signal |-> 2, shell |-> 2]

MCSymmetry == Permutations(UserTasks)
=============================================================================
