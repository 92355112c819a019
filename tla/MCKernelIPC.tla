---------------------------- MODULE MCKernelIPC ----------------------------
(***************************************************************************)
(* Instances of KernelIPC for TLC.                                         *)
(***************************************************************************)
EXTENDS KernelIPC, TLC

\* Writes of one byte and of one byte more than the pipe holds.  Which bytes
\* they are matters to the pipeline's data; the descriptor workload, where many
\* holders come and go, writes bytes that are all alike.
MCWrites == [pipe  |-> {<<0>>, <<0, 0, 0>>},
             kill  |-> {<<0>>, <<0, 0, 0>>},
             sem   |-> {},
             shell |-> {<<0>>, <<1, 0, 1>>}]

\* For a pipe of one byte.
MCLiveWrites == [pipe |-> {<<0, 0>>}, kill |-> {<<0, 0>>}, sem |-> {}, shell |-> {}]

\* Three tasks give a third party to every pair that waits for each other; two
\* threads of one process, or two processes, suffice to be killed in any order.
MCMaxTasks == [pipe |-> 3, kill |-> 2, sem |-> 3, shell |-> 2]

MCSymmetry == Permutations(UserTasks) \cup Permutations(Procs)
=============================================================================
