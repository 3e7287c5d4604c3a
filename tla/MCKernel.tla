------------------------------ MODULE MCKernel ------------------------------
(* Instance of Kernel for TLC: boot loaders that report no memory, none    *)
(* above 1 MB, one sector and ten.                                         *)
EXTENDS Kernel
MB == 1048576
MCWord == MB + 8192 * 19
MCMemories == {0} \cup {MB + 8192 * n : n \in {0, 1, 10}}
MCStub(v) == MB + 12288 + 16 * v
MCTssAddr == MB + 20480
MCKernelStackTop == MB + 16384
=============================================================================
