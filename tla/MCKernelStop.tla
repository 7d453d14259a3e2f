---------------------------- MODULE MCKernelStop ----------------------------
(* Instances of KernelStop for TLC. *)
EXTENDS KernelStop

CONSTANTS a1, a2, a3, b1, b2, A, B

(* Two threads and a late third of process A, two threads of process B. *)
MCProcOf == [t \in Threads |-> IF t \in {b1, b2} THEN B ELSE A]

=============================================================================
