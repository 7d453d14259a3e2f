--------------------------- MODULE MCProfilerRing ---------------------------
(* The event ring for TLC: the counters of 32 bits become counters that wrap *)
(* at 16, and the behaviours start just below the wrap.                      *)
EXTENDS ProfilerRing, TLC

Symmetry == Permutations(Producers) \cup Permutations(Events)

=============================================================================
