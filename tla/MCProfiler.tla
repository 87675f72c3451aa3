----------------------------- MODULE MCProfiler -----------------------------
\* Model values for checking Profiler.
EXTENDS Profiler, TLC

CONSTANTS s1, s2

MCSessions == {s1, s2}

\* Sessions differ in nothing but their names.
Symmetry == Permutations(MCSessions)
=============================================================================
