------------------------------ MODULE MCSpans -------------------------------
\* Two tasks on two threads; f is an async function, g is not.
EXTENDS Spans, TLC

CONSTANTS t1, t2, a, b, f, g

\* Neither threads nor tasks are told apart.
Permuted == Permutations(Threads) \union Permutations(Tasks)
=============================================================================
