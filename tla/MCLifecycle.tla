----------------------------- MODULE MCLifecycle ----------------------------
\* Model values for checking Lifecycle.
EXTENDS Lifecycle

CONSTANTS o1, o2

MCOperators == {o1, o2}
=============================================================================
