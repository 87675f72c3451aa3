------------------------------- MODULE MCTrace ------------------------------
\* Values for checking Trace.
EXTENDS Trace

MCSpans == 1..3
MCPicked == {1, 3}
=============================================================================
