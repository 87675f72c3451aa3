---------------------------- MODULE MCThreadDump ----------------------------
\* Two connections that dump, and the threads of a program.
EXTENDS ThreadDump
CONSTANTS t1, d1, d2
MCTargets == {t1}
MCDumpers == {d1, d2}
MCWanted == {{t1}, {t1, d1}}
=============================================================================
