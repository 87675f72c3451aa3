----------------------------- MODULE MCRecorder -----------------------------
\* Model values for checking Recorder.
EXTENDS Recorder

CONSTANTS r1, r2, a, b

MCReaders == {r1, r2}
MCPayloads == {a, b}
=============================================================================
