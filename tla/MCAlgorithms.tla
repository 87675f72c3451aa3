---------------------------- MODULE MCAlgorithms ----------------------------
\* The algorithms over every short input, and the days around the centuries.
EXTENDS Algorithms

\* 1970 to 1974, the end of February 2000 and that of 2100.
MCDayRanges == {<<0, 1500>>, <<10900, 11100>>, <<47400, 47600>>}
=============================================================================
