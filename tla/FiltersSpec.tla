---------------------------- MODULE FiltersSpec -----------------------------
(***************************************************************************)
(* What the filters promise, stated without their state: a grep by the     *)
(* numbers of the lines it shows, a pipeline as a composition of functions *)
(* from lines to lines.                                                    *)
(***************************************************************************)
EXTENDS Filters

\* The lines a grep shows: the first max_count hits, the misses close enough
\* after the last hit taken, and those close enough before the next one.
Selected(g, lines) ==
  LET hits == {i \in 1..Len(lines) : GrepMatches(g, lines[i])}
      before(i) == Cardinality({j \in hits : j < i})
      taken == IF g.max_count = 0 THEN hits ELSE {i \in hits : before(i) < g.max_count}
      misses(a, b) == Cardinality((a..b) \ hits)
  IN  taken \cup {i \in (1..Len(lines)) \ hits :
                    \/ \E h \in taken : h < i /\ misses(h, i) <= g.after
                    \/ \E h \in taken : h > i /\ h - i <= g.before}

GrepBatch(g, lines) ==
  IF g.count_only
  THEN LET hits == Cardinality({i \in 1..Len(lines) : GrepMatches(g, lines[i])})
       IN  <<<<ToString(IF g.max_count = 0 \/ hits < g.max_count THEN hits ELSE g.max_count)>>>>
  ELSE LET chosen == Selected(g, lines)
       IN  FoldLeft(LAMBDA shown, i : IF i \in chosen THEN Append(shown, Format(g, i, lines[i])) ELSE shown,
                    <<>>, [i \in 1..Len(lines) |-> i])

\* All the lines through all the filters, one filter after the other.
Batch(stages, lines) ==
  FoldLeft(LAMBDA in, st : CASE st.kind = "grep" -> GrepBatch(st, in)
                             [] st.kind = "tee"  -> in
                             [] st.kind = "wc"   -> <<<<ToString(Len(in))>>>>,
           lines, stages)

\* A text as lines: what follows the last newline is a line if it is not empty.
TextLines(bytes) ==
  LET split == LinesOf(bytes)
  IN  split.lines \o (IF split.rest = <<>> THEN <<>> ELSE <<TrimReturns(split.rest)>>)

-----------------------------------------------------------------------------
TokX == Word(<<"x">>, -1)
Number(n) == Word(<<"9">>, n)

\* Both spellings of the same options; `-m 1` is `--max-count 1` and `-m1`.
ShortForm(o) ==
  <<Short(<<"m">>, o.m), TokX, Short(<<"B">>, -1), Number(o.b)>>
  \o <<Short(IF o.c THEN <<"v", "c", "A">> ELSE <<"v", "n", "A">>, o.a)>>
LongForm(o) ==
  <<Long("before-context"), Number(o.b), Long("invert-match"), Long("after-context"), Number(o.a),
    Long(IF o.c THEN "count" ELSE "line-number"), Long("max-count"), Number(o.m), Long(""), TokX>>

TokF == Word("f", -1)
TokGrep == Word("grep", -1)
Pipelines == {<<>>,
           <<<<TokGrep, TokX>>, <<Word("wc", -1)>>>>,
           <<<<TokGrep, Short(<<"c">>, -1), TokX>>, <<Word("tee", -1), TokF>>, <<Word("wc", -1)>>>>,
           <<<<Word("wc", -1)>>, <<TokGrep, Short(<<"v">>, -1), TokX>>>>,
           <<<<TokGrep, TokX, Short(<<"m">>, 1), Short(<<"i">>, -1)>>,
             <<Word("tee", -1), Short(<<"a">>, -1), TokF>>, <<TokGrep, Short(<<"v">>, -1), TokX>>>>}
=============================================================================
