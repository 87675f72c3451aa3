------------------------------ MODULE Filters -------------------------------
(***************************************************************************)
(* The filters of `<cmd> | grep P | tee F | wc`: rthas/src/pipe.rs.        *)
(*                                                                         *)
(* A character is a string of length one, a line a sequence of them, a     *)
(* spec the tokens of one segment between bars.  A token is                *)
(*   [dash |-> 0, text, num]       a word and the number it reads as        *)
(*   [dash |-> 1, text, num]       -text, num being a number glued to it    *)
(*   [dash |-> 2, text, num]       --text; text is a string here            *)
(* with num = -1 where no number can be read.                              *)
(***************************************************************************)
EXTENDS Integers, Sequences, SequencesExt, FiniteSetsExt, TLC

CONSTANT BadPaths  \* the paths `tee` cannot open

Word(text, num) == [dash |-> 0, text |-> text, num |-> num]
Short(letters, num) == [dash |-> 1, text |-> letters, num |-> num]
Long(name) == [dash |-> 2, text |-> name, num |-> -1]

\* s.contains(pattern); both are folded first when case is ignored.
Lower(s) == [i \in 1..Len(s) |-> IF s[i] = "X" THEN "x" ELSE s[i]]
Has(s, p) == \E i \in 0..(Len(s) - Len(p)) : SubSeq(s, i + 1, i + Len(p)) = p

-----------------------------------------------------------------------------
(* Splitting the line.                                                      *)

is_pipe_verb(segment) ==
  /\ segment # <<>>
  /\ segment[1].dash = 0
  /\ segment[1].text \in {"grep", "tee", "wc"}

\* The bar goes back between the two segments; the words it touches are one.
Glued(a, b) ==
  LET left == IF a = <<>> THEN Word("", -1) ELSE Last(a)
      right == IF b = <<>> THEN "" ELSE b[1].text
  IN  SubSeq(a, 1, Len(a) - 1) \o <<[left EXCEPT !.text = @ \o "|" \o right, !.num = -1]>>
      \o SubSeq(b, 2, Len(b))

\* split_pipeline over the segments of a line: the command and the stages.
split_pipeline(segments) ==
  FoldLeft(LAMBDA acc, part :
             IF is_pipe_verb(part) THEN [acc EXCEPT !.pipes = Append(@, part)]
             ELSE IF acc.pipes # <<>>
                  THEN [acc EXCEPT !.pipes[Len(acc.pipes)] = Glued(@, part)]
                  ELSE [acc EXCEPT !.cmd = Glued(@, part)],
           [cmd |-> segments[1], pipes |-> <<>>], Tail(segments))

-----------------------------------------------------------------------------
(* grep.  A wrong line is reported as [kind |-> "err"].                     *)

Failed == [kind |-> "err"]

Blank == [kind |-> "grep", pattern |-> <<>>, ignore_case |-> FALSE,
          invert |-> FALSE, line_number |-> FALSE, count_only |-> FALSE,
          max_count |-> 0, before |-> 0, after |-> 0,
          line_no |-> 0, hits |-> 0, pending_after |-> 0, before_buf |-> <<>>]

\* What the letters stand for.
LongName == [i |-> "ignore-case", v |-> "invert-match", n |-> "line-number", c |-> "count",
             m |-> "max-count", A |-> "after-context", B |-> "before-context", C |-> "context"]

Switch(g, name) ==
  CASE g = Failed               -> Failed
    [] name = "ignore-case"     -> [g EXCEPT !.ignore_case = TRUE]
    [] name = "invert-match"    -> [g EXCEPT !.invert = TRUE]
    [] name = "line-number"     -> [g EXCEPT !.line_number = TRUE]
    [] name = "count"           -> [g EXCEPT !.count_only = TRUE]
    [] OTHER                    -> Failed

Valued == {"max-count", "after-context", "before-context", "context"}

\* A value nobody can read is zero.
SetTo(g, name, num) ==
  LET v == IF num = -1 THEN 0 ELSE num
  IN  CASE name = "max-count"      -> [g EXCEPT !.max_count = v]
        [] name = "after-context"  -> [g EXCEPT !.after = v]
        [] name = "before-context" -> [g EXCEPT !.before = v]
        [] name = "context"        -> [g EXCEPT !.before = v, !.after = v]

\* The state of the parse: the grep so far, the option which takes the next
\* token as its value, and whether `--` was seen.  Letters are switches up to
\* one that takes a value: what is glued to it or, failing that, the next token.
Letters(acc, t) ==
  LET name == [i \in 1..Len(t.text) |-> IF t.text[i] \in DOMAIN LongName THEN LongName[t.text[i]] ELSE ""]
      cut == Min({Len(name) + 1} \cup {i \in 1..Len(name) : name[i] \in Valued})
      g == FoldLeft(Switch, acc.g, SubSeq(name, 1, cut - 1))
  IN  IF g = Failed \/ cut > Len(name) THEN [acc EXCEPT !.g = g]
      ELSE IF cut < Len(name) THEN [acc EXCEPT !.g = SetTo(g, name[cut], -1)]
      ELSE IF t.num # -1 THEN [acc EXCEPT !.g = SetTo(g, name[cut], t.num)]
      ELSE [acc EXCEPT !.g = g, !.want = name[cut]]

ParseToken(acc, t) ==
  CASE acc.g = Failed \/ acc.bar = "done" -> acc
    [] acc.want # ""                      -> [acc EXCEPT !.g = SetTo(@, acc.want, t.num), !.want = ""]
    [] acc.bar = "next"                   ->
         [acc EXCEPT !.bar = "done", !.g.pattern = IF @ = <<>> THEN t.text ELSE @]
    [] t.dash = 2 /\ t.text = ""          -> [acc EXCEPT !.bar = "next"]
    [] t.dash = 2 /\ t.text # ""          ->
         IF t.text \in Valued THEN [acc EXCEPT !.want = t.text]
         ELSE [acc EXCEPT !.g = Switch(@, t.text)]
    [] t.dash = 1                         -> Letters(acc, t)
    [] OTHER                              -> [acc EXCEPT !.g.pattern = IF @ = <<>> THEN t.text ELSE @]

GrepParse(tokens) ==
  LET acc == FoldLeft(ParseToken, [g |-> Blank, want |-> "", bar |-> "none"], tokens)
      g == IF acc.g # Failed /\ acc.want # "" THEN SetTo(acc.g, acc.want, -1) ELSE acc.g
  IN  IF g = Failed \/ g.pattern = <<>> THEN Failed ELSE g

\* pattern and line are characters; `--invert-match` turns the answer round.
GrepMatches(g, line) ==
  g.invert # IF g.ignore_case THEN Has(Lower(line), Lower(g.pattern))
             ELSE Has(line, g.pattern)

Format(g, n, line) == IF g.line_number THEN <<ToString(n), ":">> \o line ELSE line

Stopped(g) == g.max_count > 0 /\ g.hits >= g.max_count

\* Grep::feed: what the line becomes and the grep afterwards.
NextBefore(g, n, line, hit) ==
  IF hit THEN <<>>
  ELSE IF g.pending_after = 0 /\ g.before > 0 /\ ~g.count_only
       THEN LET b == Append(g.before_buf, <<n, line>>)
            IN  IF Len(b) > g.before THEN Tail(b) ELSE b
       ELSE g.before_buf

PendingKept(g, hit) ==
  IF g.pending_after > 0 THEN g.pending_after - 1 ELSE IF hit THEN g.after ELSE 0
NextPending(g, hit) ==
  IF hit THEN g.after ELSE IF g.pending_after > 0 THEN g.pending_after - 1 ELSE 0

FeedHit(g, line, hit) ==
  LET n == g.line_no + 1
      seen == [g EXCEPT !.line_no = n]
      shown == IF g.count_only THEN <<>>
               ELSE IF hit
               THEN [i \in 1..Len(g.before_buf) |->
                       Format(g, g.before_buf[i][1], g.before_buf[i][2])]
                    \o <<Format(g, n, line)>>
               ELSE IF g.pending_after > 0 THEN <<Format(g, n, line)>> ELSE <<>>
  IN  IF Stopped(g) /\ g.pending_after = 0 THEN <<g, <<>>>>
      ELSE IF Stopped(g) /\ hit THEN <<seen, <<>>>>
      ELSE <<[seen EXCEPT !.hits = @ + (IF hit THEN 1 ELSE 0),
                          !.pending_after = NextPending(g, hit),
                          !.before_buf = NextBefore(g, n, line, hit)], shown>>

GrepFeed(g, line) == FeedHit(g, line, GrepMatches(g, line))

GrepFinish(g) == IF g.count_only THEN <<<<ToString(g.hits)>>>> ELSE <<>>

-----------------------------------------------------------------------------
(* tee and the stages.                                                      *)

\* parse_tee: every token is an option or the path, the first of which counts.
TeeParse(tokens) ==
  LET isAppend(t) == (t.dash = 1 /\ t.text = <<"a">>) \/ (t.dash = 2 /\ t.text = "append")
      words == SelectSeq(tokens, LAMBDA t : t.dash = 0)
      flags == SelectSeq(tokens, LAMBDA t : t.dash > 0)
  IN  IF words = <<>> \/ \E i \in 1..Len(flags) : ~isAppend(flags[i]) THEN Failed
      ELSE [kind |-> "tee", path |-> words[1].text, append |-> flags # <<>>]

\* Stage::parse.  Opening a file without -a empties it there and then.
StageParse(spec) ==
  LET tee == TeeParse(Tail(spec))
  IN  CASE spec[1].text = "grep" -> GrepParse(Tail(spec))
        [] spec[1].text = "wc"   -> [kind |-> "wc", lines |-> 0]
        [] spec[1].text = "tee"  -> IF tee # Failed /\ tee.path \in BadPaths THEN Failed ELSE tee
        [] OTHER                 -> Failed

\* <<the stage afterwards, what it passes on, what it writes to its file>>
StageFeed(stage, line) ==
  CASE stage.kind = "grep" -> GrepFeed(stage, line) \o << <<>> >>
    [] stage.kind = "tee"  -> <<stage, <<line>>, <<line>> >>
    [] stage.kind = "wc"   -> <<[stage EXCEPT !.lines = @ + 1], <<>>, <<>> >>

StageFinish(stage) ==
  CASE stage.kind = "grep" -> GrepFinish(stage)
    [] stage.kind = "tee"  -> <<>>
    [] stage.kind = "wc"   -> <<<<ToString(stage.lines)>>>>

-----------------------------------------------------------------------------
(* The pipeline: [ok, inner, stages, buf, files], files being what each     *)
(* path holds.                                                              *)

\* Stages are parsed, and files opened, from left to right up to the first
\* that fails; the ones before it have already emptied their files.
WithStage(p, st) ==
  IF ~p.ok THEN p
  ELSE IF st = Failed THEN [p EXCEPT !.ok = FALSE]
  ELSE [p EXCEPT !.stages = Append(@, st),
                 !.files = IF st.kind = "tee" /\ ~st.append
                           THEN [@ EXCEPT ![st.path] = <<>>] ELSE @]

PipelineNew(specs, files) ==
  FoldLeft(LAMBDA p, spec : WithStage(p, StageParse(spec)),
           [ok |-> TRUE, inner |-> <<>>, stages |-> <<>>, buf |-> <<>>, files |-> files], specs)

\* What a stage adds when it is finished, fed with something or not.
ClosingUnfed(st, lines, last) == IF last /\ lines = <<>> THEN StageFinish(st) ELSE <<>>
Closing(st, lines, last) == IF last THEN StageFinish(st) ELSE <<>>

\* One stage takes the lines of the one before, and is finished if asked.
Given(a, r) == [st |-> r[1], out |-> a.out \o r[2], written |-> a.written \o r[3]]

Passed(acc, fed, lines, s, last) ==
  [acc EXCEPT !.stages[s] = fed.st,
              !.lines = fed.out \o Closing(fed.st, lines, last),
              !.files = IF fed.st.kind = "tee"
                        THEN [@ EXCEPT ![fed.st.path] = @ \o fed.written] ELSE @]

Through(acc, lines, s, last) ==
  Passed(acc,
         FoldLeft(LAMBDA a, l : Given(a, StageFeed(a.st, l)),
                  [st |-> acc.stages[s], out |-> <<>>, written |-> <<>>], lines),
         lines, s, last)

Emitted(p, acc) ==
  [p EXCEPT !.stages = acc.stages, !.files = acc.files, !.inner = @ \o acc.lines]

Cascade(p, lines, last) ==
  Emitted(p, FoldLeft(LAMBDA a, s : Through(a, a.lines, s, last),
                      [stages |-> p.stages, lines |-> lines, files |-> p.files],
                      [s \in 1..Len(p.stages) |-> s]))

emit_line(p, line) == Cascade(p, <<line>>, FALSE)

\* write: every line the buffer completes, without its newline and one return.
LinesOf(bytes) ==
  LET ends == SelectSeq([i \in 1..Len(bytes) |-> i], LAMBDA i : bytes[i] = "\n")
      Line(k) == SubSeq(bytes, (IF k = 1 THEN 0 ELSE ends[k - 1]) + 1, ends[k] - 1)
      Popped(l) == IF l # <<>> /\ Last(l) = "\r" THEN Front(l) ELSE l
  IN  [lines |-> [k \in 1..Len(ends) |-> Popped(Line(k))],
       rest |-> SubSeq(bytes, (IF ends = <<>> THEN 0 ELSE Last(ends)) + 1, Len(bytes))]

PipelineWrite(p, bytes) ==
  LET split == LinesOf(p.buf \o bytes)
  IN  FoldLeft(emit_line, [p EXCEPT !.buf = split.rest], split.lines)

TrimReturns(l) ==
  SubSeq(l, 1, Max({0} \cup {i \in 1..Len(l) : l[i] # "\r"}))

\* finish: the unfinished line, then every stage in turn; what a stage still
\* gives is fed to the next one before that one is finished.
PipelineFinish(p) ==
  Cascade(IF p.buf = <<>> THEN p ELSE emit_line([p EXCEPT !.buf = <<>>], TrimReturns(p.buf)),
          <<>>, TRUE)
=============================================================================
