----------------------------- MODULE Algorithms -----------------------------
(***************************************************************************)
(* The algorithms that keep no state between two calls, checked against    *)
(* what they promise.  A state is one input; each invariant is about the   *)
(* inputs of its own kind.  Texts grow a character at a time.              *)
(***************************************************************************)
EXTENDS EbpfFilters, FiltersSpec, StatsSpec, Symbols, Codec, Threads, Lines, Folded, Render

CONSTANTS
  MaxPattern, MaxPath,  \* characters of a pattern and of a path
  MaxLines,             \* lines fed to a grep
  MaxText,              \* characters of each of the two writes into a pipeline
  MaxEvents,            \* calls in a recording
  MaxBytes,             \* bytes encoded
  MaxSegments,          \* segments between the bars of a line
  MaxItems,             \* arguments of a command
  MaxChunks,            \* reads of a file
  MaxSamples,           \* samples of a profile
  MaxNodes,             \* calls in a tree
  MaxTrace,             \* lines of a native stack
  DayRanges             \* the days whose dates are checked, as <<first, last>>

\* Days are counted before the epoch as after it.
ASSUME DaysAreWhole == \A r \in DayRanges : r[1] \in Int /\ r[2] \in Int

VARIABLE input

\* Two tables of up to three functions; the last two share a demangled name, as
\* instances of a generic do once their hashes are gone.
Entry(k) == [mangled |-> <<CASE k = 1 -> "a" [] k = 2 -> "b" [] k = 3 -> "c">>,
             demangled |-> <<CASE k = 1 -> "y" [] k = 2 -> "x" [] k = 3 -> "x">>,
             vaddr |-> k, func |-> TRUE]
NameRank == <<"x">> :> 1 @@ <<"y">> :> 2
ElfTables == {[i \in 1..Len(s) |-> Entry(s[i])] : s \in {t \in BoundedSeq(1..3, 3) : IsInjective(t)}}

\* The directories of up to three threads, listed backwards, the second with
\* other clocks; the second thread is named as if a parenthesis closed the name
\* and a state and clocks followed, and may be gone when its line is read.
NameOf(id) == 3 - id
InName(id) == IF id = 2 THEN <<Close, Letter.Z, 9, 9, 9, 9, 9, 9, 9, 9, 9, 9, 99, 99>> ELSE <<Letter.S>>
StateOf(id) == IF id = 2 THEN Letter.R ELSE Letter.S
StatLine(id, clock) ==
  <<id>> \o InName(id) \o <<Close, StateOf(id), 1, 1, 0, -1, 64, 0, 0, 0, 0, 0, clock, clock, 0>>
Tasks(ids, clocks, lost) ==
  LET order == SetToSortSeq(ids, >)
  IN  <<[id |-> 0, name |-> 0, stat |-> <<>>]>>
      \o [k \in 1..Len(order) |->
            [id |-> order[k], name |-> NameOf(order[k]),
             stat |-> IF order[k] \in lost THEN <<>> ELSE StatLine(order[k], clocks[order[k]])]]

EdgeBytes == {0, 3, 15, 64, 192, 255}  \* at the edges of the digits they are cut into
\* What may stand between two bars of a line.
FirstSegments == {<<Word("list", -1)>>, <<TokGrep, Word("a", -1)>>}
Segments == {<<TokGrep, Word("a", -1)>>, <<Word("wc", -1)>>, <<Word("Err", -1)>>, <<>>}

\* The arguments of a command, each as the tokens that spell it; the flags a
\* command takes are none of the CLI's.
Positional(text) == [key |-> "", val |-> text, toks |-> <<Arg(text)>>]
Switched(key) == [key |-> key, val |-> "", toks |-> <<Option(key)>>]
Spaced(key, val) == [key |-> key, val |-> val, toks |-> <<Option(key), Arg(val)>>]
Joined(key, val) == [key |-> key, val |-> val, toks |-> <<OptionEq(key, val)>>]
Items == {Positional("a"), Positional("5"), Switched("all"), Spaced("n", "5"), Joined("n", "8"),
          Spaced("state", "r")}
LineEnds == [redirect : {<<>>, <<"f", FALSE>>, <<"f", TRUE>>}, amp : BOOLEAN]
Spell(items) == FlattenSeq([i \in 1..Len(items) |-> items[i].toks])

\* A command of each kind, and up to two target flags with the place where they
\* stand: 0 is in front of the command, k before its k-th argument.
Commands == {<<Arg("stats")>>, <<Arg("shell")>>, <<Arg("-f"), Arg("script")>>, <<Arg("-c"), Arg("line")>>,
             <<Arg("attach")>>}
TargetSpellings ==
  {Spaced("pid", "7"), Joined("pid", "7"), Spaced("pid", "a"), Spaced("sock", "s"), Joined("sock", "s"),
   Spaced("sock-dir", "d"), Joined("sock-dir", "d"), Spaced("password", "w"), Joined("password", "w")}
Placements ==
  {<<>>} \cup {<<[flag |-> f, at |-> i]>> : f \in TargetSpellings, i \in 0..(MaxItems + 1)}
  \cup {p \in {<<[flag |-> f, at |-> i], [flag |-> g, at |-> j]>> :
                  f, g \in TargetSpellings, i, j \in 0..(MaxItems + 1)} :
           p[1].flag.key # p[2].flag.key /\ (p[1].at > 0 \/ p[2].at > 0)}
CommandItems == {Positional("a"), Switched("all"), Spaced("n", "5")}
AttachItems == {Positional("7"), Switched("ebpf")}

Chunks == BoundedSeq({"a", "b"}, 3) \ {<<>>}
Captured == BoundedSeq({<<"a">>, <<"a", "#">>, <<"b", "a">>, <<"R">>, <<"P">>}, 2)
TraceLines ==
  {[kind |-> k, of |-> ""] : k \in {"note"}}
  \cup {[kind |-> "frame", of |-> o] : o \in {"rthas", "f"}}
  \cup {[kind |-> "at", of |-> o] : o \in {"p", "q"}}

GrepOptions == [m : 0..2, a : 0..2, b : 0..2, c : BOOLEAN]
Calls == [probe : 1..2, ok : BOOLEAN, dur : {1, 3}]

Init ==
  \/ input = [about |-> "glob", p |-> <<>>, s |-> <<>>]
  \/ \E o \in GrepOptions : input = [about |-> "grep", o |-> o, lines |-> <<>>]
  \/ \E specs \in Pipelines : input = [about |-> "pipeline", specs |-> specs, a |-> <<>>, b |-> <<>>]
  \/ \E e \in Calls : input = [about |-> "tables", events |-> <<e>>]
  \/ \E r \in DayRanges : input = [about |-> "date", z |-> r[1], last |-> r[2]]
  \/ input = [about |-> "bytes", data |-> <<>>]
  \/ \E a, b \in {0, 16, 63}, c \in {0, 4, 60, Pad}, d \in {0, 63, Pad} :
       input = [about |-> "digits", q |-> <<a, b, c, d>>]
  \/ \E syms, dynsyms \in ElfTables : input = [about |-> "elf", syms |-> syms, dynsyms |-> dynsyms]
  \/ \E ids, gone \in SUBSET (1..3), c \in [1..3 -> {0, 2}], d \in [1..3 -> {2, 3, 10}],
        lost \in {{}, {2}}, n \in 0..2 :
       input = [about |-> "threads", n |-> n, after |-> Tasks(ids, d, lost), before |-> Tasks(gone, c, {})]
  \/ \E s \in FirstSegments : input = [about |-> "bars", segments |-> <<s>>]
  \/ \E ends \in LineEnds : input = [about |-> "line", items |-> <<>>, ends |-> ends]
  \/ \E cmd \in Commands, placed \in Placements, alive \in {{"7"}, {"7", "8"}} :
       input = [about |-> "target", cmd |-> cmd, items |-> <<>>, placed |-> placed, alive |-> alive]
  \/ input = [about |-> "scan", chunks |-> <<>>]
  \/ input = [about |-> "profile", samples |-> <<>>]
  \/ \E depth \in 0..4 : input = [about |-> "tree", tree |-> <<0>>, depth |-> depth]
  \/ input = [about |-> "backtrace", lines |-> <<>>]

Grows(field, elements, max) ==
  /\ Len(input[field]) < max
  /\ \E e \in elements : input' = [input EXCEPT ![field] = Append(@, e)]

Next ==
  \/ input.about = "glob" /\ input.s = <<>> /\ Grows("p", {"a", "b", "*"}, MaxPattern)
  \/ input.about = "glob" /\ Grows("s", {"a", "b"}, MaxPath)
  \/ input.about = "grep" /\ Grows("lines", {<<"x">>, <<"y">>}, MaxLines)
  \/ input.about = "pipeline" /\ input.b = <<>> /\ Grows("a", {"x", "X", "\n", "\r"}, MaxText)
  \/ input.about = "pipeline" /\ Grows("b", {"x", "X", "\n", "\r"}, MaxText)
  \/ input.about = "tables" /\ Grows("events", Calls, MaxEvents)
  \/ input.about = "bytes" /\ Grows("data", EdgeBytes, MaxBytes)
  \/ input.about = "bars" /\ Grows("segments", Segments, MaxSegments)
  \/ input.about = "line" /\ Grows("items", Items, MaxItems)
  \/ input.about = "target" /\ input.cmd # <<Arg("attach")>> /\ Grows("items", CommandItems, MaxItems)
  \/ input.about = "target" /\ input.cmd = <<Arg("attach")>> /\ Grows("items", AttachItems, MaxItems)
  \/ input.about = "scan" /\ Grows("chunks", Chunks, MaxChunks)
  \/ input.about = "profile" /\ Grows("samples", Captured, MaxSamples)
  \/ input.about = "tree" /\ Grows("tree", 1..Len(input.tree), MaxNodes)
  \/ input.about = "backtrace" /\ Grows("lines", TraceLines, MaxTrace)
  \/ input.about = "date" /\ input.z < input.last /\ input' = [input EXCEPT !.z = @ + 1]

Spec == Init /\ [][Next]_input

-----------------------------------------------------------------------------
\* What the doc of glob_match promises, whatever the stars and however the
\* literals overlap.  The code decides it with the leftmost occurrence of each
\* literal and never goes back; the helper has a copy of it.
GlobIsGlob ==
  input.about = "glob" =>
    /\ GlobMatch(input.p, input.s) <=> GlobPromise(input.p, input.s)
    /\ EbpfGlobMatch(input.p, input.s) <=> GlobPromise(input.p, input.s)

\* However its options are spelled and in whatever order, a grep that is fed
\* line by line shows exactly the lines selected, each once and in order: the
\* context of one hit may overlap the next, hits beyond the maximal count cut
\* nothing and show nothing, and the lines numbered are the lines read.
GrepIsGrep ==
  input.about = "grep" =>
    \E g \in {GrepParse(ShortForm(input.o))} :
      LET p == [inner |-> <<>>, stages |-> <<g>>, buf |-> <<>>, files |-> <<>>]
      IN  /\ g = GrepParse(LongForm(input.o))
          /\ PipelineFinish(FoldLeft(emit_line, p, input.lines)).inner = GrepBatch(g, input.lines)
          /\ EbpfPipelineFinish(FoldLeft(EbpfEmitLine, p, input.lines)).inner = GrepBatch(g, input.lines)

\* What a pipeline of the given stages makes of a whole text: its output, and
\* its file after what it held before.
GivesTheWhole(stages, done, text, before) ==
  LET tees == {i \in 1..Len(stages) : stages[i].kind = "tee"}
  IN  /\ done.inner = Batch(stages, text)
      /\ done.files["f"] =
           IF tees = {} THEN before
           ELSE LET t == CHOOSE i \in tees : TRUE
                IN  (IF stages[t].append THEN before ELSE <<>>)
                    \o Batch(SubSeq(stages, 1, t - 1), text)

\* A pipeline gives what its filters give one after the other on the whole
\* text, however the text was cut into writes, though each filter only sees
\* what has come so far and gives its total only at the end; its file holds
\* the lines that went past it, after the old ones or instead of them.  A bar
\* that no filter follows is part of what stands before it: nothing of the
\* line is lost, and there are as many filters as there were filter names.
PipelineIsComposition ==
  /\ input.about = "pipeline" =>
       LET old == [f \in {"f"} |-> <<<<"o">>>>]
       IN  \E p \in {PipelineNew(input.specs, old)} :
           \E done \in {PipelineFinish(PipelineWrite(PipelineWrite(p, input.a), input.b))} :
             /\ GivesTheWhole(p.stages, done, TextLines(input.a \o input.b), old["f"])
             /\ done = EbpfPipelineFinish(EbpfPipelineWrite(
                         EbpfPipelineWrite(EbpfPipelineNew(input.specs, old), input.a), input.b))
  /\ input.about = "bars" =>
       LET split == split_pipeline(input.segments)
           Joint(words) == FoldLeft(LAMBDA text, t : text \o t.text, "", words)
           Barred(segments) == FoldLeft(LAMBDA text, seg : text \o "|" \o Joint(seg), "", segments)
       IN  /\ Barred(<<split.cmd>> \o split.pipes) = Barred(input.segments)
           /\ Len(split.pipes) = Len(SelectSeq(Tail(input.segments), is_pipe_verb))
           /\ split = EbpfSplitPipeline(input.segments)

\* Nothing is lost or counted twice between the commands that read the same
\* recording: stats accounts for every call that matches, its quantiles are
\* nearest ranks and ordered, monitor splits the same calls into successes and
\* failures, and a row top leaves out is not heavier than one it shows.
TablesAgree ==
  input.about = "tables" =>
    LET events == input.events
        aggs == AggregateEvents(events, 1..2)
        stats == Rows(aggs)
        mon == AgentMonitor(events, 1..2)
    IN  /\ Sum([k \in 1..Len(stats) |-> stats[k].count]) = Len(events)
        /\ Sum([k \in 1..Len(mon) |-> mon[k].success + mon[k].fail]) = Len(events)
        /\ Sum([k \in 1..Len(mon) |-> mon[k].fail]) = Len(SelectSeq(events, LAMBDA e : ~e.ok))
        /\ Sum([k \in 1..Len(stats) |-> stats[k].total]) = Sum([i \in 1..Len(events) |-> events[i].dur])
        /\ \A k \in 1..Len(stats) :
             LET r == stats[k] IN
             /\ QuantileIsNearest(aggs[k].durs, r.p50, 50)
             /\ QuantileIsNearest(aggs[k].durs, r.p95, 95)
             /\ r.p50 <= r.p95 /\ r.p95 <= r.p99 /\ r.p99 <= r.max
        /\ \A by \in {"max", "count", "total"} :
             LET top == cmd_top(events, 1..2, 1, by)
             IN  \A k \in 1..Len(top), j \in 1..Len(aggs) : top[k][by] >= aggs[j][by]

\* Each day is followed by the next one of the calendar, over leap years, the
\* 29th of February 2000 and the missing one of 2100; the epoch is
\* 1970-01-01 and a zone moves the date at midnight.
DatesAreCalendar ==
  input.about = "date" =>
    /\ CivilFromDays(input.z + 1) = NextDay(CivilFromDays(input.z))
    /\ CivilFromDays(0) = [year |-> 1970, month |-> 1, day |-> 1]
    /\ EbpfCivilFromDays(input.z) = CivilFromDays(input.z)
    /\ input.z < 20000 =>
         FormatDatetime(86400 * input.z + 86399, 1).date = FormatUtc(86400 * (input.z + 1)).date

\* What is encoded comes back byte for byte at every length; and what decodes
\* is written back as it was read if its padding is where an encoder puts it.
Base64RoundTrip ==
  /\ input.about = "bytes" => Decode(Encode(input.data)) = [ok |-> TRUE, data |-> input.data]
  /\ input.about = "digits" =>
       LET b == input.q[2]
           c == input.q[3]
           d == input.q[4]
       IN  (c = Pad => d = Pad /\ b % 16 = 0) /\ (d = Pad /\ c # Pad => c % 4 = 0)
             => Encode(Decode(input.q).data) = input.q

\* A function that stands in both tables of its object is attached once, so a
\* call of it is one call: whatever the order of the tables, no symbol is
\* loaded twice and none is lost, as long as no two functions demangle to the
\* same name.  Only neighbours are compared, and the sort is by another key.
\* An object mapped in pieces is loaded once, at the address of its first
\* byte (as long as no other has its name), one that cannot be read costs nothing but itself, and what `on` marks
\* and a command attaches to is among what `list` shows.
EachFunctionOnce ==
  input.about = "elf" =>
    LET o == <<"lib", "o">>
        loaded == parse_elf(o, input.syms, input.dynsyms, NameRank)
        all == ToSet(input.syms) \cup ToSet(input.dynsyms)
        Map(file, start, offset, exec) == [file |-> file, start |-> start, offset |-> offset, exec |-> exec]
        maps == <<Map(o, 10, 0, FALSE), Map(<<>>, 15, 0, TRUE), Map(<<"lib", "p">>, 20, 0, TRUE),
                  Map(o, 30, 5, TRUE), Map(o, 40, 0, TRUE), Map(o, 50, 0, TRUE)>>
        symbols == load_process_symbols(maps, [f \in {o} |-> <<input.syms, input.dynsyms>>], NameRank)
    IN  /\ {s.mangled : s \in ToSet(loaded)} = {e.mangled : e \in all}
        /\ (\A e, f \in all : e.demangled = f.demangled => e = f) => Len(loaded) = Cardinality(all)
        /\ symbols = loaded
        /\ \A s \in ToSet(symbols) : RuntimeIp(s, maps) = 40 + s.vaddr
        /\ \A p \in {<<>>, <<"a">>, <<"x">>} :
             /\ set_enabled(symbols, {}, p, TRUE) \subseteq cmd_list(symbols, p)
             /\ ToSet(select_ids(symbols, p, 2)) \subseteq set_enabled(symbols, {}, p, TRUE)

\* The threads that `thread -n` leaves out have not run more in the window than
\* those it shows; a thread born in the window, whose first clock nobody read,
\* counts as idle and one that has gone is not shown, whatever its neighbours.
\* Each row says of its own thread what it is called and does, whatever words
\* its name is made of, and the helper reads and shows the same.
BusiestThreadsShown ==
  input.about = "threads" =>
    LET before == raw_threads(input.before)
        after == raw_threads(input.after)
        rows == thread_rows(before, after, 20)
        a == [tid |-> 0, n |-> input.n, given_n |-> TRUE, stack |-> FALSE, by |-> "", state |-> ""]
        top == cmd_thread(rows, a)
        entries == {e \in ToSet(input.after) : e.id # 0}
        Lost(e) == e.stat = <<>>
        Ran(e) == LET b == SelectSeq(input.before, LAMBDA u : u.id = e.id)
                  IN  IF b = <<>> \/ Lost(e) THEN 0 ELSE 2 * (e.stat[Len(e.stat) - 1] - b[1].stat[Len(b[1].stat) - 1])
    IN  /\ Len(top) = IF input.n = 0 \/ input.n > Cardinality(entries) THEN Cardinality(entries) ELSE input.n
        /\ \A r \in ToSet(top) : \E e \in entries :
             /\ r.id = e.id /\ r.name = e.name
             /\ r.state = IF Lost(e) THEN "unknown" ELSE IF e.id = 2 THEN "running" ELSE "sleeping"
             /\ \A u \in entries : Ran(u) <= Ran(e) \/ u.id \in {q.id : q \in ToSet(top)}
        /\ input.n > 0 =>
             EbpfCmdThread(task_rows(read_tasks(input.before), read_tasks(input.after), 20), a) = top

\* A command reaches its handler with the arguments it was given, in any order
\* and spelling, and what wraps it (`&` and a file) is taken off before.  The
\* helper, which does not know that some flags take no value, agrees as long as
\* no word follows one of them.
LineIsUnderstood ==
  input.about = "line" =>
    LET cmd == <<Arg("thread")>> \o Spell(input.items)
        file == input.ends.redirect
        line == cmd \o (IF file = <<>> THEN <<>>
                        ELSE <<Arg(IF file[2] THEN ">>" ELSE ">"), Arg(file[1])>>)
                    \o (IF input.ends.amp THEN <<Arg("&")>> ELSE <<>>)
        args == ArgsParse(cmd)
        given == SelectSeq(input.items, LAMBDA i : i.key # "")
        GivenValue(key) == Last(SelectSeq(given, LAMBDA i : i.key = key)).val
        swallows == \E i \in 1..(Len(input.items) - 1) :
                      input.items[i].key = "all" /\ input.items[i + 1].key = ""
    IN  /\ parse_job_line(line) = [cmd |-> cmd, redirect |-> file, background |-> input.ends.amp]
        /\ args.pos = <<"thread">> \o [i \in 1..(Len(input.items) - Len(given)) |->
                                      SelectSeq(input.items, LAMBDA j : j.key = "")[i].val]
        /\ DOMAIN args.flags = {i.key : i \in ToSet(given)}
        /\ \A key \in DOMAIN args.flags : args.flags[key] = GivenValue(key)
        /\ (EbpfArgsParse(cmd) = args) <=> ~swallows

\* Wherever the flags that name a process stand, the command goes to the same
\* agent with the same words and password as with the flags at its end, spelled
\* with a space: only one of them may stand in front of the command.  So it is
\* of every spelling but --sock-dir=DIR, which only `attach` knows: elsewhere it
\* says nothing of the directory, and a command for an agent takes it along as
\* one of its words.  A process that has died is not taken for the one agent
\* there is.
TargetAnywhere ==
  input.about = "target" =>
    LET world == [sock_dir |-> None, sock |-> None, alive |-> input.alive,
                  sockets |-> ("/tmp" :> {"7", "8"}) @@ ("d" :> {"8"})]
        FlagsAt(i) == LET here == SelectSeq(input.placed, LAMBDA p : Min({p.at, Len(input.items) + 1}) = i)
                      IN  Spell([k \in 1..Len(here) |-> here[k].flag])
        Item(i) == FlagsAt(i) \o input.items[i].toks
        line == FlagsAt(0) \o input.cmd
                \o FlattenSeq([i \in 1..Len(input.items) |-> Item(i)]) \o FlagsAt(Len(input.items) + 1)
        keys == [k \in 1..Len(input.placed) |-> input.placed[k].flag.key]
        known == input.cmd = <<Arg("attach")>> => ToSet(keys) \subseteq {"sock-dir"}
        Deaf(p) == p.flag = Joined("sock-dir", "d") /\ input.cmd # <<Arg("attach")>>
        flags == FlattenSeq([k \in 1..Len(input.placed) |->
                               LET f == input.placed[k].flag
                               IN  IF Deaf(input.placed[k]) THEN <<>> ELSE <<Option(f.key), Arg(f.val)>>])
        plain == main(input.cmd \o Spell(input.items) \o flags, world)
        end == Len(input.items) + 1
        WordsAt(i) == LET here == SelectSeq(input.placed, LAMBDA p :
                                    Deaf(p) /\ i = IF p.at = 0 THEN end ELSE Min({p.at, end}))
                      IN  Spell([k \in 1..Len(here) |-> here[k].flag])
        said == FlattenSeq([i \in 1..Len(input.items) |-> WordsAt(i) \o input.items[i].toks]) \o WordsAt(end)
    IN  known =>
          /\ IF input.cmd = <<Arg("stats")>>
             THEN main(line, world) = [plain EXCEPT !.line = input.cmd \o said]
             ELSE main(line, world) = plain
          /\ input.cmd = <<Arg("attach")>> =>
               main(line, world) =
                 IF \E i \in ToSet(input.items) : i.val = "7"
                 THEN [does |-> "attach",
                       with |-> [ok |-> TRUE, pid |-> "7", dir |-> IF keys = <<>> THEN None ELSE "d",
                                 ebpf |-> Switched("ebpf") \in ToSet(input.items)]]
                 ELSE Fails
          /\ keys = <<>> /\ input.cmd = <<Arg("stats")>> /\ Cardinality(input.alive) = 1 =>
               main(line, world).to = <<"/tmp", CHOOSE pid \in input.alive : TRUE>>

\* Whatever the reads of a binary return, its marker is found iff it is there,
\* though at no time more than one read and the end of the last are kept; and
\* `ps` answers for each process with its own binary, though it reads each once.
MarkerFound ==
  input.about = "scan" =>
    LET marker == <<"a", "b", "a">>
        There(chunks) ==
          LET text == FlattenSeq(chunks) IN \E i \in 1..Len(text) : IsPrefix(marker, SubSeq(text, i, Len(text)))
        files == [f \in {"x", "y"} |-> IF f = "x" THEN input.chunks ELSE Reverse(input.chunks)]
        processes == <<[name |-> "n", binary |-> "y"], [name |-> "m", binary |-> None],
                       [name |-> "m", binary |-> "x"], [name |-> "n", binary |-> "x"],
                       [name |-> "n", binary |-> "gone"], [name |-> "m", binary |-> "y"]>>
        Row(p) == <<p.name, p.binary \in DOMAIN files /\ There(files[p.binary])>>
    IN  /\ file_contains(input.chunks, marker) <=> There(input.chunks)
        /\ \A name \in {"", "n", "m"} :
             LET RowOf(p) == IF name = "" \/ p.name = name THEN <<Row(p)>> ELSE <<>>
             IN  cmd_ps(processes, name, files, marker).rows
                   = FlattenSeq([k \in 1..Len(processes) |-> RowOf(processes[k])])

\* The reports account for every sample once: what the tree shows at its top is
\* all it was given, and the shares of a row's children do not exceed its own.
\* The functions shown under `top by self` (--n of them, one at least) are those
\* in which the most samples were taken, no sample in two rows and each row with
\* all the samples that ended in it; what the list leaves out has no more than
\* its last row, so it adds up to all the samples only where --n does not cut it.
\* The flame graph of a filtered profile counts the samples its text counts.
ProfileAccounts ==
  input.about = "profile" =>
    LET cpu == [i \in 1..Len(input.samples) |-> [ips |-> input.samples[i], n |-> i]]
    IN  \A snap \in {from_wall(input.samples), from_report(cpu)} :
          /\ Total(render_collapsed(snap)) = render_text(snap, 0, 1, FALSE).total
          /\ \A compact \in BOOLEAN, top_n \in {0, 2} :
               LET text == render_text(snap, 1, top_n, compact)
                   Level(k) == {r \in text.rows : Len(r.path) = k}
                   ends == {e.stack : e \in text.stacks}
                   endRow == [s \in ends |-> [n |-> Total({e \in text.stacks : e.stack = s}), name |-> Last(s)]]
                   last == Last(text.hot).n
               IN  /\ Total(Level(1)) = Total(text.stacks)
                   /\ Total(text.stacks) <= text.total /\ text.total <= snap.raw
                   /\ \A r \in Level(1) : Total({q \in Level(2) : IsPrefix(r.path, q.path)}) <= r.n
                   /\ Len(text.hot) = Min({Max({top_n, 1}), Cardinality(ends)})
                   /\ \A k \in 1..(Len(text.hot) - 1) : text.hot[k].n >= text.hot[k + 1].n
                   /\ text.hot # <<>> => \A r \in {endRow[s] : s \in ends} \cup ToSet(text.hot) :
                        LET shown == Cardinality({k \in DOMAIN text.hot : text.hot[k] = r})
                            all == Cardinality({s \in ends : endRow[s] = r})
                        IN  shown <= all /\ (r.n > last => shown = all) /\ (r.n < last => shown = 0)
          /\ \A p \in {<<"a">>, <<"b", "*">>, <<"R">>} :
               LET part == filter_snapshot(snap, {p}, {<<"b", "a">>} \ {p})
               IN  Total(flamegraph(part).lines) = render_text(part, 0, 1, FALSE).total

\* A drawn tree can be read back: its rows are the calls above the depth, each
\* once and under its parent, and a bar goes on at a level exactly where one
\* more call of that level is still to come.  The helper draws the same rows.
\* A native stack loses no frame of the program's and gives each its place.
TreeReadable ==
  /\ input.about = "tree" =>
       LET tree == input.tree
           ids == 1..Len(tree)
           path[k \in ids] == IF k = 1 THEN <<1>> ELSE Append(path[tree[k]], k)
           Before(j, k) ==
             \/ IsStrictPrefix(path[j], path[k])
             \/ \E l \in 1..Len(path[j]) : /\ l <= Len(path[k]) /\ path[j][l] < path[k][l]
                                          /\ SubSeq(path[j], 1, l - 1) = SubSeq(path[k], 1, l - 1)
           above == {k \in ids : k = 1 \/ ~Deeper(Len(path[k]) - 1, input.depth)}
           rows == render(tree, input.depth)
           LastChild(k) == \A j \in ids : j > k => tree[j] # tree[k]
       IN  /\ {rows[i].id : i \in 1..Len(rows)} = above /\ Len(rows) = Cardinality(above)
           /\ \A i \in 1..Len(rows) :
                LET r == rows[i] IN
                /\ \A j \in 1..(i - 1) : Before(rows[j].id, r.id)
                /\ r.level = Len(path[r.id]) - 1
                /\ r.id # 1 => /\ r.bars = [l \in 1..(r.level - 1) |-> ~LastChild(path[r.id][l + 1])]
                               /\ r.last = LastChild(r.id)
           /\ input.depth \in 1..MAX_DEPTH =>
                render_into(tree, 1, 0, input.depth) =
                  [i \in 1..Len(rows) |-> [id |-> rows[i].id, level |-> rows[i].level]]
           /\ \A marked \in SUBSET ids :
                LET stacks == render_stacks(tree, 1, marked)
                IN  /\ ToSet(stacks) = marked /\ Len(stacks) = Cardinality(marked)
                    /\ \A i \in 1..Len(stacks), j \in 1..Len(stacks) : i < j => Before(stacks[i], stacks[j])
                    /\ tree_contains(tree, 1, marked) <=> marked # {}
  /\ input.about = "backtrace" =>
       LET named == {i \in 1..Len(input.lines) : input.lines[i].kind = "frame"}
           own == {i \in named : input.lines[i].of = "rthas"}
           wanted == {i \in named : \A o \in own : o < i}
           PlaceOf(i) == LET at == {j \in 1..Len(input.lines) :
                                      /\ j > i /\ input.lines[j].kind = "at"
                                      /\ \A f \in named : f > i => j < f}
                         IN  IF at = {} THEN "" ELSE input.lines[Min(at)].of
           frames == parse_frames(input.lines)
       IN  /\ Len(frames) = Cardinality(wanted)
           /\ \A i \in wanted :
                frames[Cardinality({j \in wanted : j <= i})] =
                  [symbol |-> input.lines[i].of, location |-> PlaceOf(i)]
=============================================================================
