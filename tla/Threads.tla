------------------------------ MODULE Threads -------------------------------
(***************************************************************************)
(* The table of `thread`: rthas/src/sample.rs and agent.rs for the agent,  *)
(* proc.rs and server.rs for the helper, which reads the same /proc.       *)
(*                                                                         *)
(* A line of /proc/<pid>/task/<tid>/stat is a sequence of its words: a     *)
(* number is itself, a letter minus its code, and Close the parenthesis    *)
(* after the thread's name, which may hold any words itself.  A reading is *)
(* a sequence of [id, name, state, ticks]; a row has the part of the       *)
(* window the thread has run, in percent, in place of its ticks.  Names    *)
(* are numbered in their order.                                            *)
(***************************************************************************)
EXTENDS Integers, Sequences, SequencesExt, FiniteSetsExt

Close == -41
Letter == [R |-> -82, S |-> -83, D |-> -68, T |-> -84, Z |-> -90]
Dash == -45

\* Fields are counted from the last parenthesis of the line.
parse_stat_cpu(stat) ==
  LET after == SubSeq(stat, Max({0} \cup {i \in 1..Len(stat) : stat[i] = Close}) + 1, Len(stat))
      Field(k) == IF k <= Len(after) /\ after[k] >= 0 THEN after[k] ELSE 0
  IN  IF \A i \in 1..Len(stat) : stat[i] # Close THEN [state |-> Dash, ticks |-> 0]
      ELSE [state |-> IF after = <<>> THEN Dash ELSE after[1], ticks |-> Field(12) + Field(13)]

\* The agent's copy, parse_thread_stat.
parse_thread_stat(stat) == parse_stat_cpu(stat)

\* An entry of the directory is [id, name, stat]: id 0 where its name is no
\* number, and an empty line where it could not be read any more.
ReadingOf(entries, Parse(_)) ==
  LET tasks == SelectSeq(entries, LAMBDA e : e.id # 0)
      order == SetToSortSeq(1..Len(tasks), LAMBDA i, j : tasks[i].id < tasks[j].id)
  IN  [k \in 1..Len(tasks) |->
         LET e == tasks[order[k]]
         IN  [id |-> e.id, name |-> e.name, state |-> Parse(e.stat).state, ticks |-> Parse(e.stat).ticks]]

raw_threads(entries) == ReadingOf(entries, parse_thread_stat)
read_tasks(entries) == ReadingOf(entries, parse_stat_cpu)

state_name(state) ==
  CASE state = Letter.R -> "running"
    [] state = Letter.S -> "sleeping"
    [] state = Letter.D -> "disk"
    [] state = Letter.T -> "stopped"
    [] state = Letter.Z -> "zombie"
    [] OTHER     -> "unknown"
EbpfStateName(state) == state_name(state)

Clamp(n, top) == IF n < 0 THEN 0 ELSE IF n > top THEN top ELSE n

\* What one thread has used between two readings; one that is new is as if it
\* had begun the window with the clock it has at the end.
UsedSinceBirth(before, t) ==
  LET prior == {i \in 1..Len(before) : before[i].id = t.id}
  IN  t.ticks - (IF prior = {} THEN 0 ELSE before[Max(prior)].ticks)
Used(before, t) ==
  LET prior == {i \in 1..Len(before) : before[i].id = t.id}
  IN  IF prior = {} THEN 0 ELSE Clamp(t.ticks - before[Max(prior)].ticks, t.ticks)

\* thread_rows: a thread that has gone by the second reading is not reported.
thread_rows(before, after, wall) ==
  [k \in 1..Len(after) |->
     [id |-> after[k].id, name |-> after[k].name, state |-> state_name(after[k].state),
      cpu |-> Clamp((100 * Used(before, after[k])) \div wall, 100)]]

\* task_rows of the helper: a window of length zero counts as one.
task_rows(before, after, wall) == thread_rows(before, after, IF wall = 0 THEN 1 ELSE wall)

\* Both spell a state in several ways; one they do not know stands for itself.
normalize_thread_state(s) ==
  CASE s \in {"r", "running", "runnable"}                          -> "running"
    [] s \in {"s", "sleeping", "waiting", "timed_waiting"}         -> "sleeping"
    [] s \in {"d", "disk", "blocked", "uninterruptible"}           -> "disk"
    [] s \in {"t", "stopped"}                                      -> "stopped"
    [] s \in {"z", "zombie", "terminated"}                         -> "zombie"
    [] OTHER                                                       -> ""

state_matches(want, have) ==
  \/ want = ""
  \/ have = IF normalize_thread_state(want) = "" THEN want ELSE normalize_thread_state(want)

\* A stable sort by what the command names, by id for any other name.
SortedBy(rows, by) ==
  LET Key(r) == CASE by = "cpu" -> -r.cpu [] by = "name" -> r.name [] OTHER -> r.id
      order == SetToSortSeq(1..Len(rows),
                 LAMBDA i, j : \/ Key(rows[i]) < Key(rows[j])
                               \/ Key(rows[i]) = Key(rows[j]) /\ i < j)
  IN  [k \in 1..Len(rows) |-> rows[order[k]]]

\* The rows a command shows: tid is 0 without one, by is "" without --by, and
\* n cuts the table only when no thread is named.
Shown(rows, a, by) ==
  LET sorted == SortedBy(rows, by)
      kept == SelectSeq(sorted, LAMBDA r : (a.tid # 0 => r.id = a.tid) /\ state_matches(a.state, r.state))
  IN  IF a.tid = 0 /\ a.n > 0 THEN SubSeq(kept, 1, Clamp(a.n, Len(kept))) ELSE kept

\* The agent sorts by cpu whenever it is to show stacks (--stack, --all, -n or
\* a thread), the helper only for a limit or a thread: it has no stacks.
cmd_thread(rows, a) ==
  Shown(rows, a, IF a.by # "" THEN a.by
                 ELSE IF a.stack \/ a.given_n \/ a.tid # 0 THEN "cpu" ELSE "tid")
EbpfCmdThread(rows, a) ==
  Shown(rows, a, IF a.by # "" THEN a.by ELSE IF a.n > 0 \/ a.tid # 0 THEN "cpu" ELSE "tid")
=============================================================================
