# A TLA+ model of rthas

rthas puts probes into instrumented Rust functions and lets an operator switch
them on, watch calls, sample stacks and record calls from a control socket
inside the running process; `rthas-ebpf` does the same from outside with
uprobes. This directory holds TLA+ modules translated from the source, the TLC
configurations that check them, and TLAPS proofs about them. Paths below are
relative to the repository.

## 1. Inventory

| part | source | state | operations | what is hard |
|---|---|---|---|---|
| probe registry | `rthas/src/probe.rs` | two flag bits per probe (enabled, capture stack) | `set_enabled`, `set_capture_stack`, `set_enabled_matching`, `disable_all`, `glob_match` | flags are separate atomics, written by many clients at once |
| probe scope | `agent.rs` `ProbeScope` | snapshot of the flags at entry | enter, restore on drop | overlapping commands restore in the wrong order |
| spans | `rthas/src/span.rs`, `rthas-macros` | thread-locals `CURRENT`, `DEPTH`; `NEXT_SPAN` | begin, finish, early drop | nesting, probes toggled mid-call, futures that move between threads |
| event ring | `rthas/src/event.rs` | bounded deque, counters | push, since, last_seq, snapshot, clear | eviction and `clear` against cursors |
| call forest | `rthas/src/tree.rs` | nodes, ready queue, parked orphans | add, take_ready, take, drain_roots | children before parents, missing parents, grace |
| streaming commands | `agent.rs` `cmd_trace`, `cmd_watch`, `cmd_stack`, `cmd_monitor`, `cmd_dashboard`, `cmd_tt_record` | cursor, printed count, deadline | the poll loops | stopping, restoring probes |
| agent life cycle | `agent.rs` `spawn`, `cmd_stop`, `spawn_lazy`, `init`; CLI `attach` | `STOP`, `LAZY_WATCHING`, socket path, trigger file | bind, accept, stop, watch, attach | stop against attach, the old listener's clean-up |
| connections | `agent.rs` `handle_client`, `dispatch` | `authed` flag, history | auth, dispatch, background refusal | order of the gates |
| background jobs | `rthas/src/jobs.rs`, `agent.rs` `spawn_background` | job table, stop flags | submit, kill, finish, `StopWrite` | kill against completion |
| time tunnel | `rthas/src/tunnel.rs` | bounded deque of fragments | record, get, delete, clear | eviction, delete then index |
| command history | `rthas/src/history.rs` | bounded deque | record, clear, snapshot | eviction |
| pipeline filters | `rthas/src/pipe.rs`, `rthas-ebpf/src/pipe.rs` | stages, grep context state | emit_line, finish | context windows and `-m` |
| CPU profiler | `rthas/src/profiler.rs` | session slot, wall-clock slots, signal handler | start, stop, one-shot, dump | two clients, signal handler installed and restored |
| thread dump | `rthas/src/thread_dump.rs` | `ACTIVE`, `NEXT`, slots, signal handler | capture | two dumps at once |
| sampling | `rthas/src/sample.rs`, `runtime.rs` | `/proc` readings | thread rows, meters | names with parentheses, threads born or gone between readings |
| base64, time | `rthas/src/base64.rs`, `time.rs` | none | encode, decode, civil dates | boundaries |
| CLI | `rthas-cli/src/main.rs` | none between runs | resolve a target, attach, stream a reply, scripts | races with the agent's socket file; replies cut anywhere |
| eBPF symbols, maps | `rthas-ebpf/src/{symbols,proc,glob}.rs` | the symbol table | load, mark, select | duplicates, objects mapped in pieces |
| eBPF server | `rthas-ebpf/src/{server,bpf,stats,tree}.rs` | attachment, samples, per-thread stacks | attach, detach, collect, stream | lost ring-buffer records, one client at a time |
| eBPF program | `rthas-ebpf-prog/src/main.rs` | kernel ring buffer | submit | full ring |

### How the parts interact

An instrumented call goes through **probe → span → ring**: one load of the
probe's flag, a `SpanGuard` that links it to the thread's current span, and on
its end a `push` into the event ring. Commands come in on **socket → accept
loop → one thread per connection → dispatch**. A streaming command takes a
`ProbeScope`, opens a cursor on the ring and polls it; `trace` and `stack` pass
what they read through a private call forest, `tt` into the shared time tunnel,
and a background job does the same on a thread of its own whose writes go
through `StopWrite`. `profiler` and `thread` leave this path: they install
signal handlers that fill static arrays. There are few locks, each around one
structure (ring, job table, tunnel, history, profiler slot); everything between
two structures, and everything on the flags, is open to interleaving. The CLI
shares only two files with the agent, the socket and the attach trigger.

### What would make each part correct

* **Ring**: it holds the newest events without a hole; a stream sees each event
  once, in order, and misses one only to eviction or `clear`.
* **Probe flags and scopes**: a command has its probes as it wants them while it
  runs and leaves them as it found them.
* **Spans**: parent and depth of an event are those of the call around it; each
  call of an enabled probe gives one event.
* **Forest and trace**: every event read is printed in exactly one tree, below
  its parent when the parent came in time; a command ends when told to.
* **Life cycle**: the path leads to an agent that answers; `stop` unbinds,
  `attach` binds, and nothing comes back that nobody asked for.
* **Jobs and tunnel**: a number means one call for good; a log agrees with the
  tunnel; `--count` holds; outcomes are final.
* **Profiler and thread dump**: the program's signal handling is given back; a
  snapshot is of its own session or dump.
* **Connections**: no command but the free ones before authentication, whatever
  it is wrapped in; a client takes for a reply what was written for its command.
* **Pure parts** (glob, filters, base64, tables, dates, symbol and thread tables,
  command lines, folded stacks, drawn trees): equal to a reference definition.
* **eBPF**: where the helper has the right addresses and no record was lost, its
  calls are the program's; every command takes its uprobes with it; a command with
  a time limit ends.

## 2. Modules and their correspondence to the code

Modules with state:

| module | models | abstraction |
|---|---|---|
| `Recorder` | `event.rs`: one action each for `push`, `clear`, and a stream's opening, `since` and end | the mutex makes each method a step; an event is its number and a payload |
| `EventLog` | the abstract specification of the ring: an append-only log with a rising floor | written against the promise, refined by `Recorder` |
| `ProbeScope` | `probe.rs` flag writes; `ProbeScope::enter` and `drop`, `on`, `off`, `reset` in `agent.rs` | one step per atomic operation on one bit of one probe |
| `Spans` | `span.rs` and what `#[rthas::trace]` expands to: `begin`, `finish`, drop, futures that park, move, are cancelled, `args()` that panics | a task is its stack of guards; names, times and return values are left out |
| `Forest` | `tree.rs`: `add` (with `promote_expired`, `ingest`, `adopt`), `take_ready`/`take`, `drain_roots` | a span is its number, smaller for a parent; a tree is the set of its spans; grace ends when `Age` says |
| `Trace` | the loop of `cmd_trace` and `cmd_stack`, extending `Forest` | an environment pushes events, passes the deadline, disconnects the client |
| `Lifecycle` | `spawn`, accept loop, `stop`, `spawn_lazy`, `init`; `cmd_attach_instrumented` in the CLI | a listener is its index; connections are the operator that made them |
| `Tunnel` | `tunnel.rs`: `record`, `delete`, `clear`, `list`, `get` | a fragment is its number and the call it was given to |
| `Jobs` | `jobs.rs`, `spawn_background`, the loop of `cmd_tt_record` through `StopWrite`, composing `Tunnel` | an event is its number and whether it matches |
| `Profiler` | `profiler.rs` sessions and its SIGALRM machinery; `cmd_profiler` | a stack is the session whose timer raised its signal; pprof is on or off |
| `Session` | `handle_client`, `dispatch` and its gates, `cmd_auth`, redirects, pipes, background, history; in the CLI `maybe_auth`, `cmd_script_file`, the shell, `stream_to_stdout`, `read_reply` | a line is its verb, argument and wrapping; one verb stands for each group that acts alike; a text is a line, `END` or another, or the beginning of one that lacks its newline |
| `ThreadDump` | `thread_dump.rs`: `capture` step by step, and `on_sigurg` with its three writes | a stack is a thread and its depth when looked at |
| `Ebpf` | `rthas-ebpf` (`server.rs`, `bpf.rs`, `tree.rs`) and the two probes of `rthas-ebpf-prog`, over a program that calls, returns and unwinds | a record carries the number of its call in place of a time; an address is where its object lies plus the symbol's |

Modules without state, which translate functions of the source into operators:

| module | models |
|---|---|
| `Glob` | `glob_match` of `rthas/src/probe.rs` and its copy in `rthas-ebpf/src/glob.rs` |
| `Filters`, `EbpfFilters` | `pipe.rs` of both crates: parsing, `grep`, `tee`, `wc`, the cutting of writes into lines, `finish` |
| `FiltersSpec` | the reference: `grep` and a pipeline on a whole text at once |
| `Stats` | aggregation, quantiles, `stats`, `top`, `monitor` of agent and helper; `civil_from_days` and zones of `time.rs` and of the helper |
| `StatsSpec` | the reference: nearest ranks, and a calendar that counts days |
| `Codec` | `base64.rs` |
| `Symbols` | `symbols.rs`: which functions of an ELF table are kept, `dedup_by`, load addresses, `on`, `off`, `list`, `select_ids` |
| `Threads` | `/proc` lines, thread rows and the `thread` command of agent and helper |
| `Lines` | `parse_job_line`, both `Args::parse`, the CLI's target flags in every spelling and place, target resolution, the scan of a file for the marker |
| `Folded` | folding, compacting and filtering of profiled stacks; the tree and the `top by self` rows of the text, `--n` and `--depth` included |
| `Render` | the bars of a printed call tree, in the agent and in the helper; stacks under `stack`, and the frames read from a native backtrace |
| `Algorithms` | composes all of these: a state is one input, each invariant is about the inputs of one kind |

`Trace` composes the loop with `Forest`, `Jobs` composes jobs with `Tunnel`,
`Ebpf` takes symbols from `Symbols` (with `Glob`); `Recorder` is shown to
implement `EventLog` and `Trace` to implement `ForestSpec`. The ring that
`Trace` and `Jobs` read is represented by what `Recorder` promises of it: events
in order, each once; that eviction may lose some is in `Trace` as spans that
never arrive.

Conventions. Variables carry the names of the statics and fields (`STOP`,
`LAZY_WATCHING`, `TABLE`, `SESSION`, `WALL_NEXT`, `SLOTS`, `buf`, `next_index`);
`pc`-like variables say where a thread is in a function; a group under "history"
in a module's `VARIABLES` records what happened and feeds no guard of the code.
Small operators named for one expression of the code (`Room`, `Enough`,
`Restored`, ...) stand next to a faulty variant of the same shape, used only to
confirm that a property notices the fault.

State and actions, module by module:

* **Recorder.** `buf`, `next_seq`, `dropped`, `recorded` are the fields behind
  the mutex. `Push` evicts first, as the code does, then numbers and appends;
  `Clear` empties the buffer and leaves the numbers. `cursor` is the local
  variable of a streaming loop: `last_seq()` at its opening, the largest number
  returned by `since` afterwards.
* **ProbeScope.** A command walks its scope by index, `half` separates the two
  operations on one probe. `saved` is the scope's vector of snapshots. Dropping
  the scope is a walk of its own (`Restore`), so two commands interleave
  anywhere, as two client threads do.
* **Spans.** `current` and `depth` are the thread-locals, `frames[k]` the guards
  of a task. `Begin` reads the thread-locals, then sets them; `DropGuard`
  restores what its guard saved, on whichever thread it runs (`Cancel` runs it
  elsewhere). `Leave` and `Resume` are an await. `owner` is history: whose
  calls the thread-locals of a thread stand for.
* **Forest, Trace.** `waiting`, `adopted`, `ready` are the three places a node
  can be. The loop's `pc` goes fetch → add → take → (flush, sleep) → fetch, and
  through tail to done; gone is an I/O error. `unsent` is the `BufWriter`, which
  decides whether a flush can notice that the client left.
* **Lifecycle.** `listener[k]` goes accepting → stopping → closed → dead: the
  break, `drop(listener)` and `remove_file` of the accept thread. The watcher's
  states are the lines of `spawn_lazy` and of the `spawn` it calls. An
  operator's states are the lines of `stop` and of the CLI's attach.
* **Tunnel, Jobs.** `session` walks through `submit` and `spawn_background`;
  `pc[j]` through the loop of `tt`. The job's end reads the stop flag in one
  step and calls `finish` in the next.
* **Profiler.** `lock` is held across the steps of `wall_start`, and free during
  those of `wall_stop`, as in the code. A signal goes pending → check → draw →
  write → done, which are the lines of `on_sigalrm`. The 5 ms sleep is taken to
  be long enough for the signals raised before it: that is its only timing
  assumption, `SleepEnds`.
* **Session.** `at[c]` walks the agent's thread through `handle_client`: read →
  gate → run → reply → read or closing. `up` and `down` are the two directions
  of the socket; the answer leaves in pieces of any size and the client's fresh
  `BufReader` takes what is there, so that anything behind `END` is lost with the
  reader. Behind a text of `Unended` (a file without a final newline, what `cls`
  prints) the next one goes on in the same line: `Followed` in a file, `EndLine` on
  the socket, where `END` then is no line of its own and the client waits on. A job is a record of what `spawn_background` hands its thread, its
  `authed` included, and runs at any later time.
* **ThreadDump.** `pc[d]` goes through `capture`: NEXT cleared, ACTIVE set, the
  handler installed, the own stack, the signals, the sleep and the copy, ACTIVE
  cleared, the handler restored. `hpc[t]` is a thread inside `capture_slot`: slot
  drawn, `tid` written, `ips` written. The sleep may end before anybody has
  answered. A dumper is not signalled in the middle of its own capture.
* **Ebpf.** `probes` are the uprobes and uretprobes in place, attached one by one
  while the program runs; a frame is `hooked` when its return will be reported.
  `submit` drops what does not fit into `ring`. A record names an address, `Ip`:
  where the object lies plus where the symbol is in it. What the helper believes
  the address to be is `Key`, from `load_bias_from_maps`; `ips` is the map `attach`
  fills with it, of symbols at one address the last. `TakeIn` passes over a record
  whose address is not in the map, as `ingest` and `cmd_stream` do. `pc` is the command of the one
  client: attach → (head) → loop → idle, or blind, a dashboard without probes.
  `due` is the deadline. `truth` and `seen` are history: the calls the helper has
  the right address of, as the program made them, and the calls as it paired them.
* **Algorithms.** Texts, recordings, tables, lines grow by one element a step, so
  every input up to the bound is a state; each kind has its field `about`.

## 3. Runs

| run | what it asks | bounds, and why they are enough |
|---|---|---|
| `recorder` | ring contents, accounting, streams, refinement of `EventLog`, delivery | capacity 2 and 4 events: the ring wraps twice over; two streams, so one can be overrun while the other is not |
| `scope` | scopes restore what they found when undisturbed, counts, nesting | two probes, a `trace`, a `stack --native`, an `on` and a `reset` with overlapping and disjoint scopes |
| `spans` | exact links where a thread stands for its task, one event per call, child before parent | two threads, two tasks, an async and a plain probe, four spans: two nested calls each, moved and cancelled |
| `trace` | conservation, placement, togetherness, nothing left behind, the deadline | three spans in every parent structure and arrival order, so chains of two adoptions and an orphan chain; `--count 2`, so the count falls inside a batch |
| `lifecycle` | path, reachability, stop and attach of patient operators, and the invariants of impatient ones | two operators, three listeners (two restarts), a backlog of two |
| `lifecycle_race` | violation, see below | four listeners |
| `jobs` | numbers, logs, counts, eviction, outcomes | two jobs, two sessions, three events of which up to three match, a tunnel of two: up to four records, so it evicts twice |
| `profiler` | the program left alone, running means sampling, snapshots, one stopper | two clients, two starts, three signals over two slots: the slots wrap, and each pair of commands overlaps |
| `session` | permission, replies, scripts | two clients, seven pairs of conversations chosen to disturb each other (jobs that outlive a permission, a `stop` under another's script, a refused secret, a payload holding `END`, files read and written by both, an answer whose last line is open), three files of which one lacks its last newline, a history of two lines |
| `dump` | stacks of a dump alone, the handler given back | one program thread and two dumpers over two slots, two dumps: slots left by the first are there in the second, a third capture overruns them, and the two may overlap |
| `ebpf` | calls, counts, reports, clean-up, time limits | one thread, three calls of depth two over three functions - two of the executable, one of them under two names, and one of a library whose code is not mapped from its beginning -, a ring of four records, two requests of ten kinds, at most two symbols attached of five, two samples kept: the ring fills, the cap is reached, calls begin before and between the probes |
| `algorithms` | each pure part against its reference | patterns of 5 characters over paths of 4; 5 lines in a `grep` with all contexts up to 2; 4 characters in each of two writes; 4 calls; 4 bytes; 3 entries a symbol table; 3 threads; 2 arguments with 2 target flags; 4 reads of a file; 3 samples, `--n` 0 and 2; 5 nodes; five years of days and both kinds of century |

Deadlock is checked except in `scope` (commands end and no new ones come),
`spans` (tasks end) and `algorithms` (an input stops growing). Symmetry is used
in `spans`, `jobs` and `profiler`, which have no liveness property.
`Lifecycle.Rest`, `Session.Quiet` and `Ebpf.Stopped` let a system that is done
stay so; they fire nowhere else.

The checked properties are conjunctions of named parts, each with its own comment
in the module; a module's type invariant is one of them.

| property | parts | what it says |
|---|---|---|
| `RingAndStreams` | `NewestWithoutHole`, `Accounting`, `NothingLostUnlessOverrun` | the ring is the newest part of what was pushed, and a stream misses only what was evicted or cleared unread |
| `NoReplay`, `EventuallySeen`, `ImplementsLog` | | a step never hands an event out twice; what stays in the ring reaches a polling stream; the ring is a log whose oldest part goes |
| `UndisturbedStreams` | `UndisturbedIsHot`, `UndisturbedRestores` | commands on other probes do no harm at any interleaving |
| `CountedAndNested` | `UndisturbedCounts`, `NestedScopesRestore` | reported counts are exact; commands on the same probes do no harm as long as they nest |
| `LinksHold` | `ParentIsOlder`, `LinksAreExact` | the recorded links; the conditions under which they are exact are the contents of `owner` |
| `EventsHold` | `EmittedOnce`, `SureChildFirst` | one event per call, a child's first where that is promised |
| `Placed` | `Conservation`, `ParentsInPlace` | a span is in one place, and parked only while its parent is missing |
| `TreesWhole`, `DeadlineEndsIt` | `KeptTogether`, `NothingLeftBehind` | what was put together stays together and is all printed in the end; `--seconds` ends the command |
| `PathHolds` | `NoDeadPath`, `AcceptingIsReachable` | the first of all operators, the second of patient ones |
| `StopAndAttach` | `ComesBackOnlyInvited`, `StopUnbinds`, `AttachWorks` | what `stop` and `attach` promise patient operators |
| `IndexIsForGood` | | a number of the tunnel means one call |
| `LogsHold` | `CountRespected`, `LogMatchesTunnel` | `--count` inside a batch, log against tunnel |
| `NothingUndone` | `EvictsOldestWhenFull`, `OutcomeIsFinal` | what no step may undo |
| `SessionsKeptApart` | `ProgramIsLeftAlone`, `RunningMeansSampling`, `SnapshotIsItsOwn`, `StoppedOnce` | all but the last hold while no wall-clock start overlaps a stop |
| `OnlyGranted` | | nothing runs without the permission it needs, behind `&`, `>`, `\|` or a flag |
| `RepliesHold`, `ScriptEnds` | `RepliesMatch` | an answer is taken for the command it answers, unless something written held `END` or lacked its newline; scripts end, unless an answer lacked its newline |
| `StacksHold` | `AloneShowsOwnStacks` | a dump alone shows stacks of this dump under their own thread |
| `HandlerComesBack` | | the application's SIGURG handler after dumps that kept apart |
| `ExactIfUndisturbed` | | no record lost, nothing unwound, no two attached symbols in one address: the helper's calls are the program's, with their nesting, of functions whose address it has right |
| `CountedIfNothingLost` | | of those functions, unwinding alone costs durations and nesting, never a count |
| `ReportsHold` | `ReportsCoverSeen` | reports cover what was seen, and nothing twice |
| `CommandTakesItsProbes`, `TimedEnds` | | clean-up on every way out of a command; a time limit gives the helper back |
| the thirteen of `Algorithms` | | each named for what it promises and commented there |

A patient operator begins nothing while an earlier attach or stop is under way.
Patience is more than one operator alone has: `stop` returns before the old
accept thread has removed the path, so that `stop` and then at once `attach` can
already lose the new agent's socket.

### Where the code and its documentation disagree

`lifecycle_race` shows one: a `stop` between the bind of a new agent and the
reset of `LAZY_WATCHING` arms no watcher, and the old accept thread may remove the
new agent's socket. `README.md:195` says `attach` restarts a stopped agent.

Four more are stated in the modules as the promise the code does not keep. They
are not among the runs; each fails under the configuration of its module once its
name is put there (the two of `Trace` with `MaxCount = 0`, the one of `ProbeScope`
with `PairKind` and `PairScope`):

* `ProbeScope!NeverLeftHot`: the second of two overlapping traces saves "on" from
  the first and restores it when both are over. `agent.rs:615` says a trace
  "never leaves probes hot by accident".
* `Trace!CtrlCEndsIt`: a client that leaves a quiet command is never noticed, and
  its probes stay on. The help text (`agent.rs:497`) says "until Ctrl-C".
* `Trace!GraceReleases`: a parked span is released by the next `add`, not by the
  grace window; in a quiet process it stays parked (`tree.rs:25-28`).
* `Profiler!HandlerOnlyWhileRunning`: `stop` empties the slot before it has
  disarmed the timer and put the old handler back. A start in between saves
  rthas's own handler as the one to restore; the first stop then disables the new
  session. "The handler is installed only while a session is running"
  (`profiler.rs:19-20`).

Others were met while modelling. The modules behave as the code does, and the
properties say under which conditions what remains is true:

* A stream does depend on the buffer depth when more than `capacity` events
  arrive between two polls (`event.rs:31-32` says it does not).
* The tree does not stay intact across every await (`site/docs/trace.md:20` says
  it does, the module doc of `span.rs` does not).
* Two thread dumps at once: the second resets `NEXT`, so two handlers share a
  slot (`thread_dump.rs:76` calls the index unique), the first to finish clears
  `ACTIVE` under the second, and restored in the wrong order rthas's handler
  stays. Hence `alone` and `overlapped`.
* Replies: `rthas -c " "` sends a blank line, which the agent passes over without
  an answer, so the CLI waits for ever; a payload that holds the line `END` shifts
  what follows on its connection, bytes behind it being lost with the reader; after
  `cat` of a file without a final newline, `base64 -d` of such a payload, or `cls`,
  `END` goes on in the last line, the CLI does not recognise it and waits, and a
  script with it (`agent.rs:140`, `1927`; `main.rs:915`);
  `quit > f` closes the connection while the client's loop goes on, since only
  `quit` alone ends it.
* Arguments: only one leading target flag is moved behind the command, and
  `--sock-dir=DIR` is moved but understood by `attach` alone: elsewhere it is sent to
  the agent as a word of the command and the default directory is searched;
  `help --pid 7 list` prints the CLI's own usage; a later word that is no
  number erases the pid of `attach`; the helper's `Args::parse` does not know
  which flags take no value (`thread --all 5`).
* Pipelines: a bar that no filter follows is part of the segment before it, even
  where that is a bare `wc`; `tee` has emptied its file when a later filter turns out not to
  parse.
* Tables: a thread born within the window counts as idle; the percentages of the
  profiler's text are of the total before compacting, and its "top by self" counts
  a name once for each place in the tree and stops after `--n` rows, so that its
  counts add up to the samples only if there are no more.
* The helper: after an exit without its enter, or an unwound recursion, durations
  are of the wrong call (`rthas-ebpf/src/tree.rs:14-15` speaks of dropping the
  unmatched enter only); `stats --count` above the sample buffer never ends
  without `--seconds` and never notices that its client left; a first line that
  cannot be written leaves the uprobes until the next attach; `dedup_by` compares
  neighbours in a table sorted by another key; a load address is taken from the
  executable mapping at offset 0 only, of any object of the same file name. An
  object whose code is mapped from a later offset, as linkers commonly lay out a
  position-independent executable, gets 0: its uprobes fire and every record of
  them is passed over without a word. Of attached symbols at one address every call
  is reported once for each, always under the last.

## 4. Fairness

* `Recorder.RecorderFairSpec`: a streaming loop polls again and again (`WF` of `Poll`);
  nobody has to push or to stop.
* `Trace.FairSpec`: the command's thread runs (`WF` of `Loop`); no span has to
  complete, no client to leave, no deadline to exist. The loop sleeps at most
  20 ms, so weak fairness of the whole loop is what the scheduler gives.
* `Lifecycle.FairSpec`: the accept threads, the watcher, and operators in the
  middle of a `stop` or an `attach` go on (`WF` each). Nobody has to begin
  anything. `TimesOut` has no fairness.
* `Session.SessionSpec`: every CLI process and every thread of the agent is
  scheduled (`WF` of `Cli(c)` and `Agent(c)`). Jobs need not run, nobody has to
  interrupt.
* `Ebpf.EbpfSpec`: the helper's one thread goes on attaching and writing its first
  line, time passes (`WF` of `Expire`), and the iteration after the deadline
  happens. Nothing is asked of the program, the client, or of iterations before
  the deadline.

The other modules have safety properties only.

## 5. Proofs

Every theorem is of the specification, for all values of the constants that
meet the named assumptions. `ConnectionProofs`, `SignalProofs` and `TraceProofs`
hold the proofs of two components each, which share no variable. The theorem that states a checked property is named
first; those of its parts are separate theorems where they need another
invariant.

| module | theorems | inductive invariant |
|---|---|---|
| `TraceProofs`, of `Recorder` | `RingAndStreams`, `NoReplay`, `ImplementsLog`; types, `NewestWithoutHole`, `Accounting`, `NothingLostUnlessOverrun` | `RingInv`: the checked invariants plus that the history is as long as the numbers handed out; `StreamInv` adds the streams. The refinement maps each step to a step of the log or a stutter |
| `ProbeScopeProofs` | `UndisturbedStreams`, from `UndisturbedIsHot` and `UndisturbedRestores`; `CountedAndNested` | `ScopeInv`: for an undisturbed command and each index of its scope, what the two flags are at every point of the three walks; for nesting, that what each scope on the stack saved of a probe is what the one below it made of it, down to the quiet probe below the first |
| `SpansProofs` | `LinksHold`, from `ParentIsOlder` and `LinksAreExact`; `EventsHold` | `SpanInv`: types and that guards lie strictly downwards; `LinkInv` adds that a thread owned by a task holds the link of its innermost guard; for the events, that no two guards have one span and that a sure parent is still open |
| `TraceProofs`, of `Forest` and `Trace` | `Placed`, from `Conservation` and `ParentsInPlace`, of the forest and of the command; `Trace` implements `ForestSpec`; `TreesWhole` | `Whole`: a span parked below a parent that came is one that came too late, a root waiting to be taken is one by its event or by the grace window, and while the command adds spans the parent of a call it has shown is known; that `drain_roots` leaves nothing follows from the least span that would be left. `ForestInv`: the two properties, types, and that a tree handed out holds its root; `LoopInv`: the queue and the batch are disjoint and without repeats, which makes every `AddNext` a legal `Add` |
| `JobsProofs` | `IndexIsForGood`, `NothingUndone`, `LogsHold` | `TunnelInv`: fragments carry numbers already given out, in order, each with the call the number was given to; `OwnerInv`: a session that submits has a number to itself whose thread has not begun, and only a thread that has not ended calls `finish`; for the logs, that what a job recorded is its log and, between `record` and `write`, the one row to come, all of events it has passed |
| `ConnectionProofs`, of `Lifecycle` | `PathHolds`; `ComesBackOnlyInvited` | `Orderly`: between patient operators at most one listener is not dead, one operator at most is under way, and from the trigger to the bind every listener is dead and the agent was asked for; one who probes finds an accepting listener, so nobody removes a path as stale |
| `ConnectionProofs`, of `Session` | `OnlyGranted`; `RepliesHold` | `IInv`: the agent's note of a permission is the client's right to it, a command about to run has passed the gate, and a job was given by one who may. `InStep`: unless a text written to it was `END` or lacked its newline, what the client has of the present reply, what is on the socket and what the thread has yet to write are, joined, the answer to the line sent last, and between two lines nothing is on the way |
| `SignalProofs`, of `ThreadDump` | `HandlerComesBack`; `StacksHold` | `HandlerInv`: of dumps that never overlapped one runs at a time, and it has saved the application's handler once its own is in place; for the stacks, that every slot filled since the dump began holds what its thread answered |
| `SignalProofs`, of `Profiler` | `SessionsKeptApart` | `ProfInv`: a profile is in one place, the lock goes with the one that starts, a profile not yet armed has raised nothing, and numbers drawn and signals astray are counted by their ticks. `SessionsApart`, while no start fell into a stop: timer, switch and handler are as far as the one wall-clock session, a handler at work is of its signals, and the numbers drawn are 1 to `WALL_NEXT`, each in its slot once its handler is through |
| `EbpfProofs` | `CommandTakesItsProbes`; `CountedIfNothingLost`, `ExactIfUndisturbed`; `ReportsHold` | `EbpfInv`: were the ring read now, the helper's forest would hold, on each thread, the frames of the program's stack that were probed when they began: exactly these, children included, if nothing was unwound (`Mirrors`), and otherwise as a subsequence with stale frames between (`Embeds`); this of the frames of functions it can name (`Shown`), while each address stands for one symbol (`OneName`), which needs that probes are those of what `attach` was given (`Handed`) and stay as long as a call waits for its uretprobe (`Placed`). `ReportInv` adds that the probes in place and those to come are, each once, of at most `MAX_ATTACH` symbols, that the newest of the newest is the newest of all, and that a dashboard keeps no call back between its frames |
| `AlgorithmsProofs` | `DatesCorrect`, `MarkerCorrect`, `Base64Correct`, `GlobCorrect`, `GrepCorrect`, from `EveryDayFollows`, `ScanFindsMarker` with `PsAnswersEach`, `BytesComeBack` with `DigitsComeBack`, `GlobMatches`, `GrepShows` with `PipelineGreps` | `InputShape`: of the inputs these speak of, the fields and their types, whatever the bounds. The rest is about the functions. The calendar goes by where a year of an era begins (`Begins`), which the four divisions of `civil_from_days` find. The scan goes read by read: not found yet, and what is carried is the end of all that was read (`EndOf`); found, and the marker is in it. Base64 goes group by group, with the place of each group in the whole (`Offsets`). A pattern fits a path when each of its characters can be given a place in it (`Fits`); its parts stand between its stars (`Laid`), and if what is left of a pattern fits somewhere further on (`Ahead`), it still does after the leftmost occurrence of its next part: so the search that never goes back misses nothing. A grep keeps, after each line, how many hits it has taken (`Counting`), how far behind the last of them is (`Context`) and what of the lines so far is shown, dropped for good or still kept back (`Windowed`): put together (`Reached`), they say at the end that the lines it shows are those the specification selects |

Why a strengthening is needed, in each case: the ring's invariant speaks of
numbers that only the history relates to events; a scope's restoration depends
on what it saved two walks earlier; a span's link depends on every guard below
it; a forest's placement depends on the trees already taken; a tunnel number
depends on every number before it; an outcome on who may still call `finish`; a
command that runs, on the gate it passed a step before and, as a job, long
before; a handler put back, on what was saved four steps earlier; a reply, on
every piece of it wherever it is; a call tree, on records that are still in the
ring; a stopped agent that stays away, on whoever asked two steps before; a
snapshot, on every handler that drew a number.

Data are reasoned about by the least number that would be wrong (`WFMin` of the
library, in the lemma `Least`), which needs no theorem with an operator
parameter: the recursive function of `Ebpf!Ingested`, which reads a batch record
by record, the chains of parents that `drain_roots` follows, and in
`AlgorithmsProofs` the folds and flattenings of the community modules, whose
recursive functions are first shown to exist (`FoldExists`, `FlattenJoins`).

Assumptions on constants are named in the module that declares them. Those that
carry weight are a ring, a tunnel and a history that hold at least one entry;
spans that are positive numbers; `DaysAreWhole`, that days are integers; `SessionAssumption`, that lines, paths and texts
are made of `Word`, whose content does not matter but for the words the program
says itself; `DumpAssumption` and `EbpfAssumption`, that bounds, counts and table lengths
are numbers. None limits how many clients, threads, jobs, probes or spans there
are.

Stating `StacksHold` for any number of dumps showed that the history variable
`answered` forgot a thread that answered between `ACTIVE` and the dump's own
stack; two dumps never reach such a state, three do. The variable was corrected,
the code is right.

Only model-checked: all liveness, which with `ENABLED` is out of the prover's
reach, and eight of the thirteen invariants of `Algorithms`. These are about folds
over records of many fields and of whole pipelines, sorting and the layout of
trees, each of which would need a theory of its own; their inputs are small and TLC takes all of them.

## 6. Not modelled, and what could follow

Not modelled: what only reads or lays out - Mach, memory, environment and most of
`/proc`, columns and number formats, the wording of replies, help texts - and
what a library does - decoding ELF, unwinding and symbolising. The agent's frame
loops (`monitor`, `dashboard`) are represented by their tables and by the helper's
loops; `attach --ebpf` by a helper that is there. The `#[rthas::trace]` macro is
modelled by what its expansion does at run time. Failures of `bind` and of thread
creation for an agent are left out, as are the examples, the site, the installer
and the build scripts.

What could follow, in order of use: a composition of `Session` with `Jobs`, so
that a kill goes through a connection; two threads in `Ebpf`, which needs either
a smaller ring or a much larger state space.

## 7. Running

    tlc -workers 2 -config recorder.cfg MCRecorder.tla
    tlapm TraceProofs.tla

and likewise `scope` with `MCProbeScope`, `spans` with `MCSpans`, `trace` with
`MCTrace`, `lifecycle` and `lifecycle_race` with `MCLifecycle`, `jobs` with
`MCJobs`, `profiler` with `MCProfiler`, `session` with `MCSession`, `dump` with
`MCThreadDump`, `ebpf` with `MCEbpf`, `algorithms` with `MCAlgorithms`. Each run
takes from seconds to about three minutes. `PROJECT.json` lists the runs, what each
definition translates, the faulty variants, the hazards and the theorems.
