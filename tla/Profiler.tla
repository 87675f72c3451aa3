------------------------------ MODULE Profiler ------------------------------
(***************************************************************************)
(* The profiler of rthas/src/profiler.rs and its command in               *)
(* rthas/src/agent.rs, as several sessions use it at once: the slot        *)
(* SESSION under its lock, and for wall-clock sessions the statics, the    *)
(* SIGALRM handler and the interval timer, which stop() touches after it   *)
(* has given the lock back.  The two queries, status and getSamples,       *)
(* change nothing.  Sampling a CPU session is pprof's business: here it is *)
(* on or off.                                                              *)
(*                                                                         *)
(* A stack is abstracted to the session during which its signal was        *)
(* raised.  `crossed` records that a wall-clock session was started        *)
(* while another was still being stopped; started, strays and report are   *)
(* history variables too.                                                  *)
(***************************************************************************)
EXTENDS Naturals, FiniteSets

CONSTANTS
  Sessions,    \* the connections that type `profiler` commands
  WALL_CAP,    \* slots for samples
  MaxStarts,   \* bound on the starts asked for
  MaxTicks     \* bound on the signals raised

ASSUME ProfilerAssumption ==
  /\ WALL_CAP \in Nat \ {0}
  /\ MaxStarts \in Nat
  /\ MaxTicks \in Nat

Ticks == 1..MaxTicks
Profiles == 1..MaxStarts
Places == 0..(WALL_CAP - 1)
Dispositions == {"program", "rthas"}

\* Running, and the empty slot.
Nobody == [id |-> 0, kind |-> "none", prev |-> "program"]

VARIABLES
  SESSION,    \* the slot
  lock,       \* who holds its lock across steps: a set of at most one session
  WALL_ON, WALL_NEXT, WALL_SLOTS,
  sigalrm,    \* whose SIGALRM handler is installed
  timer,      \* the profile whose interval timer is armed, 0 for none
  pprof,      \* whether pprof samples
  at,         \* where each connection is
  oneshot,    \* whether it runs `profiler --seconds N`
  running,    \* the Running it starts or has taken
  waits,      \* the signals raised before it went to sleep in wall_stop
  raised,     \* signals raised so far
  tick,       \* how far each of them is
  seq,        \* the number its handler drew
  origin,     \* the profile whose timer raised it
  started, crossed, strays, report

slot == <<SESSION, lock>>
wall == <<WALL_ON, WALL_NEXT, WALL_SLOTS, sigalrm, timer>>
client == <<at, oneshot, running, waits>>
signals == <<raised, tick, seq, origin>>
history == <<started, crossed, strays, report>>
profilerVars == <<slot, wall, pprof, client, signals, history>>

NoReport == [raw |-> 0, from |-> {}, sampled |-> 0]

Init ==
  /\ SESSION = Nobody
  /\ lock = {}
  /\ WALL_ON = FALSE
  /\ WALL_NEXT = 0
  /\ WALL_SLOTS = [i \in Places |-> 0]
  /\ sigalrm = "program"
  /\ timer = 0
  /\ pprof = FALSE
  /\ at = [s \in Sessions |-> "idle"]
  /\ oneshot = [s \in Sessions |-> FALSE]
  /\ running = [s \in Sessions |-> Nobody]
  /\ waits = [s \in Sessions |-> 0]
  /\ raised = 0
  /\ tick = [t \in Ticks |-> "none"]
  /\ seq = [t \in Ticks |-> 0]
  /\ origin = [t \in Ticks |-> 0]
  /\ started = 0
  /\ crossed = FALSE
  /\ strays = 0
  /\ report = [p \in Profiles |-> NoReport]

Steps(s, from, to) == at[s] = from /\ at' = [at EXCEPT ![s] = to]

\* After start_kind: a one-shot goes on to print its first line.
AfterStart(s) == IF oneshot[s] THEN "told" ELSE "idle"

Stopping == {s \in Sessions : at[s] \in {"disarm", "off", "sleep", "snapshot"}}
Starting == {s \in Sessions : at[s] \in {"zero", "on", "install", "arm"}}

-----------------------------------------------------------------------------
\* cmd_profiler: `start`, and `--seconds`, which first asks is_running().

Asks(s, once) ==
  /\ started < MaxStarts
  /\ started' = started + 1
  /\ Steps(s, "idle", "start")
  /\ oneshot' = [oneshot EXCEPT ![s] = once]
  /\ running' = [running EXCEPT ![s].id = started']
  /\ UNCHANGED <<slot, wall, pprof, waits, signals, crossed, strays, report>>

Start(s) == Asks(s, FALSE)

Oneshot(s) == lock = {} /\ SESSION = Nobody /\ Asks(s, TRUE)

-----------------------------------------------------------------------------
\* start_kind, under the lock from its first step to its last.

AlreadyRunning(s) ==
  /\ lock = {}
  /\ SESSION # Nobody
  /\ Steps(s, "start", "idle")
  /\ running' = [running EXCEPT ![s] = Nobody]
  /\ UNCHANGED <<slot, wall, pprof, oneshot, waits, signals, history>>

\* pprof may refuse.
StartCpu(s) ==
  /\ lock = {}
  /\ SESSION = Nobody
  /\ running' = [running EXCEPT ![s] = Nobody]
  /\ \/ /\ ~pprof
        /\ pprof' = TRUE
        /\ SESSION' = [running[s] EXCEPT !.kind = "cpu"]
        /\ Steps(s, "start", AfterStart(s))
     \/ Steps(s, "start", "idle") /\ UNCHANGED <<SESSION, pprof>>
  /\ UNCHANGED <<lock, wall, oneshot, waits, signals, history>>

SlotUnchecked == TRUE
SlotFree == SESSION = Nobody

StartWall(s) ==
  /\ lock = {}
  /\ SlotFree
  /\ Steps(s, "start", "zero")
  /\ lock' = {s}
  /\ running' = [running EXCEPT ![s].kind = "wall"]
  /\ crossed' = (crossed \/ Stopping # {})
  /\ UNCHANGED <<SESSION, wall, pprof, oneshot, waits, signals, started, strays, report>>

ZeroNext(s) ==
  /\ Steps(s, "zero", "on")
  /\ WALL_NEXT' = 0
  /\ UNCHANGED <<slot, WALL_ON, WALL_SLOTS, sigalrm, timer, pprof, oneshot, running, waits, signals, history>>

SwitchOn(s) ==
  /\ Steps(s, "on", "install")
  /\ WALL_ON' = TRUE
  /\ UNCHANGED <<slot, WALL_NEXT, WALL_SLOTS, sigalrm, timer, pprof, oneshot, running, waits, signals, history>>

Install(s) ==
  /\ Steps(s, "install", "arm")
  /\ sigalrm' = "rthas"
  /\ running' = [running EXCEPT ![s].prev = sigalrm]
  /\ UNCHANGED <<slot, WALL_ON, WALL_NEXT, WALL_SLOTS, timer, pprof, oneshot, waits, signals, history>>

Arm(s) ==
  /\ Steps(s, "arm", AfterStart(s))
  /\ timer' = running[s].id
  /\ SESSION' = running[s]
  /\ lock' = {}
  /\ running' = [running EXCEPT ![s] = Nobody]
  /\ UNCHANGED <<WALL_ON, WALL_NEXT, WALL_SLOTS, sigalrm, pprof, oneshot, waits, signals, history>>

\* setitimer fails: off again, and the handler put back.
CannotArm(s) ==
  /\ Steps(s, "arm", "idle")
  /\ WALL_ON' = FALSE
  /\ sigalrm' = running[s].prev
  /\ lock' = {}
  /\ running' = [running EXCEPT ![s] = Nobody]
  /\ UNCHANGED <<SESSION, WALL_NEXT, WALL_SLOTS, timer, pprof, oneshot, waits, signals, history>>

\* The rest of profiler_oneshot up to the stop: a first line that cannot be
\* written ends the command and leaves the session running.
FirstLine(s) ==
  /\ \/ Steps(s, "told", "sleeping")
     \/ Steps(s, "told", "idle")
  /\ UNCHANGED <<slot, wall, pprof, oneshot, running, waits, signals, history>>

-----------------------------------------------------------------------------
\* stop(), for `profiler stop` or at the end of a one-shot: whatever session
\* is in the slot is taken out, and the lock is free again.

SlotKept == SESSION
SlotTaken == Nobody

Take(s) ==
  /\ lock = {}
  /\ at[s] \in {"idle", "sleeping"}
  /\ IF SESSION = Nobody
       THEN /\ at' = [at EXCEPT ![s] = "idle"]
            /\ UNCHANGED <<SESSION, running>>
       ELSE /\ at' = [at EXCEPT ![s] = IF SESSION.kind = "cpu" THEN "report" ELSE "disarm"]
            /\ running' = [running EXCEPT ![s] = SESSION]
            /\ SESSION' = SlotTaken
  /\ UNCHANGED <<lock, wall, pprof, oneshot, waits, signals, history>>

\* The report is built and the guard dropped.
ReportCpu(s) ==
  /\ Steps(s, "report", "idle")
  /\ pprof' = FALSE
  /\ running' = [running EXCEPT ![s] = Nobody]
  /\ UNCHANGED <<slot, wall, oneshot, waits, signals, history>>

Disarm(s) ==
  /\ Steps(s, "disarm", "off")
  /\ timer' = 0
  /\ UNCHANGED <<slot, WALL_ON, WALL_NEXT, WALL_SLOTS, sigalrm, pprof, oneshot, running, waits, signals, history>>

SwitchOff(s) ==
  /\ Steps(s, "off", "sleep")
  /\ WALL_ON' = FALSE
  /\ waits' = [waits EXCEPT ![s] = raised]
  /\ UNCHANGED <<slot, WALL_NEXT, WALL_SLOTS, sigalrm, timer, pprof, oneshot, running, signals, history>>

\* The 5 ms are taken to be enough for the signals raised before them.
SleepSkipped(s) == TRUE
SleepEnds(s) == \A t \in 1..waits[s] : tick[t] = "done"

PutBackRthas(s) == "rthas"
PutBack(s) == running[s].prev

Restore(s) ==
  /\ SleepEnds(s)
  /\ Steps(s, "sleep", "snapshot")
  /\ sigalrm' = PutBack(s)
  /\ UNCHANGED <<slot, WALL_ON, WALL_NEXT, WALL_SLOTS, timer, pprof, oneshot, running, waits, signals, history>>

\* wall_snapshot reads the first WALL_NEXT slots.
Valid == {i \in Places : i < WALL_NEXT}

RawTicks == WALL_NEXT
RawSamples == Cardinality({i \in Valid : WALL_SLOTS[i] # 0})

Snapshot(s) ==
  /\ Steps(s, "snapshot", "idle")
  /\ report' = [report EXCEPT ![running[s].id] =
       [raw     |-> RawSamples,
        from    |-> {WALL_SLOTS[i] : i \in Valid} \ {0},
        sampled |-> Cardinality({t \in Ticks : /\ origin[t] = running[s].id
                                               /\ seq[t] # 0})]]
  /\ running' = [running EXCEPT ![s] = Nobody]
  /\ UNCHANGED <<slot, wall, pprof, oneshot, waits, signals, started, crossed, strays>>

-----------------------------------------------------------------------------
\* The kernel.  A signal raised while one is pending is lost in it.

Raise ==
  /\ timer # 0
  /\ raised < MaxTicks
  /\ \A t \in Ticks : tick[t] # "pending"
  /\ raised' = raised + 1
  /\ tick' = [tick EXCEPT ![raised'] = "pending"]
  /\ origin' = [origin EXCEPT ![raised'] = timer]
  /\ UNCHANGED <<slot, wall, pprof, client, seq, history>>

Moves(t, from, to) == tick[t] = from /\ tick' = [tick EXCEPT ![t] = to]

\* Without rthas's handler the signal does to the program what the program
\* asked for, by default its end.
Receive(t) ==
  /\ Moves(t, "pending", IF sigalrm = "rthas" THEN "check" ELSE "done")
  /\ strays' = IF sigalrm = "rthas" THEN strays ELSE strays + 1
  /\ UNCHANGED <<slot, wall, pprof, client, raised, seq, origin, started, crossed, report>>

-----------------------------------------------------------------------------
\* on_sigalrm, on whatever thread it interrupts.

Check(t) ==
  /\ Moves(t, "check", IF WALL_ON THEN "draw" ELSE "done")
  /\ UNCHANGED <<slot, wall, pprof, client, raised, seq, origin, history>>

\* seq holds the number drawn plus one; 0 is none.
DrawNumber(t) ==
  /\ Moves(t, "draw", "write")
  /\ seq' = [seq EXCEPT ![t] = WALL_NEXT + 1]
  /\ WALL_NEXT' = WALL_NEXT + 1
  /\ UNCHANGED <<slot, WALL_ON, WALL_SLOTS, sigalrm, timer, pprof, client, raised, origin, history>>

PlaceAfter(t) == seq[t] % WALL_CAP
Place(t) == (seq[t] - 1) % WALL_CAP

Write(t) ==
  /\ Moves(t, "write", "done")
  /\ WALL_SLOTS' = [WALL_SLOTS EXCEPT ![Place(t)] = origin[t]]
  /\ UNCHANGED <<slot, WALL_ON, WALL_NEXT, sigalrm, timer, pprof, client, raised, seq, origin, history>>

Next ==
  \/ \E s \in Sessions :
       \/ Start(s) \/ Oneshot(s) \/ AlreadyRunning(s) \/ StartCpu(s) \/ StartWall(s)
       \/ ZeroNext(s) \/ SwitchOn(s) \/ Install(s) \/ Arm(s) \/ CannotArm(s) \/ FirstLine(s)
       \/ Take(s) \/ ReportCpu(s) \/ Disarm(s) \/ SwitchOff(s) \/ Restore(s) \/ Snapshot(s)
  \/ Raise
  \/ \E t \in Ticks : Receive(t) \/ Check(t) \/ DrawNumber(t) \/ Write(t)

Spec == Init /\ [][Next]_profilerVars

-----------------------------------------------------------------------------

Runnings == [id : 0..MaxStarts, kind : {"none", "cpu", "wall"}, prev : Dispositions]

ProfilerTypeOK ==
  /\ SESSION \in Runnings
  /\ lock \subseteq Sessions
  /\ WALL_ON \in BOOLEAN
  /\ WALL_NEXT \in 0..MaxTicks
  /\ WALL_SLOTS \in [Places -> 0..MaxStarts]
  /\ sigalrm \in Dispositions
  /\ timer \in 0..MaxStarts
  /\ pprof \in BOOLEAN
  /\ at \in [Sessions -> {"idle", "start", "zero", "on", "install", "arm", "told", "sleeping",
                          "report", "disarm", "off", "sleep", "snapshot"}]
  /\ oneshot \in [Sessions -> BOOLEAN]
  /\ running \in [Sessions -> Runnings]
  /\ waits \in [Sessions -> 0..MaxTicks]
  /\ raised \in 0..MaxTicks
  /\ tick \in [Ticks -> {"none", "pending", "check", "draw", "write", "done"}]
  /\ seq \in [Ticks -> 0..MaxTicks]
  /\ origin \in [Ticks -> 0..MaxStarts]
  /\ started \in 0..MaxStarts
  /\ crossed \in BOOLEAN
  /\ strays \in 0..MaxTicks
  /\ report \in [Profiles -> [raw : 0..WALL_CAP, from : SUBSET Profiles, sampled : 0..MaxTicks]]

\* "The handler is installed only while a session is running" (module doc of
\* profiler.rs): no session in the slot, none on its way in or out, then the
\* handler is the program's own.
HandlerOnlyWhileRunning ==
  SESSION.kind # "wall" /\ Starting = {} /\ Stopping = {} => sigalrm = "program"

\* As long as no wall-clock session is started while another is being
\* stopped, the program gets its handler back and the timer is off when it
\* does: no SIGALRM of rthas's timer ever reaches the program.
ProgramIsLeftAlone ==
  ~crossed => HandlerOnlyWhileRunning /\ strays = 0

\* In the same histories a session that `profiler status` calls running is
\* being sampled.
RunningMeansSampling ==
  /\ SESSION.kind = "cpu" => pprof
  /\ ~crossed /\ SESSION.kind = "wall" =>
       timer = SESSION.id /\ WALL_ON /\ sigalrm = "rthas"

\* In the same histories a snapshot holds samples of its own session only,
\* and every one that was taken, up to the capacity.
SnapshotIsItsOwn ==
  ~crossed =>
    \A p \in Profiles :
      /\ report[p].from \subseteq {p}
      /\ report[p].raw = IF report[p].sampled < WALL_CAP THEN report[p].sampled ELSE WALL_CAP

\* A session is stopped by one client only: with a `stop` and the end of a
\* one-shot at the same time, one of them finds nothing to stop.
StoppedOnce ==
  \A s \in Sessions : at[s] \in {"report", "disarm", "off", "sleep", "snapshot"} =>
    /\ running[s].id # SESSION.id
    /\ \A o \in Sessions : o # s => running[o].id # running[s].id

\* Sessions are kept apart: the program gets its signals back, who runs is
\* sampled, a snapshot is of its own session and one client stops it.
SessionsKeptApart ==
  ProfilerTypeOK /\ ProgramIsLeftAlone /\ RunningMeansSampling /\ SnapshotIsItsOwn /\ StoppedOnce
=============================================================================
