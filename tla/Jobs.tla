-------------------------------- MODULE Jobs --------------------------------
(***************************************************************************)
(* Background jobs: `tt PATTERN ... &` from any session, the job table of  *)
(* rthas/src/jobs.rs, spawn_background and the recording loop of           *)
(* cmd_tt_record in rthas/src/agent.rs, writing through StopWrite.  The    *)
(* loop of cmd_watch is the same without the tunnel.                       *)
(*                                                                         *)
(* An event is its number in the ring; whether it matches the pattern and  *)
(* the filters is fixed when it is pushed.  A job is its id.               *)
(***************************************************************************)
EXTENDS Tunnel, FiniteSets

CONSTANTS
  Sessions,    \* the connections that submit and kill jobs
  MaxJobs,     \* bound on the jobs submitted
  MaxEvents,   \* bound on the events pushed
  MaxCount     \* --count of every job; 0 means no limit

ASSUME JobsAssumption ==
  /\ MaxJobs \in Nat
  /\ MaxEvents \in Nat
  /\ MaxCount \in Nat

Ids == 1..MaxJobs

VARIABLES
  NEXT_ID, TABLE,   \* the statics; TABLE in order of insertion
  stop, state,      \* Job.stop and Job.state
  session,          \* where each session is in spawn_background
  mine,             \* the id it was given there
  pushed, matching, \* the events so far, and those a job's filters let pass
  pc,               \* where each job's thread is
  cursor, upto,     \* its cursor and the end of the batch it reads
  printed,          \* its count
  row,              \* the number it has recorded and not yet printed
  log,              \* the rows in its log file
  killed            \* what it read from stop at the end

table == <<NEXT_ID, TABLE, stop, state>>
front == <<session, mine>>
ring == <<pushed, matching>>
thread == <<pc, cursor, upto, printed, row, log, killed>>
vars == <<tunnelVars, table, front, ring, thread>>

Listed == {TABLE[i] : i \in 1..Len(TABLE)}

Init ==
  /\ TunnelInit
  /\ NEXT_ID = 1
  /\ TABLE = <<>>
  /\ stop = [j \in Ids |-> FALSE]
  /\ state = [j \in Ids |-> "unborn"]
  /\ session = [s \in Sessions |-> "ready"]
  /\ mine = [s \in Sessions |-> 0]
  /\ pushed = 0
  /\ matching = {}
  /\ pc = [j \in Ids |-> "none"]
  /\ cursor = [j \in Ids |-> 0]
  /\ upto = [j \in Ids |-> 0]
  /\ printed = [j \in Ids |-> 0]
  /\ row = [j \in Ids |-> 0]
  /\ log = [j \in Ids |-> <<>>]
  /\ killed = [j \in Ids |-> FALSE]

-----------------------------------------------------------------------------
\* spawn_background on a session's thread.

SessionGoes(s, from, to) == session[s] = from /\ session' = [session EXCEPT ![s] = to]

TakeId(s) ==
  /\ NEXT_ID <= MaxJobs
  /\ SessionGoes(s, "ready", "numbered")
  /\ mine' = [mine EXCEPT ![s] = NEXT_ID]
  /\ NEXT_ID' = NEXT_ID + 1
  /\ UNCHANGED <<tunnelVars, TABLE, stop, state, ring, thread>>

EnterTable(s) ==
  /\ SessionGoes(s, "numbered", "listed")
  /\ TABLE' = Append(TABLE, mine[s])
  /\ state' = [state EXCEPT ![mine[s]] = "running"]
  /\ UNCHANGED <<tunnelVars, NEXT_ID, stop, mine, ring, thread>>

\* jobs::finish looks the job up in the table.
Finish(j, wasKilled) ==
  state' = IF j \in Listed
             THEN [state EXCEPT ![j] = IF wasKilled THEN "killed" ELSE "done"]
             ELSE state

LogCannotOpen(s) ==
  /\ SessionGoes(s, "listed", "ready")
  /\ Finish(mine[s], TRUE)
  /\ UNCHANGED <<tunnelVars, NEXT_ID, TABLE, stop, mine, ring, thread>>

\* Builder::spawn(..).ok(): when no thread can be made the job stays listed
\* as running.
StartThread(s) ==
  /\ SessionGoes(s, "listed", "ready")
  /\ \/ pc' = [pc EXCEPT ![mine[s]] = "start"]
     \/ UNCHANGED pc
  /\ UNCHANGED <<tunnelVars, table, mine, ring, cursor, upto, printed, row, log, killed>>

StateAfterKillMarked(j) == [state EXCEPT ![j] = "killed"]
StateAfterKill(j) == state

\* `kill N`: jobs::kill finds the job and sets its flag, finished or not.
Kill(s, j) ==
  /\ session[s] = "ready"
  /\ j \in Listed
  /\ stop' = [stop EXCEPT ![j] = TRUE]
  /\ state' = StateAfterKill(j)
  /\ UNCHANGED <<tunnelVars, NEXT_ID, TABLE, front, ring, thread>>

\* `tt --delete N` and `tt --clear`.
Forget(s) ==
  /\ session[s] = "ready"
  /\ \/ \E i \in Indices : Delete(i)
     \/ Clear
  /\ UNCHANGED <<table, front, ring, thread>>

-----------------------------------------------------------------------------
\* The process.

Push ==
  /\ pushed < MaxEvents
  /\ pushed' = pushed + 1
  /\ matching' \in {matching, matching \union {pushed'}}
  /\ UNCHANGED <<tunnelVars, table, front, thread>>

-----------------------------------------------------------------------------
\* cmd_tt_record on a job's thread.

Goes(j, from, to) == pc[j] = from /\ pc' = [pc EXCEPT ![j] = to]

\* StopWrite::write fails once the flag is set; any write error ends the
\* command.  The cursor is opened before the header is written.
Header(j) ==
  /\ Goes(j, "start", IF stop[j] THEN "ending" ELSE "fetch")
  /\ cursor' = [cursor EXCEPT ![j] = pushed]
  /\ UNCHANGED <<tunnelVars, table, front, ring, upto, printed, row, log, killed>>

Fetch(j) ==
  /\ Goes(j, "fetch", "rows")
  /\ upto' = [upto EXCEPT ![j] = pushed]
  /\ UNCHANGED <<tunnelVars, table, front, ring, cursor, printed, row, log, killed>>

\* The next event of the batch is passed over, or recorded in the tunnel.
Skip(j) ==
  /\ pc[j] = "rows"
  /\ cursor[j] < upto[j]
  /\ cursor[j] + 1 \notin matching
  /\ cursor' = [cursor EXCEPT ![j] = @ + 1]
  /\ UNCHANGED <<tunnelVars, table, front, ring, pc, upto, printed, row, log, killed>>

CursorStays(j) == cursor[j]
CursorMoves(j) == cursor[j] + 1

RecordCall(j) ==
  /\ cursor[j] < upto[j]
  /\ cursor[j] + 1 \in matching
  /\ Goes(j, "rows", "write")
  /\ Record([job |-> j, event |-> cursor[j] + 1])
  /\ row' = [row EXCEPT ![j] = Index]
  /\ cursor' = [cursor EXCEPT ![j] = CursorMoves(j)]
  /\ UNCHANGED <<table, front, ring, upto, printed, log, killed>>

EnoughBeyond(n) == MaxCount > 0 /\ n > MaxCount
Enough(n) == MaxCount > 0 /\ n >= MaxCount

WriteRow(j) ==
  /\ IF stop[j]
       THEN /\ Goes(j, "write", "ending")
            /\ UNCHANGED <<printed, log>>
       ELSE /\ Goes(j, "write", IF Enough(printed[j] + 1) THEN "test" ELSE "rows")
            /\ printed' = [printed EXCEPT ![j] = @ + 1]
            /\ log' = [log EXCEPT ![j] = Append(@, row[j])]
  /\ UNCHANGED <<tunnelVars, table, front, ring, cursor, upto, row, killed>>

BatchDone(j) ==
  /\ cursor[j] = upto[j]
  /\ Goes(j, "rows", "test")
  /\ UNCHANGED <<tunnelVars, table, front, ring, cursor, upto, printed, row, log, killed>>

\* The tests at the foot of the loop: the count, and a --seconds deadline that
\* may have passed by now.  StopWrite::flush does not look at the flag, so an
\* idle job does not notice that it was killed.
Test(j) ==
  /\ \/ Goes(j, "test", "ending")
     \/ ~Enough(printed[j]) /\ Goes(j, "test", "fetch")
  /\ UNCHANGED <<tunnelVars, table, front, ring, cursor, upto, printed, row, log, killed>>

\* The closure's last line: read the flag, then jobs::finish.
ReadStop(j) ==
  /\ Goes(j, "ending", "finish")
  /\ killed' = [killed EXCEPT ![j] = stop[j]]
  /\ UNCHANGED <<tunnelVars, table, front, ring, cursor, upto, printed, row, log>>

EndJob(j) ==
  /\ Goes(j, "finish", "gone")
  /\ Finish(j, killed[j])
  /\ UNCHANGED <<tunnelVars, NEXT_ID, TABLE, stop, front, ring, cursor, upto, printed, row, log, killed>>

Run(j) ==
  \/ Header(j) \/ Fetch(j) \/ Skip(j) \/ RecordCall(j) \/ WriteRow(j)
  \/ BatchDone(j) \/ Test(j) \/ ReadStop(j) \/ EndJob(j)

Next ==
  \/ \E s \in Sessions :
       \/ TakeId(s) \/ EnterTable(s) \/ LogCannotOpen(s) \/ StartThread(s)
       \/ Forget(s)
       \/ \E j \in Ids : Kill(s, j)
  \/ Push
  \/ \E j \in Ids : Run(j)

Spec == Init /\ [][Next]_vars

-----------------------------------------------------------------------------

TypeOK ==
  /\ TunnelTypeOK
  /\ NEXT_ID \in 1..(MaxJobs + 1)
  /\ Listed \subseteq Ids
  /\ Len(TABLE) = Cardinality(Listed)
  /\ stop \in [Ids -> BOOLEAN]
  /\ state \in [Ids -> {"unborn", "running", "done", "killed"}]
  /\ session \in [Sessions -> {"ready", "numbered", "listed"}]
  /\ mine \in [Sessions -> Ids \union {0}]
  /\ pushed \in 0..MaxEvents
  /\ matching \subseteq 1..pushed
  /\ pc \in [Ids -> {"none", "start", "fetch", "rows", "write", "test", "ending", "finish", "gone"}]
  /\ cursor \in [Ids -> 0..MaxEvents]
  /\ upto \in [Ids -> 0..MaxEvents]
  /\ printed \in [Ids -> Nat]
  /\ row \in [Ids -> {0} \union (FIRST_INDEX..(next_index - 1))]
  /\ log \in [Ids -> Seq(FIRST_INDEX..(next_index - 1))]
  /\ killed \in [Ids -> BOOLEAN]

\* What job j put into the tunnel.
RecordedBy(j) == {i \in FIRST_INDEX..(next_index - 1) : CallOf(i).job = j}

\* A job prints at most --count rows, even when one batch holds more.
CountRespected == MaxCount > 0 => \A j \in Ids : printed[j] <= MaxCount

\* Each row of a job's log is the number of a call this job recorded, no call
\* is recorded or printed twice by a job, and a job that is killed loses at
\* most the one row it was about to write.
LogMatchesTunnel ==
  \A j \in Ids :
    LET rows == {log[j][i] : i \in 1..Len(log[j])} IN
    /\ rows \subseteq RecordedBy(j)
    /\ Cardinality(RecordedBy(j) \ rows) <= 1
    /\ \A i, k \in RecordedBy(j) : i < k => CallOf(i).event < CallOf(k).event

\* A job's outcome is final: neither a `kill` that comes too late nor the end
\* of another job changes what `jobs` has said of it (jobs::kill sets the flag
\* only, jobs::finish comes once).
OutcomeIsFinal ==
  [][\A j \in Ids : state[j] \in {"done", "killed"} => state'[j] = state[j]]_vars

\* What jobs print: types, at most --count rows, each the number of a call the
\* job recorded.
LogsHold == TypeOK /\ CountRespected /\ LogMatchesTunnel

\* What no step may undo: the tunnel forgets its oldest call and only for want
\* of room, and a job's outcome is final.
NothingUndone == EvictsOldestWhenFull /\ OutcomeIsFinal
=============================================================================
