------------------------------- MODULE Trace --------------------------------
(***************************************************************************)
(* The loop of cmd_trace and cmd_stack in rthas/src/agent.rs: read what    *)
(* the ring has gained, feed it to the forest, print the trees that are    *)
(* complete, sleep, and at the end print what is left.                     *)
(*                                                                         *)
(* Events complete on other threads meanwhile; some never reach the        *)
(* command (the call hangs, its probe is off, the ring evicted it).  The   *)
(* client may leave at any time, which the command notices only when bytes *)
(* are written through the BufWriter of handle_client.                     *)
(***************************************************************************)
EXTENDS Forest, Sequences

CONSTANTS
  Picked,    \* trace: spans at least --min-ms long; stack: spans that match
  MaxCount   \* --count; 0 means no limit

ASSUME TraceAssumption ==
  /\ Picked \subseteq Spans
  /\ MaxCount \in Nat

VARIABLES
  command,   \* which of the two commands runs; never changes
  pc,        \* where the loop is
  arrived,   \* the spans whose event was pushed
  queue,     \* the events in the ring beyond the cursor
  batch,     \* what is left of the events `since(cursor)` returned
  printed,   \* trees printed by the loop
  overdue,   \* the --seconds deadline has passed
  client,    \* the client is connected
  unsent     \* the BufWriter holds bytes

loopVars == <<command, pc, arrived, queue, batch, printed, overdue, client, unsent>>
vars == <<forestVars, loopVars>>

Ended == pc \in {"done", "gone"}

Init ==
  /\ ForestInit
  /\ command \in {"trace", "stack"}
  /\ pc = "fetch"
  /\ arrived = {}
  /\ queue = <<>>
  /\ batch = <<>>
  /\ printed = 0
  /\ overdue = FALSE
  /\ client = TRUE
  /\ unsent = FALSE

-----------------------------------------------------------------------------

\* Outside the loop: a span completes, time passes, the client goes away.
Arrive(s) ==
  /\ ~Ended
  /\ s \notin arrived
  /\ arrived' = arrived \union {s}
  /\ queue' = Append(queue, s)
  /\ UNCHANGED <<forestVars, command, pc, batch, printed, overdue, client, unsent>>

GraceElapses(s) ==
  /\ ~Ended
  /\ Age(s)
  /\ UNCHANGED loopVars

DeadlinePasses ==
  /\ ~Ended
  /\ ~overdue
  /\ overdue' = TRUE
  /\ UNCHANGED <<forestVars, command, pc, arrived, queue, batch, printed, client, unsent>>

ClientLeaves ==
  /\ ~Ended
  /\ client
  /\ client' = FALSE
  /\ UNCHANGED <<forestVars, command, pc, arrived, queue, batch, printed, overdue, unsent>>

\* `recorder().since(cursor)`, a snapshot.
Fetch ==
  /\ pc = "fetch"
  /\ pc' = "add"
  /\ batch' = queue
  /\ queue' = <<>>
  /\ UNCHANGED <<forestVars, command, arrived, printed, overdue, client, unsent>>

AddNext ==
  /\ pc = "add"
  /\ batch # <<>>
  /\ Add(Head(batch))
  /\ batch' = Tail(batch)
  /\ UNCHANGED <<command, pc, arrived, queue, printed, overdue, client, unsent>>

AddedAll ==
  /\ pc = "add"
  /\ batch = <<>>
  /\ pc' = "take"
  /\ UNCHANGED <<forestVars, command, arrived, queue, batch, printed, overdue, client, unsent>>

\* `root_dur_ns() >= min_ns` for trace, `tree_contains` for stack.
Shown(r) == IF command = "trace" THEN r \in Picked ELSE Subtree(r) \intersect Picked # {}

\* `while let Some(root) = forest.take_ready()`.  A write may stay in the
\* BufWriter; one that reaches a client that is gone ends the command.
TakeRoot(r) ==
  /\ pc = "take"
  /\ Take(r)
  /\ IF Shown(r)
       THEN \/ /\ unsent' = TRUE
               /\ printed' = printed + 1
               /\ pc' = pc
            \/ /\ ~client
               /\ pc' = "gone"
               /\ UNCHANGED <<unsent, printed>>
       ELSE UNCHANGED <<unsent, printed, pc>>
  /\ UNCHANGED <<command, arrived, queue, batch, overdue, client>>

\* The tests at the foot of the loop.
EnoughNoDeadline == MaxCount > 0 /\ printed >= MaxCount
Enough == (MaxCount > 0 /\ printed >= MaxCount) \/ overdue

Stop ==
  /\ pc = "take"
  /\ ready = {}
  /\ Enough
  /\ pc' = "tail"
  /\ UNCHANGED <<forestVars, command, arrived, queue, batch, printed, overdue, client, unsent>>

\* `out.flush()?` writes nothing when the BufWriter is empty.
FlushAndSleep ==
  /\ pc = "take"
  /\ ready = {}
  /\ ~Enough
  /\ IF unsent /\ ~client
       THEN pc' = "gone" /\ UNCHANGED unsent
       ELSE pc' = "fetch" /\ unsent' = FALSE
  /\ UNCHANGED <<forestVars, command, arrived, queue, batch, printed, overdue, client>>

\* `drain_roots` and the closing line.
Finish ==
  /\ pc = "tail"
  /\ Drain
  /\ \/ pc' = "done"
     \/ ~client /\ pc' = "gone"
  /\ unsent' = TRUE
  /\ UNCHANGED <<command, arrived, queue, batch, printed, overdue, client>>

Loop ==
  \/ Fetch
  \/ AddNext
  \/ AddedAll
  \/ \E r \in Spans : TakeRoot(r)
  \/ Stop
  \/ FlushAndSleep
  \/ Finish

Terminating == Ended /\ UNCHANGED vars

Next ==
  \/ \E s \in Spans : Arrive(s) \/ GraceElapses(s)
  \/ DeadlinePasses
  \/ ClientLeaves
  \/ Loop
  \/ Terminating

Spec == Init /\ [][Next]_vars

\* The command's thread keeps running; nothing obliges a span to complete, a
\* client to leave or a deadline to exist.
FairSpec == Spec /\ WF_vars(Loop)

-----------------------------------------------------------------------------

TypeOK ==
  /\ ForestTypeOK
  /\ command \in {"trace", "stack"}
  /\ pc \in {"fetch", "add", "take", "tail", "done", "gone"}
  /\ arrived \subseteq Spans
  /\ queue \in Seq(Spans)
  /\ batch \in Seq(Spans)
  /\ printed \in Nat
  /\ overdue \in BOOLEAN
  /\ client \in BOOLEAN
  /\ unsent \in BOOLEAN

\* A call is shown under its caller whenever the command could know better
\* than to separate them: a span is in another tree than its parent only if
\* the grace window released it or its parent had been taken when it came.
KeptTogether ==
  \A c \in Taken \ (expired \union late) :
    parent[c] \in added \intersect 1..(c - 1) =>
      \A r \in Spans : c \in trees[r] => parent[c] \in trees[r]

\* When the command ends by itself every event it read has been handed out
\* in some tree: `drain_roots` leaves nothing in the forest, which needs that
\* no chain of adopted spans closes on itself.
NothingLeftBehind == pc = "done" => nodes = {} /\ Taken = added

\* --seconds ends the command whatever the traffic and whatever is parked.
DeadlineEndsIt == overdue ~> Ended

\* HELP, agent.rs:497 and 507: a command
\* without a count runs "until Ctrl-C", that is, until its client leaves.
CtrlCEndsIt == ~client ~> Ended

\* tree.rs:24-28: a span is parked "until either the parent arrives ... or
\* DEFAULT_GRACE elapses - the span is released as a root of its own".
GraceReleases == \A s \in Spans : s \in aged ~> (s \notin waiting \/ Ended)

\* Where spans are: each in one place, and parked only while its parent is
\* missing.
Placed == Conservation /\ ParentsInPlace

\* What is printed: types, trees that were put together stay whole, and at the
\* end nothing is kept back.
TreesWhole == TypeOK /\ KeptTogether /\ NothingLeftBehind
=============================================================================
