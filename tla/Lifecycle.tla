----------------------------- MODULE Lifecycle ------------------------------
(***************************************************************************)
(* How the agent inside the process comes and goes: spawn, the accept      *)
(* loop, `stop` and the deferred-attach watcher of rthas/src/agent.rs, and *)
(* `rthas attach` of rthas-cli/src/main.rs, which talks to them through    *)
(* two files, the socket and the attach trigger.                           *)
(*                                                                         *)
(* Several operators use the process at once.  patient is chosen at the    *)
(* start and never changes: patient operators begin nothing while an       *)
(* earlier attach or stop is still under way anywhere.  bind succeeds.     *)
(*                                                                         *)
(* invited is a history variable: an attach has written the trigger since  *)
(* the last stop.                                                          *)
(***************************************************************************)
EXTENDS Naturals, Sequences

CONSTANTS
  Operators,   \* people with a shell
  NoOne,       \* a connection that is closed at once: a probe or a wake-up
  MaxAgents,   \* bound on the listeners made in one behaviour
  MaxBacklog   \* connections a socket holds before connect() blocks

ASSUME LifecycleAssumption ==
  /\ NoOne \notin Operators
  /\ MaxAgents \in Nat \ {0}
  /\ MaxBacklog \in Nat \ {0}

VARIABLES
  STOP, LAZY_WATCHING,   \* the two statics
  listener,   \* the state of every listener ever bound, and of its thread
  backlog,    \* the connections it has not accepted, in order
  file,       \* the listener the socket path leads to; 0 when there is none
  trigger,    \* the trigger file exists
  watcher,    \* where the rthas-attach thread is
  op,         \* what each operator is doing
  patient, invited

sockets == <<listener, backlog, file>>
statics == <<STOP, LAZY_WATCHING>>
agentVars == <<statics, sockets, trigger, watcher, op, patient, invited>>

Agents == 1..Len(listener)

ListenerStates == {"accepting", "stopping", "closed", "dead"}
WatcherStates == {"none", "polling", "consumed", "removed", "cleared", "bound"}
OpStates == {"idle", "connecting", "session", "stopping", "waking", "arming",
             "probing", "stale", "asking", "waiting"}

\* connect() succeeds: the path leads to a listener that is not yet dropped.
Alive == file # 0 /\ listener[file] \in {"accepting", "stopping"}
HasRoom == Len(backlog[file]) < MaxBacklog

\* No attach and no stop is under way.
NothingUnderWay ==
  /\ watcher \in {"none", "polling"}
  /\ ~trigger
  /\ \A k \in Agents : listener[k] = "dead" \/ (listener[k] = "accepting" /\ ~STOP)
  /\ \A o \in Operators : op[o] \in {"idle", "session"}

MayBegin == patient => NothingUnderWay

-----------------------------------------------------------------------------

\* init(): either the agent is bound at once, or RTHAS_AGENT=lazy.
Init ==
  /\ STOP = FALSE
  /\ trigger = FALSE
  /\ op = [o \in Operators |-> "idle"]
  /\ patient \in BOOLEAN
  /\ \/ /\ listener = <<"accepting">>
        /\ backlog = << <<>> >>
        /\ file = 1
        /\ LAZY_WATCHING = FALSE
        /\ watcher = "none"
        /\ invited = TRUE
     \/ /\ listener = <<>>
        /\ backlog = <<>>
        /\ file = 0
        /\ LAZY_WATCHING = TRUE
        /\ watcher = "polling"
        /\ invited = FALSE

\* The accept loop: STOP is tested after a connection was accepted, and the
\* connection that made it notice is dropped.
Accept(k) ==
  /\ listener[k] = "accepting"
  /\ backlog[k] # <<>>
  /\ backlog' = [backlog EXCEPT ![k] = Tail(@)]
  /\ LET who == Head(backlog[k]) IN
       IF STOP
         THEN /\ listener' = [listener EXCEPT ![k] = "stopping"]
              /\ op' = [o \in Operators |-> IF o = who THEN "idle" ELSE op[o]]
         ELSE /\ op' = [o \in Operators |-> IF o = who THEN "session" ELSE op[o]]
              /\ UNCHANGED listener
  /\ UNCHANGED <<statics, file, trigger, watcher, patient, invited>>

InBacklog(k, o) == \E i \in 1..Len(backlog[k]) : backlog[k][i] = o

\* `drop(listener)` resets the connections nobody accepted.
DropListener(k) ==
  /\ listener[k] = "stopping"
  /\ listener' = [listener EXCEPT ![k] = "closed"]
  /\ backlog' = [backlog EXCEPT ![k] = <<>>]
  /\ op' = [o \in Operators |-> IF InBacklog(k, o) THEN "idle" ELSE op[o]]
  /\ UNCHANGED <<statics, file, trigger, watcher, patient, invited>>

\* `remove_file(&announced)`, whichever listener the path leads to by now.
PathLeft == file
PathRemoved == 0


RemovePath(k) ==
  /\ listener[k] = "closed"
  /\ listener' = [listener EXCEPT ![k] = "dead"]
  /\ file' = PathRemoved
  /\ UNCHANGED <<statics, backlog, trigger, watcher, op, patient, invited>>

AcceptThread(k) == Accept(k) \/ DropListener(k) \/ RemovePath(k)

-----------------------------------------------------------------------------
\* The rthas-attach thread of spawn_lazy, and spawn() as it calls it.

Notice ==
  /\ watcher = "polling"
  /\ trigger
  /\ trigger' = FALSE
  /\ watcher' = "consumed"
  /\ UNCHANGED <<statics, sockets, op, patient, invited>>

RemoveOldPath ==
  /\ watcher = "consumed"
  /\ file' = 0
  /\ watcher' = "removed"
  /\ UNCHANGED <<statics, listener, backlog, trigger, op, patient, invited>>

ClearStop ==
  /\ watcher = "removed"
  /\ STOP' = FALSE
  /\ watcher' = "cleared"
  /\ UNCHANGED <<LAZY_WATCHING, sockets, trigger, op, patient, invited>>

BacklogReused == backlog
BacklogFresh == Append(backlog, <<>>)

Bind ==
  /\ watcher = "cleared"
  /\ Len(listener) < MaxAgents
  /\ listener' = Append(listener, "accepting")
  /\ backlog' = BacklogFresh
  /\ file' = Len(listener) + 1
  /\ watcher' = "bound"
  /\ UNCHANGED <<statics, trigger, op, patient, invited>>

WatchingKept == TRUE
WatchingCleared == FALSE

StopWatching ==
  /\ watcher = "bound"
  /\ LAZY_WATCHING' = WatchingCleared
  /\ watcher' = "none"
  /\ UNCHANGED <<STOP, sockets, trigger, op, patient, invited>>

Watcher == Notice \/ RemoveOldPath \/ ClearStop \/ Bind \/ StopWatching

-----------------------------------------------------------------------------
\* A session, and the `stop` command in it.  A session outlives its agent.

Goes(o, from, to) == op[o] = from /\ op' = [op EXCEPT ![o] = to]

Queued(who) ==
  /\ HasRoom
  /\ backlog' = [backlog EXCEPT ![file] = Append(@, who)]

Connect(o) ==
  /\ MayBegin
  /\ Alive
  /\ Goes(o, "idle", "connecting")
  /\ Queued(o)
  /\ UNCHANGED <<statics, listener, file, trigger, watcher, patient, invited>>

Quit(o) ==
  /\ Goes(o, "session", "idle")
  /\ UNCHANGED <<statics, sockets, trigger, watcher, patient, invited>>

BeginStop(o) ==
  /\ MayBegin
  /\ Goes(o, "session", "stopping")
  /\ UNCHANGED <<statics, sockets, trigger, watcher, patient, invited>>

SetStop(o) ==
  /\ Goes(o, "stopping", "waking")
  /\ STOP' = TRUE
  /\ invited' = FALSE
  /\ UNCHANGED <<LAZY_WATCHING, sockets, trigger, watcher, patient>>

\* `UnixStream::connect(socket_path())`, the result ignored.
WakeNobody == backlog' = backlog
WakeListener == IF Alive THEN Queued(NoOne) ELSE backlog' = backlog

Wake(o) ==
  /\ Goes(o, "waking", "arming")
  /\ WakeListener
  /\ UNCHANGED <<statics, listener, file, trigger, watcher, patient, invited>>

\* spawn_lazy: one watcher at a time, by compare_exchange.
ArmAtOnce ==
  IF LAZY_WATCHING
    THEN UNCHANGED <<LAZY_WATCHING, watcher>>
    ELSE LAZY_WATCHING' = TRUE /\ watcher' = "consumed"
ArmOnce ==
  IF LAZY_WATCHING
    THEN UNCHANGED <<LAZY_WATCHING, watcher>>
    ELSE LAZY_WATCHING' = TRUE /\ watcher' = "polling"

Arm(o) ==
  /\ Goes(o, "arming", "idle")
  /\ ArmOnce
  /\ UNCHANGED <<STOP, sockets, trigger, patient, invited>>

Stopping(o) == SetStop(o) \/ Wake(o) \/ Arm(o)

-----------------------------------------------------------------------------
\* `rthas attach PID`, cmd_attach_instrumented in the CLI.

Look(o) ==
  /\ MayBegin
  /\ Len(listener) < MaxAgents
  /\ Goes(o, "idle", IF file # 0 THEN "probing" ELSE "asking")
  /\ UNCHANGED <<statics, sockets, trigger, watcher, patient, invited>>

AnswersNever == FALSE
Answers == Alive

AlreadyThere(o) ==
  /\ Answers
  /\ Goes(o, "probing", "idle")
  /\ Queued(NoOne)
  /\ UNCHANGED <<statics, listener, file, trigger, watcher, patient, invited>>

NobodyAnswers(o) ==
  /\ ~Answers
  /\ Goes(o, "probing", "stale")
  /\ UNCHANGED <<statics, sockets, trigger, watcher, patient, invited>>

RemoveStale(o) ==
  /\ Goes(o, "stale", "asking")
  /\ file' = 0
  /\ UNCHANGED <<statics, listener, backlog, trigger, watcher, patient, invited>>

Ask(o) ==
  /\ Goes(o, "asking", "waiting")
  /\ trigger' = TRUE
  /\ invited' = TRUE
  /\ UNCHANGED <<statics, sockets, watcher, patient>>

Attached(o) ==
  /\ file # 0
  /\ Goes(o, "waiting", "idle")
  /\ UNCHANGED <<statics, sockets, trigger, watcher, patient, invited>>

\* ATTACH_TIMEOUT; the trigger stays.
TimesOut(o) ==
  /\ Goes(o, "waiting", "idle")
  /\ UNCHANGED <<statics, sockets, trigger, watcher, patient, invited>>

Attaching(o) ==
  AlreadyThere(o) \/ NobodyAnswers(o) \/ RemoveStale(o) \/ Ask(o) \/ Attached(o)

-----------------------------------------------------------------------------

\* At the bound nobody begins another attach.
Rest == Len(listener) = MaxAgents /\ UNCHANGED agentVars

Next ==
  \/ Rest
  \/ \E k \in Agents : AcceptThread(k)
  \/ Watcher
  \/ \E o \in Operators :
       \/ Connect(o) \/ Quit(o) \/ BeginStop(o) \/ Stopping(o)
       \/ Look(o) \/ Attaching(o) \/ TimesOut(o)

Spec == Init /\ [][Next]_agentVars

\* Threads and commands that have begun go on; no operator has to begin
\* anything, to quit, or to lose patience.
FairSpec ==
  /\ Spec
  /\ \A k \in 1..MaxAgents : WF_agentVars(k \in Agents /\ AcceptThread(k))
  /\ WF_agentVars(Watcher)
  /\ \A o \in Operators : WF_agentVars(Stopping(o)) /\ WF_agentVars(Attaching(o))

-----------------------------------------------------------------------------

LifecycleTypeOK ==
  /\ STOP \in BOOLEAN
  /\ LAZY_WATCHING \in BOOLEAN
  /\ listener \in Seq(ListenerStates)
  /\ backlog \in Seq(Seq(Operators \union {NoOne}))
  /\ Len(backlog) = Len(listener)
  /\ file \in 0..Len(listener)
  /\ trigger \in BOOLEAN
  /\ watcher \in WatcherStates
  /\ op \in [Operators -> OpStates]
  /\ patient \in BOOLEAN
  /\ invited \in BOOLEAN

Reachable == file # 0 /\ listener[file] = "accepting"

\* The socket path never outlives its listener's thread, whatever overlaps.
NoDeadPath == file # 0 => listener[file] # "dead"

\* With patient operators an agent that accepts is the one the path leads to;
\* so there is one at most, and no thread waits where nobody can reach it.
AcceptingIsReachable ==
  patient => \A k \in Agents : listener[k] = "accepting" => file = k

\* With patient operators a stopped agent stays away until somebody attaches.
ComesBackOnlyInvited ==
  [][patient /\ Len(listener') > Len(listener) => invited]_agentVars

\* HELP, agent.rs:565: "stop - unbind the agent".
StopUnbinds ==
  patient /\ STOP ~> file = 0 /\ \A k \in Agents : listener[k] = "dead"

\* README.md:195: after `stop`, "`rthas attach <pid>` restarts it".  With
\* patient operators an attach that asked gets an agent it can reach, even
\* one that gave up waiting.
AttachWorks == \A o \in Operators : patient /\ op[o] = "waiting" ~> Reachable

\* The same of any operators.
AttachRestarts == \A o \in Operators : op[o] = "waiting" ~> Reachable

\* The socket path: types, no path to a dead listener, and with patient
\* operators the path leads to whoever accepts.
PathHolds == LifecycleTypeOK /\ NoDeadPath /\ AcceptingIsReachable

\* What stop and attach promise patient operators: stop unbinds, attach binds,
\* and nothing comes back that nobody asked for.
StopAndAttach == ComesBackOnlyInvited /\ StopUnbinds /\ AttachWorks
=============================================================================
