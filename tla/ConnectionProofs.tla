------------------------- MODULE ConnectionProofs ---------------------------
(***************************************************************************)
(* From the socket to the last byte of a reply.                            *)
(*                                                                         *)
(* Lifecycle, for any operators and any number of agents: the socket path  *)
(* leads to no listener that has ended, and while operators wait for each  *)
(* other to the one that accepts; none comes back uninvited.               *)
(*                                                                         *)
(* Session: nothing runs without the permission it needs, and every reply  *)
(* is taken for the answer to its own command, whatever the clients, the   *)
(* files, the lines and the order of the steps.                            *)
(***************************************************************************)
EXTENDS Lifecycle, Session, SequenceTheorems, TLAPS

AllDead == \A k \in Agents : listener[k] = "dead"

\* The steps of the watcher between its notice of the trigger and its bind.
Spawning == {"consumed", "removed", "cleared"}

\* What patient operators keep: one listener at most is not dead and the path
\* leads to it while it accepts, one operator at most is under way, and from the
\* trigger to the bind no listener is left.
Orderly ==
  /\ \A k \in Agents : listener[k] = "accepting" => file = k
  /\ \A j, k \in Agents : listener[j] # "dead" /\ listener[k] # "dead" => j = k
  /\ \A o, p \in Operators :
       op[o] \notin {"idle", "session"} /\ op[p] \notin {"idle", "session"} => o = p
  /\ trigger \/ watcher \in Spawning => AllDead /\ invited
  /\ watcher \in Spawning \cup {"bound"} => ~trigger
  /\ \A o \in Operators : op[o] \notin {"idle", "session", "waiting"} =>
       watcher \in {"none", "polling"} /\ ~trigger
  /\ \A o \in Operators :
       /\ op[o] = "probing" => Reachable /\ ~STOP
       /\ op[o] = "asking" => AllDead
       /\ op[o] # "stale"

PathInv ==
  /\ LifecycleTypeOK
  /\ NoDeadPath
  /\ LAZY_WATCHING <=> watcher # "none"
  /\ patient => Orderly
LEMMA InitPath == Init => PathInv
<1> SUFFICES ASSUME Init PROVE PathInv
  OBVIOUS
<1>1. op = [o \in Operators |-> "idle"] /\ STOP = FALSE /\ trigger = FALSE /\ patient \in BOOLEAN
  BY DEF Init
<1>t. op \in [Operators -> OpStates]
  BY <1>1 DEF OpStates
<1>2. CASE listener = <<>>
  <2>1. /\ backlog = <<>> /\ file = 0 /\ LAZY_WATCHING = TRUE /\ watcher = "polling"
        /\ invited = FALSE
    BY <1>2 DEF Init
  <2>2. Agents = {} /\ Len(listener) = 0 /\ Len(backlog) = 0
    BY <1>2, <2>1 DEF Agents
  <2>3. listener \in Seq(ListenerStates) /\ backlog \in Seq(Seq(Operators \union {NoOne}))
    BY <1>2, <2>1, EmptySeq
  <2>4. LifecycleTypeOK
    <3>1. file \in 0..Len(listener) /\ watcher \in WatcherStates
      BY <2>1, <2>2 DEF WatcherStates
    <3> QED BY <1>1, <1>t, <2>1, <2>2, <2>3, <3>1 DEF LifecycleTypeOK
  <2> QED BY <1>1, <2>1, <2>2, <2>4 DEF PathInv, NoDeadPath, Orderly, Spawning
<1>3. CASE listener = <<"accepting">>
  <2>1. /\ backlog = << <<>> >> /\ file = 1 /\ LAZY_WATCHING = FALSE /\ watcher = "none"
        /\ invited = TRUE
    BY <1>3 DEF Init
  <2>2. Agents = {1} /\ Len(listener) = 1 /\ Len(backlog) = 1 /\ listener[1] = "accepting"
    BY <1>3, <2>1 DEF Agents
  <2>3. listener \in Seq(ListenerStates) /\ backlog \in Seq(Seq(Operators \union {NoOne}))
    <3>1. "accepting" \in ListenerStates /\ <<>> \in Seq(Operators \union {NoOne})
      BY EmptySeq DEF ListenerStates
    <3> QED BY <1>3, <2>1, <3>1
  <2>4. LifecycleTypeOK
    <3>1. file \in 0..Len(listener) /\ watcher \in WatcherStates
      BY <2>1, <2>2 DEF WatcherStates
    <3> QED BY <1>1, <1>t, <2>1, <2>2, <2>3, <3>1 DEF LifecycleTypeOK
  <2> QED BY <1>1, <2>1, <2>2, <2>4 DEF PathInv, NoDeadPath, Orderly, Spawning, Reachable
<1> QED BY <1>2, <1>3 DEF Init

\* A step that leaves the sockets alone keeps their types and the path.
LEMMA SocketsStill ==
  ASSUME PathInv, UNCHANGED sockets
  PROVE  /\ Agents' = Agents /\ AllDead' = AllDead /\ Reachable' = Reachable
         /\ NoDeadPath'
         /\ listener' \in Seq(ListenerStates) /\ Len(backlog') = Len(listener')
         /\ backlog' \in Seq(Seq(Operators \union {NoOne})) /\ file' \in 0..Len(listener')
BY DEF PathInv, LifecycleTypeOK, NoDeadPath, sockets, Agents, AllDead, Reachable

\* A wake-up, a probe or a client that joins a queue.
LEMMA Queueing ==
  ASSUME PathInv, NEW who \in Operators \union {NoOne}, Alive, Queued(who),
         UNCHANGED <<listener, file>>
  PROVE  /\ Agents' = Agents /\ AllDead' = AllDead /\ Reachable' = Reachable
         /\ NoDeadPath'
         /\ listener' \in Seq(ListenerStates) /\ Len(backlog') = Len(listener')
         /\ backlog' \in Seq(Seq(Operators \union {NoOne})) /\ file' \in 0..Len(listener')
<1>1. /\ file \in 1..Len(backlog) /\ backlog \in Seq(Seq(Operators \union {NoOne}))
      /\ Len(backlog) = Len(listener) /\ Len(listener) \in Nat
  BY DEF PathInv, LifecycleTypeOK, Alive
<1>2. backlog' = [backlog EXCEPT ![file] = Append(backlog[file], who)]
  BY DEF Queued
<1>3. backlog[file] \in Seq(Operators \union {NoOne})
  BY <1>1
<1>4. Append(backlog[file], who) \in Seq(Operators \union {NoOne})
  BY <1>3
<1>5. /\ backlog' \in Seq(Seq(Operators \union {NoOne})) /\ Len(backlog') = Len(backlog)
  BY <1>1, <1>2, <1>4, ExceptSeq
<1> QED BY <1>1, <1>5
        DEF PathInv, LifecycleTypeOK, NoDeadPath, Agents, AllDead, Reachable
LEMMA StepPath == PathInv /\ [Next]_agentVars => PathInv'
<1> SUFFICES ASSUME PathInv, [Next]_agentVars PROVE PathInv'
  OBVIOUS
<1>0. /\ STOP \in BOOLEAN /\ LAZY_WATCHING \in BOOLEAN /\ trigger \in BOOLEAN
      /\ listener \in Seq(ListenerStates) /\ Len(listener) \in Nat
      /\ backlog \in Seq(Seq(Operators \union {NoOne})) /\ Len(backlog) = Len(listener)
      /\ file \in 0..Len(listener) /\ watcher \in WatcherStates
      /\ op \in [Operators -> OpStates] /\ patient \in BOOLEAN /\ invited \in BOOLEAN
      /\ Agents = 1..Len(listener)
      /\ LAZY_WATCHING <=> watcher # "none"
  BY LenProperties DEF PathInv, LifecycleTypeOK, Agents
<1> USE DEF Goes, statics
<1>1. ASSUME NEW k \in Agents, Accept(k) PROVE PathInv'
  <2>1. /\ listener[k] = "accepting" /\ backlog[k] # <<>>
        /\ backlog' = [backlog EXCEPT ![k] = Tail(backlog[k])]
        /\ UNCHANGED <<STOP, LAZY_WATCHING, file, trigger, watcher, patient, invited>>
    BY <1>1 DEF Accept
  <2>2. backlog[k] \in Seq(Operators \union {NoOne})
    BY <1>0
  <2>3. Tail(backlog[k]) \in Seq(Operators \union {NoOne})
    BY <2>1, <2>2, HeadTailProperties
  <2>4. backlog' \in Seq(Seq(Operators \union {NoOne})) /\ Len(backlog') = Len(backlog)
    BY <1>0, <2>1, <2>3, ExceptSeq
  <2>5. CASE STOP
    <3>1. listener' = [listener EXCEPT ![k] = "stopping"]
      BY <1>1, <2>5 DEF Accept
    <3>2. op' = [o \in Operators |-> IF o = Head(backlog[k]) THEN "idle" ELSE op[o]]
      BY <1>1, <2>5 DEF Accept
    <3>3. "stopping" \in ListenerStates
      BY DEF ListenerStates
    <3>4. /\ listener' \in Seq(ListenerStates) /\ Len(listener') = Len(listener)
          /\ \A j \in Agents : listener'[j] = IF j = k THEN "stopping" ELSE listener[j]
      BY <1>0, <3>1, <3>3, ExceptSeq
    <3>5. Agents' = Agents
      BY <3>4 DEF Agents
    <3>6. op' \in [Operators -> OpStates]
      BY <1>0, <3>2 DEF OpStates
    <3>7. LifecycleTypeOK'
      BY <1>0, <2>1, <2>4, <3>4, <3>6 DEF LifecycleTypeOK
    <3>8. NoDeadPath'
      BY <1>0, <2>1, <3>4 DEF PathInv, NoDeadPath
    <3>9. patient' => Orderly'
      BY <1>0, <2>1, <2>5, <3>2, <3>4, <3>5 DEF PathInv, Orderly, AllDead, Reachable, Spawning
    <3> QED BY <1>0, <2>1, <3>7, <3>8, <3>9 DEF PathInv
  <2>6. CASE ~STOP
    <3>1. listener' = listener
      BY <1>1, <2>6 DEF Accept
    <3>2. op' = [o \in Operators |-> IF o = Head(backlog[k]) THEN "session" ELSE op[o]]
      BY <1>1, <2>6 DEF Accept
    <3>3. Agents' = Agents
      BY <3>1 DEF Agents
    <3>4. op' \in [Operators -> OpStates]
      BY <1>0, <3>2 DEF OpStates
    <3>5. LifecycleTypeOK'
      BY <1>0, <2>1, <2>4, <3>1, <3>4 DEF LifecycleTypeOK
    <3>6. patient' => Orderly'
      BY <1>0, <2>1, <3>1, <3>2, <3>3 DEF PathInv, Orderly, AllDead, Reachable, Spawning
    <3> QED BY <1>0, <2>1, <3>1, <3>5, <3>6 DEF PathInv, NoDeadPath
  <2> QED BY <2>5, <2>6
<1>2. ASSUME NEW k \in Agents, DropListener(k) PROVE PathInv'
  <2>1. /\ listener[k] = "stopping" /\ listener' = [listener EXCEPT ![k] = "closed"]
        /\ backlog' = [backlog EXCEPT ![k] = <<>>]
        /\ UNCHANGED <<STOP, LAZY_WATCHING, file, trigger, watcher, patient, invited>>
        /\ op' = [o \in Operators |-> IF InBacklog(k, o) THEN "idle" ELSE op[o]]
    BY <1>2 DEF DropListener
  <2>2. backlog' \in Seq(Seq(Operators \union {NoOne})) /\ Len(backlog') = Len(backlog)
    <3>1. <<>> \in Seq(Operators \union {NoOne})
      BY EmptySeq
    <3> QED BY <1>0, <2>1, <3>1, ExceptSeq
  <2>3. /\ listener' \in Seq(ListenerStates) /\ Len(listener') = Len(listener)
        /\ \A j \in Agents : listener'[j] = IF j = k THEN "closed" ELSE listener[j]
    <3>1. "closed" \in ListenerStates
      BY DEF ListenerStates
    <3> QED BY <1>0, <2>1, <3>1, ExceptSeq
  <2>4. Agents' = Agents
    BY <2>3 DEF Agents
  <2>5. op' \in [Operators -> OpStates]
    BY <1>0, <2>1 DEF OpStates
  <2>6. LifecycleTypeOK'
    BY <1>0, <2>1, <2>2, <2>3, <2>5 DEF LifecycleTypeOK
  <2>7. NoDeadPath'
    BY <1>0, <2>1, <2>3 DEF PathInv, NoDeadPath
  <2>8. patient' => Orderly'
    BY <1>0, <2>1, <2>3, <2>4 DEF PathInv, Orderly, AllDead, Reachable, Spawning
  <2> QED BY <1>0, <2>1, <2>6, <2>7, <2>8 DEF PathInv
<1>3. ASSUME NEW k \in Agents, RemovePath(k) PROVE PathInv'
  <2>1. /\ listener[k] = "closed" /\ listener' = [listener EXCEPT ![k] = "dead"]
        /\ file' = 0
        /\ UNCHANGED <<STOP, LAZY_WATCHING, backlog, trigger, watcher, op, patient, invited>>
    BY <1>3 DEF RemovePath, PathRemoved
  <2>2. /\ listener' \in Seq(ListenerStates) /\ Len(listener') = Len(listener)
        /\ \A j \in Agents : listener'[j] = IF j = k THEN "dead" ELSE listener[j]
    <3>1. "dead" \in ListenerStates
      BY DEF ListenerStates
    <3> QED BY <1>0, <2>1, <3>1, ExceptSeq
  <2>3. Agents' = Agents
    BY <2>2 DEF Agents
  <2>4. LifecycleTypeOK'
    BY <1>0, <2>1, <2>2 DEF LifecycleTypeOK
  <2>5. patient' => Orderly'
    BY <1>0, <2>1, <2>2, <2>3 DEF PathInv, Orderly, AllDead, Reachable, Spawning
  <2> QED BY <1>0, <2>1, <2>4, <2>5 DEF PathInv, NoDeadPath
<1>4. CASE Notice
  <2>1. LifecycleTypeOK'
    BY <1>0, <1>4, SocketsStill DEF Notice, LifecycleTypeOK, WatcherStates
  <2>2. patient' => Orderly'
    BY <1>0, <1>4, SocketsStill DEF Notice, PathInv, Orderly, Spawning, sockets
  <2> QED BY <1>0, <1>4, <2>1, <2>2, SocketsStill DEF Notice, PathInv
<1>5. CASE RemoveOldPath
  <2>1. LifecycleTypeOK'
    BY <1>0, <1>5 DEF RemoveOldPath, LifecycleTypeOK, WatcherStates
  <2>2. patient' => Orderly'
    BY <1>0, <1>5 DEF RemoveOldPath, PathInv, Orderly, Spawning, AllDead, Agents, Reachable
  <2> QED BY <1>0, <1>5, <2>1, <2>2 DEF RemoveOldPath, PathInv, NoDeadPath
<1>6. CASE ClearStop
  <2>1. LifecycleTypeOK'
    BY <1>0, <1>6, SocketsStill DEF ClearStop, LifecycleTypeOK, WatcherStates
  <2>2. patient' => Orderly'
    BY <1>0, <1>6, SocketsStill DEF ClearStop, PathInv, Orderly, Spawning, sockets
  <2> QED BY <1>0, <1>6, <2>1, <2>2, SocketsStill DEF ClearStop, PathInv
<1>7. CASE Bind
  <2>1. /\ watcher = "cleared" /\ listener' = Append(listener, "accepting")
        /\ backlog' = Append(backlog, <<>>) /\ file' = Len(listener) + 1
        /\ watcher' = "bound"
        /\ UNCHANGED <<STOP, LAZY_WATCHING, trigger, op, patient, invited>>
    BY <1>7 DEF Bind, BacklogFresh
  <2>2. /\ listener' \in Seq(ListenerStates) /\ Len(listener') = Len(listener) + 1
        /\ \A j \in Agents : listener'[j] = listener[j]
        /\ listener'[Len(listener) + 1] = "accepting"
    <3>1. "accepting" \in ListenerStates
      BY DEF ListenerStates
    <3> QED BY <1>0, <2>1, <3>1, AppendProperties
  <2>3. backlog' \in Seq(Seq(Operators \union {NoOne})) /\ Len(backlog') = Len(backlog) + 1
    <3>1. <<>> \in Seq(Operators \union {NoOne})
      BY EmptySeq
    <3> QED BY <1>0, <2>1, <3>1, AppendProperties
  <2>4. Agents' = Agents \cup {Len(listener) + 1} /\ Len(listener) + 1 \notin Agents
    BY <1>0, <2>2 DEF Agents
  <2>5. LifecycleTypeOK'
    BY <1>0, <2>1, <2>2, <2>3 DEF LifecycleTypeOK, WatcherStates
  <2>6. ASSUME patient PROVE Orderly'
    <3>1. Orderly /\ AllDead /\ ~trigger
      BY <2>1, <2>6 DEF PathInv, Orderly, Spawning
    <3>2. \A k \in Agents' : listener'[k] # "dead" => k = file'
      BY <2>1, <2>2, <2>4, <3>1 DEF AllDead
    <3>3. \A o \in Operators : op[o] \in {"idle", "session", "waiting"}
      BY <2>1, <3>1 DEF Orderly
    <3> QED BY <2>1, <3>1, <3>2, <3>3 DEF Orderly, Spawning
  <2> QED BY <1>0, <2>1, <2>2, <2>5, <2>6 DEF PathInv, NoDeadPath
<1>8. CASE StopWatching
  <2>1. LifecycleTypeOK'
    BY <1>0, <1>8, SocketsStill DEF StopWatching, LifecycleTypeOK, WatcherStates, WatchingCleared
  <2>2. patient' => Orderly'
    BY <1>0, <1>8, SocketsStill DEF StopWatching, PathInv, Orderly, Spawning, sockets
  <2> QED BY <1>0, <1>8, <2>1, <2>2, SocketsStill DEF StopWatching, PathInv, WatchingCleared
<1>9. ASSUME NEW o \in Operators, Connect(o) PROVE PathInv'
  <2>1. /\ MayBegin /\ Alive /\ Queued(o) /\ op[o] = "idle"
        /\ op' = [op EXCEPT ![o] = "connecting"]
        /\ UNCHANGED <<STOP, LAZY_WATCHING, listener, file, trigger, watcher, patient, invited>>
    BY <1>9 DEF Connect
  <2>2. op' \in [Operators -> OpStates]
    BY <1>0, <2>1 DEF OpStates
  <2>3. LifecycleTypeOK'
    BY <1>0, <2>1, <2>2, Queueing DEF LifecycleTypeOK
  <2>4. patient' => Orderly'
    BY <1>0, <2>1, Queueing DEF PathInv, Orderly, Spawning, MayBegin, NothingUnderWay
  <2> QED BY <1>0, <2>1, <2>3, <2>4, Queueing DEF PathInv
<1>10. ASSUME NEW o \in Operators, Quit(o) \/ BeginStop(o) \/ SetStop(o) PROVE PathInv'
  <2>1. LifecycleTypeOK'
    BY <1>0, <1>10, SocketsStill DEF LifecycleTypeOK, OpStates, Quit, BeginStop, SetStop
  <2>2. patient' => Orderly'
    <3>1. CASE Quit(o)
      BY <1>0, <3>1, SocketsStill DEF PathInv, Orderly, Spawning, Quit, sockets
    <3>2. CASE BeginStop(o)
      BY <1>0, <3>2, SocketsStill
      DEF PathInv, Orderly, Spawning, BeginStop, MayBegin, NothingUnderWay, sockets
    <3>3. CASE SetStop(o)
      BY <1>0, <3>3, SocketsStill DEF PathInv, Orderly, Spawning, SetStop, sockets
    <3> QED BY <1>10, <3>1, <3>2, <3>3
  <2> QED BY <1>0, <1>10, <2>1, <2>2, SocketsStill DEF PathInv, Quit, BeginStop, SetStop
<1>11. ASSUME NEW o \in Operators, Wake(o) PROVE PathInv'
  <2>1. /\ op[o] = "waking" /\ op' = [op EXCEPT ![o] = "arming"]
        /\ UNCHANGED <<STOP, LAZY_WATCHING, listener, file, trigger, watcher, patient, invited>>
        /\ IF Alive THEN Queued(NoOne) ELSE backlog' = backlog
    BY <1>11 DEF Wake, WakeListener
  <2>2. /\ Agents' = Agents /\ AllDead' = AllDead /\ Reachable' = Reachable /\ NoDeadPath'
        /\ listener' \in Seq(ListenerStates) /\ Len(backlog') = Len(listener')
        /\ backlog' \in Seq(Seq(Operators \union {NoOne})) /\ file' \in 0..Len(listener')
    <3>1. CASE Alive
      BY <2>1, <3>1, Queueing
    <3>2. CASE ~Alive
      BY <2>1, <3>2, SocketsStill DEF sockets
    <3> QED BY <3>1, <3>2
  <2>3. LifecycleTypeOK'
    BY <1>0, <2>1, <2>2 DEF LifecycleTypeOK, OpStates
  <2>4. patient' => Orderly'
    BY <1>0, <2>1, <2>2 DEF PathInv, Orderly, Spawning
  <2> QED BY <1>0, <2>1, <2>2, <2>3, <2>4 DEF PathInv
<1>12. ASSUME NEW o \in Operators, Arm(o) PROVE PathInv'
  <2>1. /\ op[o] = "arming" /\ op' = [op EXCEPT ![o] = "idle"]
        /\ UNCHANGED <<STOP, sockets, trigger, patient, invited>>
        /\ \/ LAZY_WATCHING /\ UNCHANGED <<LAZY_WATCHING, watcher>>
           \/ ~LAZY_WATCHING /\ LAZY_WATCHING' = TRUE /\ watcher' = "polling"
    BY <1>12 DEF Arm, ArmOnce
  <2>2. LifecycleTypeOK'
    BY <1>0, <2>1, SocketsStill DEF LifecycleTypeOK, OpStates, WatcherStates
  <2>3. patient' => Orderly'
    BY <1>0, <2>1, SocketsStill DEF PathInv, Orderly, Spawning, sockets
  <2> QED BY <1>0, <2>1, <2>2, <2>3, SocketsStill DEF PathInv
<1>13. ASSUME NEW o \in Operators, Look(o) PROVE PathInv'
  <2>1. /\ MayBegin /\ op[o] = "idle"
        /\ op' = [op EXCEPT ![o] = IF file # 0 THEN "probing" ELSE "asking"]
        /\ UNCHANGED <<STOP, LAZY_WATCHING, sockets, trigger, watcher, patient, invited>>
    BY <1>13 DEF Look
  <2>2. LifecycleTypeOK'
    BY <1>0, <2>1, SocketsStill DEF LifecycleTypeOK, OpStates
  <2>3. ASSUME patient PROVE Orderly'
    <3>1. Orderly /\ NothingUnderWay
      BY <2>1, <2>3 DEF PathInv, MayBegin
    <3>2. CASE file # 0
      <4>1. listener[file] = "accepting" /\ ~STOP
        BY <1>0, <3>1, <3>2 DEF NothingUnderWay, PathInv, NoDeadPath
      <4> QED BY <1>0, <2>1, <3>1, <3>2, <4>1, SocketsStill
              DEF Orderly, Spawning, NothingUnderWay, Reachable, sockets
    <3>3. CASE file = 0
      <4>1. AllDead
        BY <1>0, <3>1, <3>3 DEF NothingUnderWay, Orderly, AllDead
      <4> QED BY <1>0, <2>1, <3>1, <3>3, <4>1, SocketsStill
              DEF Orderly, Spawning, NothingUnderWay, sockets
    <3> QED BY <3>2, <3>3
  <2> QED BY <1>0, <2>1, <2>2, <2>3, SocketsStill DEF PathInv
<1>14. ASSUME NEW o \in Operators, AlreadyThere(o) PROVE PathInv'
  <2>1. /\ Alive /\ Queued(NoOne) /\ op[o] = "probing" /\ op' = [op EXCEPT ![o] = "idle"]
        /\ UNCHANGED <<STOP, LAZY_WATCHING, listener, file, trigger, watcher, patient, invited>>
    BY <1>14 DEF AlreadyThere, Answers
  <2>2. LifecycleTypeOK'
    BY <1>0, <2>1, Queueing DEF LifecycleTypeOK, OpStates
  <2>3. patient' => Orderly'
    BY <1>0, <2>1, Queueing DEF PathInv, Orderly, Spawning
  <2> QED BY <1>0, <2>1, <2>2, <2>3, Queueing DEF PathInv
<1>15. ASSUME NEW o \in Operators, NobodyAnswers(o) PROVE PathInv'
  <2>1. /\ ~Alive /\ op[o] = "probing" /\ op' = [op EXCEPT ![o] = "stale"]
        /\ UNCHANGED <<STOP, LAZY_WATCHING, sockets, trigger, watcher, patient, invited>>
    BY <1>15 DEF NobodyAnswers, Answers
  <2>2. ~patient
    BY <2>1 DEF PathInv, Orderly, Reachable, Alive
  <2>3. LifecycleTypeOK'
    BY <1>0, <2>1, SocketsStill DEF LifecycleTypeOK, OpStates
  <2> QED BY <1>0, <2>1, <2>2, <2>3, SocketsStill DEF PathInv
<1>16. ASSUME NEW o \in Operators, RemoveStale(o) PROVE PathInv'
  <2>1. /\ op[o] = "stale" /\ op' = [op EXCEPT ![o] = "asking"] /\ file' = 0
        /\ UNCHANGED <<STOP, LAZY_WATCHING, listener, backlog, trigger, watcher, patient, invited>>
    BY <1>16 DEF RemoveStale
  <2>2. ~patient
    BY <2>1 DEF PathInv, Orderly
  <2>3. LifecycleTypeOK'
    BY <1>0, <2>1 DEF LifecycleTypeOK, OpStates
  <2> QED BY <1>0, <2>1, <2>2, <2>3 DEF PathInv, NoDeadPath
<1>17. ASSUME NEW o \in Operators, Ask(o) PROVE PathInv'
  <2>1. /\ op[o] = "asking" /\ op' = [op EXCEPT ![o] = "waiting"]
        /\ trigger' = TRUE /\ invited' = TRUE
        /\ UNCHANGED <<STOP, LAZY_WATCHING, sockets, watcher, patient>>
    BY <1>17 DEF Ask
  <2>2. LifecycleTypeOK'
    BY <1>0, <2>1, SocketsStill DEF LifecycleTypeOK, OpStates
  <2>3. patient' => Orderly'
    BY <1>0, <2>1, SocketsStill DEF PathInv, Orderly, Spawning, sockets
  <2> QED BY <1>0, <2>1, <2>2, <2>3, SocketsStill DEF PathInv
<1>18. ASSUME NEW o \in Operators, Attached(o) \/ TimesOut(o) PROVE PathInv'
  <2>1. /\ op[o] = "waiting" /\ op' = [op EXCEPT ![o] = "idle"]
        /\ UNCHANGED <<STOP, LAZY_WATCHING, sockets, trigger, watcher, patient, invited>>
    BY <1>18 DEF Attached, TimesOut
  <2>2. LifecycleTypeOK'
    BY <1>0, <2>1, SocketsStill DEF LifecycleTypeOK, OpStates
  <2>3. patient' => Orderly'
    BY <1>0, <2>1, SocketsStill DEF PathInv, Orderly, Spawning, sockets
  <2> QED BY <1>0, <2>1, <2>2, <2>3, SocketsStill DEF PathInv
<1>19. CASE UNCHANGED agentVars
  BY <1>0, <1>19, SocketsStill
  DEF agentVars, sockets, PathInv, LifecycleTypeOK, Orderly, Spawning
<1>20. CASE Watcher
  BY <1>4, <1>5, <1>6, <1>7, <1>8, <1>20 DEF Watcher
<1>21. ASSUME NEW k \in Agents, AcceptThread(k) PROVE PathInv'
  BY <1>1, <1>2, <1>3, <1>21 DEF AcceptThread
<1>22. ASSUME NEW o \in Operators, Stopping(o) \/ Attaching(o) PROVE PathInv'
  BY <1>10, <1>11, <1>12, <1>14, <1>15, <1>16, <1>17, <1>18, <1>22 DEF Stopping, Attaching
<1> QED BY <1>9, <1>10, <1>13, <1>18, <1>19, <1>20, <1>21, <1>22 DEF Next, Rest

\* The socket path leads to no listener whose thread has ended; and while
\* operators wait for each other, to the one that accepts connections.
THEOREM PathIsTheListeners == Spec => []PathHolds
<1>1. PathInv => PathHolds
  BY DEF PathInv, Orderly, PathHolds, AcceptingIsReachable
<1> QED BY InitPath, StepPath, <1>1, PTL DEF Spec

\* A stopped agent binds no socket again until somebody has asked for it, as
\* long as operators wait for each other: no step of spawn_lazy, of stop or of
\* attach makes a listener that no trigger has asked for.
THEOREM NobodyUninvited == Spec => ComesBackOnlyInvited
<1>1. PathInv /\ [Next]_agentVars =>
        [patient /\ Len(listener') > Len(listener) => invited]_agentVars
  <2> SUFFICES ASSUME PathInv, Next, patient, Len(listener') > Len(listener) PROVE invited
    BY DEF agentVars
  <2>0. listener \in Seq(ListenerStates) /\ Len(listener) \in Nat
    BY LenProperties DEF PathInv, LifecycleTypeOK
  <2>1. CASE Bind
    BY <2>1 DEF Bind, PathInv, Orderly, Spawning
  <2>2. ASSUME NEW k \in Agents, AcceptThread(k) PROVE FALSE
    <3>1. \/ listener' = listener
          \/ \E x \in ListenerStates : listener' = [listener EXCEPT ![k] = x]
      BY <2>2 DEF AcceptThread, Accept, DropListener, RemovePath, ListenerStates
    <3>2. Len(listener') = Len(listener)
      BY <2>0, <3>1, ExceptSeq DEF Agents
    <3> QED BY <2>0, <3>2
  <2>3. CASE UNCHANGED listener
    BY <2>0, <2>3
  <2>4. CASE Watcher
    BY <2>1, <2>3, <2>4
    DEF Watcher, Notice, RemoveOldPath, ClearStop, StopWatching, sockets
  <2>5. CASE Rest
    BY <2>3, <2>5 DEF Rest, agentVars, sockets
  <2>6. ASSUME NEW o \in Operators,
               \/ Connect(o) \/ Quit(o) \/ BeginStop(o) \/ Stopping(o)
               \/ Look(o) \/ Attaching(o) \/ TimesOut(o)
        PROVE  UNCHANGED listener
    BY <2>6
    DEF Connect, Quit, BeginStop, Stopping, SetStop, Wake, Arm, Look, Attaching, AlreadyThere,
        NobodyAnswers, RemoveStale, Ask, Attached, TimesOut, sockets
  <2> QED BY <2>2, <2>3, <2>4, <2>5, <2>6 DEF Next
<1> QED BY InitPath, StepPath, <1>1, PTL DEF Spec, ComesBackOnlyInvited

-----------------------------------------------------------------------------

\* The agent's note of a permission is the client's right to it, a command that
\* is about to run has passed the gate, and a job was given by one who may.
Permitted(c, t) == password => authed[c] \/ auth_free(t)

IInv ==
  /\ password \in BOOLEAN /\ acted = TRUE
  /\ authed \in [Clients -> BOOLEAN] /\ granted \in [Clients -> BOOLEAN]
  /\ at = [c \in Clients |-> at[c]] /\ cmd = [c \in Clients |-> cmd[c]]
  /\ \A c \in Clients : password => authed[c] = granted[c]
  /\ \A c \in Clients : at[c] = "run" => Permitted(c, tok(cmd[c]))
  /\ \A j \in jobs : password => j.granted = TRUE \/ j.line.verb \in Free

\* The only commands that may run without the password are named by their first
\* token: a flag before the verb hides it from the gate, in the safe direction.
LEMMA FreeIsVerb == ASSUME NEW l, auth_free(tok(l)) PROVE l.verb \in Free
BY DEF auth_free, tok, Free

LEMMA InitGranted == SessionInit => IInv
<1> SUFFICES ASSUME SessionInit PROVE IInv
  OBVIOUS
<1>1. /\ password \in BOOLEAN /\ acted = TRUE /\ jobs = {}
      /\ at = [c \in Clients |-> "read"] /\ cmd = [c \in Clients |-> Line("", "")]
      /\ authed = [c \in Clients |-> ~password] /\ granted = [c \in Clients |-> FALSE]
  BY DEF SessionInit
<1> HIDE DEF SessionInit
<1>2. authed \in [Clients -> BOOLEAN] /\ granted \in [Clients -> BOOLEAN]
  BY <1>1
<1>3. at = [c \in Clients |-> at[c]] /\ cmd = [c \in Clients |-> cmd[c]]
  BY <1>1
<1>4. \A c \in Clients : password => authed[c] = granted[c]
  BY <1>1
<1> QED BY <1>1, <1>2, <1>3, <1>4 DEF IInv

LEMMA StepGranted == IInv /\ [SessionNext]_vars => IInv'
<1> SUFFICES ASSUME IInv, [SessionNext]_vars PROVE IInv'
  OBVIOUS
<1> USE DEF IInv
<1>1. ASSUME NEW c \in Clients, Cli(c) \/ Interrupt(c) PROVE IInv'
  <2>1. UNCHANGED <<password, handler, shared, ghosts>>
    BY <1>1 DEF Cli, Skip, Send, ReadReply, Finish, Interrupt, Hangup
  <2> QED BY <2>1 DEF handler, shared, ghosts, Permitted
<1>2. ASSUME NEW c \in Clients, Receive(c) PROVE IInv'
  <2>1. UNCHANGED <<password, authed, granted, acted, jobs>>
    BY <1>2 DEF Receive, ghosts
  <2>2. CASE UNCHANGED <<at, cmd>>
    BY <2>1, <2>2 DEF Permitted
  <2>3. CASE at' = [at EXCEPT ![c] = "gate"] /\ cmd' = [cmd EXCEPT ![c] = Head(up[c])]
    BY <2>1, <2>3 DEF Permitted
  <2> QED BY <1>2, <2>2, <2>3 DEF Receive
<1>3. ASSUME NEW c \in Clients, Refuse(c) PROVE IInv'
  BY <1>3 DEF Refuse, Answer, shared, Permitted
<1>4. ASSUME NEW c \in Clients, Submit(c) PROVE IInv'
  <2>1. UNCHANGED <<password, authed, granted, acted, cmd>> /\ at' = [at EXCEPT ![c] = "reply"]
    BY <1>4 DEF Submit, Answer
  <2>2. password => granted[c] = TRUE \/ cmd[c].verb \in Free
    BY <1>4, FreeIsVerb DEF Submit, Passes, NeedsAuth
  <2>3. \A j \in jobs' : j \in jobs \/ (j.line = cmd[c] /\ j.granted = granted[c])
    BY <1>4 DEF Submit
  <2> QED BY <2>1, <2>2, <2>3 DEF Permitted
<1>5. ASSUME NEW c \in Clients, Begin(c) PROVE IInv'
  <2>1. UNCHANGED <<password, authed, granted, acted, cmd, jobs>> /\ at' = [at EXCEPT ![c] = "run"]
    BY <1>5 DEF Begin, ghosts
  <2>2. Permitted(c, tok(cmd[c]))
    BY <1>5 DEF Begin, Passes, NeedsAuth, Permitted
  <2> QED BY <2>1, <2>2 DEF Permitted
<1>6. ASSUME NEW c \in Clients, Run(c) PROVE IInv'
  <2> DEFINE l == cmd[c]
  <2>1. UNCHANGED <<password, cmd, jobs>> /\ at' = [at EXCEPT ![c] = "reply"]
    BY <1>6 DEF Run, Answer
  <2>2. CASE Runs(l) /\ l.verb = "auth"
    <3>1. /\ authed' = [authed EXCEPT ![c] = ~password \/ l.arg = "right"]
          /\ granted' = [granted EXCEPT ![c] = l.arg = "right"]
      BY <1>6, <2>2 DEF Run, Authed
    <3>2. acted' = TRUE
      BY <1>6, <2>2 DEF Run, Acts, Free
    <3> QED BY <2>1, <3>1, <3>2 DEF Permitted
  <2>3. CASE ~(Runs(l) /\ l.verb = "auth")
    <3>1. authed' = authed
      <4>1. authed' = [authed EXCEPT ![c] = authed[c]]
        BY <1>6, <2>3 DEF Run, Authed
      <4> QED BY <4>1
    <3>2. granted' = granted
      <4>1. granted' = [granted EXCEPT ![c] = granted[c]]
        BY <1>6, <2>3 DEF Run
      <4> QED BY <4>1
    <3>3. password => granted[c] = TRUE \/ l.verb \in Free
      BY <1>6, FreeIsVerb DEF Run, Permitted
    <3>4. acted' = TRUE
      BY <1>6, <3>3 DEF Run, Acts
    <3> QED BY <2>1, <3>1, <3>2, <3>4 DEF Permitted
  <2> QED BY <2>2, <2>3
<1>7. ASSUME RunJob PROVE IInv'
  <2>1. PICK j \in jobs : /\ jobs' = jobs \ {j}
                          /\ Acts(j.line, j.granted)
                          /\ UNCHANGED <<password, client, socket, handler, wrote, granted>>
    BY <1>7 DEF RunJob
  <2>2. acted' = TRUE
    BY <2>1 DEF Acts
  <2> QED BY <2>1, <2>2 DEF handler, Permitted
<1>8. ASSUME NEW c \in Clients, Write(c) \/ WriteEnd(c) \/ Close(c) PROVE IInv'
  <2>1. UNCHANGED <<password, authed, granted, acted, cmd, jobs>>
    BY <1>8 DEF Write, WriteEnd, Close, shared, ghosts
  <2>2. \E pc \in {"read", "closing", "closed"} : at' = at \/ at' = [at EXCEPT ![c] = pc]
    BY <1>8 DEF Write, WriteEnd, Close
  <2> QED BY <2>1, <2>2 DEF Permitted
<1>9. CASE UNCHANGED vars
  BY <1>9 DEF vars, handler, shared, ghosts, Permitted
<1> QED
  BY <1>1, <1>2, <1>3, <1>4, <1>5, <1>6, <1>7, <1>8, <1>9 DEF SessionNext, Agent, Quiet

\* `dispatch` and `spawn_background` ask on every path: what runs while a
\* password is set was allowed to, for any number of connections and jobs.
THEOREM OnlyGrantedAlways == SessionSpec => []OnlyGranted
<1>1. IInv => OnlyGranted
  BY DEF IInv, OnlyGranted
<1> QED BY <1>1, InitGranted, StepGranted, PTL DEF SessionSpec

-----------------------------------------------------------------------------
(* Replies.  What a client has of the present reply, what is on its way and *)
(* what the agent still has to write are together the answer to the line it *)
(* sent last, and nothing else is on the way.                               *)

NoEnd(s) == \A i \in 1..Len(s) : s[i] # "END"
Whole(s) == \A i \in 1..Len(s) : s[i] \notin {"END"} \cup Unended
Clean(c) == \A k \in 1..Len(wrote[c]) : Whole(wrote[c][k])
Matched(c) ==
  \A k \in 1..Len(got[c]) : got[c][k] = IF k <= Len(wrote[c]) THEN wrote[c][k] ELSE <<>>

Joined(s, t) == s \o t
Closed(s) == Append(s, "END")

There(c) == Joined(buffer[c], down[c])
Last(c) == wrote[c][Len(wrote[c])]

\* Between two lines nothing is on the way.
Settled(c) ==
  /\ down[c] = <<>> /\ at[c] \in {"read", "closing", "closed"}
  /\ at[c] # "closed" => up[c] = <<>> /\ Len(wrote[c]) = Len(got[c])
  /\ at[c] = "closed" => Len(wrote[c]) <= Len(got[c])

\* A line has been sent and not been answered: it is on its way or in the
\* agent's hands, or was passed over.
Asked(c) ==
  /\ Len(wrote[c]) = Len(got[c])
  /\ cur[c] = <<>> /\ buffer[c] = <<>> /\ down[c] = <<>>
  /\ at[c] \in {"read", "gate", "run", "closing", "closed"}
  /\ Len(up[c]) <= 1 /\ (at[c] \in {"gate", "run"} => up[c] = <<>>)

\* The answer is being written.
Answering(c) ==
  /\ at[c] = "reply" /\ up[c] = <<>> /\ Len(wrote[c]) = Len(got[c]) + 1
  /\ Joined(cur[c], Joined(There(c), pend[c])) = Last(c)

\* It has been written, with the line that ends it.
Answered(c) ==
  /\ at[c] \in {"read", "closing", "closed"} /\ up[c] = <<>>
  /\ Len(wrote[c]) = Len(got[c]) + 1
  /\ Joined(cur[c], There(c)) = Closed(Last(c))

Phase(c) ==
  /\ Matched(c)
  /\ at[c] # "closed" => Len(got[c]) <= Len(wrote[c])
  /\ cli[c] = "send" => Settled(c)
  /\ cli[c] = "read" => Asked(c) \/ Answering(c) \/ Answered(c)

InStep == \A c \in Clients : Clean(c) => Phase(c)

Kinds ==
  /\ password \in BOOLEAN /\ conv \in Conversations
  /\ cli \in [Clients -> {"send", "read", "done"}]
  /\ at \in [Clients -> {"read", "gate", "run", "reply", "closing", "closed"}]
  /\ pos \in [Clients -> Nat \ {0}]
  /\ got \in [Clients -> Seq(Seq(Word))] /\ wrote \in [Clients -> Seq(Seq(Word))]
  /\ cur \in [Clients -> Seq(Word)] /\ buffer \in [Clients -> Seq(Word)]
  /\ up \in [Clients -> Seq(CommandLine)] /\ down \in [Clients -> Seq(Word)]
  /\ cmd \in [Clients -> CommandLine] /\ pend \in [Clients -> Seq(Word)]
  /\ keep \in [Clients -> BOOLEAN]

Stores ==
  /\ enabled \in BOOLEAN /\ files \in [Files -> Seq(Word)]
  /\ hist \in Seq(Word) /\ Len(hist) <= CAP

Submitted == \A j \in jobs : j.by \in Clients /\ j.nr \in Nat /\ j.nr <= Len(wrote[j.by]) /\ j.line \in CommandLine

Counts ==
  \A c \in Clients :
    /\ pos[c] <= Len(Lines(c)) + 1 /\ Len(got[c]) < pos[c]
    /\ cli[c] = "read" => pos[c] <= Len(Lines(c))
    /\ NoEnd(cur[c])

Sound == Kinds /\ Stores /\ Submitted /\ Counts

LEMMA OwnAreWords ==
  /\ "" \in Word /\ "auth" \in Word /\ "END" \in Word /\ "refused" \in Word /\ "job" \in Word
  /\ "wrote" \in Word /\ "unknown" \in Word /\ "count" \in Word /\ "missing" \in Word
  /\ "true" \in Word /\ "false" \in Word /\ "cleared" \in Word /\ "ok" \in Word
  /\ "required" \in Word /\ "disabled" \in Word /\ "stopped" \in Word
  /\ "glued" \in Word /\ "glued-" \in Word /\ "escape" \in Word
  /\ "" \notin Unended /\ "auth" \notin Unended
BY SessionAssumption DEF OwnWords, OwnUnended

LEMMA ShortSeqs ==
  ASSUME NEW S, NEW x \in S, NEW y \in S
  PROVE  <<>> \in Seq(S) /\ <<x>> \in Seq(S) /\ <<x, y>> \in Seq(S)
OBVIOUS

LEMMA LinesAre ==
  ASSUME conv \in Conversations, NEW c \in Clients
  PROVE  Lines(c) \in Seq(CommandLine)
<1>1. conv[c] \in [secret : Word, from : {"-c", "-f", "shell"}, lines : Seq(CommandLine)]
  BY SessionAssumption
<1>2. conv[c].lines \in Seq(CommandLine) /\ conv[c].secret \in Word
  BY <1>1
<1>3. Line("auth", conv[c].secret) \in CommandLine
  BY <1>2, OwnAreWords DEF Line, CommandLine
<1> DEFINE auth == Line("auth", conv[c].secret)
<1>4. <<auth>> \in Seq(CommandLine) /\ <<>> \in Seq(CommandLine)
  <2> HIDE DEF auth
  <2> QED BY <1>3 DEF auth
<1>5. (IF conv[c].secret = "none" THEN <<>> ELSE <<auth>>) \in Seq(CommandLine)
  BY <1>4
<1> HIDE DEF auth
<1> QED BY <1>2, <1>5, ConcatProperties DEF Lines, auth

LEMMA CurrentIs ==
  ASSUME Kinds, NEW c \in Clients, pos[c] <= Len(Lines(c))
  PROVE  Current(c) \in CommandLine
<1>1. Lines(c) \in Seq(CommandLine)
  BY LinesAre DEF Kinds
<1>2. pos[c] \in 1..Len(Lines(c))
  BY <1>1 DEF Kinds
<1> QED BY <1>1, <1>2, ElementOfSeq DEF Current

\* Whatever a command says is a sequence of texts.
LEMMA TextsAre ==
  ASSUME Stores, NEW l \in CommandLine, NEW ok
  PROVE  Texts(l, ok) \in Seq(Word)
<1>1. l.verb \in Word /\ l.pipe \in {"no", "wc", "bad"}
  BY DEF CommandLine
<1>2. \A x \in Word : <<x>> \in Seq(Word)
  BY ShortSeqs
<1>3. \A x, y \in Word : <<x, y>> \in Seq(Word)
  BY ShortSeqs
<1>4. l.arg \in Files => files[l.arg] \in Seq(Word)
  BY DEF Stores
<1>5. hist \in Seq(Word)
  BY DEF Stores
<1>6. Says(l, ok) \in Seq(Word)
  <2>1. CASE l.verb = "auth"
    BY <1>2, <2>1, OwnAreWords DEF Says
  <2>2. CASE l.verb = "cat"
    BY <1>2, <1>4, <2>2, OwnAreWords DEF Says
  <2>3. CASE l.verb = "history"
    BY <1>2, <1>5, <2>3, OwnAreWords DEF Says
  <2>4. CASE l.verb = "session"
    BY <1>2, <2>4, OwnAreWords DEF Says
  <2>5. CASE l.verb = "stop"
    BY <1>3, <2>5, OwnAreWords DEF Says
  <2>6. CASE l.verb = "cls"
    BY <1>2, <2>6, OwnAreWords DEF Says
  <2>7. CASE l.verb \notin {"auth", "cat", "history", "session", "stop", "cls"}
    <3>1. Says(l, ok) = <<l.verb>>
      BY <2>7 DEF Says
    <3> QED BY <1>1, <1>2, <3>1
  <2> QED BY <2>1, <2>2, <2>3, <2>4, <2>5, <2>6, <2>7
<1> QED BY <1>1, <1>2, <1>6, OwnAreWords DEF Texts

LEMMA Regroup ==
  ASSUME NEW b \in Seq(Word), NEW d \in Seq(Word), NEW x \in Seq(Word), NEW y \in Seq(Word)
  PROVE  Joined(Joined(b, Joined(d, x)), y) = Joined(Joined(b, d), Joined(x, y))
<1>1. PICK g \in Seq(Word) : g = b \o d
  BY ConcatProperties
<1>2. b \o (d \o x) = g \o x
  <2>1. (b \o d) \o x = b \o (d \o x)
    BY ConcatAssociative, SMTT(60)
  <2> QED BY <1>1, <2>1, Zenon
<1>3. (g \o x) \o y = g \o (x \o y)
  BY ConcatAssociative, SMTT(60)
<1>4. (b \o (d \o x)) \o y = (b \o d) \o (x \o y)
  BY <1>1, <1>2, <1>3, Zenon
<1> QED BY <1>4, Zenon DEF Joined

LEMMA JoinedAre ==
  ASSUME NEW s \in Seq(Word), NEW t \in Seq(Word)
  PROVE  /\ Joined(s, t) \in Seq(Word) /\ Closed(s) \in Seq(Word)
         /\ Joined(s, <<>>) = s /\ Joined(<<>>, t) = t
         /\ Joined(s, t) = <<>> <=> s = <<>> /\ t = <<>>
<1>1. s \o t \in Seq(Word) /\ s \o <<>> = s /\ <<>> \o t = t
  BY ConcatProperties, ConcatEmptySeq
<1>2. s \o t = <<>> <=> s = <<>> /\ t = <<>>
  BY ConcatEqualIffEmpty
<1>3. Append(s, "END") \in Seq(Word)
  BY OwnAreWords, AppendProperties
<1> QED BY <1>1, <1>2, <1>3 DEF Joined, Closed

LEMMA MoveEnd ==
  ASSUME NEW s \in Seq(Word), NEW b \in Seq(Word), NEW d \in Seq(Word)
  PROVE  Joined(s, Joined(b, Append(d, "END"))) = Closed(Joined(s, Joined(b, d)))
<1>1. PICK e \in Seq(Word) : e = <<"END">>
  BY OwnAreWords, ShortSeqs
<1>2. \A u \in Seq(Word) : Append(u, "END") = Joined(u, e)
  BY <1>1, OwnAreWords, AppendIsConcat DEF Joined
<1>3. \A u, v, w \in Seq(Word) : Joined(Joined(u, v), w) = Joined(u, Joined(v, w))
  <2> SUFFICES ASSUME NEW u \in Seq(Word), NEW v \in Seq(Word), NEW w \in Seq(Word)
               PROVE  Joined(Joined(u, v), w) = Joined(u, Joined(v, w))
    OBVIOUS
  <2>1. (u \o v) \o w = u \o (v \o w)
    BY ConcatAssociative, SMTT(60)
  <2> QED BY <2>1, Zenon DEF Joined
<1>4. Joined(b, d) \in Seq(Word) /\ Joined(s, Joined(b, d)) \in Seq(Word)
  BY JoinedAre
<1>5. Joined(b, Append(d, "END")) = Joined(Joined(b, d), e)
  <2>1. Append(d, "END") = Joined(d, e)
    BY <1>2
  <2>2. Joined(Joined(b, d), e) = Joined(b, Joined(d, e))
    BY <1>3
  <2> QED BY <2>1, <2>2, Zenon
<1>6. Joined(s, Joined(Joined(b, d), e)) = Joined(Joined(s, Joined(b, d)), e)
  BY <1>3, <1>4
<1>7. Closed(Joined(s, Joined(b, d))) = Joined(Joined(s, Joined(b, d)), e)
  BY <1>2, <1>4 DEF Closed
<1> QED BY <1>5, <1>6, <1>7

\* The stream a client reads: moving a piece of it onto the wire and taking a
\* text off it lose nothing, and the first END is the last text of the reply.
LEMMA MovePiece ==
  ASSUME NEW b \in Seq(Word), NEW d \in Seq(Word), NEW p \in Seq(Word), NEW n \in 1..Len(p)
  PROVE  /\ SubSeq(p, 1, n) \in Seq(Word) /\ SubSeq(p, n + 1, Len(p)) \in Seq(Word)
         /\ Joined(Joined(b, d \o SubSeq(p, 1, n)), SubSeq(p, n + 1, Len(p))) = Joined(Joined(b, d), p)
<1> DEFINE x == SubSeq(p, 1, n)
           y == SubSeq(p, n + 1, Len(p))
<1>1. Len(p) \in Nat /\ n \in Nat /\ n <= Len(p)
  OBVIOUS
<1>2. \A i \in 1..Len(p) : p[i] \in Word
  BY ElementOfSeq
<1>3. x \in Seq(Word)
  <2>1. \A i \in 1..n : p[i] \in Word
    BY <1>1, <1>2
  <2> QED BY <1>1, <2>1, SubSeqProperties
<1>4. y \in Seq(Word)
  <2>1. \A i \in n + 1..Len(p) : p[i] \in Word
    BY <1>1, <1>2
  <2> QED BY <1>1, <2>1, SubSeqProperties
<1>5. x \o y = p
  <2>1. SubSeq(p, 1, n) \o SubSeq(p, n + 1, Len(p)) = SubSeq(p, 1, Len(p))
    BY <1>1, ConcatAdjacentSubSeq
  <2> QED BY <2>1, SubSeqFull
<1> HIDE DEF x, y
<1>6. Joined(Joined(b, Joined(d, x)), y) = Joined(Joined(b, d), Joined(x, y))
  BY <1>3, <1>4, Regroup
<1>7. Joined(x, y) = p
  BY <1>5 DEF Joined
<1>8. Joined(Joined(b, Joined(d, x)), y) = Joined(Joined(b, d), p)
  BY <1>6, <1>7
<1>9. Joined(d, x) = d \o x
  BY DEF Joined
<1> QED BY <1>3, <1>4, <1>8, <1>9 DEF x, y

LEMMA TakeHead ==
  ASSUME NEW s \in Seq(Word), NEW t \in Seq(Word), t # <<>>
  PROVE  /\ Head(t) \in Word /\ Tail(t) \in Seq(Word)
         /\ Joined(Append(s, Head(t)), Tail(t)) = Joined(s, t)
<1>1. Head(t) \in Word /\ Tail(t) \in Seq(Word) /\ Head(t) = t[1]
      /\ Len(Tail(t)) = Len(t) - 1 /\ \A i \in 1..Len(Tail(t)) : Tail(t)[i] = t[i + 1]
  BY HeadTailProperties
<1>2. Len(t) \in Nat \ {0} /\ Len(s) \in Nat
  BY EmptySeq
<1> DEFINE h == Head(t)
           r == Tail(t)
           a == Append(s, h)
<1> HIDE DEF h, r
<1>3. a \in Seq(Word) /\ Len(a) = Len(s) + 1 /\ (\A i \in 1..Len(s) : a[i] = s[i]) /\ a[Len(s) + 1] = h
  BY <1>1, AppendProperties DEF h
<1> HIDE DEF a
<1> DEFINE u == a \o r
           v == s \o t
<1>4. u \in Seq(Word) /\ Len(u) = Len(a) + Len(r)
      /\ \A i \in 1..Len(a) + Len(r) : u[i] = IF i <= Len(a) THEN a[i] ELSE r[i - Len(a)]
  BY <1>1, <1>3, ConcatProperties DEF r
<1>5. v \in Seq(Word) /\ Len(v) = Len(s) + Len(t)
      /\ \A i \in 1..Len(s) + Len(t) : v[i] = IF i <= Len(s) THEN s[i] ELSE t[i - Len(s)]
  BY ConcatProperties
<1> HIDE DEF u, v
<1>6. Len(u) = Len(v) /\ Len(u) = Len(s) + Len(t)
  BY <1>1, <1>2, <1>3, <1>4, <1>5 DEF r
<1>7. ASSUME NEW i \in 1..Len(u) PROVE u[i] = v[i]
  <2>0. i \in Nat /\ i >= 1 /\ i <= Len(s) + Len(t)
    BY <1>2, <1>6
  <2>1. CASE i <= Len(s)
    BY <1>2, <1>3, <1>4, <1>5, <1>6, <2>0, <2>1
  <2>2. CASE i = Len(s) + 1
    <3>1. u[i] = h
      BY <1>2, <1>3, <1>4, <1>6, <2>2
    <3>2. v[i] = t[1]
      BY <1>2, <1>5, <1>6, <2>2
    <3> QED BY <1>1, <3>1, <3>2 DEF h
  <2>3. CASE i > Len(s) + 1
    <3> DEFINE j == i - (Len(s) + 1)
    <3>1. j \in 1..Len(Tail(t)) /\ i - Len(s) = j + 1
      BY <1>1, <1>2, <2>0, <2>3
    <3>2. u[i] = r[j]
      BY <1>2, <1>3, <1>4, <1>6, <2>0, <2>3
    <3>3. v[i] = t[j + 1]
      BY <1>2, <1>5, <1>6, <2>0, <2>3, <3>1
    <3> QED BY <1>1, <3>1, <3>2, <3>3 DEF r
  <2> QED BY <1>2, <2>0, <2>1, <2>2, <2>3
<1>8. u = v
  BY <1>4, <1>5, <1>6, <1>7, SeqEqual
<1>9. Joined(a, r) = Joined(s, t)
  BY <1>8, Zenon DEF u, v, Joined
<1> QED BY <1>1, <1>9 DEF a, h, r

LEMMA HeadPlace ==
  ASSUME NEW s \in Seq(Word), NEW t \in Seq(Word), t # <<>>
  PROVE  Len(s) \in Nat /\ Len(s \o t) = Len(s) + Len(t) /\ (s \o t)[Len(s) + 1] = Head(t)
<1>1. Head(t) = t[1] /\ Len(t) \in Nat \ {0} /\ Len(s) \in Nat
  BY EmptySeq
<1>2. Len(s \o t) = Len(s) + Len(t)
      /\ \A i \in 1..Len(s) + Len(t) : (s \o t)[i] = IF i <= Len(s) THEN s[i] ELSE t[i - Len(s)]
  BY ConcatProperties
<1> QED BY <1>1, <1>2

LEMMA NotYet ==
  ASSUME NEW s \in Seq(Word), NEW t \in Seq(Word), NEW p \in Seq(Word), t # <<>>,
         NEW w, NoEnd(w), Joined(s, Joined(t, p)) = w
  PROVE  Head(t) # "END"
<1>1. t \o p \in Seq(Word) /\ t \o p # <<>> /\ Head(t \o p) = Head(t)
  <2>1. Len(t) \in Nat \ {0} /\ Len(p) \in Nat
    BY EmptySeq
  <2>2. t \o p \in Seq(Word) /\ Len(t \o p) = Len(t) + Len(p)
        /\ \A i \in 1..Len(t) + Len(p) : (t \o p)[i] = IF i <= Len(t) THEN t[i] ELSE p[i - Len(t)]
    BY ConcatProperties
  <2>3. t \o p # <<>> /\ (t \o p)[1] = t[1]
    BY <2>1, <2>2, EmptySeq
  <2> QED BY <2>2, <2>3
<1> DEFINE x == t \o p
<1> HIDE DEF x
<1>2. Len(s) \in Nat /\ Len(s \o x) = Len(s) + Len(x) /\ (s \o x)[Len(s) + 1] = Head(x) /\ Len(x) \in Nat \ {0}
  BY <1>1, HeadPlace, EmptySeq DEF x
<1>3. s \o x = w
  BY DEF x, Joined
<1>4. Len(s) + 1 \in 1..Len(w) /\ w[Len(s) + 1] = Head(t)
  BY <1>1, <1>2, <1>3 DEF x
<1> QED BY <1>4 DEF NoEnd

LEMMA Found ==
  ASSUME NEW s \in Seq(Word), NEW t \in Seq(Word), t # <<>>, Head(t) = "END",
         NEW w \in Seq(Word), NoEnd(w), Joined(s, t) = Closed(w)
  PROVE  s = w /\ Tail(t) = <<>>
<1>1. Len(s) \in Nat /\ Len(s \o t) = Len(s) + Len(t) /\ (s \o t)[Len(s) + 1] = "END"
      /\ Len(t) \in Nat \ {0} /\ Len(w) \in Nat
  BY HeadPlace, EmptySeq
<1>2. \A i \in 1..Len(s) : (s \o t)[i] = s[i]
  <2>1. \A i \in 1..Len(s) + Len(t) : (s \o t)[i] = IF i <= Len(s) THEN s[i] ELSE t[i - Len(s)]
    BY ConcatProperties
  <2> QED BY <1>1, <2>1
<1> DEFINE a == Append(w, "END")
<1>3. Len(a) = Len(w) + 1 /\ (\A i \in 1..Len(w) : a[i] = w[i])
  BY AppendProperties
<1> HIDE DEF a
<1> DEFINE v == s \o t
<1>4. v = a
  BY Zenon DEF a, Joined, Closed
<1> HIDE DEF v
<1>5. Len(s) + 1 = Len(w) + 1
  <2>1. Len(s) + 1 \in 1..Len(w) + 1
    BY <1>1, <1>3, <1>4 DEF v
  <2>2. Len(s) + 1 \notin 1..Len(w)
    BY <1>1, <1>3, <1>4 DEF v, NoEnd
  <2> QED BY <1>1, <2>1, <2>2
<1>6. Len(s) = Len(w) /\ \A i \in 1..Len(s) : s[i] = w[i]
  BY <1>1, <1>2, <1>3, <1>4, <1>5 DEF v
<1>7. s = w
  BY <1>6, SeqEqual
<1>8. Len(t) = 1
  <2>1. Len(v) = Len(s) + Len(t)
    BY <1>1 DEF v
  <2>2. Len(v) = Len(w) + 1
    BY <1>3, <1>4
  <2>3. Len(s) = Len(w)
    BY <1>1, <1>5
  <2> HIDE DEF v
  <2>4. Len(s) + Len(t) = Len(s) + 1
    BY <2>1, <2>2, <2>3
  <2>5. \A a1, b1 \in Nat : a1 + b1 = a1 + 1 => b1 = 1
    OBVIOUS
  <2> QED BY <1>1, <2>4, <2>5
<1>9. Tail(t) \in Seq(Word) /\ Len(Tail(t)) = 0
  BY <1>8, HeadTailProperties
<1> QED BY <1>7, <1>9, EmptySeq

-----------------------------------------------------------------------------
(* Types.                                                                   *)

LEMMA SoundStarts == SessionInit => Sound
<1> SUFFICES ASSUME SessionInit PROVE Sound
  OBVIOUS
<1>1. /\ <<>> \in Seq(Word) /\ <<>> \in Seq(Seq(Word)) /\ <<>> \in Seq(CommandLine)
      /\ Len(<<>>) = 0
  BY EmptySeq
<1>2. Line("", "") \in CommandLine
  BY OwnAreWords DEF Line, CommandLine
<1>3. Kinds
  <2>1. \E none : /\ none \in Seq(Word) /\ none \in Seq(Seq(Word)) /\ none \in Seq(CommandLine)
                  /\ got = [c \in Clients |-> none] /\ cur = [c \in Clients |-> none]
                  /\ buffer = [c \in Clients |-> none] /\ pend = [c \in Clients |-> none]
                  /\ up = [c \in Clients |-> none] /\ down = [c \in Clients |-> none]
                  /\ wrote = [c \in Clients |-> none]
    BY <1>1 DEF SessionInit
  <2>2. \E line \in CommandLine : cmd = [c \in Clients |-> line]
    BY <1>2 DEF SessionInit
  <2>3. /\ password \in BOOLEAN /\ conv \in Conversations
        /\ cli = [c \in Clients |-> "send"] /\ pos = [c \in Clients |-> 1]
        /\ at = [c \in Clients |-> "read"] /\ keep = [c \in Clients |-> TRUE]
    BY DEF SessionInit
  <2> HIDE DEF SessionInit
  <2> QED BY <2>1, <2>2, <2>3 DEF Kinds
<1>4. Stores
  <2>1. hist = <<>> /\ files = FileText /\ enabled = FALSE
    BY DEF SessionInit
  <2>2. FileText \in [Files -> Seq(Word)] /\ CAP \in Nat
    BY SessionAssumption
  <2>3. hist \in Seq(Word) /\ Len(hist) = 0
    BY <1>1, <2>1
  <2>4. Len(hist) <= CAP
    BY <2>2, <2>3
  <2> QED BY <2>1, <2>2, <2>3, <2>4 DEF Stores
<1>5. Submitted
  BY DEF SessionInit, Submitted
<1>6. ASSUME NEW c \in Clients
      PROVE  /\ pos[c] <= Len(Lines(c)) + 1 /\ Len(got[c]) < pos[c]
             /\ cli[c] = "read" => pos[c] <= Len(Lines(c))
             /\ NoEnd(cur[c])
  <2>1. pos[c] = 1 /\ got[c] = <<>> /\ cli[c] = "send" /\ cur[c] = <<>>
    BY DEF SessionInit
  <2>2. Len(Lines(c)) \in Nat
    BY <1>3, LinesAre, LenProperties DEF Kinds
  <2> QED BY <1>1, <2>1, <2>2 DEF NoEnd
<1> QED BY <1>3, <1>4, <1>5, <1>6 DEF Sound, Counts

\* Counts depends on nothing but the CLI's own variables.
LEMMA CountsStill ==
  ASSUME Counts, UNCHANGED <<conv, pos, got, cli, cur>>
  PROVE  Counts'
<1>1. \A c \in Clients : Lines(c)' = Lines(c) /\ NoEnd(cur'[c]) = NoEnd(cur[c])
  BY DEF Lines
<1> QED BY <1>1 DEF Counts

\* Nor Submitted on anything but the jobs and how many answers there are.
LEMMA SubmittedStill ==
  ASSUME Submitted, UNCHANGED <<jobs, wrote>>
  PROVE  Submitted'
BY DEF Submitted

LEMMA WroteMore ==
  ASSUME Sound, NEW c \in Clients, NEW texts \in Seq(Word),
         wrote' = [wrote EXCEPT ![c] = Append(@, texts)]
  PROVE  /\ wrote' \in [Clients -> Seq(Seq(Word))]
         /\ \A d \in Clients : Len(wrote[d]) \in Nat /\ Len(wrote[d]) <= Len(wrote'[d])
         /\ Len(wrote'[c]) = Len(wrote[c]) + 1
<1>1. wrote \in [Clients -> Seq(Seq(Word))]
  BY DEF Sound, Kinds
<1>2. Append(wrote[c], texts) \in Seq(Seq(Word)) /\ Len(Append(wrote[c], texts)) = Len(wrote[c]) + 1
  BY <1>1, AppendProperties
<1>3. \A d \in Clients : Len(wrote[d]) \in Nat
  BY <1>1, LenProperties
<1>4. \A d \in Clients : wrote'[d] = IF d = c THEN Append(wrote[c], texts) ELSE wrote[d]
  BY <1>1
<1> QED BY <1>1, <1>2, <1>3, <1>4

LEMMA FilesStill ==
  ASSUME Stores, NEW l, Opened(l) = files'
  PROVE  files' \in [Files -> Seq(Word)]
BY EmptySeq DEF Stores, Opened

LEMMA FollowedAre ==
  ASSUME NEW s \in Seq(Word), NEW t \in Seq(Word)
  PROVE  Followed(s, t) \in Seq(Word)
<1>1. CASE s # <<>> /\ t # <<>> /\ s[Len(s)] \in Unended
  <2> DEFINE front == SubSeq(s, 1, Len(s) - 1)
             rest == Tail(t)
             word == Glued(Head(t))
             middle == <<word>>
  <2>1. Len(s) \in Nat \ {0}
    BY <1>1, EmptySeq
  <2>2. front \in Seq(Word)
    <3>1. \A i \in 1..Len(s) - 1 : s[i] \in Word
      BY <2>1, ElementOfSeq
    <3> QED BY <2>1, <3>1, SubSeqProperties
  <2>3. rest \in Seq(Word)
    BY <1>1, HeadTailProperties
  <2>4. word \in Word
    BY OwnAreWords DEF Glued
  <2> HIDE DEF front, rest, word
  <2>5. middle \in Seq(Word)
    BY <2>4, ShortSeqs
  <2> HIDE DEF middle
  <2>6. front \o middle \in Seq(Word)
    BY <2>2, <2>5, ConcatProperties
  <2>7. (front \o middle) \o rest \in Seq(Word)
    BY <2>3, <2>6, ConcatProperties
  <2>8. Followed(s, t) = (front \o middle) \o rest
    BY <1>1 DEF Followed, front, middle, word, rest
  <2> QED BY <2>7, <2>8
<1>2. CASE ~(s # <<>> /\ t # <<>> /\ s[Len(s)] \in Unended)
  <2>1. s \o t \in Seq(Word)
    BY ConcatProperties
  <2> QED BY <1>2, <2>1 DEF Followed
<1> QED BY <1>1, <1>2

LEMMA EffectKeeps ==
  ASSUME Stores, NEW l \in CommandLine, NEW texts \in Seq(Word), NEW sink, Effect(l, texts, sink)
  PROVE  Stores'
<1>1. enabled' \in BOOLEAN
  BY Zenon DEF Stores, Effect
<1>2. hist' = hist \/ hist' = <<>>
  BY DEF Effect
<1>3. hist' \in Seq(Word) /\ Len(hist') <= CAP
  <2>1. CASE hist' = hist
    BY <2>1 DEF Stores
  <2>2. CASE hist' = <<>>
    <3>1. <<>> \in Seq(Word) /\ Len(<<>>) = 0 /\ CAP \in Nat
      BY EmptySeq, SessionAssumption
    <3>2. hist' \in Seq(Word) /\ Len(hist') = 0
      BY <2>2, <3>1
    <3> QED BY <3>1, <3>2
  <2> QED BY <1>2, <2>1, <2>2
<1>4. files' \in [Files -> Seq(Word)]
  <2>1. files' = files \/ files' = [files EXCEPT ![sink] = Followed(files[sink], texts)]
    BY DEF Effect
  <2>2. sink \in Files => Followed(files[sink], texts) \in Seq(Word)
    BY FollowedAre DEF Stores
  <2> DEFINE more == Followed(files[sink], texts)
  <2> HIDE DEF more
  <2>3. files \in [Files -> Seq(Word)]
    BY DEF Stores
  <2>4. [files EXCEPT ![sink] = more] \in [Files -> Seq(Word)]
    BY <2>2, <2>3 DEF more
  <2> QED BY <2>1, <2>3, <2>4 DEF more
<1> QED BY <1>1, <1>3, <1>4 DEF Stores

\* One of the CLI processes.
LEMMA SkipSound == ASSUME Sound, NEW c \in Clients, Skip(c) PROVE Sound'
<1>1. pos[c] \in Nat \ {0} /\ pos[c] <= Len(Lines(c)) /\ Len(Lines(c)) \in Nat
  BY LinesAre, LenProperties DEF Sound, Kinds, Skip
<1>2. Kinds'
  BY <1>1 DEF Sound, Kinds, Skip, socket, handler, ghosts
<1>3. Stores' /\ Submitted'
  BY DEF Sound, Stores, Submitted, Skip, shared, ghosts
<1>4. ASSUME NEW d \in Clients
      PROVE  /\ pos'[d] <= Len(Lines(d)') + 1 /\ Len(got'[d]) < pos'[d]
             /\ cli'[d] = "read" => pos'[d] <= Len(Lines(d)')
             /\ NoEnd(cur'[d])
  <2>1. Lines(d)' = Lines(d) /\ got' = got /\ cur' = cur /\ cli' = cli
        /\ pos'[d] = IF d = c THEN pos[c] + 1 ELSE pos[d]
    BY DEF Skip, Lines, Sound, Kinds
  <2>2. /\ pos[d] <= Len(Lines(d)) + 1 /\ Len(got[d]) < pos[d] /\ NoEnd(cur[d])
        /\ cli[d] = "read" => pos[d] <= Len(Lines(d))
    BY DEF Sound, Counts
  <2>3. Len(got[d]) \in Nat /\ cli[c] = "send"
    BY LenProperties DEF Sound, Kinds, Skip
  <2> QED BY <1>1, <2>1, <2>2, <2>3
<1> QED BY <1>2, <1>3, <1>4 DEF Sound, Counts

LEMMA SendSound == ASSUME Sound, NEW c \in Clients, Send(c) PROVE Sound'
<1>1. Current(c) \in CommandLine
  BY CurrentIs DEF Sound, Send
<1>2. Stores' /\ Submitted'
  BY DEF Sound, Stores, Submitted, Send, shared, ghosts
<1>3. UNCHANGED <<password, conv, pos, got, down, at, cmd, authed, keep, pend, wrote>>
  BY DEF Send, handler, ghosts
<1>4. CASE at[c] = "closed"
  <2>1. cli' = [cli EXCEPT ![c] = "done"] /\ UNCHANGED <<up, cur, buffer>>
    BY <1>4 DEF Send
  <2>2. Kinds'
    BY <1>3, <2>1 DEF Sound, Kinds
  <2>3. Counts'
    <3>1. \A d \in Clients : Lines(d)' = Lines(d) /\ (cli'[d] = "read" => cli[d] = "read")
      BY <1>3, <2>1 DEF Lines, Sound, Kinds
    <3> QED BY <1>3, <2>1, <3>1 DEF Sound, Counts
  <2> QED BY <1>2, <2>2, <2>3 DEF Sound
<1>5. CASE at[c] # "closed"
  <2>1. /\ cli' = [cli EXCEPT ![c] = "read"] /\ up' = [up EXCEPT ![c] = Append(up[c], Current(c))]
        /\ cur' = [cur EXCEPT ![c] = <<>>] /\ buffer' = [buffer EXCEPT ![c] = <<>>]
        /\ pos[c] <= Len(Lines(c))
    BY <1>5 DEF Send
  <2>2. Append(up[c], Current(c)) \in Seq(CommandLine)
    BY <1>1, AppendProperties DEF Sound, Kinds
  <2>3. <<>> \in Seq(Word) /\ NoEnd(<<>>)
    BY EmptySeq DEF NoEnd
  <2> DEFINE more == Append(up[c], Current(c))
             none == <<>>
  <2> HIDE DEF more, none
  <2>4. Kinds'
    BY <1>3, <2>1, <2>2, <2>3 DEF Sound, Kinds, more, none
  <2>5. Counts'
    <3>1. \A d \in Clients : /\ Lines(d)' = Lines(d) /\ (d # c => cli'[d] = cli[d] /\ cur'[d] = cur[d])
                             /\ cur'[c] = <<>>
      BY <1>3, <2>1 DEF Lines, Sound, Kinds
    <3> QED BY <1>3, <2>1, <2>3, <3>1 DEF Sound, Counts
  <2> QED BY <1>2, <2>4, <2>5 DEF Sound
<1> QED BY <1>4, <1>5

LEMMA HangupSound == ASSUME Sound, NEW c \in Clients, Hangup(c) PROVE Sound'
<1>1. cli' = [cli EXCEPT ![c] = "done"] /\ UNCHANGED <<password, conv, pos, got, cur, buffer, socket, handler, shared, ghosts>>
  BY DEF Hangup
<1>2. Kinds'
  BY <1>1 DEF Sound, Kinds, socket, handler, ghosts
<1>3. Stores' /\ Submitted'
  BY <1>1 DEF Sound, Stores, Submitted, shared, ghosts
<1>4. Counts'
  <2>1. \A d \in Clients : Lines(d)' = Lines(d) /\ (cli'[d] = "read" => cli[d] = "read")
    BY <1>1 DEF Lines, Sound, Kinds
  <2> QED BY <1>1, <2>1 DEF Sound, Counts
<1> QED BY <1>2, <1>3, <1>4 DEF Sound

\* What ReadReply finds and what it does with it.
LEMMA Reading ==
  ASSUME Sound, NEW c \in Clients, ReadReply(c)
  PROVE  LET there == There(c)
             ends == there = <<>> \/ Head(there) = "END"
         IN  /\ there \in Seq(Word) /\ cli[c] = "read" /\ (there # <<>> \/ at[c] = "closed")
             /\ down' = [down EXCEPT ![c] = <<>>]
             /\ buffer' = [buffer EXCEPT ![c] = IF there = <<>> THEN <<>> ELSE Tail(there)]
             /\ ends => EndReply(c)
             /\ ~ends => cur' = [cur EXCEPT ![c] = Append(cur[c], Head(there))] /\ UNCHANGED <<got, pos, cli>>
             /\ UNCHANGED <<password, conv, up, handler, shared, ghosts>>
<1>1. There(c) = buffer[c] \o down[c]
  BY DEF There, Joined
<1>2. There(c) \in Seq(Word)
  <2>1. buffer[c] \in Seq(Word) /\ down[c] \in Seq(Word)
    BY DEF Sound, Kinds
  <2> QED BY <2>1, JoinedAre DEF There
<1> DEFINE there == buffer[c] \o down[c]
<1>3. /\ cli[c] = "read" /\ (there # <<>> \/ at[c] = "closed")
      /\ down' = [down EXCEPT ![c] = <<>>]
      /\ buffer' = [buffer EXCEPT ![c] = IF there = <<>> THEN <<>> ELSE Tail(there)]
      /\ IF there = <<>> \/ Head(there) = "END"
         THEN EndReply(c)
         ELSE cur' = [cur EXCEPT ![c] = Append(cur[c], Head(there))] /\ UNCHANGED <<got, pos, cli>>
      /\ UNCHANGED <<password, conv, up, handler, shared, ghosts>>
  BY DEF ReadReply
<1> HIDE DEF there
<1>4. there = There(c)
  BY <1>1 DEF there
<1> QED BY <1>2, <1>3, <1>4

LEMMA ReadReplySound == ASSUME Sound, NEW c \in Clients, ReadReply(c) PROVE Sound'
<1>1. PICK there \in Seq(Word) :
        /\ cli[c] = "read"
        /\ down' = [down EXCEPT ![c] = <<>>]
        /\ buffer' = [buffer EXCEPT ![c] = IF there = <<>> THEN <<>> ELSE Tail(there)]
        /\ (there = <<>> \/ Head(there) = "END") => EndReply(c)
        /\ ~(there = <<>> \/ Head(there) = "END") =>
             cur' = [cur EXCEPT ![c] = Append(cur[c], Head(there))] /\ UNCHANGED <<got, pos, cli>>
        /\ UNCHANGED <<password, conv, up, handler, shared, ghosts>>
  BY Reading
<1>2. there # <<>> => Head(there) \in Word /\ Tail(there) \in Seq(Word)
  BY HeadTailProperties
<1>3. \E left \in Seq(Word) : buffer' = [buffer EXCEPT ![c] = left]
  BY <1>1, <1>2, EmptySeq
<1>4. \E none \in Seq(Word) : down' = [down EXCEPT ![c] = none]
  BY <1>1, EmptySeq
<1>5. /\ buffer' \in [Clients -> Seq(Word)] /\ down' \in [Clients -> Seq(Word)]
      /\ UNCHANGED <<password, conv, at, cmd, pend, keep, wrote, up>>
  BY <1>1, <1>3, <1>4 DEF Sound, Kinds, handler, ghosts
<1>6. Stores' /\ Submitted'
  BY <1>1 DEF Sound, Stores, Submitted, shared, ghosts
<1>7. /\ pos[c] \in Nat \ {0} /\ Len(Lines(c)) \in Nat /\ \A d \in Clients : Lines(d)' = Lines(d)
  BY <1>1, LinesAre, LenProperties DEF Sound, Kinds, Lines
<1>8. CASE there = <<>> \/ Head(there) = "END"
  <2>1. /\ got' = [got EXCEPT ![c] = Append(got[c], cur[c])] /\ pos' = [pos EXCEPT ![c] = pos[c] + 1]
        /\ cli' = [cli EXCEPT ![c] = IF LastLine(c) THEN "done" ELSE "send"] /\ cur' = cur
    BY <1>1, <1>8 DEF EndReply
  <2>2. Append(got[c], cur[c]) \in Seq(Seq(Word)) /\ Len(Append(got[c], cur[c])) = Len(got[c]) + 1
        /\ Len(got[c]) \in Nat
    BY AppendProperties, LenProperties DEF Sound, Kinds
  <2>3. \E to \in {"send", "done"} : cli' = [cli EXCEPT ![c] = to]
    BY <2>1
  <2> DEFINE more == Append(got[c], cur[c])
  <2> HIDE DEF more
  <2>4. got' = [got EXCEPT ![c] = more]
    BY <2>1 DEF more
  <2>5. Kinds'
    <3>1. got' \in [Clients -> Seq(Seq(Word))]
      BY <2>2, <2>4 DEF Sound, Kinds, more
    <3>2. pos' \in [Clients -> Nat \ {0}]
      BY <1>7, <2>1 DEF Sound, Kinds
    <3>3. cli' \in [Clients -> {"send", "read", "done"}] /\ cur' \in [Clients -> Seq(Word)]
      BY <2>1, <2>3 DEF Sound, Kinds
    <3> QED BY <1>5, <3>1, <3>2, <3>3 DEF Sound, Kinds
  <2>6. Counts'
    <3>1. ASSUME NEW d \in Clients
          PROVE  /\ pos'[d] <= Len(Lines(d)') + 1 /\ Len(got'[d]) < pos'[d]
                 /\ cli'[d] = "read" => pos'[d] <= Len(Lines(d)')
                 /\ NoEnd(cur'[d])
      <4>1. /\ pos[d] <= Len(Lines(d)) + 1 /\ Len(got[d]) < pos[d] /\ NoEnd(cur[d])
            /\ cli[d] = "read" => pos[d] <= Len(Lines(d))
        BY DEF Sound, Counts
      <4>2. CASE d = c
        <5>1. pos'[d] = pos[d] + 1 /\ Len(got'[d]) = Len(got[d]) + 1 /\ cli'[d] # "read"
          BY <2>1, <2>2, <2>3, <2>4, <4>2 DEF Sound, Kinds, more
        <5> QED BY <1>1, <1>7, <2>1, <2>2, <4>1, <4>2, <5>1
      <4>3. CASE d # c
        <5>1. pos'[d] = pos[d] /\ got'[d] = got[d] /\ cli'[d] = cli[d]
          BY <2>1, <2>3, <2>4, <4>3 DEF Sound, Kinds
        <5> QED BY <1>7, <2>1, <4>1, <5>1
      <4> QED BY <4>2, <4>3
    <3> QED BY <3>1 DEF Counts
  <2> QED BY <1>6, <2>5, <2>6 DEF Sound
<1>9. CASE ~(there = <<>> \/ Head(there) = "END")
  <2>1. cur' = [cur EXCEPT ![c] = Append(cur[c], Head(there))] /\ UNCHANGED <<got, pos, cli>>
    BY <1>1, <1>9
  <2>2. cur[c] \in Seq(Word) /\ NoEnd(cur[c]) /\ Head(there) \in Word /\ Head(there) # "END"
    BY <1>2, <1>9 DEF Sound, Kinds, Counts
  <2> DEFINE more == Append(cur[c], Head(there))
  <2>3. more \in Seq(Word) /\ NoEnd(more)
    <3>1. /\ more \in Seq(Word) /\ Len(more) = Len(cur[c]) + 1
          /\ \A i \in 1..Len(cur[c]) : more[i] = cur[c][i]
          /\ more[Len(cur[c]) + 1] = Head(there)
      BY <2>2, AppendProperties
    <3> HIDE DEF more
    <3>2. Len(cur[c]) \in Nat
      BY <2>2, LenProperties
    <3>3. ASSUME NEW i \in 1..Len(more) PROVE more[i] # "END"
      <4>1. i \in 1..Len(cur[c]) \/ i = Len(cur[c]) + 1
        BY <3>1, <3>2
      <4> QED BY <2>2, <3>1, <4>1 DEF NoEnd
    <3> QED BY <3>1, <3>3 DEF NoEnd
  <2> HIDE DEF more
  <2>4. cur' = [cur EXCEPT ![c] = more]
    BY <2>1 DEF more
  <2>5. Kinds'
    <3>1. cur' \in [Clients -> Seq(Word)]
      BY <2>3, <2>4 DEF Sound, Kinds
    <3> QED BY <1>5, <2>1, <3>1 DEF Sound, Kinds
  <2>6. Counts'
    <3>1. \A d \in Clients : NoEnd(cur'[d])
      <4>1. \A d \in Clients : cur'[d] = IF d = c THEN more ELSE cur[d]
        BY <2>4 DEF Sound, Kinds
      <4> QED BY <2>3, <4>1 DEF Sound, Counts
    <3> QED BY <1>7, <2>1, <3>1 DEF Sound, Counts
  <2> QED BY <1>6, <2>5, <2>6 DEF Sound
<1> QED BY <1>8, <1>9

\* The agent's threads leave the CLI's counts alone.
LEMMA AgentSound ==
  ASSUME Sound, UNCHANGED <<password, client>>, Stores', Submitted',
         at' \in [Clients -> {"read", "gate", "run", "reply", "closing", "closed"}],
         wrote' \in [Clients -> Seq(Seq(Word))],
         up' \in [Clients -> Seq(CommandLine)], down' \in [Clients -> Seq(Word)],
         cmd' \in [Clients -> CommandLine], pend' \in [Clients -> Seq(Word)],
         keep' \in [Clients -> BOOLEAN]
  PROVE  Sound'
<1>1. Kinds'
  BY DEF Sound, Kinds, client
<1>2. Counts'
  BY CountsStill DEF Sound, client
<1> QED BY <1>1, <1>2 DEF Sound

LEMMA ReceiveSound == ASSUME Sound, NEW c \in Clients, Receive(c) PROVE Sound'
<1>1. up[c] \in Seq(CommandLine) /\ up[c] # <<>>
  BY DEF Sound, Kinds, Receive
<1>2. Head(up[c]) \in CommandLine /\ Tail(up[c]) \in Seq(CommandLine)
  BY <1>1, HeadTailProperties
<1>3. up' \in [Clients -> Seq(CommandLine)]
  <2> DEFINE left == Tail(up[c])
  <2>1. up' = [up EXCEPT ![c] = left]
    BY DEF Receive
  <2> HIDE DEF left
  <2> QED BY <1>2, <2>1 DEF Sound, Kinds, left
<1>4. UNCHANGED <<password, client, down, keep, pend, enabled, files, jobs, wrote>>
  BY DEF Receive, ghosts
<1>5. CASE UNCHANGED <<at, cmd, hist>>
  <2>1. Stores' /\ Submitted'
    BY <1>4, <1>5 DEF Sound, Stores, Submitted
  <2> QED BY <1>3, <1>4, <1>5, <2>1, AgentSound DEF Sound, Kinds
<1>6. CASE Head(up[c]).verb # ""
  <2>1. /\ cmd' = [cmd EXCEPT ![c] = Head(up[c])] /\ at' = [at EXCEPT ![c] = "gate"]
        /\ hist' = Append(IF Len(hist) < CAP THEN hist ELSE Tail(hist), Head(up[c]).verb)
    BY <1>6 DEF Receive
  <2> DEFINE kept == IF Len(hist) < CAP THEN hist ELSE Tail(hist)
             line == Head(up[c])
  <2>2. hist \in Seq(Word) /\ Len(hist) <= CAP /\ CAP \in Nat \ {0} /\ Len(hist) \in Nat
    BY SessionAssumption, LenProperties DEF Sound, Stores
  <2>3. kept \in Seq(Word) /\ Len(kept) < CAP
    <3>1. CASE Len(hist) < CAP
      BY <2>2, <3>1
    <3>2. CASE ~(Len(hist) < CAP)
      <4>1. Len(hist) = CAP /\ hist # <<>>
        BY <2>2, <3>2, EmptySeq
      <4>2. Tail(hist) \in Seq(Word) /\ Len(Tail(hist)) = Len(hist) - 1
        BY <2>2, <4>1, HeadTailProperties
      <4> QED BY <2>2, <3>2, <4>1, <4>2
    <3> QED BY <3>1, <3>2
  <2> HIDE DEF kept
  <2>4. line.verb \in Word
    BY <1>2 DEF CommandLine
  <2> HIDE DEF line
  <2>5. hist' = Append(kept, line.verb)
    BY <2>1 DEF kept, line
  <2>6. hist' \in Seq(Word) /\ Len(hist') = Len(kept) + 1 /\ Len(kept) \in Nat
    BY <2>3, <2>4, <2>5, AppendProperties, LenProperties
  <2>7. Stores'
    BY <1>4, <2>2, <2>3, <2>6 DEF Sound, Stores
  <2>8. Submitted'
    BY <1>4, SubmittedStill DEF Sound
  <2>9. /\ cmd' \in [Clients -> CommandLine]
        /\ at' \in [Clients -> {"read", "gate", "run", "reply", "closing", "closed"}]
    <3>1. cmd' = [cmd EXCEPT ![c] = line]
      BY <2>1 DEF line
    <3> QED BY <1>2, <2>1, <3>1 DEF Sound, Kinds, line
  <2> QED BY <1>3, <1>4, <2>7, <2>8, <2>9, AgentSound DEF Sound, Kinds
<1> QED BY <1>5, <1>6 DEF Receive

\* A step that answers.
LEMMA AnswerSound ==
  ASSUME Sound, NEW c \in Clients, NEW texts \in Seq(Word), Answer(c, texts),
         UNCHANGED <<password, client, up, down, cmd>>, keep' \in [Clients -> BOOLEAN],
         Stores',
         \A j \in jobs' : \/ j \in jobs
                          \/ j.by = c /\ j.nr = Len(wrote[c]) + 1 /\ j.line \in CommandLine
  PROVE  Sound'
<1>1. /\ wrote' = [wrote EXCEPT ![c] = Append(wrote[c], texts)]
      /\ pend' = [pend EXCEPT ![c] = texts] /\ at' = [at EXCEPT ![c] = "reply"]
  BY DEF Answer
<1>2. /\ wrote' \in [Clients -> Seq(Seq(Word))]
      /\ \A d \in Clients : Len(wrote[d]) \in Nat /\ Len(wrote[d]) <= Len(wrote'[d])
      /\ Len(wrote'[c]) = Len(wrote[c]) + 1
  BY <1>1, WroteMore
<1>3. Submitted'
  <2> SUFFICES ASSUME NEW j \in jobs'
               PROVE  j.by \in Clients /\ j.nr \in Nat /\ j.nr <= Len(wrote'[j.by]) /\ j.line \in CommandLine
    BY DEF Submitted
  <2>1. CASE j \in jobs
    <3>1. j.by \in Clients /\ j.nr \in Nat /\ j.nr <= Len(wrote[j.by]) /\ j.line \in CommandLine
      BY <2>1 DEF Sound, Submitted
    <3> QED BY <1>2, <3>1
  <2>2. CASE j \notin jobs
    BY <1>2, <2>2
  <2> QED BY <2>1, <2>2
<1>4. pend' \in [Clients -> Seq(Word)] /\ at' \in [Clients -> {"read", "gate", "run", "reply", "closing", "closed"}]
  BY <1>1 DEF Sound, Kinds
<1> QED BY <1>2, <1>3, <1>4, AgentSound DEF Sound, Kinds

LEMMA RefuseSound == ASSUME Sound, NEW c \in Clients, Refuse(c) PROVE Sound'
<1>1. Answer(c, <<"refused">>) /\ UNCHANGED <<password, client, up, down, cmd, keep, enabled, files, hist, jobs>>
  BY DEF Refuse, socket, shared
<1>2. PICK texts \in Seq(Word) : texts = <<"refused">>
  BY OwnAreWords, ShortSeqs
<1>3. Answer(c, texts)
  BY <1>1, <1>2
<1>4. Stores' /\ keep' \in [Clients -> BOOLEAN]
  BY <1>1 DEF Sound, Stores, Kinds
<1> QED BY <1>1, <1>3, <1>4, AnswerSound

LEMMA SubmitSound == ASSUME Sound, NEW c \in Clients, Submit(c) PROVE Sound'
<1>1. /\ Answer(c, <<"job">>) /\ files' = Opened(cmd[c])
      /\ UNCHANGED <<password, client, up, down, cmd, keep, enabled, hist>>
  BY DEF Submit, socket
<1>2. PICK texts \in Seq(Word) : texts = <<"job">>
  BY OwnAreWords, ShortSeqs
<1>3. Answer(c, texts)
  BY <1>1, <1>2
<1>4. Stores' /\ keep' \in [Clients -> BOOLEAN]
  BY <1>1, FilesStill DEF Sound, Stores, Kinds
<1>5. \A j \in jobs' : \/ j \in jobs
                       \/ j.by = c /\ j.nr = Len(wrote[c]) + 1 /\ j.line \in CommandLine
  BY DEF Submit, Sound, Kinds
<1> QED BY <1>1, <1>3, <1>4, <1>5, AnswerSound

LEMMA BeginSound == ASSUME Sound, NEW c \in Clients, Begin(c) PROVE Sound'
<1>1. /\ at' = [at EXCEPT ![c] = "run"] /\ files' = Opened(cmd[c])
      /\ UNCHANGED <<password, client, up, down, cmd, keep, pend, enabled, hist, jobs, wrote>>
  BY DEF Begin, socket, ghosts
<1>2. Stores' /\ Submitted'
  BY <1>1, FilesStill, SubmittedStill DEF Sound, Stores
<1>3. at' \in [Clients -> {"read", "gate", "run", "reply", "closing", "closed"}]
  BY <1>1 DEF Sound, Kinds
<1> QED BY <1>1, <1>2, <1>3, AgentSound DEF Sound, Kinds

LEMMA RunSound == ASSUME Sound, NEW c \in Clients, Run(c) PROVE Sound'
<1> DEFINE l == cmd[c]
           now == IF Runs(l) THEN Authed(l, authed[c]) ELSE authed[c]
           texts == Texts(l, now)
<1>1. /\ Effect(l, texts, IF l.redir = "no" THEN "" ELSE l.to)
      /\ keep' = [keep EXCEPT ![c] = ~(Runs(l) /\ l.verb \in {"quit", "stop"})]
      /\ Answer(c, IF l.redir = "no" THEN texts ELSE <<"wrote">>)
      /\ UNCHANGED <<password, client, up, down, cmd, jobs>>
  BY DEF Run, socket
<1>2. l \in CommandLine
  BY DEF Sound, Kinds
<1>3. texts \in Seq(Word)
  BY <1>2, TextsAre DEF Sound
<1>4. keep' \in [Clients -> BOOLEAN]
  <2> DEFINE k == ~(Runs(l) /\ l.verb \in {"quit", "stop"})
  <2>1. k \in BOOLEAN
    OBVIOUS
  <2> HIDE DEF k
  <2>2. keep' = [keep EXCEPT ![c] = k]
    BY <1>1 DEF k
  <2> QED BY <2>1, <2>2 DEF Sound, Kinds
<1> HIDE DEF l, texts
<1>5. Stores'
  <2>1. PICK sink : Effect(l, texts, sink)
    BY <1>1
  <2> QED BY <1>2, <1>3, <2>1, EffectKeeps DEF Sound
<1>6. \E answer \in Seq(Word) : Answer(c, answer)
  BY <1>1, <1>3, OwnAreWords, ShortSeqs
<1> QED BY <1>1, <1>4, <1>5, <1>6, AnswerSound

LEMMA RunJobSound == ASSUME Sound, RunJob PROVE Sound'
<1>1. PICK j \in jobs :
        LET l == j.line
            texts == Texts(l, IF Runs(l) THEN Authed(l, j.authed) ELSE j.authed)
        IN  /\ jobs' = jobs \ {j}
            /\ Effect(l, texts, IF l.redir = "no" THEN "" ELSE l.to)
            /\ UNCHANGED <<password, client, socket, handler, wrote>>
  BY DEF RunJob
<1> DEFINE l == j.line
           texts == Texts(l, IF Runs(l) THEN Authed(l, j.authed) ELSE j.authed)
<1>2. l \in CommandLine
  BY DEF Sound, Submitted
<1>3. texts \in Seq(Word)
  BY <1>2, TextsAre DEF Sound
<1>4. \E sink : Effect(l, texts, sink)
  BY <1>1
<1> HIDE DEF l, texts
<1>5. Stores'
  BY <1>2, <1>3, <1>4, EffectKeeps DEF Sound
<1>6. Submitted'
  BY <1>1 DEF Sound, Submitted
<1>7. UNCHANGED <<password, client, at, wrote, up, down, cmd, pend, keep>>
  BY <1>1 DEF socket, handler
<1> QED BY <1>5, <1>6, <1>7, AgentSound DEF Sound, Kinds

LEMMA WriteSound == ASSUME Sound, NEW c \in Clients, Write(c) PROVE Sound'
<1>1. PICK n \in 1..Len(pend[c]) :
        /\ pend' = [pend EXCEPT ![c] = SubSeq(pend[c], n + 1, Len(pend[c]))]
        /\ down' = [down EXCEPT ![c] = down[c] \o SubSeq(pend[c], 1, n)]
  BY DEF Write
<1>2. UNCHANGED <<password, client, up, at, cmd, keep, enabled, files, hist, jobs, wrote>>
  BY DEF Write, shared, ghosts
<1>3. Stores' /\ Submitted'
  BY <1>2, SubmittedStill DEF Sound, Stores
<1> DEFINE sent == SubSeq(pend[c], 1, n)
           left == SubSeq(pend[c], n + 1, Len(pend[c]))
           more == down[c] \o sent
<1>4. pend[c] \in Seq(Word) /\ down[c] \in Seq(Word)
  BY DEF Sound, Kinds
<1>5. sent \in Seq(Word) /\ left \in Seq(Word)
  BY <1>4, MovePiece
<1> HIDE DEF sent, left
<1>6. more \in Seq(Word)
  BY <1>4, <1>5, ConcatProperties
<1> HIDE DEF more
<1>7. pend' = [pend EXCEPT ![c] = left] /\ down' = [down EXCEPT ![c] = more]
  BY <1>1 DEF sent, left, more
<1>8. pend' \in [Clients -> Seq(Word)] /\ down' \in [Clients -> Seq(Word)]
  BY <1>5, <1>6, <1>7 DEF Sound, Kinds
<1> QED BY <1>2, <1>3, <1>8, AgentSound DEF Sound, Kinds

LEMMA WriteEndSound == ASSUME Sound, NEW c \in Clients, WriteEnd(c) PROVE Sound'
<1>1. /\ down' = [down EXCEPT ![c] = Append(down[c], EndLine(c))]
      /\ pend' = [pend EXCEPT ![c] = <<>>]
      /\ at' = [at EXCEPT ![c] = IF keep[c] THEN "read" ELSE "closing"]
      /\ UNCHANGED <<password, client, up, cmd, keep, enabled, files, hist, jobs, wrote>>
  BY DEF WriteEnd, shared, ghosts
<1>2. Stores' /\ Submitted'
  BY <1>1, SubmittedStill DEF Sound, Stores
<1> DEFINE more == Append(down[c], EndLine(c))
<1>3. more \in Seq(Word)
  <2>1. EndLine(c) \in Word
    BY OwnAreWords DEF EndLine
  <2> QED BY <2>1, AppendProperties DEF Sound, Kinds
<1> HIDE DEF more
<1>4. down' = [down EXCEPT ![c] = more]
  BY <1>1 DEF more
<1>5. down' \in [Clients -> Seq(Word)]
  BY <1>3, <1>4 DEF Sound, Kinds
<1>6. at' \in [Clients -> {"read", "gate", "run", "reply", "closing", "closed"}]
  BY <1>1 DEF Sound, Kinds
<1>7. pend' \in [Clients -> Seq(Word)]
  <2>1. <<>> \in Seq(Word)
    BY EmptySeq
  <2> QED BY <1>1, <2>1 DEF Sound, Kinds
<1> QED BY <1>1, <1>2, <1>5, <1>6, <1>7, AgentSound DEF Sound, Kinds

LEMMA CloseSound == ASSUME Sound, NEW c \in Clients, Close(c) PROVE Sound'
<1>1. /\ at' = [at EXCEPT ![c] = "closed"]
      /\ UNCHANGED <<password, client, up, down, cmd, keep, pend, enabled, files, hist, jobs, wrote>>
  BY DEF Close, socket, shared, ghosts
<1>2. Stores' /\ Submitted'
  BY <1>1, SubmittedStill DEF Sound, Stores
<1>3. at' \in [Clients -> {"read", "gate", "run", "reply", "closing", "closed"}]
  BY <1>1 DEF Sound, Kinds
<1> QED BY <1>1, <1>2, <1>3, AgentSound DEF Sound, Kinds

LEMMA SoundKeeps == ASSUME Sound, [SessionNext]_vars PROVE Sound'
<1>1. ASSUME NEW c \in Clients, Cli(c) \/ Interrupt(c) PROVE Sound'
  BY <1>1, SkipSound, SendSound, ReadReplySound, HangupSound DEF Cli, Finish, Interrupt
<1>2. ASSUME NEW c \in Clients, Agent(c) PROVE Sound'
  BY <1>2, ReceiveSound, RefuseSound, SubmitSound, BeginSound, RunSound, WriteSound,
     WriteEndSound, CloseSound DEF Agent
<1>3. CASE UNCHANGED vars
  <2>1. UNCHANGED <<password, client, at, wrote, up, down, cmd, pend, keep, enabled, files, hist, jobs>>
    BY <1>3 DEF vars, socket, handler, shared, ghosts
  <2>2. Stores' /\ Submitted'
    BY <2>1, SubmittedStill DEF Sound, Stores
  <2> QED BY <2>1, <2>2, AgentSound DEF Sound, Kinds
<1> QED BY <1>1, <1>2, <1>3, RunJobSound DEF SessionNext, Quiet

-----------------------------------------------------------------------------
(* Phases.                                                                  *)

LEMMA JoinedAssoc ==
  ASSUME NEW u \in Seq(Word), NEW v \in Seq(Word), NEW w \in Seq(Word)
  PROVE  Joined(Joined(u, v), w) = Joined(u, Joined(v, w))
<1>1. (u \o v) \o w = u \o (v \o w)
  BY ConcatAssociative, SMTT(60)
<1> QED BY <1>1, Zenon DEF Joined

LEMMA ClosedEnds ==
  ASSUME NEW w \in Seq(Word)
  PROVE  ~NoEnd(Closed(w))
<1> DEFINE a == Append(w, "END")
<1>1. "END" \in Word /\ Len(w) \in Nat
  BY OwnAreWords, LenProperties
<1>2. Len(a) = Len(w) + 1 /\ a[Len(w) + 1] = "END"
  BY <1>1, AppendProperties
<1> HIDE DEF a
<1>3. ~NoEnd(a)
  BY <1>1, <1>2 DEF NoEnd
<1> QED BY <1>3 DEF a, Closed

LEMMA AtClient ==
  ASSUME Sound, NEW c \in Clients
  PROVE  /\ got[c] \in Seq(Seq(Word)) /\ wrote[c] \in Seq(Seq(Word))
         /\ Len(got[c]) \in Nat /\ Len(wrote[c]) \in Nat
         /\ cur[c] \in Seq(Word) /\ buffer[c] \in Seq(Word) /\ down[c] \in Seq(Word)
         /\ pend[c] \in Seq(Word) /\ There(c) \in Seq(Word) /\ NoEnd(cur[c])
         /\ up[c] \in Seq(CommandLine) /\ Len(up[c]) \in Nat
         /\ Len(wrote[c]) >= 1 => Last(c) \in Seq(Word)
<1>1. /\ got[c] \in Seq(Seq(Word)) /\ wrote[c] \in Seq(Seq(Word))
      /\ cur[c] \in Seq(Word) /\ buffer[c] \in Seq(Word) /\ down[c] \in Seq(Word)
      /\ pend[c] \in Seq(Word) /\ up[c] \in Seq(CommandLine)
  BY DEF Sound, Kinds
<1>2. Len(got[c]) \in Nat /\ Len(wrote[c]) \in Nat /\ Len(up[c]) \in Nat
  BY <1>1, LenProperties
<1>3. There(c) \in Seq(Word)
  BY <1>1, JoinedAre DEF There
<1>4. Len(wrote[c]) >= 1 => Last(c) \in Seq(Word)
  BY <1>1, <1>2, ElementOfSeq DEF Last
<1> QED BY <1>1, <1>2, <1>3, <1>4 DEF Sound, Counts

\* A conversation's phase is a matter of its own variables.
LEMMA PhaseStill ==
  ASSUME NEW c \in Clients, Clean(c) => Phase(c),
         cli'[c] = cli[c], at'[c] = at[c], got'[c] = got[c], wrote'[c] = wrote[c],
         cur'[c] = cur[c], buffer'[c] = buffer[c], down'[c] = down[c], up'[c] = up[c],
         pend'[c] = pend[c]
  PROVE  Clean(c)' => Phase(c)'
<1>1. Clean(c)' <=> Clean(c)
  BY DEF Clean
<1>2. There(c)' = There(c) /\ Last(c)' = Last(c) /\ (Matched(c)' <=> Matched(c))
  BY DEF There, Last, Matched
<1>3. (Settled(c)' <=> Settled(c)) /\ (Asked(c)' <=> Asked(c))
  BY DEF Settled, Asked
<1>4. (Answering(c)' <=> Answering(c)) /\ (Answered(c)' <=> Answered(c))
  BY <1>2 DEF Answering, Answered
<1> QED BY <1>1, <1>2, <1>3, <1>4 DEF Phase

LEMMA SendPhase ==
  ASSUME Sound, NEW c \in Clients, Clean(c) => Phase(c), Send(c), Clean(c)'
  PROVE  Phase(c)'
<1>1. UNCHANGED <<got, down, at, pend, wrote>> /\ cli[c] = "send"
  BY DEF Send, handler, ghosts
<1>2. Phase(c)
  BY <1>1 DEF Clean
<1>3. Matched(c)' /\ Settled(c) /\ (at'[c] # "closed" => Len(got'[c]) <= Len(wrote'[c]))
  BY <1>1, <1>2 DEF Phase, Matched
<1>4. CASE at[c] = "closed"
  <2>1. cli'[c] = "done"
    BY <1>4 DEF Send, Sound, Kinds
  <2> QED BY <1>3, <2>1 DEF Phase
<1>5. CASE at[c] # "closed"
  <2>1. /\ cli'[c] = "read" /\ up'[c] = Append(up[c], Current(c))
        /\ cur'[c] = <<>> /\ buffer'[c] = <<>>
    BY <1>5 DEF Send, Sound, Kinds
  <2>2. /\ up[c] = <<>> /\ Len(wrote[c]) = Len(got[c]) /\ down[c] = <<>>
        /\ at[c] \in {"read", "closing"}
    BY <1>3, <1>5 DEF Settled
  <2>3. Len(up'[c]) = 1
    <3>1. Current(c) \in CommandLine
      BY CurrentIs DEF Sound, Send
    <3>2. Len(Append(up[c], Current(c))) = Len(up[c]) + 1 /\ Len(up[c]) = 0
      BY <2>2, <3>1, AppendProperties, EmptySeq, AtClient
    <3> QED BY <2>1, <3>2
  <2>4. Asked(c)'
    BY <1>1, <2>1, <2>2, <2>3 DEF Asked
  <2> QED BY <1>3, <2>1, <2>4 DEF Phase
<1> QED BY <1>4, <1>5

LEMMA HangupPhase ==
  ASSUME Sound, NEW c \in Clients, Clean(c) => Phase(c), Hangup(c), Clean(c)'
  PROVE  Phase(c)'
<1>1. UNCHANGED <<got, at, wrote>> /\ cli'[c] = "done"
  BY DEF Hangup, handler, ghosts, Sound, Kinds
<1>2. Phase(c)
  BY <1>1 DEF Clean
<1> QED BY <1>1, <1>2 DEF Phase, Matched

LEMMA ReadReplyPhase ==
  ASSUME Sound, NEW c \in Clients, Clean(c) => Phase(c), ReadReply(c), Clean(c)'
  PROVE  Phase(c)'
<1> DEFINE there == There(c)
           ends == there = <<>> \/ Head(there) = "END"
<1>1. /\ cli[c] = "read" /\ (there # <<>> \/ at[c] = "closed")
      /\ down'[c] = <<>> /\ buffer'[c] = IF there = <<>> THEN <<>> ELSE Tail(there)
      /\ ends => EndReply(c)
      /\ ~ends => cur'[c] = Append(cur[c], Head(there)) /\ UNCHANGED <<got, pos, cli>>
      /\ UNCHANGED <<up, at, pend, wrote>>
  <2>1. /\ there \in Seq(Word) /\ cli[c] = "read" /\ (there # <<>> \/ at[c] = "closed")
        /\ down' = [down EXCEPT ![c] = <<>>]
        /\ buffer' = [buffer EXCEPT ![c] = IF there = <<>> THEN <<>> ELSE Tail(there)]
        /\ ends => EndReply(c)
        /\ ~ends => cur' = [cur EXCEPT ![c] = Append(cur[c], Head(there))] /\ UNCHANGED <<got, pos, cli>>
        /\ UNCHANGED <<password, conv, up, handler, shared, ghosts>>
    BY Reading
  <2> HIDE DEF there
  <2>2. UNCHANGED <<up, at, pend, wrote>>
    BY <2>1 DEF handler, ghosts
  <2>3. down'[c] = <<>> /\ buffer'[c] = IF there = <<>> THEN <<>> ELSE Tail(there)
    BY <2>1 DEF Sound, Kinds
  <2>4. ~ends => cur'[c] = Append(cur[c], Head(there)) /\ UNCHANGED <<got, pos, cli>>
    BY <2>1 DEF Sound, Kinds
  <2> QED BY <2>1, <2>2, <2>3, <2>4
<1>2. ends => /\ got'[c] = Append(got[c], cur[c]) /\ cur' = cur
              /\ cli'[c] \in {"send", "done"}
  BY <1>1 DEF EndReply, Sound, Kinds
<1>3. Phase(c) /\ Clean(c)
  BY <1>1 DEF Clean
<1>4. /\ got[c] \in Seq(Seq(Word)) /\ wrote[c] \in Seq(Seq(Word))
      /\ Len(got[c]) \in Nat /\ Len(wrote[c]) \in Nat
      /\ cur[c] \in Seq(Word) /\ NoEnd(cur[c]) /\ pend[c] \in Seq(Word) /\ there \in Seq(Word)
      /\ Len(wrote[c]) >= 1 => Last(c) \in Seq(Word)
  BY AtClient
<1> HIDE DEF there
<1>5. Len(Append(got[c], cur[c])) = Len(got[c]) + 1
      /\ (\A k \in 1..Len(got[c]) : Append(got[c], cur[c])[k] = got[c][k])
      /\ Append(got[c], cur[c])[Len(got[c]) + 1] = cur[c]
  BY <1>4, AppendProperties
<1>6. Len(wrote[c]) >= 1 => NoEnd(Last(c))
  <2> HAVE Len(wrote[c]) >= 1
  <2>1. Len(wrote[c]) \in 1..Len(wrote[c])
    BY <1>4
  <2>2. NoEnd(wrote[c][Len(wrote[c])])
    BY <1>3, <2>1 DEF Clean, Whole, NoEnd
  <2> QED BY <2>2 DEF Last
<1>7. there # <<>> => /\ Head(there) \in Word /\ Tail(there) \in Seq(Word)
                      /\ Joined(Append(cur[c], Head(there)), Tail(there)) = Joined(cur[c], there)
                      /\ Append(cur[c], Head(there)) \in Seq(Word)
  BY <1>4, TakeHead, AppendProperties
<1>8. ASSUME ends, cur[c] = IF Len(got[c]) + 1 <= Len(wrote[c]) THEN wrote[c][Len(got[c]) + 1] ELSE <<>>
      PROVE  Matched(c)'
  <2> SUFFICES ASSUME NEW k \in 1..Len(got'[c])
               PROVE  got'[c][k] = IF k <= Len(wrote'[c]) THEN wrote'[c][k] ELSE <<>>
    BY DEF Matched
  <2>1. wrote' = wrote /\ (k \in 1..Len(got[c]) \/ k = Len(got[c]) + 1)
    BY <1>1, <1>2, <1>4, <1>5, <1>8
  <2>2. CASE k \in 1..Len(got[c])
    BY <1>2, <1>3, <1>5, <1>8, <2>1, <2>2 DEF Phase, Matched
  <2>3. CASE k = Len(got[c]) + 1
    BY <1>2, <1>5, <1>8, <2>1, <2>3
  <2> QED BY <2>1, <2>2, <2>3
<1>9. ASSUME ~ends
      PROVE  /\ There(c)' = Tail(there) /\ Matched(c)' /\ cli'[c] = "read"
             /\ (at'[c] # "closed" => Len(got'[c]) <= Len(wrote'[c])) /\ Last(c)' = Last(c)
  <2>1. There(c)' = Joined(Tail(there), <<>>)
    BY <1>1, <1>9 DEF There
  <2>2. Joined(Tail(there), <<>>) = Tail(there)
    BY <1>7, <1>9, JoinedAre
  <2> QED BY <1>1, <1>3, <1>9, <2>1, <2>2 DEF Phase, Matched, Last
<1>10. CASE Asked(c)
  <2>1. there = <<>>
    <3>1. Joined(<<>>, <<>>) = <<>>
      BY JoinedAre, EmptySeq
    <3> QED BY <1>10, <3>1 DEF Asked, There, there
  <2>2. at[c] = "closed" /\ cur[c] = <<>> /\ Len(wrote[c]) = Len(got[c])
    BY <1>1, <1>10, <2>1 DEF Asked
  <2>3. Matched(c)'
    BY <1>4, <1>8, <2>1, <2>2
  <2>4. Settled(c)'
    BY <1>1, <1>2, <1>4, <1>5, <2>1, <2>2 DEF Settled
  <2> QED BY <1>1, <1>2, <2>1, <2>2, <2>3, <2>4 DEF Phase
<1>11. CASE Answering(c)
  <2>1. there # <<>> /\ Joined(cur[c], Joined(there, pend[c])) = Last(c) /\ Len(wrote[c]) >= 1
    BY <1>1, <1>4, <1>11 DEF Answering, there
  <2>2. Head(there) # "END"
    BY <1>4, <1>6, <2>1, NotYet
  <2>3. /\ Joined(Joined(cur'[c], Tail(there)), pend[c]) = Joined(cur'[c], Joined(Tail(there), pend[c]))
        /\ Joined(Joined(cur[c], there), pend[c]) = Joined(cur[c], Joined(there, pend[c]))
    <3>1. cur'[c] \in Seq(Word) /\ Tail(there) \in Seq(Word)
      BY <1>1, <1>7, <2>1, <2>2
    <3>2. cur[c] \in Seq(Word) /\ there \in Seq(Word) /\ pend[c] \in Seq(Word)
      BY <1>4
    <3>3. Joined(Joined(cur'[c], Tail(there)), pend[c]) = Joined(cur'[c], Joined(Tail(there), pend[c]))
      BY <3>1, <3>2, JoinedAssoc
    <3>4. Joined(Joined(cur[c], there), pend[c]) = Joined(cur[c], Joined(there, pend[c]))
      BY <3>2, JoinedAssoc
    <3> QED BY <3>3, <3>4
  <2>4. Joined(cur'[c], Joined(There(c)', pend'[c])) = Last(c)'
    BY <1>1, <1>7, <1>9, <2>1, <2>2, <2>3
  <2>5. Answering(c)'
    BY <1>1, <1>11, <2>1, <2>2, <2>4 DEF Answering
  <2> QED BY <1>9, <2>1, <2>2, <2>5 DEF Phase
<1>12. CASE Answered(c)
  <2>1. Joined(cur[c], there) = Closed(Last(c)) /\ Len(wrote[c]) = Len(got[c]) + 1 /\ Last(c) \in Seq(Word)
    BY <1>4, <1>12 DEF Answered, there
  <2>2. there # <<>>
    <3>1. Joined(cur[c], <<>>) = cur[c]
      BY <1>4, JoinedAre
    <3> QED BY <1>4, <2>1, <3>1, ClosedEnds
  <2>3. CASE Head(there) = "END"
    <3>1. cur[c] = Last(c) /\ Tail(there) = <<>>
      BY <1>4, <1>6, <2>1, <2>2, <2>3, Found
    <3>2. Matched(c)'
      BY <1>4, <1>8, <2>1, <2>3, <3>1 DEF Last
    <3>3. Settled(c)' /\ Len(got'[c]) <= Len(wrote'[c])
      BY <1>1, <1>2, <1>4, <1>5, <1>12, <2>1, <2>3 DEF Settled, Answered
    <3> QED BY <1>2, <2>3, <3>2, <3>3 DEF Phase
  <2>4. CASE Head(there) # "END"
    <3>1. Joined(cur'[c], There(c)') = Closed(Last(c)')
      BY <1>1, <1>7, <1>9, <2>1, <2>2, <2>4
    <3>2. Answered(c)'
      BY <1>1, <1>12, <2>2, <2>4, <3>1 DEF Answered
    <3> QED BY <1>9, <2>2, <2>4, <3>2 DEF Phase
  <2> QED BY <2>3, <2>4
<1> QED BY <1>1, <1>3, <1>10, <1>11, <1>12 DEF Phase

LEMMA ReceivePhase ==
  ASSUME Sound, NEW c \in Clients, Clean(c) => Phase(c), Receive(c), Clean(c)'
  PROVE  Phase(c)'
<1>1. /\ UNCHANGED <<cli, got, cur, buffer, down, pend, wrote>>
      /\ up'[c] = Tail(up[c]) /\ up[c] # <<>> /\ at[c] = "read" /\ at'[c] \in {"read", "gate"}
  BY DEF Receive, client, ghosts, Sound, Kinds
<1>2. Phase(c)
  BY <1>1 DEF Clean
<1>3. Matched(c)' /\ Len(got'[c]) <= Len(wrote'[c])
  BY <1>1, <1>2 DEF Phase, Matched
<1>4. cli[c] # "send"
  BY <1>1, <1>2 DEF Phase, Settled
<1>5. CASE cli[c] = "read"
  <2>1. Asked(c)
    BY <1>1, <1>2, <1>5 DEF Phase, Answering, Answered
  <2>2. Tail(up[c]) = <<>> /\ Len(up'[c]) <= 1
    <3>1. up[c] \in Seq(CommandLine)
      BY AtClient
    <3>2. Len(up[c]) <= 1 /\ Len(up[c]) \in Nat \ {0}
      BY <1>1, <2>1, <3>1, EmptySeq DEF Asked
    <3>3. Tail(up[c]) \in Seq(CommandLine) /\ Len(Tail(up[c])) = Len(up[c]) - 1
      BY <1>1, <3>1, HeadTailProperties
    <3>4. Len(Tail(up[c])) = 0
      <4>1. PICK m, n : m = Len(Tail(up[c])) /\ n = Len(up[c])
        OBVIOUS
      <4>2. n \in Nat \ {0} /\ n <= 1 /\ m = n - 1
        BY <3>2, <3>3, <4>1, Zenon
      <4>3. m = 0
        BY <4>2
      <4> QED BY <4>1, <4>3
    <3>5. Tail(up[c]) = <<>>
      BY <3>3, <3>4, EmptySeq
    <3> QED BY <1>1, <3>4, <3>5
  <2>3. Asked(c)'
    BY <1>1, <2>1, <2>2 DEF Asked
  <2> QED BY <1>3, <1>1, <1>5, <2>3 DEF Phase
<1>6. CASE cli[c] = "done"
  BY <1>1, <1>3, <1>6 DEF Phase
<1> QED BY <1>4, <1>5, <1>6 DEF Sound, Kinds

\* A command that was let through or refused is answered once.
LEMMA AnswerPhase ==
  ASSUME Sound, NEW c \in Clients, Clean(c) => Phase(c), Clean(c)',
         NEW texts \in Seq(Word), Answer(c, texts), at[c] \in {"gate", "run"},
         UNCHANGED <<client, socket>>
  PROVE  Phase(c)'
<1>1. /\ wrote'[c] = Append(wrote[c], texts) /\ pend'[c] = texts /\ at'[c] = "reply"
      /\ UNCHANGED <<cli, got, cur, buffer, up, down>>
  BY DEF Answer, client, socket, Sound, Kinds
<1>2. /\ Len(wrote[c]) \in Nat /\ Len(got[c]) \in Nat
      /\ Len(wrote'[c]) = Len(wrote[c]) + 1
      /\ (\A k \in 1..Len(wrote[c]) : wrote'[c][k] = wrote[c][k])
      /\ wrote'[c][Len(wrote[c]) + 1] = texts
  BY <1>1, AtClient, AppendProperties
<1>3. Clean(c)
  BY <1>2 DEF Clean
<1>4. Phase(c)
  BY <1>3
<1>5. Len(got[c]) <= Len(wrote[c])
  BY <1>4 DEF Phase
<1>6. Matched(c)'
  BY <1>1, <1>2, <1>4, <1>5 DEF Phase, Matched
<1>7. cli[c] # "send"
  BY <1>4 DEF Phase, Settled
<1>8. cli[c] = "read" => Answering(c)'
  <2> HAVE cli[c] = "read"
  <2>1. Asked(c)
    BY <1>4 DEF Phase, Answering, Answered
  <2>2. Joined(<<>>, Joined(Joined(<<>>, <<>>), texts)) = texts
    BY JoinedAre, EmptySeq
  <2>3. Joined(cur'[c], Joined(There(c)', pend'[c])) = Last(c)'
    BY <1>1, <1>2, <2>1, <2>2 DEF Asked, There, Last
  <2> QED BY <1>1, <1>2, <2>1, <2>3 DEF Asked, Answering
<1> QED BY <1>1, <1>2, <1>5, <1>6, <1>7, <1>8 DEF Phase

LEMMA BeginPhase ==
  ASSUME Sound, NEW c \in Clients, Clean(c) => Phase(c), Begin(c), Clean(c)'
  PROVE  Phase(c)'
<1>1. /\ UNCHANGED <<cli, got, cur, buffer, down, up, pend, wrote>>
      /\ at[c] = "gate" /\ at'[c] = "run"
  BY DEF Begin, Passes, client, socket, ghosts, Sound, Kinds
<1>2. Phase(c)
  BY <1>1 DEF Clean
<1>3. Matched(c)' /\ Len(got'[c]) <= Len(wrote'[c])
  BY <1>1, <1>2 DEF Phase, Matched
<1>4. cli[c] # "send" /\ (cli[c] = "read" => Asked(c))
  BY <1>1, <1>2 DEF Phase, Settled, Answering, Answered
<1>5. Asked(c) => Asked(c)'
  BY <1>1 DEF Asked
<1> QED BY <1>1, <1>3, <1>4, <1>5 DEF Phase

LEMMA WritePhase ==
  ASSUME Sound, NEW c \in Clients, Clean(c) => Phase(c), Write(c), Clean(c)'
  PROVE  Phase(c)'
<1>1. PICK n \in 1..Len(pend[c]) :
        /\ pend'[c] = SubSeq(pend[c], n + 1, Len(pend[c]))
        /\ down'[c] = down[c] \o SubSeq(pend[c], 1, n)
  BY DEF Write, Sound, Kinds
<1>2. /\ UNCHANGED <<cli, got, cur, buffer, up, at, wrote>>
      /\ at[c] = "reply" /\ cli[c] # "done"
  BY DEF Write, client, ghosts
<1>3. Phase(c)
  BY <1>2 DEF Clean
<1>4. Matched(c)' /\ Len(got'[c]) <= Len(wrote'[c])
  BY <1>2, <1>3 DEF Phase, Matched
<1>5. cli[c] = "read" /\ Answering(c)
  BY <1>2, <1>3 DEF Phase, Settled, Asked, Answered, Sound, Kinds
<1>6. /\ cur[c] \in Seq(Word) /\ buffer[c] \in Seq(Word) /\ down[c] \in Seq(Word)
      /\ pend[c] \in Seq(Word)
  BY AtClient
<1>7. Joined(There(c)', pend'[c]) = Joined(There(c), pend[c])
  <2>1. Joined(Joined(buffer[c], down[c] \o SubSeq(pend[c], 1, n)), SubSeq(pend[c], n + 1, Len(pend[c])))
          = Joined(Joined(buffer[c], down[c]), pend[c])
    BY <1>6, MovePiece
  <2> QED BY <1>1, <1>2, <2>1 DEF There
<1>8. Answering(c)'
  BY <1>2, <1>5, <1>7 DEF Answering, Last
<1> QED BY <1>2, <1>4, <1>5, <1>8 DEF Phase

\* Of an answer of whole lines nothing unended is left to write.
LEMMA NoneLeft ==
  ASSUME NEW s \in Seq(Word), NEW t \in Seq(Word), NEW p \in Seq(Word),
         NEW w, Whole(w), Joined(s, Joined(t, p)) = w,
         \A i \in 1..Len(p) : p[i] \in Unended
  PROVE  p = <<>>
<1> SUFFICES ASSUME p # <<>> PROVE FALSE
  OBVIOUS
<1>1. PICK r \in Seq(Word) : r = s \o t
  BY ConcatProperties
<1>2. r \o p = w
  <2>1. (s \o t) \o p = s \o (t \o p)
    BY ConcatAssociative, SMTT(60)
  <2> QED BY <1>1, <2>1, Zenon DEF Joined
<1>3. Len(p) \in Nat \ {0} /\ Head(p) = p[1]
  BY EmptySeq
<1>4. Len(r) \in Nat /\ Len(r \o p) = Len(r) + Len(p) /\ (r \o p)[Len(r) + 1] = Head(p)
  BY HeadPlace
<1>5. Len(r) + 1 \in 1..Len(w) /\ w[Len(r) + 1] \in Unended
  BY <1>2, <1>3, <1>4
<1> QED BY <1>5 DEF Whole

LEMMA WriteEndPhase ==
  ASSUME Sound, NEW c \in Clients, Clean(c) => Phase(c), WriteEnd(c), Clean(c)'
  PROVE  Phase(c)'
<1>1. /\ down'[c] = Append(down[c], EndLine(c)) /\ pend'[c] = <<>>
      /\ at'[c] \in {"read", "closing"}
      /\ UNCHANGED <<cli, got, cur, buffer, up, wrote>>
      /\ at[c] = "reply" /\ cli[c] # "done" /\ \A i \in 1..Len(pend[c]) : pend[c][i] \in Unended
  BY DEF WriteEnd, Written, client, ghosts, Sound, Kinds
<1>2. Phase(c) /\ Clean(c)
  BY <1>1 DEF Clean
<1>3. Matched(c)' /\ Len(got'[c]) <= Len(wrote'[c])
  BY <1>1, <1>2 DEF Phase, Matched
<1>4. cli[c] = "read" /\ Answering(c)
  BY <1>1, <1>2 DEF Phase, Settled, Asked, Answered, Sound, Kinds
<1>5. /\ cur[c] \in Seq(Word) /\ buffer[c] \in Seq(Word) /\ down[c] \in Seq(Word)
      /\ There(c) \in Seq(Word) /\ pend[c] \in Seq(Word)
  BY AtClient
<1>6. pend[c] = <<>>
  <2>1. Len(wrote[c]) \in 1..Len(wrote[c])
    BY <1>4, AtClient DEF Answering
  <2>2. Whole(Last(c)) /\ Joined(cur[c], Joined(There(c), pend[c])) = Last(c)
    BY <1>2, <1>4, <2>1 DEF Clean, Last, Answering
  <2> QED BY <1>1, <1>5, <2>2, NoneLeft
<1>7. EndLine(c) = "END"
  <2>1. Len(pend[c]) = 0
    BY <1>6
  <2> QED BY <2>1 DEF EndLine
<1>8. Joined(cur[c], There(c)) = Last(c)
  <2>1. Joined(There(c), <<>>) = There(c)
    BY <1>5, JoinedAre
  <2> QED BY <1>4, <1>6, <2>1 DEF Answering
<1>9. Joined(cur'[c], There(c)') = Closed(Last(c)')
  <2>1. Joined(cur[c], Joined(buffer[c], Append(down[c], "END"))) = Closed(Joined(cur[c], Joined(buffer[c], down[c])))
    BY <1>5, MoveEnd
  <2>2. Last(c)' = Last(c) /\ There(c)' = Joined(buffer[c], Append(down[c], "END"))
        /\ There(c) = Joined(buffer[c], down[c])
    BY <1>1, <1>7 DEF Last, There
  <2> QED BY <1>1, <1>8, <2>1, <2>2
<1>10. Answered(c)'
  BY <1>1, <1>4, <1>9 DEF Answering, Answered
<1> QED BY <1>1, <1>3, <1>4, <1>10 DEF Phase

LEMMA ClosePhase ==
  ASSUME Sound, NEW c \in Clients, Clean(c) => Phase(c), Close(c), Clean(c)'
  PROVE  Phase(c)'
<1>1. /\ UNCHANGED <<cli, got, cur, buffer, down, up, pend, wrote>> /\ at'[c] = "closed"
      /\ at[c] = "closing" \/ cli[c] = "done"
  BY DEF Close, client, socket, ghosts, Sound, Kinds
<1>2. Phase(c)
  BY <1>1 DEF Clean
<1>3. Matched(c)'
  BY <1>1, <1>2 DEF Phase, Matched
<1>4. There(c)' = There(c) /\ Last(c)' = Last(c) /\ Len(got[c]) \in Nat
  BY <1>1, AtClient DEF There, Last
<1>5. cli[c] = "send" => Settled(c)'
  BY <1>1, <1>2, <1>4 DEF Phase, Settled
<1>6. cli[c] = "read" => Asked(c)' \/ Answered(c)'
  BY <1>1, <1>2, <1>4 DEF Phase, Asked, Answering, Answered
<1> QED BY <1>1, <1>3, <1>5, <1>6 DEF Phase

\* What one client and its thread do is nothing to the others' conversations.
LEMMA OthersStill ==
  ASSUME Sound, NEW c \in Clients, Cli(c) \/ Interrupt(c) \/ Agent(c), NEW d \in Clients, d # c
  PROVE  /\ cli'[d] = cli[d] /\ at'[d] = at[d] /\ got'[d] = got[d] /\ wrote'[d] = wrote[d]
         /\ cur'[d] = cur[d] /\ buffer'[d] = buffer[d] /\ down'[d] = down[d] /\ up'[d] = up[d]
         /\ pend'[d] = pend[d]
<1> USE DEF Sound, Kinds
<1>1. CASE Skip(c)
  BY <1>1 DEF Skip, socket, handler, ghosts
<1>2. CASE Send(c)
  <2>1. UNCHANGED <<got, wrote, down, at, pend>>
    BY <1>2 DEF Send, handler, ghosts
  <2>2. /\ cli'[d] = cli[d] /\ up'[d] = up[d]
        /\ cur'[d] = cur[d] /\ buffer'[d] = buffer[d]
    BY <1>2 DEF Send
  <2> QED BY <2>1, <2>2
<1>3. CASE ReadReply(c)
  <2>1. PICK there :
          /\ down' = [down EXCEPT ![c] = <<>>]
          /\ buffer' = [buffer EXCEPT ![c] = IF there = <<>> THEN <<>> ELSE Tail(there)]
          /\ \/ EndReply(c)
             \/ cur' = [cur EXCEPT ![c] = Append(cur[c], Head(there))] /\ UNCHANGED <<got, pos, cli>>
          /\ UNCHANGED <<password, conv, up, handler, shared, ghosts>>
    BY <1>3, Reading
  <2>2. buffer'[d] = buffer[d] /\ down'[d] = down[d]
    BY <2>1
  <2>3. UNCHANGED <<up, at, pend, wrote>>
    BY <2>1 DEF handler, ghosts
  <2>4. cli'[d] = cli[d] /\ got'[d] = got[d] /\ cur'[d] = cur[d]
    <3>1. CASE EndReply(c)
      BY <3>1 DEF EndReply
    <3>2. CASE cur' = [cur EXCEPT ![c] = Append(cur[c], Head(there))] /\ UNCHANGED <<got, pos, cli>>
      BY <3>2
    <3> QED BY <2>1, <3>1, <3>2
  <2> QED BY <2>2, <2>3, <2>4
<1>4. CASE Hangup(c)
  BY <1>4 DEF Hangup, socket, handler, ghosts
<1>5. CASE Receive(c)
  BY <1>5 DEF Receive, client, ghosts
<1>6. CASE Refuse(c) \/ Submit(c) \/ Run(c)
  <2>1. (\E texts : Answer(c, texts)) /\ UNCHANGED <<client, socket>>
    BY <1>6 DEF Refuse, Submit, Run
  <2> QED BY <2>1 DEF Answer, client, socket
<1>7. CASE Begin(c)
  BY <1>7 DEF Begin, client, socket, ghosts
<1>8. CASE Write(c)
  BY <1>8 DEF Write, client, ghosts
<1>9. CASE WriteEnd(c)
  BY <1>9 DEF WriteEnd, client, ghosts
<1>10. CASE Close(c)
  BY <1>10 DEF Close, client, socket, ghosts
<1> QED BY <1>1, <1>2, <1>3, <1>4, <1>5, <1>6, <1>7, <1>8, <1>9, <1>10
        DEF Cli, Finish, Interrupt, Agent

LEMMA OwnPhase ==
  ASSUME Sound, NEW c \in Clients, Clean(c) => Phase(c), Cli(c) \/ Interrupt(c) \/ Agent(c), Clean(c)'
  PROVE  Phase(c)'
<1>1. CASE Skip(c)
  BY <1>1, PhaseStill DEF Skip, socket, handler, ghosts
<1>2. CASE Send(c) \/ ReadReply(c) \/ Hangup(c)
  BY <1>2, SendPhase, ReadReplyPhase, HangupPhase
<1>3. CASE Receive(c) \/ Begin(c) \/ Write(c) \/ WriteEnd(c) \/ Close(c)
  BY <1>3, ReceivePhase, BeginPhase, WritePhase, WriteEndPhase, ClosePhase
<1>4. CASE Refuse(c) \/ Submit(c) \/ Run(c)
  <2>1. UNCHANGED <<client, socket>> /\ at[c] \in {"gate", "run"}
    BY <1>4 DEF Refuse, Submit, Run, Passes
  <2>2. \E texts \in Seq(Word) : Answer(c, texts)
    <3>1. CASE Refuse(c) \/ Submit(c)
      <4>1. Answer(c, <<"refused">>) \/ Answer(c, <<"job">>)
        BY <3>1 DEF Refuse, Submit
      <4> QED BY <4>1, OwnAreWords, ShortSeqs
    <3>2. CASE Run(c)
      <4>1. \E ok : Answer(c, IF cmd[c].redir = "no" THEN Texts(cmd[c], ok) ELSE <<"wrote">>)
        BY <3>2 DEF Run
      <4>2. \A ok : Texts(cmd[c], ok) \in Seq(Word)
        BY TextsAre DEF Sound, Kinds
      <4> QED BY <4>1, <4>2, OwnAreWords, ShortSeqs
    <3> QED BY <1>4, <3>1, <3>2
  <2> QED BY <2>1, <2>2, AnswerPhase
<1> QED BY <1>1, <1>2, <1>3, <1>4 DEF Cli, Finish, Interrupt, Agent

LEMMA InStepStarts == SessionInit => InStep
<1> SUFFICES ASSUME SessionInit, NEW c \in Clients PROVE Phase(c)
  BY DEF InStep
<1>1. /\ got[c] = <<>> /\ wrote[c] = <<>> /\ down[c] = <<>> /\ up[c] = <<>>
      /\ at[c] = "read" /\ cli[c] = "send"
  BY DEF SessionInit
<1>2. Len(<<>>) = 0
  BY EmptySeq
<1> QED BY <1>1, <1>2 DEF Phase, Matched, Settled

LEMMA InStepKeeps == ASSUME Sound, InStep, [SessionNext]_vars PROVE InStep'
<1> SUFFICES ASSUME NEW d \in Clients PROVE Clean(d)' => Phase(d)'
  BY DEF InStep
<1>1. Clean(d) => Phase(d)
  BY DEF InStep
<1>2. ASSUME NEW c \in Clients, Cli(c) \/ Interrupt(c) \/ Agent(c) PROVE Clean(d)' => Phase(d)'
  <2>1. CASE c = d
    BY <1>1, <1>2, <2>1, OwnPhase
  <2>2. CASE c # d
    BY <1>1, <1>2, <2>2, OthersStill, PhaseStill
  <2> QED BY <2>1, <2>2
<1>3. CASE RunJob \/ UNCHANGED vars
  <2>1. UNCHANGED <<client, socket, handler, wrote>>
    BY <1>3 DEF RunJob, vars, ghosts
  <2> QED BY <1>1, <2>1, PhaseStill DEF client, socket, handler
<1> QED BY <1>2, <1>3 DEF SessionNext, Quiet

\* stream_to_stdout and read_reply take for the answer to a command what
\* handle_client wrote for it and all of it, wherever the socket cuts it and
\* whatever the other connections and the jobs do meanwhile, unless a payload
\* holds the line that ends a reply or an answer ends without a newline, so that
\* the line that ends it runs into its last.
THEOREM EveryReplyIsItsOwn == SessionSpec => []RepliesHold
<1>1. SessionInit => IInv /\ Sound /\ InStep
  BY InitGranted, SoundStarts, InStepStarts
<1>2. IInv /\ Sound /\ InStep /\ [SessionNext]_vars => IInv' /\ Sound' /\ InStep'
  BY StepGranted, SoundKeeps, InStepKeeps
<1>3. IInv /\ Sound /\ InStep => RepliesHold
  <2> SUFFICES ASSUME IInv, Sound, InStep PROVE TypeOK /\ RepliesMatch
    BY DEF RepliesHold
  <2>1. RepliesMatch
    BY DEF InStep, Phase, Matched, Clean, Whole, RepliesMatch
  <2>2. \A c \in Clients : pos[c] \in 1..(Len(Lines(c)) + 1) /\ Len(got[c]) < pos[c]
    <3> SUFFICES ASSUME NEW c \in Clients
                 PROVE  pos[c] \in 1..(Len(Lines(c)) + 1) /\ Len(got[c]) < pos[c]
      OBVIOUS
    <3>1. Len(Lines(c)) \in Nat /\ pos[c] \in Nat \ {0}
      BY LinesAre, LenProperties DEF Sound, Kinds
    <3> QED BY <3>1 DEF Sound, Counts
  <2>3. TypeOK
    BY <2>2 DEF IInv, Sound, Kinds, Stores, Submitted, TypeOK
  <2> QED BY <2>1, <2>3
<1> QED BY <1>1, <1>2, <1>3, PTL DEF SessionSpec
=============================================================================
