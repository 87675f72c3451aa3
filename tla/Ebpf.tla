-------------------------------- MODULE Ebpf --------------------------------
(***************************************************************************)
(* The eBPF helper (rthas-ebpf and rthas-ebpf-prog) over a program nobody  *)
(* instrumented: uprobes put enter and exit records into a kernel ring,    *)
(* the helper pairs them into calls and reports them to its one client.    *)
(*                                                                         *)
(* A call is known by its number: the records carry it in place of a time, *)
(* with the address of the function, from which the helper finds its name  *)
(* or nothing.  truth lists the calls the helper can name in the order     *)
(* they returned, as the program made them; seen lists what the helper     *)
(* made of the records.                                                    *)
(***************************************************************************)
EXTENDS Symbols, Stats

CONSTANTS
  Threads,      \* of the program
  Functions,    \* the addresses it calls
  SymbolTable,  \* what load_process_symbols found
  Maps,         \* the /proc/<pid>/maps the helper read
  LoadedAt,     \* where each object really lies, by its path
  Requests,     \* [verb, pattern, count, timed]: the commands a client may send
  MAX_ATTACH, SAMPLE_CAP,
  RingSize,     \* records the kernel ring holds
  MaxDepth, MaxCalls,  \* bounds of the program
  MaxRequests,  \* bound of the client
  MaxFrames     \* bound of the frames shown before time is up

ASSUME EbpfAssumption ==
  /\ {Len(SymbolTable), MAX_ATTACH, SAMPLE_CAP, RingSize, MaxDepth, MaxCalls, MaxRequests} \subseteq Nat
  /\ \A r \in Requests :
       /\ r = [verb |-> r.verb, pattern |-> r.pattern, count |-> r.count, timed |-> r.timed]
       /\ r.count \in Nat

VARIABLES
  stacks, calls,              \* the program
  probes, ring, attached,     \* probes in place, records not read, what attach was given
  pc, req, todo, due,         \* the command that runs
  forest, buf, frames, printed,
  enabled, client, requests,
  lost, broken, truth, seen   \* history, since the last attach

program == <<stacks, calls>>
kernel == <<probes, ring, attached>>
command == <<pc, req, todo, due>>
report == <<forest, buf, frames, printed>>
history == <<lost, broken, truth, seen>>
vars == <<program, kernel, command, report, enabled, client, requests, history>>

Ids == 1..Len(SymbolTable)

\* Where a symbol's probes are, which bpf_get_func_ip reports, and where the
\* helper believes it to be.
Ip == [i \in Ids |-> SymbolTable[i].vaddr + LoadedAt[SymbolTable[i].object]]
Key == [i \in Ids |-> RuntimeIp(SymbolTable[i], Maps)]

Attaching == {"trace", "watch", "stats", "top", "monitor", "dashboard"}
NoRequest == [verb |-> "none", pattern |-> <<>>, count |-> 0, timed |-> FALSE]

EbpfInit ==
  /\ stacks = [t \in Threads |-> <<>>] /\ calls = 0
  /\ probes = {} /\ ring = <<>> /\ attached = <<>>
  /\ pc = "idle" /\ req = NoRequest /\ todo = <<>> /\ due = FALSE
  /\ forest = [t \in Threads |-> <<>>] /\ buf = <<>> /\ frames = <<>> /\ printed = 0
  /\ enabled = {} /\ client = "none" /\ requests = 0
  /\ lost = FALSE /\ broken = FALSE /\ truth = <<>> /\ seen = <<>>

-----------------------------------------------------------------------------
(* The program under its probes.                                            *)

\* submit, by each probe that fires: a ring that is full takes nothing and
\* nobody is told.
submit(record, times) ==
  LET room == RingSize - Len(ring)
  IN  /\ ring' = ring \o [k \in 1..(IF times <= room THEN times ELSE room) |-> record]
      /\ lost' = (lost \/ times > room)

Record(kind, t, frame) == [kind |-> kind, tid |-> t, ip |-> frame.ip, start |-> frame.start]

ProbesAt(a, kind) == {i \in Ids : <<i, kind>> \in probes /\ Ip[i] = a}

\* The uretprobe of a call is hung in when the call begins.
Call(t, a) ==
  LET entered == ProbesAt(a, "enter")
      frame == [ip |-> a, start |-> calls + 1, hooked |-> ProbesAt(a, "exit") # {}, kids |-> <<>>]
  IN  /\ calls < MaxCalls /\ Len(stacks[t]) < MaxDepth
      /\ calls' = calls + 1
      /\ stacks' = [stacks EXCEPT ![t] = Append(@, frame)]
      /\ submit(Record("enter", t, frame), Cardinality(entered))
      /\ broken' = (broken \/ (entered # {}) # frame.hooked)
      /\ UNCHANGED <<probes, attached, command, report, enabled, client, requests, truth, seen>>

Node(t, id, frame, root) ==
  [tid |-> t, id |-> id, start |-> frame.start, kids |-> frame.kids, root |-> root]

\* The helper has the right address for one of these symbols, the one whose
\* probes are there; a call is told of when it is observed at such an address.
Knows(ids, a) == \E i \in ToSet(ids) : Ip[i] = a /\ Key[i] = a
NameOf(ids, a) == CHOOSE i \in ToSet(ids) : Ip[i] = a
Told(ids, frame) == frame.hooked /\ Knows(ids, frame.ip)

Return(t) ==
  LET top == Last(stacks[t])
      below == Front(stacks[t])
      fired == IF top.hooked THEN ProbesAt(top.ip, "exit") ELSE {}
      around == {i \in 1..Len(below) : Told(attached, below[i])}
      node == Node(t, NameOf(attached, top.ip), top, around = {})
  IN  /\ stacks[t] # <<>>
      /\ submit(Record("exit", t, top), Cardinality(fired))
      /\ truth' = IF Told(attached, top) THEN Append(truth, node) ELSE truth
      /\ stacks' = [stacks EXCEPT ![t] =
                      IF Told(attached, top) /\ around # {}
                      THEN [below EXCEPT ![Max(around)].kids = Append(@, node)] ELSE below]
      /\ UNCHANGED <<calls, probes, attached, command, report, enabled, client, requests, broken, seen>>

\* A call left by unwinding: no uretprobe fires.
Panic(t) ==
  /\ stacks[t] # <<>>
  /\ stacks' = [stacks EXCEPT ![t] = Front(@)]
  /\ broken' = (broken \/ Last(stacks[t]).hooked)
  /\ UNCHANGED <<calls, kernel, command, report, enabled, client, requests, lost, truth, seen>>

-----------------------------------------------------------------------------
(* BpfEngine and the forest.                                                *)

\* The probes go, and the ring with the records nobody read; with attach,
\* others take their place.
release(ids) ==
  /\ probes' = {} /\ ring' = <<>> /\ attached' = ids
  /\ stacks' = [t \in Threads |-> [i \in 1..Len(stacks[t]) |-> [stacks[t][i] EXCEPT !.hooked = FALSE]]]
detach == release(<<>>)

\* The map attach fills: of symbols at one address the last is kept.
Named(ids) ==
  [a \in {Key[i] : i \in ToSet(ids)} |-> ids[Max({k \in 1..Len(ids) : Key[ids[k]] = a})]]
ips == Named(attached)

\* Forest::exit: frames above the topmost one of this function are dropped, and
\* the whole stack where there is none.
ExitTopOnly(stack, t, id) ==
  IF stack # <<>> /\ Last(stack).id = id
  THEN LET below == Front(stack)
           node == Node(t, id, Last(stack), below = <<>>)
       IN  [stack |-> IF below = <<>> THEN below ELSE [below EXCEPT ![Len(below)].kids = Append(@, node)],
            done |-> <<node>>]
  ELSE [stack |-> stack, done |-> <<>>]

Exit(stack, t, id) ==
  LET same == {i \in 1..Len(stack) : stack[i].id = id}
      i == Max(same)
      node == Node(t, id, stack[i], i = 1)
  IN  IF same = {} THEN [stack |-> <<>>, done |-> <<>>]
      ELSE [stack |-> IF i = 1 THEN <<>>
                      ELSE [SubSeq(stack, 1, i - 1) EXCEPT ![i - 1].kids = Append(@, node)],
            done |-> <<node>>]

\* ingest, as cmd_stream too: all the records read in one poll, and the calls
\* they complete; a record whose address is not in the map is passed over.
TakeIn(map, acc, ev) ==
  LET r == Exit(acc.forest[ev.tid], ev.tid, map[ev.ip])
  IN  IF ev.ip \notin DOMAIN map THEN acc
      ELSE IF ev.kind = "enter"
      THEN [acc EXCEPT !.forest[ev.tid] = Append(@, [id |-> map[ev.ip], start |-> ev.start, kids |-> <<>>])]
      ELSE [acc EXCEPT !.forest[ev.tid] = r.stack, !.done = @ \o r.done]

Ingested(map, start, batch) ==
  LET f[k \in 0..Len(batch)] ==
        IF k = 0 THEN start
        ELSE CHOOSE r \in {TakeIn(map, acc, batch[k]) : acc \in {f[k - 1]}} : TRUE
  IN  f[Len(batch)]
ingest(batch) == Ingested(ips, [forest |-> forest, done |-> <<>>], batch)

-----------------------------------------------------------------------------
(* Commands.  A write to a client that has left fails.                      *)

Connect ==
  /\ pc = "idle" /\ client = "none"
  /\ client' = "here"
  /\ UNCHANGED <<program, kernel, command, report, enabled, requests, history>>

Leave ==
  /\ client = "here" /\ pc # "stopped"
  /\ client' = "gone"
  /\ UNCHANGED <<program, kernel, command, report, enabled, requests, history>>

\* handle_client reads the end of the connection and the next is accepted.
EndSession ==
  /\ pc = "idle" /\ client = "gone"
  /\ client' = "none"
  /\ UNCHANGED <<program, kernel, command, report, enabled, requests, history>>

\* The session goes on, or ends where the reply could not be written.
Reply == client' = IF client = "gone" THEN "none" ELSE client

\* What each request selects, computed once.
Selected == [r \in Requests |-> select_ids(SymbolTable, r.pattern, MAX_ATTACH)]
MarkedOn == [r \in Requests |-> set_enabled(SymbolTable, {}, r.pattern, TRUE)]
MarkedOff == [r \in Requests |-> Ids \ set_enabled(SymbolTable, Ids, r.pattern, FALSE)]

\* The first symbols a command attaches to; a dashboard takes those turned on.
Targets(r) ==
  IF r.verb = "dashboard" THEN FirstOf(enabled, MAX_ATTACH) ELSE Selected[r]

Ask(r) ==
  /\ pc = "idle" /\ client = "here" /\ requests < MaxRequests
  /\ requests' = requests + 1
  /\ req' = r

\* on and off.
Mark(r) ==
  /\ r.verb \in {"on", "off"} /\ Ask(r)
  /\ enabled' = IF r.verb = "on" THEN enabled \cup MarkedOn[r] ELSE enabled \ MarkedOff[r]
  /\ UNCHANGED <<program, kernel, pc, todo, due, report, client, history>>

\* stop: the helper detaches, replies and leaves its loop.
Stop(r) ==
  /\ r.verb = "stop" /\ Ask(r)
  /\ detach
  /\ pc' = "stopped"
  /\ UNCHANGED <<calls, todo, due, report, enabled, client, history>>

\* Neither a time nor a count means the default time (collect_limit).
collect_limit(r) ==
  IF r.verb \in {"stats", "top"} /\ r.count = 0 THEN [r EXCEPT !.timed = TRUE] ELSE r

FreshButForest ==
  /\ forest' = forest /\ buf' = <<>> /\ frames' = <<>> /\ printed' = 0
  /\ due' = FALSE

\* What each command begins with.
Fresh ==
  /\ forest' = [t \in Threads |-> <<>>] /\ buf' = <<>> /\ frames' = <<>> /\ printed' = 0
  /\ due' = FALSE

\* prepare_attach up to the probes: nothing is attached for no symbol, but a
\* dashboard goes on without; attach drops what is attached first.
Begin(r) ==
  /\ r.verb \in Attaching /\ Ask(collect_limit(r))
  /\ Fresh
  /\ todo' = [k \in 1..2 * Len(Targets(r)) |->
                <<Targets(r)[(k + 1) \div 2], IF k % 2 = 1 THEN "enter" ELSE "exit">>]
  /\ IF Targets(r) = <<>>
     THEN /\ pc' = (IF r.verb = "dashboard" THEN "blind" ELSE "idle")
          /\ UNCHANGED <<stacks, kernel>>
     ELSE release(Targets(r)) /\ pc' = "attach"
  /\ lost' = FALSE /\ broken' = FALSE /\ truth' = <<>> /\ seen' = <<>>
  /\ UNCHANGED <<calls, enabled, client>>

\* One uprobe or uretprobe at a time, while the program runs.
AttachNext ==
  /\ pc = "attach" /\ todo # <<>>
  /\ probes' = probes \cup {Head(todo)}
  /\ todo' = Tail(todo)
  /\ UNCHANGED <<program, ring, attached, pc, req, due, report, enabled, client, requests, history>>

\* One that cannot be attached takes the others with it.
AttachFails ==
  /\ pc = "attach" /\ todo # <<>>
  /\ detach
  /\ todo' = <<>>
  /\ pc' = IF req.verb = "dashboard" /\ client # "gone" THEN "blind" ELSE "idle"
  /\ Reply
  /\ UNCHANGED <<calls, req, due, report, enabled, requests, history>>

AttachDone ==
  /\ pc = "attach" /\ todo = <<>>
  /\ pc' = IF req.verb \in {"stats", "top"} THEN "head" ELSE "loop"
  /\ UNCHANGED <<program, kernel, req, todo, due, report, enabled, client, requests, history>>

\* The line before the collection; if it cannot be written the command is over
\* and the probes stay until the next attach.
WriteHead ==
  /\ pc = "head"
  /\ pc' = IF client = "gone" THEN "idle" ELSE "loop"
  /\ Reply
  /\ UNCHANGED <<program, kernel, req, todo, due, report, enabled, requests, history>>

Expire ==
  /\ pc \in {"loop", "blind"} /\ req.timed /\ ~due
  /\ due' = TRUE
  /\ UNCHANGED <<program, kernel, pc, req, todo, report, enabled, client, requests, history>>

FinishAttached == UNCHANGED <<stacks, kernel>> /\ pc' = "idle" /\ Reply
Finish == detach /\ pc' = "idle" /\ Reply

\* The end of an iteration: over, or again after the ring was emptied.
Again == ring' = <<>> /\ UNCHANGED <<probes, attached, stacks, pc, client>>
EndIteration(over) == IF over THEN Finish ELSE Again

Common == UNCHANGED <<calls, req, todo, due, enabled, requests, lost, broken, truth>>

\* cmd_stream: a tree for each root, or a line for each call, until the count
\* is reached, in the middle of what was read if need be.
StreamStep ==
  \E r \in {ingest(ring)} :
  LET roots == Cardinality({i \in 1..Len(r.done) : r.done[i].root})
      shown == IF req.verb = "trace" THEN roots ELSE Len(r.done)
      room == IF req.count = 0 THEN shown ELSE req.count - printed
      n == IF shown < room THEN shown ELSE room
      full == req.count > 0 /\ printed + n >= req.count
  IN  /\ pc = "loop" /\ req.verb \in {"trace", "watch"}
      /\ forest' = r.forest /\ seen' = seen \o r.done
      /\ printed' = printed + n
      /\ EndIteration(full \/ due \/ (client = "gone" /\ n > 0))
      /\ UNCHANGED <<buf, frames>> /\ Common

\* collect_samples: the newest SAMPLE_CAP calls; nobody looks at the client.
Newest(s) == SubSeq(s, IF Len(s) > SAMPLE_CAP THEN Len(s) - SAMPLE_CAP + 1 ELSE 1, Len(s))
Oldest(s) == SubSeq(s, 1, IF Len(s) > SAMPLE_CAP THEN SAMPLE_CAP ELSE Len(s))

Capped(s) == Newest(s)

OverOnCount == req.count > 0 /\ Len(buf') >= req.count
CollectOver == OverOnCount \/ due

CollectStep ==
  \E r \in {ingest(ring)} :
      /\ pc = "loop" /\ req.verb \in {"stats", "top"}
      /\ forest' = r.forest /\ seen' = seen \o r.done
      /\ buf' = Capped(buf \o r.done)
      /\ EndIteration(CollectOver)
      /\ UNCHANGED <<frames, printed>> /\ Common

\* cmd_monitor: records are read throughout the interval...
MonitorIngest ==
  \E r \in {ingest(ring)} :
      /\ pc = "loop" /\ req.verb = "monitor" /\ ~due
      /\ forest' = r.forest /\ seen' = seen \o r.done
      /\ buf' = buf \o r.done
      /\ ring' = <<>>
      /\ UNCHANGED <<stacks, probes, attached, pc, client, frames, printed>> /\ Common

FrameOver == \/ client = "gone"
             \/ req.count > 0 /\ printed + 1 >= req.count
             \/ due

\* ...and shown at its end, which the deadline may bring forward.
MonitorFrame ==
  /\ pc = "loop" /\ req.verb = "monitor" /\ (due \/ printed < MaxFrames)
  /\ frames' = Append(frames, buf)
  /\ buf' = <<>>
  /\ printed' = printed + 1
  /\ IF FrameOver THEN Finish ELSE UNCHANGED <<stacks, kernel, pc, client>>
  /\ UNCHANGED <<forest, seen>> /\ Common

\* cmd_dashboard reads the ring once an interval, if it has attached.
DashboardFrame ==
  \E r \in {ingest(ring)} :
      /\ pc = "loop" /\ req.verb = "dashboard" /\ (due \/ printed < MaxFrames)
      /\ forest' = r.forest /\ seen' = seen \o r.done
      /\ frames' = Append(frames, r.done)
      /\ printed' = printed + 1
      /\ EndIteration(FrameOver)
      /\ UNCHANGED buf /\ Common

\* Without probes it shows the system's numbers alone.
BlindFrame ==
  /\ pc = "blind" /\ (due \/ printed < MaxFrames)
  /\ frames' = Append(frames, <<>>)
  /\ printed' = printed + 1
  /\ IF FrameOver THEN pc' = "idle" /\ Reply ELSE UNCHANGED <<pc, client>>
  /\ UNCHANGED <<stacks, kernel, forest, buf, seen>> /\ Common

-----------------------------------------------------------------------------
Program == \E t \in Threads : Return(t) \/ Panic(t) \/ \E a \in Functions : Call(t, a)

LoopStep == StreamStep \/ CollectStep \/ MonitorFrame \/ DashboardFrame \/ BlindFrame

Server == \/ EndSession \/ AttachNext \/ AttachFails \/ AttachDone \/ WriteHead
          \/ MonitorIngest \/ LoopStep

Client == Connect \/ Leave \/ \E r \in Requests : Mark(r) \/ Stop(r) \/ Begin(r)

\* A helper that has stopped is gone.
Stopped == pc = "stopped" /\ UNCHANGED vars

EbpfNext == Program \/ Server \/ Client \/ Expire \/ Stopped

\* The helper's thread is scheduled and time passes.  Of its loop only the
\* iteration after the deadline has to happen for a command to end.
EbpfSpec ==
  /\ EbpfInit /\ [][EbpfNext]_vars
  /\ WF_vars(AttachNext \/ AttachDone \/ WriteHead)
  /\ WF_vars(Expire)
  /\ WF_vars(due /\ LoopStep)

-----------------------------------------------------------------------------
Unread == Cardinality({i \in 1..Len(ring) : ring[i].kind = "exit" /\ ring[i].ip \in DOMAIN ips})

\* No address of what is attached stands for two symbols, nor does the helper
\* take one for another's.
OneName ==
  \A i, k \in ToSet(attached) : Ip[k] = Ip[i] \/ Key[k] = Ip[i] => k = i

\* With no record lost and no call left by unwinding or caught half probed, the
\* helper's calls are the program's: the same calls in the same order, each
\* with its thread, its beginning and the calls inside it, though the probes
\* were attached one by one under calls already running.  This is so of the
\* objects whose address the helper has right.  The calls of another - every
\* one whose executable mapping is not at offset 0, as load_bias_from_maps then
\* answers 0 - are passed over without a word, and symbols at one address
\* attached together (~OneName) are reported several times, all as the last.
ExactIfUndisturbed ==
  pc = "loop" /\ ~lost /\ ~broken /\ OneName
    => IsPrefix(seen, truth) /\ Len(truth) = Len(seen) + Unread

Counted(nodes) == [i \in 1..Len(nodes) |-> <<nodes[i].tid, nodes[i].id>>]

\* Unwound calls leave stale frames behind, yet as long as no record is lost
\* every return from an object whose address the helper has right is still
\* reported once, under its own function and thread, unless symbols share an
\* address: a count is right even where durations and nesting are not.
CountedIfNothingLost ==
  pc = "loop" /\ ~lost /\ OneName
    => IsPrefix(Counted(seen), Counted(truth)) /\ Len(truth) = Len(seen) + Unread

\* A report covers what was seen and nothing twice: stats and top hold the
\* newest samples up to their cap, the frames of a monitor or a dashboard and
\* the interval still open divide the calls among them.
ReportsCoverSeen ==
  /\ req.verb \in {"stats", "top"} => buf = Newest(seen)
  /\ req.verb \in {"monitor", "dashboard"} => FlattenSeq(frames) \o buf = seen

\* A command takes its probes with it, however it ends - count, deadline,
\* client gone, an attach that fails half way - and so does `stop`.  What is
\* left of a command whose first line could not be written goes with the next
\* attach.
CommandTakesItsProbes ==
  [][/\ pc \in {"attach", "loop"} /\ pc' \in {"idle", "blind"} => probes' = {}
     /\ pc' \in {"attach", "stopped"} /\ pc # pc' => probes' = {}]_vars

\* A command with a time limit gives the helper back to the next client, with
\* a client or without.
TimedEnds == (pc \notin {"idle", "stopped"} /\ req.timed) ~> pc = "idle"

TypeOK ==
  /\ \A t \in Threads : Len(stacks[t]) <= MaxDepth
  /\ calls \in 0..MaxCalls /\ Len(ring) <= RingSize
  /\ probes \subseteq Ids \X {"enter", "exit"}
  /\ \A i \in 1..Len(todo) : todo[i] \in Ids \X {"enter", "exit"} /\ todo[i] \notin probes
  /\ pc \in {"idle", "attach", "head", "loop", "blind", "stopped"}
  /\ due \in BOOLEAN /\ lost \in BOOLEAN /\ broken \in BOOLEAN
  /\ client \in {"none", "here", "gone"} /\ enabled \subseteq Ids
  /\ requests \in 0..MaxRequests /\ printed \in Nat
  /\ Cardinality({p[1] : p \in probes}) <= MAX_ATTACH

\* Types, and reports that cover what was seen.
ReportsHold == TypeOK /\ ReportsCoverSeen
=============================================================================
