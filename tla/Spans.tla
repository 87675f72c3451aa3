-------------------------------- MODULE Spans --------------------------------
(***************************************************************************)
(* Where a call sits in the call tree: rthas/src/span.rs, and the code     *)
(* #[rthas::trace] expands to (rthas-macros).  A call of an enabled probe  *)
(* holds a SpanGuard; begin links it to the thread-local CURRENT and DEPTH *)
(* and its drop restores them.  A task is a stack of such calls: a thread  *)
(* running synchronous code, or a future the executor polls, parks and     *)
(* polls again on any thread, and may drop half-way.  Calls of disabled    *)
(* probes do nothing here and have no frame.                               *)
(***************************************************************************)
EXTENDS Naturals, Sequences

CONSTANTS
  Threads,
  Tasks,
  Probes,
  AsyncProbes,   \* those on an `async fn`
  MaxSpan        \* bound on NEXT_SPAN

TaskStates == {"new", "parked", "over"}
Nobodies == {"nobody", "lost"}

ASSUME SpansAssumption ==
  /\ AsyncProbes \subseteq Probes
  /\ Threads \cap TaskStates = {} /\ Tasks \cap Nobodies = {}
  /\ MaxSpan \in Nat

VARIABLES
  enabled,   \* the probes switched on
  current,   \* CURRENT of each thread
  depth,     \* DEPTH of each thread
  next,      \* NEXT_SPAN
  frames,    \* the SpanGuards of each task, outermost first
  place,     \* the thread a task runs on, or its state
  events,    \* what emit pushed, in order
  owner,     \* history: whose spans CURRENT and DEPTH of a thread stand for
  aborted    \* history: spans whose args() panicked

tls == <<current, depth>>
vars == <<enabled, tls, next, frames, place, events, owner, aborted>>

Top(k) == frames[k][Len(frames[k])]
Open(k) == frames[k] # <<>>
Idle(th) == \A k \in Tasks : place[k] # th
\* The call that really encloses the i-th call of k.
Encloses(k, i) == IF i = 1 THEN 0 ELSE frames[k][i - 1].span

Init ==
  /\ enabled = {}
  /\ current = [th \in Threads |-> 0]
  /\ depth = [th \in Threads |-> 0]
  /\ next = 1
  /\ frames = [k \in Tasks |-> <<>>]
  /\ place = [k \in Tasks |-> "new"]
  /\ events = <<>>
  /\ owner = [th \in Threads |-> "nobody"]
  /\ aborted = {}

-----------------------------------------------------------------------------

\* `on`, `off`, or a ProbeScope.
Switch(p) ==
  /\ enabled' = IF p \in enabled THEN enabled \ {p} ELSE enabled \union {p}
  /\ UNCHANGED <<tls, next, frames, place, events, owner, aborted>>

\* A task starts on, or is polled by, a thread that runs nothing.  What the
\* thread-locals hold is whatever was left there.
Arrive(k, th) ==
  /\ Idle(th)
  /\ place' = [place EXCEPT ![k] = th]
  /\ owner' = [t \in Threads |->
       IF t = th THEN IF owner[t] = (IF Open(k) THEN k ELSE "nobody") THEN k ELSE "lost"
       ELSE IF owner[t] = k THEN "lost" ELSE owner[t]]
  /\ UNCHANGED <<enabled, tls, next, frames, events, aborted>>

Start(k, th) == place[k] = "new" /\ Arrive(k, th)
Resume(k, th) == place[k] = "parked" /\ Arrive(k, th)

\* The task is done, or its future returns Pending.  Only async calls can be
\* open across an await.
Leave(k, to) ==
  /\ place[k] \in Threads
  /\ IF to = "over" THEN ~Open(k)
     ELSE \A i \in DOMAIN frames[k] :
            frames[k][i].probe \in AsyncProbes /\ ~frames[k][i].finished
  /\ place' = [place EXCEPT ![k] = to]
  /\ owner' = [t \in Threads |->
       IF owner[t] = k /\ ~Open(k) THEN "nobody" ELSE owner[t]]
  /\ UNCHANGED <<enabled, tls, next, frames, events, aborted>>

\* An async call is polled by async code only.
CanCall(k, p) ==
  /\ place[k] \in Threads
  /\ Open(k) => ~Top(k).finished /\ (p \in AsyncProbes => Top(k).probe \in AsyncProbes)

\* The parent and the depth a new span gets: read before CURRENT is set.
LinkLate(th) == [parent |-> next, depth |-> depth[th]]
Link(th) == [parent |-> current[th], depth |-> depth[th]]

\* SpanGuard::begin of an enabled probe.
Begin(k, p) ==
  LET th == place[k] IN
  /\ CanCall(k, p) /\ p \in enabled /\ next <= MaxSpan
  /\ next' = next + 1
  /\ frames' = [frames EXCEPT ![k] = Append(@,
       [probe |-> p, span |-> next, parent |-> Link(th).parent, depth |-> Link(th).depth,
        finished |-> FALSE])]
  /\ current' = [current EXCEPT ![th] = next]
  /\ depth' = [depth EXCEPT ![th] = @ + 1]
  /\ UNCHANGED <<enabled, place, events, owner, aborted>>

\* begin evaluates args() after it has set the thread-locals: a Debug impl
\* that panics there leaves them set and no guard to restore them.
BeginPanics(k, p) ==
  LET th == place[k] IN
  /\ CanCall(k, p) /\ p \in enabled /\ next <= MaxSpan
  /\ next' = next + 1
  /\ current' = [current EXCEPT ![th] = next]
  /\ depth' = [depth EXCEPT ![th] = @ + 1]
  /\ aborted' = aborted \union {next}
  /\ owner' = [owner EXCEPT ![th] = "lost"]
  /\ UNCHANGED <<enabled, frames, place, events>>

\* The event of the innermost call of k, completed on th; under and sure are
\* history: the call that encloses it, and whether th stood for k throughout.
Event(k, th) ==
  [span |-> Top(k).span, parent |-> Top(k).parent, depth |-> Top(k).depth,
   under |-> Encloses(k, Len(frames[k])), rank |-> Len(frames[k]) - 1,
   sure |-> owner[th] = k]

\* finish emits; its `self` is dropped next.
Finish(k) ==
  /\ place[k] \in Threads /\ Open(k) /\ ~Top(k).finished
  /\ events' = Append(events, Event(k, place[k]))
  /\ frames' = [frames EXCEPT ![k] = [@ EXCEPT ![Len(@)].finished = TRUE]]
  /\ UNCHANGED <<enabled, tls, next, place, owner, aborted>>

\* Whether Drop has an event left to emit.
MustEmitAlways(g) == TRUE
MustEmit(g) == ~g.finished

\* What Drop restores CURRENT and DEPTH to.
RestoredKept(g) == g.span
Restored(g) == g.parent
RestoredDepthOff(g) == g.depth - 1
RestoredDepth(g) == g.depth

\* SpanGuard's Drop on thread th: after finish, or early.
DropGuard(k, th) ==
  /\ Open(k)
  /\ events' = IF MustEmit(Top(k)) THEN Append(events, Event(k, th)) ELSE events
  /\ frames' = [frames EXCEPT ![k] = SubSeq(@, 1, Len(@) - 1)]
  /\ current' = [current EXCEPT ![th] = Restored(Top(k))]
  /\ depth' = [depth EXCEPT ![th] = RestoredDepth(Top(k))]
  /\ UNCHANGED <<enabled, next, aborted>>

\* The call returns (after finish), or leaves by `?`, `return` or a panic.
Drop(k) ==
  /\ place[k] \in Threads
  /\ DropGuard(k, place[k])
  /\ UNCHANGED <<place, owner>>

\* A parked future is dropped, innermost guard first, by whatever runs on th.
Cancel(k, th) ==
  /\ place[k] = "parked"
  /\ DropGuard(k, th)
  /\ place' = IF Len(frames[k]) = 1 THEN [place EXCEPT ![k] = "over"] ELSE place
  /\ owner' = [t \in Threads |->
       IF owner[t] # k THEN IF t = th THEN "lost" ELSE owner[t]
       ELSE IF t # th \/ ~Idle(th) THEN "lost"
       ELSE IF Len(frames[k]) = 1 THEN "nobody" ELSE k]

Next ==
  \/ \E p \in Probes : Switch(p)
  \/ \E k \in Tasks : \/ \E th \in Threads : Start(k, th) \/ Resume(k, th) \/ Cancel(k, th)
                      \/ \E to \in {"parked", "over"} : Leave(k, to)
                      \/ \E p \in Probes : Begin(k, p) \/ BeginPanics(k, p)
                      \/ Finish(k) \/ Drop(k)

Spec == Init /\ [][Next]_vars

-----------------------------------------------------------------------------

Spans == 1 .. next - 1
Guard == [probe : Probes, span : Spans, parent : 0 .. next - 1, depth : Nat, finished : BOOLEAN]
Record == [span : Spans, parent : 0 .. next - 1, depth : Nat,
           under : 0 .. next - 1, rank : Nat, sure : BOOLEAN]

TypeOK ==
  /\ enabled \subseteq Probes
  /\ next \in 1 .. MaxSpan + 1
  /\ current \in [Threads -> 0 .. next - 1] /\ depth \in [Threads -> Nat]
  /\ frames \in [Tasks -> Seq(Guard)]
  /\ place \in [Tasks -> Threads \union TaskStates]
  /\ events \in Seq(Record)
  /\ owner \in [Threads -> Tasks \union Nobodies]
  /\ aborted \subseteq Spans

\* A span never names a younger or its own parent, under any scheduling: the
\* recorded parents form a forest (tree.rs relies on it to end its recursion).
ParentIsOlder ==
  /\ \A k \in Tasks : \A i \in DOMAIN frames[k] : frames[k][i].parent < frames[k][i].span
  /\ \A i \in DOMAIN events : events[i].parent < events[i].span

Unfinished == UNION {{frames[k][i].span : i \in {j \in DOMAIN frames[k] : ~frames[k][j].finished}}
                       : k \in Tasks}
Emitted == {events[i].span : i \in DOMAIN events}

\* Every span is open, or lost to a panic in args(), or emitted, and emitted
\* once: by finish or by Drop but not both, however the call ends.
EmittedOnce ==
  /\ Spans = Unfinished \union Emitted \union aborted
  /\ Emitted \cap (Unfinished \union aborted) = {} /\ Unfinished \cap aborted = {}
  /\ \A i, j \in DOMAIN events : events[i].span = events[j].span => i = j

\* The thread-locals of th stand for k: they name its innermost open call,
\* and its calls are linked as they are nested.
StandsFor(th, k) ==
  /\ current[th] = IF Open(k) THEN Top(k).span ELSE 0
  /\ depth[th] = Len(frames[k])
  /\ \A i \in DOMAIN frames[k] :
       frames[k][i].parent = Encloses(k, i) /\ frames[k][i].depth = i - 1

\* A thread that has run one task at a time, each to its end or with nothing
\* open when it left, or that a parked task comes straight back to, links its
\* calls exactly, whatever is switched on and off meanwhile and however calls
\* end; in particular every thread of synchronous code does.
LinksAreExact ==
  /\ \A th \in Threads : \A k \in Tasks : owner[th] = k => StandsFor(th, k)
  /\ \A th \in Threads : owner[th] = "nobody" => current[th] = 0 /\ depth[th] = 0
  /\ \A i \in DOMAIN events : events[i].sure =>
       events[i].parent = events[i].under /\ events[i].depth = events[i].rank

\* Where links are exact, a child's event precedes its parent's (tree.rs:17-18
\* assumes it of every span).
SureChildFirst ==
  \A i, j \in DOMAIN events : i < j /\ events[j].sure => events[j].parent # events[i].span

\* The recorded links: parents are older, and exact where a thread stands for
\* one task.
LinksHold == ParentIsOlder /\ LinksAreExact

\* The recorded events: types, one for each call, a child before its parent
\* where that is promised.
EventsHold == TypeOK /\ EmittedOnce /\ SureChildFirst
=============================================================================
