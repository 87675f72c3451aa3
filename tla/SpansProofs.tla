----------------------------- MODULE SpansProofs -----------------------------
(***************************************************************************)
(* For any number of threads, tasks and probes: a span's parent is always  *)
(* older than the span, and on a thread that stands for one task the links *)
(* are exactly the nesting of its calls.                                   *)
(***************************************************************************)
EXTENDS Spans, SequenceTheorems, TLAPS

USE SpansAssumption

Guards == [probe : Probes, span : Nat, parent : Nat, depth : Nat, finished : BOOLEAN]
Records == [span : Nat, parent : Nat, depth : Nat, under : Nat, rank : Nat, sure : BOOLEAN]

SpanTypes ==
  /\ next \in Nat
  /\ current \in [Threads -> Nat] /\ depth \in [Threads -> Nat]
  /\ frames \in [Tasks -> Seq(Guards)]
  /\ place \in [Tasks -> Threads \union TaskStates]
  /\ events \in Seq(Records)
  /\ owner \in [Threads -> Tasks \union Nobodies]

\* Every id in use is below NEXT_SPAN, and every link goes downwards.
Downwards ==
  /\ next >= 1
  /\ \A th \in Threads : current[th] < next
  /\ \A k \in Tasks : \A i \in 1 .. Len(frames[k]) :
       frames[k][i].parent < frames[k][i].span /\ frames[k][i].span < next
  /\ \A i \in 1 .. Len(events) : events[i].parent < events[i].span

\* A thread stands for at most the task on it, or a parked one with open calls.
Owned ==
  /\ \A th \in Threads, k \in Tasks : owner[th] = k =>
       /\ StandsFor(th, k)
       /\ place[k] = th \/ (place[k] = "parked" /\ Open(k))
  /\ \A th \in Threads : owner[th] = "nobody" => current[th] = 0 /\ depth[th] = 0
  /\ \A th \in Threads, k \in Tasks : place[k] = th => owner[th] \in {k, "lost"}
  /\ \A t, u \in Threads : owner[t] = owner[u] /\ owner[t] \in Tasks => t = u
  /\ \A k \in Tasks : place[k] \in {"new", "over"} => ~Open(k)

SureEvents ==
  \A i \in 1 .. Len(events) : events[i].sure =>
    events[i].parent = events[i].under /\ events[i].depth = events[i].rank

SpanInv == SpanTypes /\ Downwards
LinkInv == SpanInv /\ Owned /\ SureEvents

-----------------------------------------------------------------------------
(* Sequences.                                                              *)

LEMMA ElementOf ==
  ASSUME NEW S, NEW s \in Seq(S), NEW i \in 1 .. Len(s)
  PROVE  s[i] \in S
  OBVIOUS

LEMMA Pushed ==
  ASSUME NEW S, NEW s \in Seq(S), NEW e \in S
  PROVE  /\ Append(s, e) \in Seq(S) /\ Len(Append(s, e)) = Len(s) + 1 /\ Len(s) \in Nat
         /\ Append(s, e)[Len(s) + 1] = e
         /\ \A i \in 1 .. Len(s) : Append(s, e)[i] = s[i]
  OBVIOUS

LEMMA Popped ==
  ASSUME NEW S, NEW s \in Seq(S), s # <<>>
  PROVE  LET r == SubSeq(s, 1, Len(s) - 1)
         IN  /\ r \in Seq(S) /\ Len(r) = Len(s) - 1 /\ Len(s) \in Nat \ {0}
             /\ \A i \in 1 .. Len(s) - 1 : r[i] = s[i]
             /\ r = <<>> <=> Len(s) = 1
<1> DEFINE r == SubSeq(s, 1, Len(s) - 1)
<1>1. Len(s) \in Nat \ {0}
  OBVIOUS
<1> DEFINE n == Len(s) - 1
<1>2. /\ r \in Seq(S) /\ Len(r) = (IF 1 <= n THEN n - 1 + 1 ELSE 0)
      /\ \A i \in 1 .. n - 1 + 1 : r[i] = s[1 + i - 1]
  <2>1. n \in Int /\ \A i \in 1 .. n : s[i] \in S
    BY <1>1, ElementOf
  <2> HIDE DEF n
  <2>2. QED BY <2>1, SubSeqProperties DEF n
<1> HIDE DEF r
<1>3. Len(r) = Len(s) - 1 /\ \A i \in 1 .. Len(s) - 1 : r[i] = s[i]
  <2>1. n \in Nat /\ n - 1 + 1 = n
    BY <1>1
  <2> HIDE DEF n
  <2>2. Len(r) = n
    BY <1>2, <2>1
  <2>3. \A i \in 1 .. n : 1 + i - 1 = i
    OBVIOUS
  <2>4. \A i \in 1 .. n : r[i] = s[i]
    BY <1>2, <2>1, <2>3
  <2>5. QED BY <2>2, <2>4 DEF n
<1>4. r = <<>> <=> Len(r) = 0
  BY <1>2, EmptySeq
<1>5. r = <<>> <=> Len(s) = 1
  BY <1>1, <1>3, <1>4
<1>6. QED BY <1>1, <1>2, <1>3, <1>5 DEF r

LEMMA Marked ==
  ASSUME NEW s \in Seq(Guards), s # <<>>
  PROVE  LET r == [s EXCEPT ![Len(s)].finished = TRUE]
         IN  /\ r \in Seq(Guards) /\ Len(r) = Len(s) /\ r # <<>>
             /\ \A i \in 1 .. Len(s) : /\ r[i].span = s[i].span
                                       /\ r[i].parent = s[i].parent
                                       /\ r[i].depth = s[i].depth
<1>1. Len(s) \in Nat \ {0} /\ Len(s) \in 1 .. Len(s)
  OBVIOUS
<1> DEFINE old == s[Len(s)]
           g == [old EXCEPT !.finished = TRUE]
<1>2. old \in Guards
  BY <1>1, ElementOf
<1>3. g \in Guards /\ g.span = old.span /\ g.parent = old.parent /\ g.depth = old.depth
  BY <1>2 DEF Guards
<1>4. [s EXCEPT ![Len(s)].finished = TRUE] = [s EXCEPT ![Len(s)] = g]
  OBVIOUS
<1> DEFINE r == [s EXCEPT ![Len(s)] = g]
<1> HIDE DEF g
<1>5. /\ r \in Seq(Guards) /\ Len(r) = Len(s) /\ r[Len(s)] = g
      /\ \A i \in 1 .. Len(s) : i # Len(s) => r[i] = s[i]
  BY <1>1, <1>3
<1> HIDE DEF r
<1>6. r # <<>>
  BY <1>1, <1>5
<1>7. \A i \in 1 .. Len(s) : /\ r[i].span = s[i].span
                              /\ r[i].parent = s[i].parent
                              /\ r[i].depth = s[i].depth
  BY <1>3, <1>5
<1>8. QED BY <1>4, <1>5, <1>6, <1>7 DEF r

-----------------------------------------------------------------------------
(* Links go downwards.                                                     *)

LEMMA TopGuard ==
  ASSUME SpanInv, NEW k \in Tasks, Open(k)
  PROVE  /\ Len(frames[k]) \in Nat \ {0} /\ Top(k) \in Guards
         /\ Top(k) = frames[k][Len(frames[k])]
         /\ Top(k).parent < Top(k).span /\ Top(k).span < next
         /\ Encloses(k, Len(frames[k])) \in Nat
<1>1. frames[k] \in Seq(Guards) /\ Len(frames[k]) \in Nat \ {0}
  BY DEF SpanInv, SpanTypes, Open
<1>2. Len(frames[k]) \in 1 .. Len(frames[k])
  BY <1>1
<1>3. Top(k) \in Guards /\ Top(k).parent < Top(k).span /\ Top(k).span < next
  BY <1>1, <1>2, ElementOf DEF Top, SpanInv, Downwards
<1>4. Encloses(k, Len(frames[k])) \in Nat
  <2>1. CASE Len(frames[k]) = 1
    BY <2>1 DEF Encloses
  <2>2. CASE Len(frames[k]) # 1
    <3> DEFINE n == Len(frames[k])
    <3>0. n \in Nat \ {0, 1}
      BY <1>1, <2>2
    <3> HIDE DEF n
    <3>1. n - 1 \in 1 .. n
      BY <3>0
    <3>2. frames[k][Len(frames[k]) - 1] \in Guards
      BY <1>1, <3>1, ElementOf DEF n
    <3>3. QED BY <2>2, <3>2 DEF Encloses, Guards
  <2>3. QED BY <2>1, <2>2
<1>5. QED BY <1>1, <1>3, <1>4 DEF Top

LEMMA EventType ==
  ASSUME SpanInv, NEW k \in Tasks, Open(k), NEW th
  PROVE  /\ Event(k, th) \in Records /\ Event(k, th).parent < Event(k, th).span
<1>1. Top(k).span \in Nat /\ Top(k).parent \in Nat /\ Top(k).depth \in Nat
  BY TopGuard DEF Guards
<1>2. Len(frames[k]) - 1 \in Nat
  BY TopGuard
<1>3. (owner[th] = k) \in BOOLEAN
  OBVIOUS
<1>4. QED BY <1>1, <1>2, <1>3, TopGuard DEF Event, Records

\* A new last event.
LEMMA EventsKeep ==
  ASSUME SpanInv, NEW k \in Tasks, Open(k), NEW th,
         events' = events \/ events' = Append(events, Event(k, th))
  PROVE  /\ events' \in Seq(Records)
         /\ \A i \in 1 .. Len(events') : events'[i].parent < events'[i].span
<1>1. CASE events' = events
  BY <1>1 DEF SpanInv, SpanTypes, Downwards
<1>2. CASE events' = Append(events, Event(k, th))
  <2>1. events \in Seq(Records) /\ \A i \in 1 .. Len(events) : events[i].parent < events[i].span
    BY DEF SpanInv, SpanTypes, Downwards
  <2> DEFINE e == Event(k, th)
  <2>2. e \in Records /\ e.parent < e.span
    BY EventType
  <2> HIDE DEF e
  <2>3. /\ events' = Append(events, e) /\ events' \in Seq(Records)
        /\ Len(events') = Len(events) + 1 /\ Len(events) \in Nat
        /\ events'[Len(events) + 1] = e
        /\ \A i \in 1 .. Len(events) : events'[i] = events[i]
    BY <1>2, <2>1, <2>2, Pushed DEF e
  <2>4. QED BY <2>1, <2>2, <2>3
<1>3. QED BY <1>1, <1>2

\* Only the guards of k change.
LEMMA FramesKeep ==
  ASSUME SpanInv, NEW k \in Tasks, NEW r \in Seq(Guards), frames' = [frames EXCEPT ![k] = r],
         next' \in Nat, next' >= next,
         \A i \in 1 .. Len(r) : r[i].parent < r[i].span /\ r[i].span < next'
  PROVE  /\ frames' \in [Tasks -> Seq(Guards)] /\ frames'[k] = r
         /\ \A j \in Tasks : \A i \in 1 .. Len(frames'[j]) :
              frames'[j][i].parent < frames'[j][i].span /\ frames'[j][i].span < next'
<1>1. /\ frames' \in [Tasks -> Seq(Guards)] /\ frames'[k] = r
      /\ \A j \in Tasks \ {k} : frames'[j] = frames[j]
  BY DEF SpanInv, SpanTypes
<1>2. ASSUME NEW j \in Tasks \ {k}, NEW i \in 1 .. Len(frames[j])
      PROVE  frames[j][i].parent < frames[j][i].span /\ frames[j][i].span < next'
  <2>1. frames[j] \in Seq(Guards) /\ next \in Nat
    BY DEF SpanInv, SpanTypes
  <2>2. frames[j][i] \in Guards
    BY <2>1, ElementOf
  <2>3. frames[j][i].span \in Nat
    BY <2>2 DEF Guards
  <2>4. QED BY <2>1, <2>3 DEF SpanInv, Downwards
<1>3. QED BY <1>1, <1>2

\* Drop leaves what it restores below NEXT_SPAN.
LEMMA DropDown ==
  ASSUME SpanInv, NEW k \in Tasks, NEW th \in Threads, DropGuard(k, th),
         place' \in [Tasks -> Threads \union TaskStates],
         owner' \in [Threads -> Tasks \union Nobodies]
  PROVE  SpanInv'
<1>1. /\ Open(k) /\ next' = next
      /\ events' = events \/ events' = Append(events, Event(k, th))
  BY DEF DropGuard
<1>2. /\ Top(k).parent \in Nat /\ Top(k).parent < next /\ Top(k).depth \in Nat
  <2>1. /\ Top(k) \in Guards /\ Top(k).parent < Top(k).span /\ Top(k).span < next
    BY <1>1, TopGuard
  <2>2. Top(k).parent \in Nat /\ Top(k).depth \in Nat /\ Top(k).span \in Nat /\ next \in Nat
    BY <2>1 DEF Guards, SpanInv, SpanTypes
  <2>3. QED BY <2>1, <2>2
<1>3. current' \in [Threads -> Nat] /\ (\A t \in Threads : current'[t] < next')
      /\ depth' \in [Threads -> Nat]
  BY <1>1, <1>2 DEF DropGuard, Restored, RestoredDepth, SpanInv, SpanTypes, Downwards
<1> DEFINE r == SubSeq(frames[k], 1, Len(frames[k]) - 1)
<1>4. /\ r \in Seq(Guards) /\ Len(r) = Len(frames[k]) - 1 /\ Len(frames[k]) \in Nat \ {0}
      /\ \A i \in 1 .. Len(frames[k]) - 1 : r[i] = frames[k][i]
  BY <1>1, Popped DEF Open, SpanInv, SpanTypes
<1>5. frames' = [frames EXCEPT ![k] = r]
  BY DEF DropGuard
<1> HIDE DEF r
<1>6. \A i \in 1 .. Len(r) : r[i].parent < r[i].span /\ r[i].span < next'
  BY <1>1, <1>4 DEF SpanInv, Downwards
<1>7. next' \in Nat /\ next' >= next /\ next' >= 1
  BY <1>1 DEF SpanInv, SpanTypes, Downwards
<1>8. /\ frames' \in [Tasks -> Seq(Guards)]
      /\ \A j \in Tasks : \A i \in 1 .. Len(frames'[j]) :
           frames'[j][i].parent < frames'[j][i].span /\ frames'[j][i].span < next'
  BY <1>4, <1>5, <1>6, <1>7, FramesKeep
<1>9. /\ events' \in Seq(Records)
      /\ \A i \in 1 .. Len(events') : events'[i].parent < events'[i].span
  BY <1>1, EventsKeep
<1>10. QED BY <1>3, <1>7, <1>8, <1>9 DEF SpanInv, SpanTypes, Downwards

LEMMA FinishDown ==
  ASSUME SpanInv, NEW k \in Tasks, Finish(k)
  PROVE  SpanInv'
<1>1. /\ Open(k) /\ next' = next /\ UNCHANGED <<current, depth, place, owner>>
      /\ events' = Append(events, Event(k, place[k]))
  BY DEF Finish, tls
<1> DEFINE r == [frames[k] EXCEPT ![Len(frames[k])].finished = TRUE]
<1>2. /\ r \in Seq(Guards) /\ Len(r) = Len(frames[k])
      /\ \A i \in 1 .. Len(frames[k]) :
           r[i].span = frames[k][i].span /\ r[i].parent = frames[k][i].parent
  BY <1>1, Marked DEF Open, SpanInv, SpanTypes
<1>3. frames' = [frames EXCEPT ![k] = r]
  BY DEF Finish
<1> HIDE DEF r
<1>4. \A i \in 1 .. Len(r) : r[i].parent < r[i].span /\ r[i].span < next'
  BY <1>1, <1>2 DEF SpanInv, Downwards
<1>5. next' \in Nat /\ next' >= next
  BY <1>1 DEF SpanInv, SpanTypes
<1>6. QED BY <1>1, <1>2, <1>3, <1>4, <1>5, FramesKeep, EventsKeep
          DEF SpanInv, SpanTypes, Downwards

LEMMA NextDown ==
  ASSUME SpanInv, NEW th \in Threads, next' = next + 1,
         current' = [current EXCEPT ![th] = next], depth' = [depth EXCEPT ![th] = @ + 1]
  PROVE  /\ next' \in Nat /\ next' >= next /\ next' >= 1
         /\ current' \in [Threads -> Nat] /\ depth' \in [Threads -> Nat]
         /\ \A t \in Threads : current'[t] < next'
BY DEF SpanInv, SpanTypes, Downwards

LEMMA BeginDown ==
  ASSUME SpanInv, NEW k \in Tasks, NEW p \in Probes, Begin(k, p)
  PROVE  SpanInv'
<1> DEFINE th == place[k]
           g == [probe |-> p, span |-> next, parent |-> current[th], depth |-> depth[th],
                 finished |-> FALSE]
           r == Append(frames[k], g)
<1>1. /\ th \in Threads /\ next' = next + 1 /\ UNCHANGED <<events, place, owner>>
      /\ frames' = [frames EXCEPT ![k] = r]
      /\ current' = [current EXCEPT ![th] = next] /\ depth' = [depth EXCEPT ![th] = @ + 1]
  BY DEF Begin, CanCall, Link
<1>2. g \in Guards /\ g.parent < g.span /\ g.span = next
  BY <1>1 DEF Guards, SpanInv, SpanTypes, Downwards
<1>3. next' \in Nat /\ next' >= next /\ next' >= 1 /\ next \in Nat
      /\ current' \in [Threads -> Nat] /\ depth' \in [Threads -> Nat]
      /\ \A t \in Threads : current'[t] < next'
  <2> HIDE DEF th, g, r
  <2>1. QED BY <1>1, NextDown DEF SpanInv, SpanTypes
<1>4. frames[k] \in Seq(Guards)
  BY DEF SpanInv, SpanTypes
<1> HIDE DEF th, g
<1>5. /\ r \in Seq(Guards) /\ Len(r) = Len(frames[k]) + 1 /\ Len(frames[k]) \in Nat
      /\ r[Len(frames[k]) + 1] = g
      /\ \A i \in 1 .. Len(frames[k]) : r[i] = frames[k][i]
  BY <1>2, <1>4, Pushed
<1> HIDE DEF r
<1>6. ASSUME NEW i \in 1 .. Len(r)
      PROVE  r[i].parent < r[i].span /\ r[i].span < next'
  <2>1. CASE i = Len(frames[k]) + 1
    BY <1>1, <1>2, <1>3, <1>5, <2>1
  <2>2. CASE i # Len(frames[k]) + 1
    <3>1. i \in 1 .. Len(frames[k]) /\ r[i] = frames[k][i]
      BY <1>5, <2>2
    <3>2. r[i] \in Guards
      BY <1>4, <3>1, ElementOf
    <3>3. r[i].span \in Nat
      BY <3>2 DEF Guards
    <3>4. QED BY <1>1, <1>3, <3>1, <3>3 DEF SpanInv, Downwards
  <2>3. QED BY <2>1, <2>2
<1>7. QED BY <1>1, <1>3, <1>5, <1>6, FramesKeep DEF SpanInv, SpanTypes, Downwards

LEMMA BeginPanicsDown ==
  ASSUME SpanInv, NEW k \in Tasks, NEW p \in Probes, BeginPanics(k, p)
  PROVE  SpanInv'
<1>1. /\ place[k] \in Threads /\ next' = next + 1 /\ UNCHANGED <<frames, events, place>>
      /\ current' = [current EXCEPT ![place[k]] = next]
      /\ depth' = [depth EXCEPT ![place[k]] = @ + 1]
      /\ owner' = [owner EXCEPT ![place[k]] = "lost"]
  BY DEF BeginPanics, CanCall
<1>2. owner' \in [Threads -> Tasks \union Nobodies]
  BY <1>1 DEF SpanInv, SpanTypes, Nobodies
<1>3. \A j \in Tasks : \A i \in 1 .. Len(frames[j]) : frames[j][i].span \in Nat
  <2> SUFFICES ASSUME NEW j \in Tasks, NEW i \in 1 .. Len(frames[j]) PROVE frames[j][i].span \in Nat
    OBVIOUS
  <2>1. frames[j] \in Seq(Guards)
    BY DEF SpanInv, SpanTypes
  <2>2. frames[j][i] \in Guards
    BY <2>1, ElementOf
  <2>3. QED BY <2>2 DEF Guards
<1>4. /\ next' \in Nat /\ next' >= 1 /\ next' = next + 1 /\ next \in Nat
      /\ current' \in [Threads -> Nat] /\ depth' \in [Threads -> Nat]
      /\ \A t \in Threads : current'[t] < next'
  BY <1>1, NextDown DEF SpanInv, SpanTypes
<1>5. QED BY <1>1, <1>2, <1>3, <1>4 DEF SpanInv, SpanTypes, Downwards

\* Steps that move tasks or switch probes.
LEMMA MoveDown ==
  ASSUME SpanInv, UNCHANGED <<tls, next, frames, events>>,
         place' \in [Tasks -> Threads \union TaskStates],
         owner' \in [Threads -> Tasks \union Nobodies]
  PROVE  SpanInv'
BY DEF SpanInv, SpanTypes, Downwards, tls

LEMMA OwnerType ==
  ASSUME SpanTypes, NEW k \in Tasks, NEW th \in Threads,
         \/ Arrive(k, th) \/ Cancel(k, th) \/ \E to \in {"parked", "over"} : Leave(k, to)
  PROVE  /\ place' \in [Tasks -> Threads \union TaskStates]
         /\ owner' \in [Threads -> Tasks \union Nobodies]
<1>1. CASE Arrive(k, th)
  BY <1>1 DEF Arrive, SpanTypes, Nobodies, TaskStates
<1>2. CASE Cancel(k, th)
  BY <1>2 DEF Cancel, SpanTypes, Nobodies, TaskStates
<1>3. CASE \E to \in {"parked", "over"} : Leave(k, to)
  BY <1>3 DEF Leave, SpanTypes, Nobodies, TaskStates
<1>4. QED BY <1>1, <1>2, <1>3

LEMMA SpanInvInit == Init => SpanInv
<1> SUFFICES ASSUME Init PROVE SpanInv
  OBVIOUS
<1>1. frames = [k \in Tasks |-> <<>>] /\ events = <<>> /\ next = 1
  BY DEF Init
<1>2. frames \in [Tasks -> Seq(Guards)] /\ events \in Seq(Records)
  BY <1>1
<1>3. SpanTypes
  BY <1>1, <1>2 DEF Init, SpanTypes, TaskStates, Nobodies
<1>4. Downwards
  BY <1>1 DEF Init, Downwards
<1>5. QED BY <1>3, <1>4 DEF SpanInv

LEMMA SpanInvNext == SpanInv /\ [Next]_vars => SpanInv'
<1> SUFFICES ASSUME SpanInv, [Next]_vars PROVE SpanInv'
  OBVIOUS
<1>0. SpanTypes
  BY DEF SpanInv
<1>1. CASE UNCHANGED vars
  BY <1>0, <1>1, MoveDown DEF vars, SpanTypes
<1>2. CASE \E p \in Probes : Switch(p)
  BY <1>0, <1>2, MoveDown DEF Switch, SpanTypes
<1>3. ASSUME NEW k \in Tasks, NEW th \in Threads, Start(k, th) \/ Resume(k, th)
      PROVE  SpanInv'
  <2>1. Arrive(k, th)
    BY <1>3 DEF Start, Resume
  <2>2. UNCHANGED <<tls, next, frames, events>>
    BY <2>1 DEF Arrive
  <2>3. QED BY <1>0, <2>1, <2>2, OwnerType, MoveDown
<1>4. ASSUME NEW k \in Tasks, NEW th \in Threads, Cancel(k, th)
      PROVE  SpanInv'
  <2>1. DropGuard(k, th)
    BY <1>4 DEF Cancel
  <2>2. QED BY <1>0, <1>4, <2>1, OwnerType, DropDown
<1>5. ASSUME NEW k \in Tasks, NEW to \in {"parked", "over"}, Leave(k, to)
      PROVE  SpanInv'
  <2>1. UNCHANGED <<tls, next, frames, events>> /\ place[k] \in Threads
    BY <1>5 DEF Leave
  <2>2. QED BY <1>0, <1>5, <2>1, OwnerType, MoveDown
<1>6. ASSUME NEW k \in Tasks, NEW p \in Probes, Begin(k, p) \/ BeginPanics(k, p)
      PROVE  SpanInv'
  BY <1>6, BeginDown, BeginPanicsDown
<1>7. ASSUME NEW k \in Tasks, Finish(k)
      PROVE  SpanInv'
  BY <1>7, FinishDown
<1>8. ASSUME NEW k \in Tasks, Drop(k)
      PROVE  SpanInv'
  <2>1. place[k] \in Threads /\ DropGuard(k, place[k]) /\ UNCHANGED <<place, owner>>
    BY <1>8 DEF Drop
  <2>2. QED BY <1>0, <2>1, DropDown DEF SpanTypes
<1>9. QED BY <1>1, <1>2, <1>3, <1>4, <1>5, <1>6, <1>7, <1>8 DEF Next

THEOREM SpanInvariant == Spec => []SpanInv
BY SpanInvInit, SpanInvNext, PTL DEF Spec

\* Under any scheduling, suspension, cancellation or panic a recorded parent is
\* older than its child (NEXT_SPAN and CURRENT in SpanGuard::begin), so the
\* recorded links never form a cycle.
THEOREM ParentsAreOlder == Spec => []ParentIsOlder
<1>1. SpanInv => ParentIsOlder
  <2> SUFFICES ASSUME SpanInv PROVE ParentIsOlder
    OBVIOUS
  <2>1. (\A k \in Tasks : DOMAIN frames[k] = 1 .. Len(frames[k])) /\ DOMAIN events = 1 .. Len(events)
    BY DEF SpanInv, SpanTypes
  <2>2. QED BY <2>1 DEF SpanInv, Downwards, ParentIsOlder
<1>2. QED BY <1>1, SpanInvariant, PTL

-----------------------------------------------------------------------------
(* Links are exact where a thread stands for one task.                     *)

LEMMA Domains ==
  ASSUME SpanInv
  PROVE  /\ \A k \in Tasks : /\ frames[k] \in Seq(Guards) /\ Len(frames[k]) \in Nat
                             /\ DOMAIN frames[k] = 1 .. Len(frames[k])
                             /\ Open(k) <=> Len(frames[k]) # 0
         /\ events \in Seq(Records) /\ Len(events) \in Nat
BY DEF SpanInv, SpanTypes, Open

LEMMA StandsKeep ==
  ASSUME NEW k \in Tasks, NEW th \in Threads, StandsFor(th, k),
         frames'[k] = frames[k], current'[th] = current[th], depth'[th] = depth[th]
  PROVE  StandsFor(th, k)'
BY DEF StandsFor, Open, Top, Encloses

LEMMA StandsMark ==
  ASSUME SpanInv, NEW k \in Tasks, NEW th \in Threads, StandsFor(th, k), Open(k),
         NEW r \in Seq(Guards), Len(r) = Len(frames[k]), r # <<>>,
         \A i \in 1 .. Len(frames[k]) : /\ r[i].span = frames[k][i].span
                                       /\ r[i].parent = frames[k][i].parent
                                       /\ r[i].depth = frames[k][i].depth,
         frames'[k] = r, current'[th] = current[th], depth'[th] = depth[th]
  PROVE  StandsFor(th, k)'
<1>1. /\ DOMAIN frames[k] = 1 .. Len(frames[k]) /\ DOMAIN r = 1 .. Len(r)
      /\ Len(frames[k]) \in Nat \ {0} /\ Len(frames[k]) \in 1 .. Len(frames[k])
  BY Domains
<1>2. current'[th] = Top(k)'.span
  BY <1>1 DEF StandsFor, Top
<1>3. Open(k)'
  BY DEF Open
<1>4. ASSUME NEW i \in DOMAIN r
      PROVE  frames'[k][i].parent = Encloses(k, i)' /\ frames'[k][i].depth = i - 1
  <2>1. i \in 1 .. Len(frames[k]) /\ (i # 1 => i - 1 \in 1 .. Len(frames[k]))
    BY <1>1
  <2>2. frames[k][i].parent = Encloses(k, i) /\ frames[k][i].depth = i - 1
    BY <1>1, <2>1 DEF StandsFor
  <2>3. QED BY <2>1, <2>2 DEF Encloses
<1>5. QED BY <1>1, <1>2, <1>3, <1>4 DEF StandsFor

LEMMA StandsPush ==
  ASSUME SpanInv, NEW k \in Tasks, NEW th \in Threads, StandsFor(th, k),
         NEW g, g.parent = current[th], g.depth = depth[th], g.span = next,
         NEW r \in Seq(Guards), Len(r) = Len(frames[k]) + 1, r[Len(frames[k]) + 1] = g,
         \A i \in 1 .. Len(frames[k]) : r[i] = frames[k][i],
         frames'[k] = r, current'[th] = next, depth'[th] = depth[th] + 1
  PROVE  StandsFor(th, k)'
<1>1. /\ DOMAIN frames[k] = 1 .. Len(frames[k]) /\ DOMAIN r = 1 .. Len(frames[k]) + 1
      /\ Len(frames[k]) \in Nat /\ (Open(k) <=> Len(frames[k]) # 0)
      /\ r # <<>>
  BY Domains
<1>2. Open(k)' /\ current'[th] = Top(k)'.span
  BY <1>1 DEF Open, Top
<1>3. depth'[th] = Len(frames'[k])
  BY <1>1 DEF StandsFor
<1>4. ASSUME NEW i \in 1 .. Len(frames[k]) + 1
      PROVE  frames'[k][i].parent = Encloses(k, i)' /\ frames'[k][i].depth = i - 1
  <2>1. CASE i \in 1 .. Len(frames[k])
    <3>1. i # 1 => i - 1 \in 1 .. Len(frames[k])
      BY <1>1, <2>1
    <3>2. frames[k][i].parent = Encloses(k, i) /\ frames[k][i].depth = i - 1
      BY <1>1, <2>1 DEF StandsFor
    <3>3. QED BY <2>1, <3>1, <3>2 DEF Encloses
  <2>2. CASE i = Len(frames[k]) + 1
    <3>1. frames'[k][i].depth = i - 1
      BY <1>1, <2>2 DEF StandsFor
    <3>2. CASE Len(frames[k]) = 0
      BY <1>1, <2>2, <3>1, <3>2 DEF StandsFor, Encloses
    <3>3. CASE Len(frames[k]) # 0
      <4>1. i # 1 /\ i - 1 = Len(frames[k]) /\ Len(frames[k]) \in 1 .. Len(frames[k])
        BY <1>1, <2>2, <3>3
      <4>2. Encloses(k, i)' = frames[k][Len(frames[k])].span
        BY <4>1 DEF Encloses
      <4>3. current[th] = frames[k][Len(frames[k])].span
        BY <1>1, <3>3 DEF StandsFor, Top
      <4>4. QED BY <2>2, <3>1, <4>2, <4>3
    <3>4. QED BY <3>2, <3>3
  <2>3. QED BY <1>1, <2>1, <2>2
<1>5. QED BY <1>1, <1>2, <1>3, <1>4 DEF StandsFor

LEMMA StandsPop ==
  ASSUME SpanInv, NEW k \in Tasks, NEW th \in Threads, StandsFor(th, k), Open(k),
         NEW r \in Seq(Guards), Len(r) = Len(frames[k]) - 1,
         \A i \in 1 .. Len(frames[k]) - 1 : r[i] = frames[k][i],
         frames'[k] = r, current'[th] = Top(k).parent, depth'[th] = Top(k).depth
  PROVE  StandsFor(th, k)'
<1>1. /\ DOMAIN frames[k] = 1 .. Len(frames[k]) /\ DOMAIN r = 1 .. Len(frames[k]) - 1
      /\ Len(frames[k]) \in Nat \ {0} /\ Len(frames[k]) \in 1 .. Len(frames[k])
      /\ (r = <<>> <=> Len(frames[k]) = 1)
  <2>1. Len(frames[k]) \in Nat \ {0} /\ DOMAIN frames[k] = 1 .. Len(frames[k])
    BY Domains
  <2>2. r = <<>> <=> Len(r) = 0
    BY EmptySeq
  <2>3. QED BY <2>1, <2>2
<1>2. /\ Top(k).parent = Encloses(k, Len(frames[k]))
      /\ Top(k).depth = Len(frames[k]) - 1
  BY <1>1 DEF StandsFor, Top
<1>3. current'[th] = IF Open(k)' THEN Top(k)'.span ELSE 0
  <2>1. CASE Len(frames[k]) = 1
    BY <1>1, <1>2, <2>1 DEF Open, Encloses
  <2>2. CASE Len(frames[k]) # 1
    <3>1. Open(k)' /\ Len(frames[k]) - 1 \in 1 .. Len(frames[k]) - 1
      BY <1>1, <2>2 DEF Open
    <3>2. Top(k)' = frames[k][Len(frames[k]) - 1]
      BY <3>1 DEF Top
    <3>3. QED BY <1>2, <2>2, <3>1, <3>2 DEF Encloses
  <2>3. QED BY <2>1, <2>2
<1>4. ASSUME NEW i \in 1 .. Len(frames[k]) - 1
      PROVE  frames'[k][i].parent = Encloses(k, i)' /\ frames'[k][i].depth = i - 1
  <2>1. i \in 1 .. Len(frames[k]) /\ (i # 1 => i - 1 \in 1 .. Len(frames[k]) - 1)
    BY <1>1
  <2>2. frames[k][i].parent = Encloses(k, i) /\ frames[k][i].depth = i - 1
    BY <1>1, <2>1 DEF StandsFor
  <2>3. QED BY <2>1, <2>2 DEF Encloses
<1>5. QED BY <1>1, <1>2, <1>3, <1>4 DEF StandsFor

\* What is emitted where a thread stands for the task is exact.
LEMMA SureKeep ==
  ASSUME SpanInv, Owned, SureEvents, NEW k \in Tasks, Open(k), NEW th \in Threads,
         events' = events \/ events' = Append(events, Event(k, th))
  PROVE  SureEvents'
<1>1. CASE events' = events
  BY <1>1 DEF SureEvents
<1>2. CASE events' = Append(events, Event(k, th))
  <2> DEFINE e == Event(k, th)
  <2>1. e \in Records
    BY EventType
  <2>2. e.sure => e.parent = e.under /\ e.depth = e.rank
    <3> SUFFICES ASSUME owner[th] = k PROVE e.parent = e.under /\ e.depth = e.rank
      BY DEF Event
    <3>1. StandsFor(th, k)
      BY DEF Owned
    <3>2. Len(frames[k]) \in DOMAIN frames[k]
      BY Domains
    <3>3. QED BY <3>1, <3>2 DEF StandsFor, Event, Top
  <2> HIDE DEF e
  <2>3. /\ events' = Append(events, e)
        /\ Len(events') = Len(events) + 1 /\ Len(events) \in Nat
        /\ events'[Len(events) + 1] = e
        /\ \A i \in 1 .. Len(events) : events'[i] = events[i]
    BY <1>2, <2>1, Pushed, Domains DEF e
  <2>4. QED BY <2>2, <2>3 DEF SureEvents
<1>3. QED BY <1>1, <1>2

\* Moving a task leaves CURRENT, DEPTH and the guards alone.
LEMMA ArriveOwned ==
  ASSUME SpanInv, Owned, NEW k \in Tasks, NEW th \in Threads, Arrive(k, th),
         place[k] \in {"new", "parked"}
  PROVE  Owned'
<1>1. /\ Idle(th) /\ UNCHANGED <<current, depth, frames>>
      /\ place'[k] = th /\ (\A j \in Tasks \ {k} : place'[j] = place[j])
      /\ owner'[th] = (IF owner[th] = (IF Open(k) THEN k ELSE "nobody") THEN k ELSE "lost")
      /\ \A t \in Threads \ {th} : owner'[t] = IF owner[t] = k THEN "lost" ELSE owner[t]
      /\ k # "nobody" /\ k # "lost" /\ th \notin TaskStates
  BY DEF Arrive, tls, SpanInv, SpanTypes, Nobodies
<1>2. ASSUME NEW t \in Threads, NEW j \in Tasks, owner'[t] = j
      PROVE  StandsFor(t, j)' /\ (place'[j] = t \/ (place'[j] = "parked" /\ Open(j)'))
  <2>0. j # "nobody" /\ j # "lost"
    BY DEF Nobodies
  <2>1. CASE t = th
    <3>1. j = k /\ owner[th] = (IF Open(k) THEN k ELSE "nobody")
      BY <1>1, <1>2, <2>0, <2>1
    <3>2. StandsFor(th, k)
      <4>1. CASE Open(k)
        BY <3>1, <4>1 DEF Owned
      <4>2. CASE ~Open(k)
        BY <3>1, <4>2 DEF Owned, StandsFor, Open
      <4>3. QED BY <4>1, <4>2
    <3>3. QED BY <1>1, <2>1, <3>1, <3>2, StandsKeep
  <2>2. CASE t # th
    <3>1. owner[t] = j /\ j # k
      BY <1>1, <1>2, <2>0, <2>2
    <3>2. StandsFor(t, j) /\ (place[j] = t \/ (place[j] = "parked" /\ Open(j)))
      BY <3>1 DEF Owned
    <3>3. QED BY <1>1, <3>1, <3>2, StandsKeep DEF Open
  <2>3. QED BY <2>1, <2>2
<1>3. ASSUME NEW t \in Threads, owner'[t] = "nobody"
      PROVE  current'[t] = 0 /\ depth'[t] = 0
  BY <1>1, <1>3 DEF Owned
<1>4. ASSUME NEW t \in Threads, NEW j \in Tasks, place'[j] = t
      PROVE  owner'[t] \in {j, "lost"}
  BY <1>1, <1>4 DEF Owned, Idle
<1>5. ASSUME NEW t \in Threads, NEW u \in Threads, owner'[t] = owner'[u], owner'[t] \in Tasks
      PROVE  t = u
  <2>1. "lost" \notin Tasks
    BY DEF Nobodies
  <2>2. QED BY <1>1, <1>5, <2>1 DEF Owned
<1>6. ASSUME NEW j \in Tasks, place'[j] \in {"new", "over"}
      PROVE  ~Open(j)'
  BY <1>1, <1>6 DEF Owned, Open, TaskStates
<1>7. QED BY <1>2, <1>3, <1>4, <1>5, <1>6 DEF Owned

LEMMA LeaveOwned ==
  ASSUME SpanInv, Owned, NEW k \in Tasks, NEW to \in {"parked", "over"}, Leave(k, to)
  PROVE  Owned'
<1>1. /\ place[k] \in Threads /\ (to = "over" => ~Open(k))
      /\ UNCHANGED <<current, depth, frames>>
      /\ place'[k] = to /\ (\A j \in Tasks \ {k} : place'[j] = place[j])
      /\ \A t \in Threads : owner'[t] = IF owner[t] = k /\ ~Open(k) THEN "nobody" ELSE owner[t]
      /\ \A t \in Threads : t \notin {"parked", "over", "new"}
      /\ "nobody" \notin Tasks
  BY DEF Leave, tls, SpanInv, SpanTypes, TaskStates, Nobodies
<1>2. ASSUME NEW t \in Threads, NEW j \in Tasks, owner'[t] = j
      PROVE  StandsFor(t, j)' /\ (place'[j] = t \/ (place'[j] = "parked" /\ Open(j)'))
  <2>1. owner[t] = j /\ (j = k => Open(k))
    BY <1>1, <1>2
  <2>2. StandsFor(t, j) /\ (place[j] = t \/ (place[j] = "parked" /\ Open(j)))
    BY <2>1 DEF Owned
  <2>3. QED BY <1>1, <2>1, <2>2, StandsKeep DEF Open
<1>3. ASSUME NEW t \in Threads, owner'[t] = "nobody"
      PROVE  current'[t] = 0 /\ depth'[t] = 0
  <2>1. CASE owner[t] = "nobody"
    BY <1>1, <2>1 DEF Owned
  <2>2. CASE owner[t] # "nobody"
    <3>1. StandsFor(t, k) /\ ~Open(k)
      BY <1>1, <1>3, <2>2 DEF Owned
    <3>2. QED BY <1>1, <3>1 DEF StandsFor, Open
  <2>3. QED BY <2>1, <2>2
<1>4. ASSUME NEW t \in Threads, NEW j \in Tasks, place'[j] = t
      PROVE  owner'[t] \in {j, "lost"}
  <2>1. j # k /\ place[j] = t
    BY <1>1, <1>4
  <2>2. owner[t] \in {j, "lost"} /\ k # "lost"
    BY <2>1 DEF Owned, Nobodies
  <2>3. QED BY <1>1, <2>1, <2>2
<1>5. ASSUME NEW t \in Threads, NEW u \in Threads, owner'[t] = owner'[u], owner'[t] \in Tasks
      PROVE  t = u
  BY <1>1, <1>5 DEF Owned
<1>6. ASSUME NEW j \in Tasks, place'[j] \in {"new", "over"}
      PROVE  ~Open(j)'
  BY <1>1, <1>6 DEF Owned, Open
<1>7. QED BY <1>2, <1>3, <1>4, <1>5, <1>6 DEF Owned

\* A step of k on its thread th that changes only its guards and the
\* thread-locals of th.
LEMMA StepOwned ==
  ASSUME SpanInv, Owned, NEW k \in Tasks, NEW th \in Threads, place[k] = th,
         UNCHANGED <<place, owner>>,
         \A j \in Tasks \ {k} : frames'[j] = frames[j],
         \A t \in Threads \ {th} : current'[t] = current[t] /\ depth'[t] = depth[t],
         StandsFor(th, k) => StandsFor(th, k)'
  PROVE  Owned'
<1>1. owner[th] \in {k, "lost"} /\ "lost" \notin Tasks /\ th \notin TaskStates
  BY DEF Owned, Nobodies
<1>2. ASSUME NEW t \in Threads, NEW j \in Tasks, owner[t] = j
      PROVE  StandsFor(t, j)' /\ (place[j] = t \/ (place[j] = "parked" /\ Open(j)'))
  <2>1. StandsFor(t, j) /\ (place[j] = t \/ (place[j] = "parked" /\ Open(j)))
    BY <1>2 DEF Owned
  <2>2. t = th <=> j = k
    BY <1>1, <1>2, <2>1 DEF TaskStates
  <2>3. CASE t = th
    BY <2>1, <2>2, <2>3
  <2>4. CASE t # th
    BY <2>1, <2>2, <2>4, StandsKeep DEF Open
  <2>5. QED BY <2>3, <2>4
<1>3. ASSUME NEW t \in Threads, owner[t] = "nobody"
      PROVE  current'[t] = 0 /\ depth'[t] = 0
  <2>1. t # th
    BY <1>1, <1>3 DEF Nobodies
  <2>2. QED BY <1>3, <2>1 DEF Owned
<1>4. ASSUME NEW j \in Tasks, place[j] \in {"new", "over"}
      PROVE  ~Open(j)'
  <2>1. j # k
    BY <1>1, <1>4 DEF TaskStates
  <2>2. QED BY <1>4, <2>1 DEF Owned, Open
<1>5. QED BY <1>2, <1>3, <1>4 DEF Owned

LEMMA PanicOwned ==
  ASSUME SpanInv, Owned, NEW k \in Tasks, NEW p \in Probes, BeginPanics(k, p)
  PROVE  Owned'
<1> DEFINE th == place[k]
<1>1. /\ th \in Threads /\ UNCHANGED <<frames, place>>
      /\ owner'[th] = "lost" /\ "lost" \notin Tasks
      /\ \A t \in Threads \ {th} : /\ owner'[t] = owner[t]
                                   /\ current'[t] = current[t] /\ depth'[t] = depth[t]
  BY DEF BeginPanics, CanCall, SpanInv, SpanTypes, Nobodies
<1> HIDE DEF th
<1>2. ASSUME NEW t \in Threads, NEW j \in Tasks, owner'[t] = j
      PROVE  StandsFor(t, j)' /\ (place'[j] = t \/ (place'[j] = "parked" /\ Open(j)'))
  <2>1. t # th /\ owner[t] = j
    BY <1>1, <1>2
  <2>2. StandsFor(t, j) /\ (place[j] = t \/ (place[j] = "parked" /\ Open(j)))
    BY <2>1 DEF Owned
  <2>3. QED BY <1>1, <2>1, <2>2, StandsKeep DEF Open
<1>3. ASSUME NEW t \in Threads, owner'[t] = "nobody"
      PROVE  current'[t] = 0 /\ depth'[t] = 0
  BY <1>1, <1>3 DEF Owned
<1>4. QED BY <1>1, <1>2, <1>3 DEF Owned, Open

\* The guards of a task on its thread.
LEMMA PopOwned ==
  ASSUME SpanInv, NEW k \in Tasks, NEW th \in Threads, DropGuard(k, th)
  PROVE  /\ Open(k) /\ frames' \in [Tasks -> Seq(Guards)]
         /\ \A j \in Tasks \ {k} : frames'[j] = frames[j]
         /\ \A t \in Threads \ {th} : current'[t] = current[t] /\ depth'[t] = depth[t]
         /\ StandsFor(th, k) => StandsFor(th, k)'
         /\ Open(k)' <=> Len(frames[k]) # 1
<1> DEFINE r == SubSeq(frames[k], 1, Len(frames[k]) - 1)
<1>1. /\ Open(k) /\ frames' = [frames EXCEPT ![k] = r]
      /\ current' = [current EXCEPT ![th] = Top(k).parent]
      /\ depth' = [depth EXCEPT ![th] = Top(k).depth]
  BY DEF DropGuard, Restored, RestoredDepth
<1>2. /\ r \in Seq(Guards) /\ Len(r) = Len(frames[k]) - 1
      /\ \A i \in 1 .. Len(frames[k]) - 1 : r[i] = frames[k][i]
      /\ r = <<>> <=> Len(frames[k]) = 1
  BY <1>1, Popped, Domains DEF Open
<1> HIDE DEF r
<1>3. /\ frames' \in [Tasks -> Seq(Guards)] /\ frames'[k] = r
      /\ \A j \in Tasks \ {k} : frames'[j] = frames[j]
      /\ current'[th] = Top(k).parent /\ depth'[th] = Top(k).depth
      /\ \A t \in Threads \ {th} : current'[t] = current[t] /\ depth'[t] = depth[t]
  BY <1>1, <1>2 DEF SpanInv, SpanTypes
<1>4. StandsFor(th, k) => StandsFor(th, k)'
  BY <1>1, <1>2, <1>3, StandsPop
<1>5. QED BY <1>1, <1>2, <1>3, <1>4 DEF Open

LEMMA FinishOwned ==
  ASSUME SpanInv, Owned, NEW k \in Tasks, NEW th \in Threads, place[k] = th, Finish(k)
  PROVE  Owned'
<1> DEFINE r == [frames[k] EXCEPT ![Len(frames[k])].finished = TRUE]
<1>1. /\ Open(k) /\ frames' = [frames EXCEPT ![k] = r]
      /\ UNCHANGED <<current, depth, place, owner>>
  BY DEF Finish, tls
<1>2. /\ r \in Seq(Guards) /\ Len(r) = Len(frames[k]) /\ r # <<>>
      /\ \A i \in 1 .. Len(frames[k]) : /\ r[i].span = frames[k][i].span
                                       /\ r[i].parent = frames[k][i].parent
                                       /\ r[i].depth = frames[k][i].depth
  BY <1>1, Marked, Domains DEF Open
<1> HIDE DEF r
<1>3. frames'[k] = r /\ \A j \in Tasks \ {k} : frames'[j] = frames[j]
  BY <1>1, <1>2 DEF SpanInv, SpanTypes
<1>4. StandsFor(th, k) => StandsFor(th, k)'
  BY <1>1, <1>2, <1>3, StandsMark
<1>5. QED BY <1>1, <1>3, <1>4, StepOwned

LEMMA BeginOwned ==
  ASSUME SpanInv, Owned, NEW k \in Tasks, NEW th \in Threads, place[k] = th,
         NEW p \in Probes, Begin(k, p)
  PROVE  Owned'
<1> DEFINE g == [probe |-> p, span |-> next, parent |-> current[th], depth |-> depth[th],
                 finished |-> FALSE]
           r == Append(frames[k], g)
<1>1. /\ frames' = [frames EXCEPT ![k] = r] /\ UNCHANGED <<place, owner>>
      /\ current' = [current EXCEPT ![th] = next] /\ depth' = [depth EXCEPT ![th] = depth[th] + 1]
  BY DEF Begin, Link
<1>2. g \in Guards /\ g.parent = current[th] /\ g.depth = depth[th] /\ g.span = next
  BY DEF Guards, SpanInv, SpanTypes
<1> HIDE DEF g
<1>3. /\ r \in Seq(Guards) /\ Len(r) = Len(frames[k]) + 1 /\ r[Len(frames[k]) + 1] = g
      /\ \A i \in 1 .. Len(frames[k]) : r[i] = frames[k][i]
  BY <1>2, Pushed, Domains
<1> HIDE DEF r
<1>4. /\ frames'[k] = r /\ (\A j \in Tasks \ {k} : frames'[j] = frames[j])
      /\ current'[th] = next /\ depth'[th] = depth[th] + 1
      /\ \A t \in Threads \ {th} : current'[t] = current[t] /\ depth'[t] = depth[t]
  BY <1>1, <1>3 DEF SpanInv, SpanTypes
<1>5. StandsFor(th, k) => StandsFor(th, k)'
  BY <1>2, <1>3, <1>4, StandsPush
<1>6. QED BY <1>1, <1>4, <1>5, StepOwned

LEMMA DropOwned ==
  ASSUME SpanInv, Owned, NEW k \in Tasks, NEW th \in Threads, place[k] = th, Drop(k)
  PROVE  Owned'
<1>1. DropGuard(k, th) /\ UNCHANGED <<place, owner>>
  BY DEF Drop
<1>2. QED BY <1>1, PopOwned, StepOwned

LEMMA CancelOwned ==
  ASSUME SpanInv, Owned, NEW k \in Tasks, NEW th \in Threads, Cancel(k, th)
  PROVE  Owned'
<1>1. /\ place[k] = "parked" /\ DropGuard(k, th)
      /\ place'[k] = (IF Len(frames[k]) = 1 THEN "over" ELSE "parked")
      /\ \A j \in Tasks \ {k} : place'[j] = place[j]
      /\ \A t \in Threads : owner'[t] =
           IF owner[t] # k THEN IF t = th THEN "lost" ELSE owner[t]
           ELSE IF t # th \/ ~Idle(th) THEN "lost"
           ELSE IF Len(frames[k]) = 1 THEN "nobody" ELSE k
      /\ "lost" \notin Tasks /\ "nobody" \notin Tasks
      /\ \A t \in Threads : t \notin {"parked", "over", "new"}
  BY DEF Cancel, SpanInv, SpanTypes, Nobodies, TaskStates
<1>2. /\ \A j \in Tasks \ {k} : frames'[j] = frames[j]
      /\ \A t \in Threads \ {th} : current'[t] = current[t] /\ depth'[t] = depth[t]
      /\ StandsFor(th, k) => StandsFor(th, k)'
      /\ Open(k)' <=> Len(frames[k]) # 1
  BY <1>1, PopOwned
<1>3. ASSUME NEW t \in Threads, NEW j \in Tasks, owner'[t] = j
      PROVE  StandsFor(t, j)' /\ (place'[j] = t \/ (place'[j] = "parked" /\ Open(j)'))
  <2>1. owner[t] = j /\ (IF j = k THEN t = th /\ Len(frames[k]) # 1 ELSE t # th)
    BY <1>1, <1>3
  <2>2. StandsFor(t, j) /\ (place[j] = t \/ (place[j] = "parked" /\ Open(j)))
    BY <2>1 DEF Owned
  <2>3. CASE j = k
    BY <1>1, <1>2, <2>1, <2>2, <2>3
  <2>4. CASE j # k
    BY <1>1, <1>2, <2>1, <2>2, <2>4, StandsKeep DEF Open
  <2>5. QED BY <2>3, <2>4
<1>4. ASSUME NEW t \in Threads, owner'[t] = "nobody"
      PROVE  current'[t] = 0 /\ depth'[t] = 0
  <2>1. CASE owner[t] = k
    <3>1. t = th /\ Len(frames[k]) = 1 /\ StandsFor(th, k)
      BY <1>1, <1>4, <2>1 DEF Owned
    <3>2. StandsFor(th, k)' /\ ~Open(k)'
      BY <1>2, <3>1
    <3>3. QED BY <3>1, <3>2 DEF StandsFor, Open
  <2>2. CASE owner[t] # k
    BY <1>1, <1>2, <1>4, <2>2 DEF Owned
  <2>3. QED BY <2>1, <2>2
<1>5. ASSUME NEW t \in Threads, NEW j \in Tasks, place'[j] = t
      PROVE  owner'[t] \in {j, "lost"}
  <2>1. j # k /\ place[j] = t
    BY <1>1, <1>5
  <2>2. owner[t] \in {j, "lost"} /\ k # "lost"
    BY <1>1, <2>1 DEF Owned
  <2>3. QED BY <1>1, <2>1, <2>2
<1>6. ASSUME NEW t \in Threads, NEW u \in Threads, owner'[t] = owner'[u], owner'[t] \in Tasks
      PROVE  t = u
  BY <1>1, <1>6 DEF Owned
<1>7. ASSUME NEW j \in Tasks, place'[j] \in {"new", "over"}
      PROVE  ~Open(j)'
  BY <1>1, <1>2, <1>7 DEF Owned, Open
<1>8. QED BY <1>3, <1>4, <1>5, <1>6, <1>7 DEF Owned

LEMMA LinkInvInit == Init => LinkInv
<1> SUFFICES ASSUME Init PROVE LinkInv
  OBVIOUS
<1>1. "nobody" \notin Tasks /\ \A th \in Threads : th # "new"
  BY DEF Nobodies, TaskStates
<1>2. Owned
  BY <1>1 DEF Init, Owned, Open
<1>3. SureEvents
  BY DEF Init, SureEvents
<1>4. QED BY <1>2, <1>3, SpanInvInit DEF LinkInv

LEMMA OwnedNext == LinkInv /\ [Next]_vars => Owned'
<1> SUFFICES ASSUME LinkInv, [Next]_vars PROVE Owned'
  OBVIOUS
<1>0. SpanInv /\ Owned
  BY DEF LinkInv
<1>1. CASE UNCHANGED <<tls, frames, place, owner>>
  BY <1>0, <1>1 DEF tls, Owned, StandsFor, Open, Top, Encloses
<1>2. ASSUME NEW k \in Tasks, NEW th \in Threads, Start(k, th) \/ Resume(k, th)
      PROVE  Owned'
  BY <1>0, <1>2, ArriveOwned DEF Start, Resume
<1>3. ASSUME NEW k \in Tasks, NEW th \in Threads, Cancel(k, th)
      PROVE  Owned'
  BY <1>0, <1>3, CancelOwned
<1>4. ASSUME NEW k \in Tasks, NEW to \in {"parked", "over"}, Leave(k, to)
      PROVE  Owned'
  BY <1>0, <1>4, LeaveOwned
<1>5. ASSUME NEW k \in Tasks, NEW p \in Probes, Begin(k, p) \/ BeginPanics(k, p)
      PROVE  Owned'
  <2>1. PICK th \in Threads : place[k] = th
    BY <1>5 DEF Begin, BeginPanics, CanCall
  <2>2. QED BY <1>0, <1>5, <2>1, BeginOwned, PanicOwned
<1>6. ASSUME NEW k \in Tasks, Finish(k) \/ Drop(k)
      PROVE  Owned'
  <2>1. PICK th \in Threads : place[k] = th
    BY <1>6 DEF Finish, Drop
  <2>2. QED BY <1>0, <1>6, <2>1, FinishOwned, DropOwned
<1>7. QED BY <1>1, <1>2, <1>3, <1>4, <1>5, <1>6 DEF Next, Switch, vars

LEMMA SureNext == LinkInv /\ [Next]_vars => SureEvents'
<1> SUFFICES ASSUME LinkInv, [Next]_vars PROVE SureEvents'
  OBVIOUS
<1>0. SpanInv /\ Owned /\ SureEvents
  BY DEF LinkInv
<1>1. CASE UNCHANGED events
  BY <1>0, <1>1 DEF SureEvents
<1>2. ASSUME NEW k \in Tasks, NEW th \in Threads, DropGuard(k, th)
      PROVE  SureEvents'
  BY <1>0, <1>2, SureKeep DEF DropGuard
<1>3. ASSUME NEW k \in Tasks, Finish(k)
      PROVE  SureEvents'
  <2>1. PICK th \in Threads : place[k] = th
    BY <1>3 DEF Finish
  <2>2. QED BY <1>0, <1>3, <2>1, SureKeep DEF Finish
<1>4. QED BY <1>1, <1>2, <1>3
          DEF Next, Switch, Start, Resume, Arrive, Leave, Begin, BeginPanics, Cancel, Drop, vars

LEMMA LinkInvNext == LinkInv /\ [Next]_vars => LinkInv'
BY SpanInvNext, OwnedNext, SureNext DEF LinkInv

\* On a thread that has run one task at a time, each to its end or with
\* nothing open when it left, or that a parked task came straight back to,
\* CURRENT, DEPTH and every link recorded are exactly the nesting of the
\* calls, for any probes switched at any time and any way a call may end.
THEOREM LinksCorrect == Spec => []LinksAreExact
<1>1. LinkInv => LinksAreExact
  <2> SUFFICES ASSUME LinkInv PROVE LinksAreExact
    OBVIOUS
  <2>1. DOMAIN events = 1 .. Len(events)
    BY DEF LinkInv, SpanInv, SpanTypes
  <2>2. QED BY <2>1 DEF LinkInv, Owned, SureEvents, LinksAreExact
<1>2. QED BY <1>1, LinkInvInit, LinkInvNext, PTL DEF Spec

\* The recorded links form a forest, and where a thread stands for one task
\* they are its nesting: any threads, tasks and probes.
THEOREM LinksHoldAlways == Spec => []LinksHold
<1>1. ParentIsOlder /\ LinksAreExact => LinksHold
  BY DEF LinksHold
<1> QED BY <1>1, ParentsAreOlder, LinksCorrect, PTL

-----------------------------------------------------------------------------
(* Every call has one event.                                                *)

\* A call that is not the innermost one of its task is not finished.
OnlyTopFinished ==
  \A k \in Tasks : \A i \in 1 .. Len(frames[k]) - 1 : ~frames[k][i].finished

\* An unfinished span is on one stack, and there once.
OpenOnce ==
  \A k, l \in Tasks : \A i \in 1 .. Len(frames[k]), j \in 1 .. Len(frames[l]) :
    /\ ~frames[k][i].finished /\ ~frames[l][j].finished
    /\ frames[k][i].span = frames[l][j].span
    => k = l /\ i = j

EmitInv ==
  /\ enabled \subseteq Probes /\ next <= MaxSpan + 1
  /\ OnlyTopFinished /\ OpenOnce
  /\ \A i \in 1 .. Len(events) : events[i].under < next
  /\ EmittedOnce /\ SureChildFirst

\* The unfinished spans of stacks F, and the spans of events e.
OpenSpans(F) ==
  {x \in Nat : \E k \in Tasks : \E i \in 1 .. Len(F[k]) : ~F[k][i].finished /\ x = F[k][i].span}
SpansOf(e) == {e[i].span : i \in 1 .. Len(e)}

LEMMA OpenSpansAre ==
  ASSUME NEW F \in [Tasks -> Seq(Guards)]
  PROVE  UNION {{F[k][i].span : i \in {j \in DOMAIN F[k] : ~F[k][j].finished}} : k \in Tasks}
           = OpenSpans(F)
<1>1. ASSUME NEW k \in Tasks, NEW i \in 1 .. Len(F[k]) PROVE F[k][i].span \in Nat
  <2>1. F[k][i] \in Guards
    BY ElementOf
  <2> QED BY <2>1 DEF Guards
<1>2. \A k \in Tasks : DOMAIN F[k] = 1 .. Len(F[k])
  OBVIOUS
<1> QED BY <1>1, <1>2 DEF OpenSpans

LEMMA UnfinishedIs ==
  /\ SpanInv => Unfinished = OpenSpans(frames) /\ Emitted = SpansOf(events)
  /\ SpanInv' => Unfinished' = OpenSpans(frames') /\ Emitted' = SpansOf(events')
<1>1. ASSUME SpanInv PROVE Unfinished = OpenSpans(frames) /\ Emitted = SpansOf(events)
  <2>1. frames \in [Tasks -> Seq(Guards)] /\ DOMAIN events = 1 .. Len(events)
    BY <1>1 DEF SpanInv, SpanTypes
  <2> QED BY <2>1, OpenSpansAre DEF Unfinished, Emitted, SpansOf
<1>2. ASSUME SpanInv' PROVE Unfinished' = OpenSpans(frames') /\ Emitted' = SpansOf(events')
  <2>1. frames' \in [Tasks -> Seq(Guards)] /\ DOMAIN events' = 1 .. Len(events')
    BY <1>2 DEF SpanInv, SpanTypes
  <2> QED BY <2>1, OpenSpansAre DEF Unfinished, Emitted, SpansOf
<1> QED BY <1>1, <1>2

\* The innermost call of k ends: its guard goes, or is marked as finished.
LEMMA EndsOne ==
  ASSUME SpanInv, OnlyTopFinished, OpenOnce, NEW k \in Tasks, Open(k),
         NEW r \in Seq(Guards), frames' = [frames EXCEPT ![k] = r],
         Len(r) \in {Len(frames[k]) - 1, Len(frames[k])},
         \A i \in 1 .. Len(frames[k]) - 1 : r[i] = frames[k][i],
         Len(r) = Len(frames[k]) => r[Len(frames[k])].finished
  PROVE  /\ OnlyTopFinished' /\ OpenOnce'
         /\ Top(k).finished => OpenSpans(frames') = OpenSpans(frames)
         /\ ~Top(k).finished => /\ OpenSpans(frames') = OpenSpans(frames) \ {Top(k).span}
                                /\ Top(k).span \in OpenSpans(frames)
<1> DEFINE n == Len(frames[k])
<1>1. n \in Nat \ {0} /\ Top(k) = frames[k][n] /\ Top(k) \in Guards
  BY TopGuard
<1>2. frames'[k] = r /\ \A l \in Tasks : l # k => frames'[l] = frames[l]
  BY DEF SpanInv, SpanTypes
<1>3. \A l \in Tasks : Len(frames[l]) \in Nat
  BY Domains
<1> HIDE DEF n
<1>4. ASSUME NEW l \in Tasks, NEW i \in 1 .. Len(frames'[l]), ~frames'[l][i].finished
      PROVE  /\ i \in 1 .. Len(frames[l]) /\ frames'[l][i] = frames[l][i]
             /\ ~ (l = k /\ i = n)
  <2>1. CASE l # k
    BY <1>2, <1>4, <2>1
  <2>2. CASE l = k
    <3>1. i # n
      BY <1>2, <1>4, <2>2 DEF n
    <3>2. i \in 1 .. n - 1
      BY <1>1, <1>2, <2>2, <3>1 DEF n
    <3> QED BY <1>1, <1>2, <2>2, <3>1, <3>2 DEF n
  <2> QED BY <2>1, <2>2
<1>5. ASSUME NEW l \in Tasks, NEW i \in 1 .. Len(frames[l]), ~ (l = k /\ i = n)
      PROVE  i \in 1 .. Len(frames'[l]) /\ frames'[l][i] = frames[l][i]
  <2>1. CASE l # k
    BY <1>2, <2>1
  <2>2. CASE l = k
    <3>1. i \in 1 .. n - 1 /\ i \in 1 .. Len(r)
      BY <1>1, <1>5, <2>2 DEF n
    <3> QED BY <1>2, <2>2, <3>1 DEF n
  <2> QED BY <2>1, <2>2
<1>6. OnlyTopFinished'
  <2> SUFFICES ASSUME NEW l \in Tasks, NEW i \in 1 .. Len(frames'[l]) - 1
               PROVE  ~frames'[l][i].finished
    BY DEF OnlyTopFinished
  <2>1. CASE l # k
    BY <1>2, <2>1 DEF OnlyTopFinished
  <2>2. CASE l = k
    <3>1. i \in 1 .. n - 1
      BY <1>1, <1>2, <2>2 DEF n
    <3> QED BY <1>2, <2>2, <3>1 DEF n, OnlyTopFinished
  <2> QED BY <2>1, <2>2
<1>7. OpenOnce'
  BY <1>4 DEF OpenOnce
<1>8. CASE Top(k).finished
  <2>1. OpenSpans(frames') \subseteq OpenSpans(frames)
    BY <1>4 DEF OpenSpans
  <2>2. OpenSpans(frames) \subseteq OpenSpans(frames')
    BY <1>1, <1>5, <1>8 DEF OpenSpans
  <2> QED BY <1>6, <1>7, <1>8, <2>1, <2>2
<1>9. CASE ~Top(k).finished
  <2>0. Top(k).span \in Nat /\ n \in 1 .. Len(frames[k])
    BY <1>1 DEF Guards, n
  <2>1. OpenSpans(frames') \subseteq OpenSpans(frames) \ {Top(k).span}
    <3> SUFFICES ASSUME NEW x \in OpenSpans(frames')
                 PROVE  x \in OpenSpans(frames) /\ x # Top(k).span
      OBVIOUS
    <3>1. PICK l \in Tasks : \E i \in 1 .. Len(frames'[l]) :
            ~frames'[l][i].finished /\ x = frames'[l][i].span
      BY DEF OpenSpans
    <3>2. PICK i \in 1 .. Len(frames'[l]) : ~frames'[l][i].finished /\ x = frames'[l][i].span
      BY <3>1
    <3>3. /\ i \in 1 .. Len(frames[l]) /\ frames'[l][i] = frames[l][i] /\ ~ (l = k /\ i = n)
          /\ x \in Nat
      BY <1>4, <3>2 DEF OpenSpans
    <3>4. x # Top(k).span
      BY <1>1, <1>9, <2>0, <3>2, <3>3 DEF OpenOnce
    <3> QED BY <3>2, <3>3, <3>4 DEF OpenSpans
  <2>2. OpenSpans(frames) \ {Top(k).span} \subseteq OpenSpans(frames')
    BY <1>1, <1>5 DEF OpenSpans
  <2>3. Top(k).span \in OpenSpans(frames)
    BY <1>1, <1>9, <2>0 DEF OpenSpans
  <2> QED BY <1>6, <1>7, <1>9, <2>1, <2>2, <2>3
<1> QED BY <1>8, <1>9

\* A call begins.
LEMMA BeginsOne ==
  ASSUME SpanInv, OnlyTopFinished, OpenOnce, NEW k \in Tasks, Open(k) => ~Top(k).finished,
         NEW g \in Guards, g.span = next, ~g.finished,
         frames' = [frames EXCEPT ![k] = Append(frames[k], g)]
  PROVE  /\ OnlyTopFinished' /\ OpenOnce'
         /\ OpenSpans(frames') = OpenSpans(frames) \cup {next}
<1> DEFINE n == Len(frames[k])
           r == Append(frames[k], g)
<1>1. frames[k] \in Seq(Guards) /\ n \in Nat /\ (Open(k) <=> n # 0) /\ next \in Nat
  BY Domains DEF SpanInv, SpanTypes
<1>2. r \in Seq(Guards) /\ Len(r) = n + 1 /\ r[n + 1] = g /\ \A i \in 1 .. n : r[i] = frames[k][i]
  BY <1>1, Pushed
<1>3. frames'[k] = r /\ \A l \in Tasks : l # k => frames'[l] = frames[l]
  BY DEF SpanInv, SpanTypes
<1>4. \A i \in 1 .. n : ~frames[k][i].finished
  BY <1>1 DEF OnlyTopFinished, Top
<1> HIDE DEF n, r
<1>5. ASSUME NEW l \in Tasks, NEW i \in 1 .. Len(frames'[l])
      PROVE  \/ l = k /\ i = n + 1 /\ frames'[l][i] = g
             \/ i \in 1 .. Len(frames[l]) /\ frames'[l][i] = frames[l][i]
  <2>1. CASE l # k
    BY <1>3, <2>1
  <2>2. CASE l = k
    BY <1>1, <1>2, <1>3, <2>2 DEF n
  <2> QED BY <2>1, <2>2
<1>6. ASSUME NEW l \in Tasks, NEW i \in 1 .. Len(frames[l])
      PROVE  /\ i \in 1 .. Len(frames'[l]) /\ frames'[l][i] = frames[l][i]
             /\ frames[l][i].span # next
  <2>1. frames[l] \in Seq(Guards) /\ frames[l][i] \in Guards
    BY Domains, ElementOf
  <2>2. frames[l][i].span < next /\ frames[l][i].span \in Nat
    BY <2>1 DEF SpanInv, Downwards, Guards
  <2>3. CASE l # k
    BY <1>1, <1>3, <2>2, <2>3
  <2>4. CASE l = k
    BY <1>1, <1>2, <1>3, <2>2, <2>4 DEF n
  <2> QED BY <2>3, <2>4
<1>7. OnlyTopFinished'
  <2> SUFFICES ASSUME NEW l \in Tasks, NEW i \in 1 .. Len(frames'[l]) - 1
               PROVE  ~frames'[l][i].finished
    BY DEF OnlyTopFinished
  <2>1. CASE l # k
    BY <1>3, <2>1 DEF OnlyTopFinished
  <2>2. CASE l = k
    BY <1>1, <1>2, <1>3, <1>4, <2>2
  <2> QED BY <2>1, <2>2
<1>8. OpenOnce'
  <2> SUFFICES ASSUME NEW l \in Tasks, NEW m \in Tasks,
                      NEW i \in 1 .. Len(frames'[l]), NEW j \in 1 .. Len(frames'[m]),
                      ~frames'[l][i].finished, ~frames'[m][j].finished,
                      frames'[l][i].span = frames'[m][j].span
               PROVE  l = m /\ i = j
    BY DEF OpenOnce
  <2>1. CASE l = k /\ i = n + 1 /\ frames'[l][i] = g
    BY <1>5, <1>6, <2>1
  <2>2. CASE i \in 1 .. Len(frames[l]) /\ frames'[l][i] = frames[l][i]
    <3>1. CASE m = k /\ j = n + 1 /\ frames'[m][j] = g
      BY <1>6, <2>2, <3>1
    <3>2. CASE j \in 1 .. Len(frames[m]) /\ frames'[m][j] = frames[m][j]
      BY <2>2, <3>2 DEF OpenOnce
    <3> QED BY <1>5, <3>1, <3>2
  <2> QED BY <1>5, <2>1, <2>2
<1>9. OpenSpans(frames') \subseteq OpenSpans(frames) \cup {next}
  BY <1>5 DEF OpenSpans
<1>10. OpenSpans(frames) \subseteq OpenSpans(frames')
  BY <1>6 DEF OpenSpans
<1>11. next \in OpenSpans(frames')
  <2>1. n + 1 \in 1 .. Len(frames'[k]) /\ frames'[k][n + 1] = g
    BY <1>1, <1>2, <1>3
  <2> QED BY <1>1, <2>1 DEF OpenSpans
<1> QED BY <1>7, <1>8, <1>9, <1>10, <1>11

\* EmittedOnce in terms of the stacks and the events.
OnceOver(F, e, m, ab) ==
  /\ 1 .. m - 1 = OpenSpans(F) \union SpansOf(e) \union ab
  /\ SpansOf(e) \cap (OpenSpans(F) \union ab) = {} /\ OpenSpans(F) \cap ab = {}
  /\ \A i, j \in 1 .. Len(e) : e[i].span = e[j].span => i = j
FirstIn(e) == \A i, j \in 1 .. Len(e) : i < j /\ e[j].sure => e[j].parent # e[i].span

LEMMA OnceIs ==
  /\ SpanInv => /\ EmittedOnce <=> OnceOver(frames, events, next, aborted)
                /\ SureChildFirst <=> FirstIn(events)
  /\ SpanInv' => /\ EmittedOnce' <=> OnceOver(frames', events', next', aborted')
                 /\ SureChildFirst' <=> FirstIn(events')
<1>1. SpanInv => DOMAIN events = 1 .. Len(events)
  BY DEF SpanInv, SpanTypes
<1>2. SpanInv' => DOMAIN events' = 1 .. Len(events')
  BY DEF SpanInv, SpanTypes
<1> QED BY <1>1, <1>2, UnfinishedIs DEF EmittedOnce, SureChildFirst, OnceOver, FirstIn, Spans

\* The parent of a call that is sure of its links is not over yet.
LEMMA SureParent ==
  ASSUME LinkInv, OnlyTopFinished, NEW k \in Tasks, Open(k), NEW th \in Threads, owner[th] = k
  PROVE  Top(k).parent = 0 \/ Top(k).parent \in OpenSpans(frames)
<1> DEFINE n == Len(frames[k])
<1>0. SpanInv
  BY DEF LinkInv
<1>1. n \in Nat \ {0} /\ Top(k) = frames[k][n] /\ frames[k] \in Seq(Guards)
      /\ DOMAIN frames[k] = 1 .. n
  BY <1>0, TopGuard, Domains
<1>2. Top(k).parent = Encloses(k, n)
  BY <1>1 DEF LinkInv, Owned, StandsFor
<1> HIDE DEF n
<1>3. CASE n # 1
  <2>0. n - 1 \in 1 .. n /\ n - 1 \in 1 .. n - 1
    BY <1>1, <1>3
  <2>1. n - 1 \in 1 .. Len(frames[k]) /\ ~frames[k][n - 1].finished
    BY <2>0 DEF OnlyTopFinished, n
  <2>2. frames[k][n - 1] \in Guards
    BY <1>1, <2>1, ElementOf
  <2>3. frames[k][n - 1].span \in OpenSpans(frames)
    BY <2>1, <2>2 DEF OpenSpans, Guards
  <2> QED BY <1>2, <1>3, <2>3 DEF Encloses
<1> QED BY <1>2, <1>3 DEF Encloses

\* The event of the innermost call.
LEMMA EmitsOne ==
  ASSUME LinkInv, EmitInv, SpanInv', NEW k \in Tasks, Open(k), NEW th \in Threads,
         events' = Append(events, Event(k, th)), next' = next, aborted' = aborted,
         OpenSpans(frames') = OpenSpans(frames) \ {Top(k).span},
         Top(k).span \in OpenSpans(frames)
  PROVE  /\ EmittedOnce' /\ SureChildFirst'
         /\ \A i \in 1 .. Len(events') : events'[i].under < next'
<1>0. SpanInv
  BY DEF LinkInv
<1> DEFINE e == Event(k, th)
           n == Len(events)
<1>1. /\ e \in Records /\ e.span = Top(k).span /\ e.parent = Top(k).parent
      /\ e.under = Encloses(k, Len(frames[k])) /\ e.sure = (owner[th] = k)
  BY <1>0, EventType DEF Event
<1>2. Encloses(k, Len(frames[k])) < next
  <2> DEFINE m == Len(frames[k])
  <2>1. m \in Nat \ {0} /\ frames[k] \in Seq(Guards) /\ next \in Nat /\ next >= 1
    BY <1>0, TopGuard, Domains DEF SpanInv, SpanTypes, Downwards
  <2> HIDE DEF m
  <2>2. CASE m # 1
    <3>0. m - 1 \in 1 .. m
      BY <2>1, <2>2
    <3>1. m - 1 \in 1 .. Len(frames[k])
      BY <3>0 DEF m
    <3>2. frames[k][m - 1].span < next
      BY <1>0, <3>1 DEF SpanInv, Downwards
    <3> QED BY <2>2, <3>2 DEF Encloses, m
  <2> QED BY <2>1, <2>2 DEF Encloses, m
<1> HIDE DEF e
<1>3. /\ n \in Nat /\ Len(events') = n + 1 /\ events'[n + 1] = e
      /\ \A i \in 1 .. n : events'[i] = events[i]
  BY <1>0, <1>1, Pushed DEF SpanInv, SpanTypes, e
<1> HIDE DEF n
<1>4. \A i \in 1 .. Len(events') : i \in 1 .. n \/ i = n + 1
  BY <1>3
<1>5. SpansOf(events') = SpansOf(events) \cup {e.span}
  <2>1. SpansOf(events') \subseteq SpansOf(events) \cup {e.span}
    BY <1>3, <1>4 DEF SpansOf, n
  <2>2. \A i \in 1 .. n : events[i].span \in SpansOf(events')
    BY <1>3 DEF SpansOf
  <2>3. e.span \in SpansOf(events')
    BY <1>3 DEF SpansOf
  <2> QED BY <2>1, <2>2, <2>3 DEF SpansOf, n
<1>6. OnceOver(frames, events, next, aborted) /\ FirstIn(events)
  BY <1>0, OnceIs DEF EmitInv
<1>7. e.span \notin SpansOf(events) /\ e.span \notin aborted
  BY <1>1, <1>6 DEF OnceOver
<1>8. \A i \in 1 .. n : events[i].span # e.span /\ events[i].span \in SpansOf(events)
  BY <1>7 DEF SpansOf, n
<1>9. \A i, j \in 1 .. Len(events') : events'[i].span = events'[j].span => i = j
  BY <1>3, <1>4, <1>6, <1>8 DEF OnceOver, n
<1>10. OnceOver(frames', events', next', aborted')
  BY <1>1, <1>5, <1>6, <1>7, <1>9 DEF OnceOver
<1>11. ASSUME NEW i \in 1 .. Len(events'), NEW j \in 1 .. Len(events'), i < j, events'[j].sure
       PROVE  events'[j].parent # events'[i].span
  <2>1. i \in 1 .. n /\ events'[i] = events[i]
    BY <1>3, <1>4, <1>11
  <2>2. CASE j \in 1 .. n
    BY <1>3, <1>6, <1>11, <2>1, <2>2 DEF FirstIn, n
  <2>3. CASE j = n + 1
    <3>1. e.sure /\ events'[j] = e
      BY <1>3, <1>11, <2>3
    <3>2. e.parent = 0 \/ e.parent \in OpenSpans(frames)
      BY <1>1, <3>1, SureParent DEF EmitInv
    <3>3. e.parent \notin SpansOf(events)
      BY <1>0, <1>6, <3>2 DEF OnceOver, SpanInv, SpanTypes
    <3> QED BY <1>8, <2>1, <3>1, <3>3
  <2> QED BY <1>4, <2>2, <2>3
<1>12. FirstIn(events')
  BY <1>11 DEF FirstIn
<1>13. \A i \in 1 .. Len(events') : events'[i].under < next'
  BY <1>1, <1>2, <1>3, <1>4 DEF EmitInv, n
<1> QED BY <1>10, <1>12, <1>13, OnceIs

LEMMA FinishEmits ==
  ASSUME LinkInv, EmitInv, SpanInv', NEW k \in Tasks, Finish(k)
  PROVE  EmitInv'
<1>0. SpanInv
  BY DEF LinkInv
<1> DEFINE r == [frames[k] EXCEPT ![Len(frames[k])].finished = TRUE]
<1>1. /\ Open(k) /\ ~Top(k).finished /\ place[k] \in Threads
      /\ events' = Append(events, Event(k, place[k]))
      /\ frames' = [frames EXCEPT ![k] = r]
      /\ UNCHANGED <<next, aborted, enabled>>
  BY DEF Finish
<1>2. r \in Seq(Guards) /\ Len(r) = Len(frames[k])
  BY <1>0, <1>1, Marked DEF Open, SpanInv, SpanTypes
<1>3. (\A i \in 1 .. Len(frames[k]) - 1 : r[i] = frames[k][i]) /\ r[Len(frames[k])].finished
  <2>1. frames[k] \in Seq(Guards) /\ Len(frames[k]) \in Nat \ {0}
    BY <1>0, <1>1, Domains
  <2> QED BY <2>1
<1> HIDE DEF r
<1>4. /\ OnlyTopFinished' /\ OpenOnce'
      /\ OpenSpans(frames') = OpenSpans(frames) \ {Top(k).span}
      /\ Top(k).span \in OpenSpans(frames)
  BY <1>0, <1>1, <1>2, <1>3, EndsOne DEF EmitInv
<1>5. /\ EmittedOnce' /\ SureChildFirst'
      /\ \A i \in 1 .. Len(events') : events'[i].under < next'
  BY <1>1, <1>4, EmitsOne
<1> QED BY <1>1, <1>4, <1>5 DEF EmitInv

LEMMA DropEmits ==
  ASSUME LinkInv, EmitInv, SpanInv', NEW k \in Tasks, NEW th \in Threads, DropGuard(k, th)
  PROVE  EmitInv'
<1>0. SpanInv
  BY DEF LinkInv
<1> DEFINE r == SubSeq(frames[k], 1, Len(frames[k]) - 1)
<1>1. /\ Open(k)
      /\ events' = IF Top(k).finished THEN events ELSE Append(events, Event(k, th))
      /\ frames' = [frames EXCEPT ![k] = r]
      /\ UNCHANGED <<next, aborted, enabled>>
  BY DEF DropGuard, MustEmit
<1>2. /\ r \in Seq(Guards) /\ Len(r) = Len(frames[k]) - 1 /\ Len(frames[k]) \in Nat \ {0}
      /\ \A i \in 1 .. Len(frames[k]) - 1 : r[i] = frames[k][i]
  BY <1>0, <1>1, Popped DEF Open, SpanInv, SpanTypes
<1> HIDE DEF r
<1>3. /\ OnlyTopFinished' /\ OpenOnce'
      /\ Top(k).finished => OpenSpans(frames') = OpenSpans(frames)
      /\ ~Top(k).finished => /\ OpenSpans(frames') = OpenSpans(frames) \ {Top(k).span}
                             /\ Top(k).span \in OpenSpans(frames)
  <2>1. Len(r) \in {Len(frames[k]) - 1, Len(frames[k])} /\ Len(r) # Len(frames[k])
    BY <1>2
  <2> QED BY <1>0, <1>1, <1>2, <2>1, EndsOne DEF EmitInv
<1>4. CASE Top(k).finished
  <2>1. OnceOver(frames', events', next', aborted') /\ FirstIn(events')
    BY <1>0, <1>1, <1>3, <1>4, OnceIs DEF EmitInv, OnceOver
  <2> QED BY <1>1, <1>3, <1>4, <2>1, OnceIs DEF EmitInv
<1>5. CASE ~Top(k).finished
  <2>1. /\ EmittedOnce' /\ SureChildFirst'
        /\ \A i \in 1 .. Len(events') : events'[i].under < next'
    BY <1>1, <1>3, <1>5, EmitsOne
  <2> QED BY <1>1, <1>3, <2>1 DEF EmitInv
<1> QED BY <1>4, <1>5

LEMMA BeginEmits ==
  ASSUME SpanInv, EmitInv, SpanInv', NEW k \in Tasks, NEW p \in Probes,
         Begin(k, p) \/ BeginPanics(k, p)
  PROVE  EmitInv'
<1>0. next \in Nat /\ next >= 1
  BY DEF SpanInv, SpanTypes, Downwards
<1>1. /\ place[k] \in Threads /\ next <= MaxSpan /\ next' = next + 1
      /\ Open(k) => ~Top(k).finished
      /\ UNCHANGED <<events, enabled>>
  BY DEF Begin, BeginPanics, CanCall
<1>2. OnceOver(frames, events, next, aborted) /\ FirstIn(events)
  BY OnceIs DEF EmitInv
<1>3. next \notin 1 .. next - 1 /\ 1 .. next' - 1 = (1 .. next - 1) \cup {next}
  BY <1>0, <1>1
<1>4. next \notin OpenSpans(frames) \cup SpansOf(events) \cup aborted
  BY <1>2, <1>3 DEF OnceOver
<1>5. OnlyTopFinished' /\ OpenOnce' /\ OnceOver(frames', events', next', aborted')
  <2>1. CASE Begin(k, p)
    <3> DEFINE g == [probe |-> p, span |-> next, parent |-> Link(place[k]).parent,
                     depth |-> Link(place[k]).depth, finished |-> FALSE]
    <3>1. frames' = [frames EXCEPT ![k] = Append(frames[k], g)] /\ aborted' = aborted
      BY <2>1 DEF Begin
    <3>2. g \in Guards /\ g.span = next /\ ~g.finished
      BY <1>1 DEF Guards, Link, SpanInv, SpanTypes
    <3> HIDE DEF g
    <3>3. /\ OnlyTopFinished' /\ OpenOnce'
          /\ OpenSpans(frames') = OpenSpans(frames) \cup {next}
      BY <1>1, <3>1, <3>2, BeginsOne DEF EmitInv
    <3> QED BY <1>1, <1>2, <1>3, <1>4, <3>1, <3>3 DEF OnceOver
  <2>2. CASE BeginPanics(k, p)
    <3>1. frames' = frames /\ aborted' = aborted \union {next}
      BY <2>2 DEF BeginPanics
    <3>2. OnlyTopFinished' /\ OpenOnce'
      BY <3>1 DEF EmitInv, OnlyTopFinished, OpenOnce
    <3> QED BY <1>1, <1>2, <1>3, <1>4, <3>1, <3>2 DEF OnceOver
  <2> QED BY <2>1, <2>2
<1>6. \A i \in 1 .. Len(events') : events'[i].under < next'
  <2> SUFFICES ASSUME NEW i \in 1 .. Len(events) PROVE events[i].under < next + 1
    BY <1>1
  <2>1. events[i] \in Records
    BY ElementOf DEF SpanInv, SpanTypes
  <2>2. events[i].under \in Nat /\ events[i].under < next
    BY <2>1 DEF Records, EmitInv
  <2> QED BY <1>0, <2>2
<1>7. EmittedOnce' /\ SureChildFirst'
  BY <1>1, <1>2, <1>5, OnceIs
<1>8. next' <= MaxSpan + 1
  BY <1>0, <1>1
<1> QED BY <1>1, <1>5, <1>6, <1>7, <1>8 DEF EmitInv

LEMMA EmitSame ==
  ASSUME EmitInv, UNCHANGED <<next, frames, events, aborted>>, enabled' \subseteq Probes
  PROVE  EmitInv'
<1>1. EmittedOnce' /\ SureChildFirst'
  BY DEF EmitInv, EmittedOnce, SureChildFirst, Spans, Unfinished, Emitted
<1> QED BY <1>1 DEF EmitInv, OnlyTopFinished, OpenOnce

LEMMA EmitInvInit == Init => EmitInv
<1> SUFFICES ASSUME Init PROVE EmitInv
  OBVIOUS
<1>1. OnceOver(frames, events, next, aborted) /\ FirstIn(events)
  BY DEF Init, OnceOver, FirstIn, OpenSpans, SpansOf
<1>2. EmittedOnce /\ SureChildFirst
  BY <1>1, SpanInvInit, OnceIs
<1> QED BY <1>2 DEF Init, EmitInv, OnlyTopFinished, OpenOnce

LEMMA EmitInvNext == LinkInv /\ EmitInv /\ [Next]_vars => EmitInv'
<1> SUFFICES ASSUME LinkInv, EmitInv, [Next]_vars PROVE EmitInv'
  OBVIOUS
<1>0. SpanInv /\ SpanInv'
  BY SpanInvNext DEF LinkInv
<1>1. CASE UNCHANGED <<next, frames, events, aborted, enabled>>
  BY <1>1, EmitSame DEF EmitInv
<1>2. ASSUME NEW p \in Probes, Switch(p) PROVE EmitInv'
  BY <1>2, EmitSame DEF EmitInv, Switch
<1>3. ASSUME NEW k \in Tasks, Finish(k) PROVE EmitInv'
  BY <1>0, <1>3, FinishEmits
<1>4. ASSUME NEW k \in Tasks, NEW th \in Threads, DropGuard(k, th) PROVE EmitInv'
  BY <1>0, <1>4, DropEmits
<1>5. ASSUME NEW k \in Tasks, NEW p \in Probes, Begin(k, p) \/ BeginPanics(k, p) PROVE EmitInv'
  BY <1>0, <1>5, BeginEmits
<1>6. \/ UNCHANGED <<next, frames, events, aborted, enabled>>
      \/ \E p \in Probes : Switch(p)
      \/ \E k \in Tasks : \/ Finish(k) \/ \E th \in Threads : DropGuard(k, th)
                          \/ \E p \in Probes : Begin(k, p) \/ BeginPanics(k, p)
  BY DEF Next, Start, Resume, Arrive, Cancel, Leave, Drop, vars
<1> QED BY <1>1, <1>2, <1>3, <1>4, <1>5, <1>6

LEMMA EventsFromInv == SpanInv /\ EmitInv => EventsHold
<1> SUFFICES ASSUME SpanInv, EmitInv PROVE TypeOK
  BY DEF EmitInv, EventsHold
<1>0. next \in Nat /\ next >= 1 /\ next \in 1 .. MaxSpan + 1
  BY DEF SpanInv, SpanTypes, Downwards, EmitInv
<1>1. \A i, m \in Nat : i < m => i \in 0 .. m - 1
  OBVIOUS
<1>2. frames \in [Tasks -> Seq(Guard)]
  <2> SUFFICES ASSUME NEW k \in Tasks PROVE frames[k] \in Seq(Guard)
    BY DEF SpanInv, SpanTypes
  <2>1. frames[k] \in Seq(Guards)
    BY DEF SpanInv, SpanTypes
  <2>2. ASSUME NEW i \in 1 .. Len(frames[k]) PROVE frames[k][i] \in Guard
    <3>1. frames[k][i] \in Guards
      BY <2>1, ElementOf
    <3>2. frames[k][i].parent < frames[k][i].span /\ frames[k][i].span < next
      BY DEF SpanInv, Downwards
    <3> QED BY <1>0, <3>1, <3>2 DEF Guards, Guard, Spans
  <2> QED BY <2>1, <2>2
<1>3. events \in Seq(Record)
  <2>1. events \in Seq(Records)
    BY DEF SpanInv, SpanTypes
  <2>2. OnceOver(frames, events, next, aborted)
    BY OnceIs DEF EmitInv
  <2>3. ASSUME NEW i \in 1 .. Len(events) PROVE events[i] \in Record
    <3>1. events[i] \in Records
      BY <2>1, ElementOf
    <3>2. events[i].parent < events[i].span /\ events[i].under < next
      BY DEF SpanInv, Downwards, EmitInv
    <3>3. events[i].span \in 1 .. next - 1
      BY <2>2 DEF OnceOver, SpansOf
    <3> QED BY <1>0, <3>1, <3>2, <3>3 DEF Records, Record, Spans
  <2> QED BY <2>1, <2>3
<1>4. aborted \subseteq Spans
  BY DEF EmitInv, EmittedOnce
<1>5. current \in [Threads -> 0 .. next - 1]
  BY <1>0, <1>1 DEF SpanInv, SpanTypes, Downwards
<1> QED BY <1>0, <1>2, <1>3, <1>4, <1>5 DEF TypeOK, EmitInv, SpanInv, SpanTypes

\* However calls end, by return, `?`, a panic or the drop of a parked future,
\* every one that began has one event, or is still open, or was lost to a panic
\* in args(); and where the links are sure a child's event comes before its
\* parent's (SpanGuard::finish and Drop).
THEOREM OneEventForEachCall == Spec => []EventsHold
<1>1. Init => LinkInv /\ EmitInv
  BY LinkInvInit, EmitInvInit
<1>2. LinkInv /\ EmitInv /\ [Next]_vars => (LinkInv /\ EmitInv)'
  BY LinkInvNext, EmitInvNext
<1>3. LinkInv /\ EmitInv => EventsHold
  BY EventsFromInv DEF LinkInv
<1> QED BY <1>1, <1>2, <1>3, PTL DEF Spec
=============================================================================
