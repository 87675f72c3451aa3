------------------------------ MODULE Recorder ------------------------------
(***************************************************************************)
(* The event ring of rthas/src/event.rs and the streaming commands that    *)
(* read it (trace, watch, stack, tt, monitor, dashboard).                  *)
(*                                                                         *)
(* Any number of instrumented threads push completed spans; every command  *)
(* that streams keeps a private cursor, opened at `last_seq()` and moved   *)
(* by `since(cursor)`; `clear` may empty the ring at any time.  All of the *)
(* recorder's methods take one mutex, so each is one atomic step here.     *)
(*                                                                         *)
(* hist, start, got, gone, kept and twice are history variables: they      *)
(* record what was pushed, where a stream began, what it was handed, how   *)
(* many events `clear` removed, which streams never lost an unread event,  *)
(* and which were ever handed an event again.                              *)
(***************************************************************************)
EXTENDS Naturals, Sequences, FiniteSetsExt

CONSTANTS
  Requested,   \* the capacity given to Recorder::new (RTHAS_CAPACITY)
  Payloads,    \* what an event says of its call; opaque here
  Readers,     \* the streaming commands
  MaxEvents    \* bound on the events pushed in one behaviour

ASSUME RecorderAssumption ==
  /\ Requested \in Nat
  /\ MaxEvents \in Nat

VARIABLES
  buf,        \* VecDeque<Event>: oldest first
  next_seq,   \* the sequence number of the next event
  dropped,    \* events evicted because the ring was full
  recorded,   \* events ever pushed
  cursor,     \* [Readers -> Nat], the reader's local `cursor`
  streaming,  \* the readers whose command is running
  hist, start, got, gone, kept, twice

ring == <<buf, next_seq, dropped, recorded>>
recorderVars == <<ring, cursor, streaming, hist, start, got, gone, kept, twice>>

Event == [seq : Nat, data : Payloads]

\* Recorder::new clamps a capacity of zero.
\* (A definition that another one follows with the same parameters is a faulty
\* variant of it, kept to show which property notices the fault.)
capacity == IF Requested = 0 THEN 1 ELSE Requested

LastSeqTooLow == next_seq - 2
last_seq == next_seq - 1

Seqs(b) == {b[i].seq : i \in DOMAIN b}

\* The numbers of the events `since(c)` returns: those retained, newer than c.
SinceInclusive(c) == {s \in Seqs(buf) : s >= c}
SinceSkipping(c) == {s \in Seqs(buf) : s > c + 1}
SinceNewest(c) == {s \in Seqs(buf) : s > c /\ s = next_seq - 1}
Since(c) == {s \in Seqs(buf) : s > c}

-----------------------------------------------------------------------------

RecorderInit ==
  /\ buf = <<>>
  /\ next_seq = 1
  /\ dropped = 0
  /\ recorded = 0
  /\ cursor = [r \in Readers |-> 0]
  /\ streaming = {}
  /\ hist = <<>>
  /\ start = [r \in Readers |-> 0]
  /\ got = [r \in Readers |-> {}]
  /\ gone = 0
  /\ kept = [r \in Readers |-> TRUE]
  /\ twice = {}

\* Recorder::push makes room by evicting the oldest event of a full ring.
FullLate == Len(buf) > capacity
Full == Len(buf) = capacity

RoomFlushed == IF Full THEN <<>> ELSE buf
Room == IF Full THEN Tail(buf) ELSE buf

DroppedUncounted == dropped
Dropped == IF Full THEN dropped + 1 ELSE dropped

\* History: which streams keep every event they have not read yet.
StillKept == [r \in Readers |-> kept[r] /\ Since(cursor[r]) \subseteq Seqs(buf')]

\* Recorder::push, called by span.rs on whatever thread completed a span.
Push(d) ==
  /\ next_seq <= MaxEvents
  /\ next_seq' = next_seq + 1
  /\ recorded' = recorded + 1
  /\ buf' = Append(Room, [seq |-> next_seq, data |-> d])
  /\ dropped' = Dropped
  /\ kept' = StillKept
  /\ hist' = Append(hist, d)
  /\ UNCHANGED <<cursor, streaming, start, got, gone, twice>>

\* Recorder::clear: the buffered events go, the counters stay.
Clear ==
  /\ buf' = <<>>
  /\ gone' = gone + Len(buf)
  /\ kept' = StillKept
  /\ UNCHANGED <<next_seq, dropped, recorded, cursor, streaming, hist, start, got, twice>>

\* A streaming command starts: `let mut cursor = recorder().last_seq()`.
Open(r) ==
  /\ r \notin streaming
  /\ streaming' = streaming \union {r}
  /\ cursor' = [cursor EXCEPT ![r] = last_seq]
  /\ start' = [start EXCEPT ![r] = last_seq]
  /\ got' = [got EXCEPT ![r] = {}]
  /\ kept' = [kept EXCEPT ![r] = TRUE]
  /\ UNCHANGED <<ring, hist, gone, twice>>

\* One turn of a streaming loop: every event of `since(cursor)` is handled
\* and moves the cursor, `cursor = cursor.max(event.seq)`.
Poll(r) ==
  /\ r \in streaming
  /\ Since(cursor[r]) # {}
  /\ got' = [got EXCEPT ![r] = @ \union Since(cursor[r])]
  /\ cursor' = [cursor EXCEPT ![r] = Max(Since(@))]
  /\ twice' = twice \union {q \in {r} : Since(cursor[r]) \intersect got[r] # {}}
  /\ UNCHANGED <<ring, streaming, hist, start, gone, kept>>

\* The command ends: count reached, deadline, or its client went away.
Close(r) ==
  /\ r \in streaming
  /\ streaming' = streaming \ {r}
  /\ UNCHANGED <<ring, cursor, hist, start, got, gone, kept, twice>>

RecorderNext ==
  \/ \E d \in Payloads : Push(d)
  \/ Clear
  \/ \E r \in Readers : Open(r) \/ Poll(r) \/ Close(r)

RecorderSpec == RecorderInit /\ [][RecorderNext]_recorderVars

\* A streaming loop polls every POLL_INTERVAL for as long as it runs; nobody
\* promises that calls happen, that `clear` is typed or that a stream ends.
RecorderFairSpec == RecorderSpec /\ \A r \in Readers : WF_recorderVars(Poll(r))

-----------------------------------------------------------------------------

RecorderTypes ==
  /\ buf \in Seq(Event)
  /\ next_seq \in Nat \ {0}
  /\ dropped \in Nat
  /\ recorded \in Nat
  /\ cursor \in [Readers -> Nat]
  /\ streaming \in SUBSET Readers
  /\ hist \in Seq(Payloads)
  /\ start \in [Readers -> Nat]
  /\ got \in [Readers -> SUBSET Nat]
  /\ gone \in Nat
  /\ kept \in [Readers -> BOOLEAN]
  /\ twice \in SUBSET Readers

\* The ring holds exactly the newest events, in order and without a hole,
\* each with the number and the contents it was pushed with, whatever
\* evictions and `clear`s happened (event.rs push / clear).
NewestWithoutHole ==
  /\ Len(buf) <= capacity
  /\ Len(buf) <= last_seq
  /\ \A i \in DOMAIN buf :
       /\ buf[i].seq = last_seq - Len(buf) + i
       /\ buf[i].data = hist[buf[i].seq]

\* Every event ever recorded is buffered, was counted as dropped, or was
\* removed by `clear`: the numbers `stats` and `session` print add up.
Accounting ==
  /\ recorded = last_seq
  /\ recorded = Len(buf) + dropped + gone

\* What a stream has been handed lies between its start and its cursor, and
\* as long as no unread event was evicted or cleared it is ALL of that: a
\* stream loses nothing but to an overrun or a `clear`.
NothingLostUnlessOverrun ==
  \A r \in streaming :
    /\ start[r] <= cursor[r] /\ cursor[r] <= last_seq
    /\ got[r] \subseteq start[r] + 1 .. cursor[r]
    /\ kept[r] => /\ got[r] = start[r] + 1 .. cursor[r]
                  /\ cursor[r] + 1 .. last_seq \subseteq Seqs(buf)

\* A stream never sees an event twice, nor one older than an event it was
\* already handed (the cursor of the streaming loops in agent.rs).
NoReplay ==
  [][/\ twice' = {}
     /\ \A r \in streaming \intersect streaming' :
          \A new \in got'[r] \ got[r] : \A old \in got[r] : new > old]_recorderVars

\* Every event pushed while a stream runs is handed to it in the end, unless
\* the stream ends or the event leaves the ring first.
EventuallySeen ==
  \A r \in Readers : \A s \in 1 .. MaxEvents :
    (r \in streaming /\ s > start[r] /\ s <= last_seq) ~>
       \/ s \in got[r]
       \/ r \notin streaming
       \/ s \notin Since(0)

\* The abstract log this ring implements: nothing is reordered, repeated or
\* altered, and what a stream misses is a prefix of its unread events.
Log == INSTANCE EventLog WITH
  Depth <- capacity, log <- hist, floor <- last_seq - Len(buf),
  pos <- cursor, seen <- got, running <- streaming
ImplementsLog == Log!Spec

\* The ring and what streams get of it, together: types, the newest events
\* without a hole, counters that add up, and nothing lost but to an overrun.
RingAndStreams == RecorderTypes /\ NewestWithoutHole /\ Accounting /\ NothingLostUnlessOverrun
=============================================================================
