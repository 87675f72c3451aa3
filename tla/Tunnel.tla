------------------------------- MODULE Tunnel -------------------------------
(***************************************************************************)
(* The time tunnel of rthas/src/tunnel.rs: the calls `tt` recorded, under  *)
(* numbers the user types back later.  Every method takes one mutex.       *)
(*                                                                         *)
(* made is a history variable: what each number was given to.              *)
(***************************************************************************)
EXTENDS Naturals, Sequences

CONSTANTS
  Capacity,     \* RTHAS_TT_CAPACITY
  FIRST_INDEX   \* the first number given out

ASSUME TunnelAssumption == Capacity \in Nat /\ FIRST_INDEX \in Nat

VARIABLES buf, next_index, made

tunnelVars == <<buf, next_index, made>>

\* Tunnel::new: a capacity of zero means one.
capacity == IF Capacity = 0 THEN 1 ELSE Capacity

Fragments == {buf[i] : i \in 1..Len(buf)}
Indices == {f.index : f \in Fragments}

TunnelInit ==
  /\ buf = <<>>
  /\ next_index = FIRST_INDEX
  /\ made = <<>>

RoomUnbounded == buf
RoomByNewest == IF Len(buf) = capacity THEN SubSeq(buf, 1, Len(buf) - 1) ELSE buf
Room == IF Len(buf) = capacity THEN Tail(buf) ELSE buf

IndexFromLength == FIRST_INDEX + Len(buf)
Index == next_index

Record(call) ==
  /\ next_index' = next_index + 1
  /\ buf' = Append(Room, [index |-> Index, call |-> call])
  /\ made' = Append(made, call)

\* `retain(|f| f.index != index)`; no two fragments have the same index.
Without(p) == SubSeq(buf, 1, p - 1) \o SubSeq(buf, p + 1, Len(buf))

Delete(i) ==
  /\ \E p \in 1..Len(buf) : buf[p].index = i /\ buf' = Without(p)
  /\ UNCHANGED <<next_index, made>>

Clear ==
  /\ buf' = <<>>
  /\ UNCHANGED <<next_index, made>>

TunnelTypeOK ==
  /\ next_index = FIRST_INDEX + Len(made)
  /\ Len(buf) <= capacity
  /\ \A f \in Fragments : f.index \in FIRST_INDEX..(next_index - 1)

\* The call a number leads to: what it was given to when it was recorded.
CallOf(i) == made[i - FIRST_INDEX + 1]

\* A number, once given, never leads to another call, whatever was evicted,
\* deleted or cleared in between; the listing is in the order of recording.
IndexIsForGood ==
  /\ \A f \in Fragments : f.call = CallOf(f.index)
  /\ \A i, j \in 1..Len(buf) : i < j => buf[i].index < buf[j].index

\* Recording a call costs another its place only when the tunnel is full,
\* and then it is the oldest one's.
EvictsOldestWhenFull ==
  [][next_index' > next_index =>
       \A f \in Fragments :
         f \notin {buf'[i] : i \in 1..Len(buf')} =>
           Len(buf) = capacity /\ \A g \in Fragments : f.index <= g.index]_tunnelVars
=============================================================================
