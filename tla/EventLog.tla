------------------------------ MODULE EventLog ------------------------------
(***************************************************************************)
(* What the event ring promises its readers, without the ring: one log     *)
(* that only grows, a trim point behind which it is forgotten, and for     *)
(* each stream the positions it was handed.  Recorder implements it        *)
(* (Recorder!Log), with Depth the capacity of the ring.                    *)
(***************************************************************************)
EXTENDS Naturals, Sequences

CONSTANTS Depth, Payloads, Readers

VARIABLES
  log,       \* every payload ever appended
  floor,     \* positions up to floor are forgotten
  pos,       \* [Readers -> Nat]: read up to here
  seen,      \* [Readers -> SUBSET Nat]: positions the running stream was handed
  running    \* the streams that are open

vars == <<log, floor, pos, seen, running>>

Init ==
  /\ log = <<>>
  /\ floor = 0
  /\ pos = [r \in Readers |-> 0]
  /\ seen = [r \in Readers |-> {}]
  /\ running = {}

\* Appending forgets the oldest position once Depth positions are retained.
Append1(d) ==
  /\ log' = Append(log, d)
  /\ floor' = IF Len(log) - floor = Depth THEN floor + 1 ELSE floor
  /\ UNCHANGED <<pos, seen, running>>

Forget ==
  /\ floor' = Len(log)
  /\ UNCHANGED <<log, pos, seen, running>>

\* A stream starts at the end of the log: it never reads what came before.
Start(r) ==
  /\ r \notin running
  /\ running' = running \union {r}
  /\ pos' = [pos EXCEPT ![r] = Len(log)]
  /\ seen' = [seen EXCEPT ![r] = {}]
  /\ UNCHANGED <<log, floor>>

\* Reading hands over every position that is neither read nor forgotten.
Read(r) ==
  /\ r \in running
  /\ pos[r] < Len(log) /\ floor < Len(log)
  /\ seen' = [seen EXCEPT ![r] = @ \union {p \in 1 .. Len(log) : p > pos[r] /\ p > floor}]
  /\ pos' = [pos EXCEPT ![r] = Len(log)]
  /\ UNCHANGED <<log, floor, running>>

Finish(r) ==
  /\ r \in running
  /\ running' = running \ {r}
  /\ UNCHANGED <<log, floor, pos, seen>>

Next ==
  \/ \E d \in Payloads : Append1(d)
  \/ Forget
  \/ \E r \in Readers : Start(r) \/ Read(r) \/ Finish(r)

Spec == Init /\ [][Next]_vars
=============================================================================
