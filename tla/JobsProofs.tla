----------------------------- MODULE JobsProofs -----------------------------
(***************************************************************************)
(* Proofs about Tunnel as the jobs of Jobs use it: any number of sessions  *)
(* and jobs, any capacity, any mixture of recording, deleting and          *)
(* clearing.                                                               *)
(***************************************************************************)
EXTENDS Jobs, SequenceTheorems, FiniteSetTheorems, TLAPS

Calls == [job : Nat, event : Nat]

TunnelInv ==
  /\ made \in Seq(Calls)
  /\ next_index = FIRST_INDEX + Len(made)
  /\ buf \in Seq([index : Nat, call : Calls])
  /\ Len(buf) <= capacity
  /\ \A i \in 1..Len(buf) :
       /\ buf[i].index \in FIRST_INDEX..(next_index - 1)
       /\ buf[i].call = made[buf[i].index - FIRST_INDEX + 1]
  /\ \A i, j \in 1..Len(buf) : i < j => buf[i].index < buf[j].index

\* The fields that say what is recorded are numbers.
CursorInv ==
  /\ cursor \in [Ids -> Nat]
  /\ pushed \in Nat

-----------------------------------------------------------------------------

LEMMA TailElements ==
  ASSUME NEW S, NEW s \in Seq(S), Len(s) # 0
  PROVE  /\ Tail(s) \in Seq(S)
         /\ Len(Tail(s)) = Len(s) - 1
         /\ \A i \in 1..Len(Tail(s)) : Tail(s)[i] = s[i + 1]
OBVIOUS

\* What is left of a sequence without its p-th element.
LEMMA WithoutElements ==
  ASSUME NEW S, buf \in Seq(S), NEW p \in 1..Len(buf)
  PROVE  /\ Without(p) \in Seq(S)
         /\ Len(Without(p)) = Len(buf) - 1
         /\ \A i \in 1..Len(Without(p)) :
              /\ i < p => Without(p)[i] = buf[i]
              /\ i >= p => Without(p)[i] = buf[i + 1]
<1> DEFINE a == SubSeq(buf, 1, p - 1)
           b == SubSeq(buf, p + 1, Len(buf))
<1>0. Len(buf) \in Nat /\ p \in Nat /\ 1 <= p /\ p <= Len(buf)
  OBVIOUS
<1>1. /\ a \in Seq(S) /\ Len(a) = p - 1
      /\ \A i \in 1..(p - 1) : a[i] = buf[i]
  <2>1. \A i \in 1..(p - 1) : buf[i] \in S
    BY ElementOfSeq, <1>0
  <2> QED
    BY <1>0, <2>1, SubSeqProperties
<1>2. /\ b \in Seq(S) /\ Len(b) = Len(buf) - p
      /\ \A i \in 1..(Len(buf) - p) : b[i] = buf[p + i]
  <2>1. \A i \in (p + 1)..Len(buf) : buf[i] \in S
    BY ElementOfSeq, <1>0
  <2> QED
    BY <1>0, <2>1, SubSeqProperties
<1> HIDE DEF a, b
<1>3. Without(p) = a \o b
  BY DEF Without, a, b
<1>4. /\ a \o b \in Seq(S)
      /\ Len(a \o b) = Len(a) + Len(b)
      /\ \A i \in 1..(Len(a) + Len(b)) :
           (a \o b)[i] = IF i <= Len(a) THEN a[i] ELSE b[i - Len(a)]
  BY <1>1, <1>2, ConcatProperties
<1>5. ASSUME NEW i \in 1..(Len(buf) - 1)
      PROVE  /\ i < p => (a \o b)[i] = buf[i]
             /\ i >= p => (a \o b)[i] = buf[i + 1]
  <2>1. CASE i < p
    BY <1>0, <1>1, <1>2, <1>4, <2>1
  <2>2. CASE i >= p
    <3> DEFINE k == i - (p - 1)
    <3>1. k \in 1..(Len(buf) - p) /\ p + k = i + 1 /\ i - Len(a) = k
      BY <1>0, <1>1, <2>2
    <3>2. ~(i <= Len(a)) /\ ~(i < p) /\ i \in 1..(Len(a) + Len(b))
      BY <1>0, <1>1, <1>2, <2>2
    <3>3. (a \o b)[i] = b[i - Len(a)]
      BY <1>4, <3>2
    <3> HIDE DEF k
    <3>4. b[k] = buf[p + k]
      BY <1>2, <3>1
    <3>5. (a \o b)[i] = buf[i + 1]
      BY <3>1, <3>3, <3>4
    <3> QED
      BY <3>2, <3>5
  <2> QED
    BY <1>0, <2>1, <2>2
<1>6. Len(a \o b) = Len(buf) - 1
  BY <1>0, <1>1, <1>2, <1>4
<1> QED
  BY <1>3, <1>4, <1>5, <1>6

-----------------------------------------------------------------------------

LEMMA RecordKeeps ==
  ASSUME TunnelInv, NEW call \in Calls, Record(call)
  PROVE  TunnelInv'
<1> DEFINE F == [index : Nat, call : Calls]
           new == [index |-> next_index, call |-> call]
<1> USE TunnelAssumption
<1>1. next_index \in Nat /\ Len(made) \in Nat /\ FIRST_INDEX \in Nat
  BY DEF TunnelInv
<1>2. Len(buf) \in Nat /\ capacity \in Nat \ {0}
  BY DEF TunnelInv, capacity
<1>3. new \in F
  BY <1>1
<1>4. /\ Room \in Seq(F)
      /\ Len(Room) <= capacity - 1
      /\ \E d \in {0, 1} : /\ Len(Room) = Len(buf) - d
                           /\ \A i \in 1..Len(Room) : Room[i] = buf[i + d]
  <2>1. CASE Len(buf) = capacity
    <3>1. Room = Tail(buf)
      BY <2>1 DEF Room
    <3>2. buf \in Seq(F) /\ Len(buf) # 0
      BY <1>2, <2>1 DEF TunnelInv
    <3> QED
      BY <1>2, <2>1, <3>1, <3>2, TailElements
  <2>2. CASE Len(buf) # capacity
    <3>1. Room = buf
      BY <2>2 DEF Room
    <3> QED
      BY <1>2, <2>2, <3>1 DEF TunnelInv
  <2> QED
    BY <2>1, <2>2
<1>5. PICK d \in {0, 1} : /\ Len(Room) = Len(buf) - d
                          /\ \A i \in 1..Len(Room) : Room[i] = buf[i + d]
  BY <1>4
<1>6. buf' = Append(Room, new) /\ made' = Append(made, call) /\ next_index' = next_index + 1
  BY DEF Record, Index
<1> HIDE DEF new
<1>7. /\ made' \in Seq(Calls)
      /\ Len(made') = Len(made) + 1
      /\ \A k \in 1..Len(made) : made'[k] = made[k]
      /\ made'[Len(made) + 1] = call
  BY <1>1, <1>6 DEF TunnelInv
<1>8. /\ buf' \in Seq(F)
      /\ Len(buf') = Len(Room) + 1
      /\ \A i \in 1..Len(Room) : buf'[i] = Room[i]
      /\ buf'[Len(Room) + 1] = new
  BY <1>3, <1>4, <1>6
<1>9. Len(Room) \in Nat
  BY <1>4
<1>10. \A i \in 1..Len(Room) : i + d \in 1..Len(buf) /\ buf'[i] = buf[i + d]
  BY <1>2, <1>5, <1>8, <1>9
<1>11. ASSUME NEW i \in 1..Len(buf')
       PROVE  /\ buf'[i].index \in FIRST_INDEX..(next_index' - 1)
              /\ buf'[i].call = made'[buf'[i].index - FIRST_INDEX + 1]
  <2>1. CASE i \in 1..Len(Room)
    <3> DEFINE f == buf[i + d]
               n == f.index
               k == n - FIRST_INDEX + 1
    <3>1. n \in FIRST_INDEX..(next_index - 1) /\ f.call = made[k]
      BY <1>10, <2>1 DEF TunnelInv
    <3>2. buf'[i] = f
      BY <1>10, <2>1
    <3> HIDE DEF n, f
    <3>3. next_index = FIRST_INDEX + Len(made)
      BY DEF TunnelInv
    <3>4. k \in 1..Len(made) /\ n \in FIRST_INDEX..(next_index' - 1)
      BY <1>1, <1>6, <3>1, <3>3
    <3> HIDE DEF k
    <3>5. f.call = made'[k]
      BY <1>7, <3>1, <3>4
    <3> QED
      BY <3>2, <3>4, <3>5 DEF n, k
  <2>2. CASE i = Len(Room) + 1
    <3>1. buf'[i] = new /\ new.index = next_index /\ new.call = call
      BY <1>8, <2>2 DEF new
    <3>2. next_index - FIRST_INDEX + 1 = Len(made) + 1
      BY <1>1 DEF TunnelInv
    <3>3. next_index \in FIRST_INDEX..(next_index' - 1)
      <4>1. FIRST_INDEX <= next_index
        BY <1>1 DEF TunnelInv
      <4> QED
        BY <1>1, <1>6, <4>1
    <3> QED
      BY <1>7, <3>1, <3>2, <3>3
  <2> QED
    BY <1>8, <1>9, <2>1, <2>2
<1>12. ASSUME NEW i \in 1..Len(buf'), NEW j \in 1..Len(buf'), i < j
       PROVE  buf'[i].index < buf'[j].index
  <2>1. i \in 1..Len(Room)
    BY <1>8, <1>9, <1>12
  <2>2. CASE j \in 1..Len(Room)
    <3>1. i + d < j + d
      BY <1>12
    <3> QED
      BY <1>10, <2>1, <2>2, <3>1 DEF TunnelInv
  <2>3. CASE j = Len(Room) + 1
    <3>1. buf[i + d].index < next_index
      <4> DEFINE n == buf[i + d].index
      <4>1. n \in FIRST_INDEX..(next_index - 1)
        BY <1>10, <2>1 DEF TunnelInv
      <4> HIDE DEF n
      <4>2. n < next_index
        BY <1>1, <4>1
      <4> QED
        BY <4>2 DEF n
    <3> QED
      BY <1>8, <1>10, <2>1, <2>3, <3>1 DEF new
  <2> QED
    BY <1>8, <1>9, <2>2, <2>3
<1>13. next_index' = FIRST_INDEX + Len(made')
  BY <1>1, <1>6, <1>7 DEF TunnelInv
<1>14. Len(buf') <= capacity
  BY <1>2, <1>4, <1>8, <1>9
<1>15. capacity' = capacity
  BY DEF capacity
<1> QED
  BY <1>7, <1>8, <1>11, <1>12, <1>13, <1>14, <1>15 DEF TunnelInv

LEMMA DeleteKeeps ==
  ASSUME TunnelInv, NEW n, Delete(n)
  PROVE  TunnelInv'
<1> DEFINE F == [index : Nat, call : Calls]
<1>1. PICK p \in 1..Len(buf) : buf' = Without(p)
  BY DEF Delete
<1>2. buf \in Seq(F) /\ Len(buf) \in Nat
  BY DEF TunnelInv
<1>3. /\ buf' \in Seq(F)
      /\ Len(buf') = Len(buf) - 1
      /\ \A i \in 1..Len(buf') : /\ i < p => buf'[i] = buf[i]
                                 /\ i >= p => buf'[i] = buf[i + 1]
  BY <1>1, <1>2, WithoutElements
<1>4. made' = made /\ next_index' = next_index /\ capacity' = capacity
  BY DEF Delete, capacity
<1> DEFINE at(i) == IF i < p THEN i ELSE i + 1
<1>5. ASSUME NEW i \in 1..Len(buf')
      PROVE  at(i) \in 1..Len(buf) /\ buf'[i] = buf[at(i)]
  <2>1. i \in Nat /\ i <= Len(buf) - 1 /\ p \in Nat
    BY <1>2, <1>3
  <2>2. CASE i < p
    BY <1>2, <1>3, <2>1, <2>2
  <2>3. CASE i >= p
    <3>1. i + 1 \in 1..Len(buf) /\ at(i) = i + 1
      BY <1>2, <2>1, <2>3
    <3> QED BY <1>3, <2>3, <3>1
  <2> QED BY <2>1, <2>2, <2>3
<1>6. ASSUME NEW i \in 1..Len(buf'), NEW j \in 1..Len(buf'), i < j
      PROVE  at(i) < at(j)
  <2>1. i \in Nat /\ j \in Nat /\ p \in Nat
    BY <1>2, <1>3
  <2> QED BY <1>6, <2>1
<1> HIDE DEF at
<1>7. ASSUME NEW i \in 1..Len(buf')
      PROVE  /\ buf'[i].index \in FIRST_INDEX..(next_index' - 1)
             /\ buf'[i].call = made'[buf'[i].index - FIRST_INDEX + 1]
  BY <1>4, <1>5 DEF TunnelInv
<1>8. ASSUME NEW i \in 1..Len(buf'), NEW j \in 1..Len(buf'), i < j
      PROVE  buf'[i].index < buf'[j].index
  BY <1>5, <1>6, <1>8 DEF TunnelInv
<1>9. Len(buf') <= capacity'
  BY <1>2, <1>3, <1>4, TunnelAssumption DEF TunnelInv, capacity
<1> QED
  BY <1>3, <1>4, <1>7, <1>8, <1>9 DEF TunnelInv

LEMMA ClearKeeps ==
  ASSUME TunnelInv, Clear
  PROVE  TunnelInv'
<1>1. buf' = <<>> /\ made' = made /\ next_index' = next_index /\ capacity' = capacity
  BY DEF Clear, capacity
<1>2. Len(buf') = 0 /\ 1..Len(buf') = {} /\ Len(buf') <= capacity'
  BY <1>1, TunnelAssumption DEF capacity
<1> QED
  BY <1>1, <1>2 DEF TunnelInv

-----------------------------------------------------------------------------

LEMMA JobsInit ==
  Init => TunnelInv /\ CursorInv
<1> SUFFICES ASSUME Init PROVE TunnelInv /\ CursorInv
  OBVIOUS
<1>1. buf = <<>> /\ made = <<>> /\ next_index = FIRST_INDEX
  BY DEF Init, TunnelInit
<1>2. Len(buf) = 0 /\ Len(made) = 0 /\ 1..Len(buf) = {} /\ Len(buf) <= capacity
  BY <1>1, TunnelAssumption DEF capacity
<1>3. TunnelInv
  BY <1>1, <1>2, TunnelAssumption DEF TunnelInv
<1>4. CursorInv
  BY DEF Init, CursorInv, Ids
<1> QED
  BY <1>3, <1>4

\* Every step that is not the tunnel's leaves it as it is.
LEMMA TunnelSame ==
  ASSUME TunnelInv, UNCHANGED tunnelVars
  PROVE  TunnelInv'
BY DEF TunnelInv, tunnelVars, capacity

LEMMA CursorStep ==
  ASSUME CursorInv, [Next]_vars
  PROVE  CursorInv'
<1> USE DEF CursorInv
<1>1. ASSUME NEW s \in Sessions, TakeId(s) \/ EnterTable(s) \/ LogCannotOpen(s) \/ StartThread(s)
      PROVE  CursorInv'
  BY <1>1 DEF TakeId, EnterTable, LogCannotOpen, StartThread, ring, thread
<1>2. ASSUME NEW s \in Sessions, Forget(s)
      PROVE  CursorInv'
  BY <1>2 DEF Forget, ring, thread
<1>3. ASSUME NEW s \in Sessions, NEW j \in Ids, Kill(s, j)
      PROVE  CursorInv'
  BY <1>3 DEF Kill, ring, thread
<1>4. CASE Push
  BY <1>4 DEF Push, thread
<1>5. ASSUME NEW j \in Ids, Run(j)
      PROVE  CursorInv'
  <2>1. CASE Header(j)
    BY <2>1 DEF Header, ring
  <2>2. CASE Skip(j)
    BY <2>2 DEF Skip, ring
  <2>3. CASE RecordCall(j)
    BY <2>3 DEF RecordCall, CursorMoves, ring
  <2>4. CASE Fetch(j) \/ BatchDone(j) \/ Test(j) \/ ReadStop(j)
    BY <2>4 DEF Fetch, BatchDone, Test, ReadStop, ring
  <2>5. CASE WriteRow(j)
    BY <2>5 DEF WriteRow, ring
  <2>6. CASE EndJob(j)
    BY <2>6 DEF EndJob, ring
  <2> QED
    BY <1>5, <2>1, <2>2, <2>3, <2>4, <2>5, <2>6 DEF Run
<1>6. CASE UNCHANGED vars
  BY <1>6 DEF vars, ring, thread
<1> QED
  BY <1>1, <1>2, <1>3, <1>4, <1>5, <1>6 DEF Next

LEMMA TunnelStep ==
  ASSUME TunnelInv, CursorInv, [Next]_vars
  PROVE  TunnelInv'
<1>1. ASSUME NEW s \in Sessions,
             \/ TakeId(s) \/ EnterTable(s) \/ LogCannotOpen(s) \/ StartThread(s)
             \/ \E j \in Ids : Kill(s, j)
      PROVE  TunnelInv'
  BY <1>1, TunnelSame DEF TakeId, EnterTable, LogCannotOpen, StartThread, Kill, tunnelVars
<1>2. ASSUME NEW s \in Sessions, Forget(s)
      PROVE  TunnelInv'
  BY <1>2, DeleteKeeps, ClearKeeps DEF Forget
<1>3. CASE Push
  BY <1>3, TunnelSame DEF Push, tunnelVars
<1>4. ASSUME NEW j \in Ids, RecordCall(j)
      PROVE  TunnelInv'
  <2> DEFINE call == [job |-> j, event |-> cursor[j] + 1]
  <2>1. j \in Nat /\ cursor[j] + 1 \in Nat
    BY JobsAssumption DEF CursorInv, Ids
  <2>2. call \in Calls
    BY <2>1 DEF Calls
  <2>3. Record(call)
    BY <1>4 DEF RecordCall
  <2> HIDE DEF call
  <2> QED
    BY <2>2, <2>3, RecordKeeps
<1>5. ASSUME NEW j \in Ids, Run(j), ~RecordCall(j)
      PROVE  TunnelInv'
  BY <1>5, TunnelSame
     DEF Run, Header, Fetch, Skip, WriteRow, BatchDone, Test, ReadStop, EndJob, tunnelVars
<1>6. CASE UNCHANGED vars
  BY <1>6, TunnelSame DEF vars
<1> QED
  BY <1>1, <1>2, <1>3, <1>4, <1>5, <1>6 DEF Next

-----------------------------------------------------------------------------

\* A number of the time tunnel leads to the call it was given to for as long
\* as it leads anywhere, and the listing is in the order of recording,
\* whatever the sessions and the jobs record, evict, delete and clear
\* (tunnel.rs).
THEOREM JobsIndexIsForGood == Spec => []IndexIsForGood
<1>1. TunnelInv => IndexIsForGood
  BY DEF TunnelInv, IndexIsForGood, Fragments, CallOf
<1>2. Init => TunnelInv /\ CursorInv
  BY JobsInit
<1>3. TunnelInv /\ CursorInv /\ [Next]_vars => (TunnelInv /\ CursorInv)'
  BY TunnelStep, CursorStep
<1> QED
  BY <1>1, <1>2, <1>3, PTL DEF Spec

-----------------------------------------------------------------------------
\* Whose a job is: of the one session that is setting it up, then of its
\* thread; until its thread ends it is running.

Pcs == {"none", "start", "fetch", "rows", "write", "test", "ending", "finish", "gone"}

OwnerInv ==
  /\ NEXT_ID \in Nat \ {0}
  /\ session \in [Sessions -> {"ready", "numbered", "listed"}]
  /\ mine \in [Sessions -> Nat]
  /\ state \in [Ids -> {"unborn", "running", "done", "killed"}]
  /\ pc \in [Ids -> Pcs]
  /\ \A s \in Sessions : session[s] # "ready" =>
       mine[s] \in Ids /\ mine[s] < NEXT_ID /\ pc[mine[s]] = "none"
  /\ \A s \in Sessions :
       /\ session[s] = "numbered" => state[mine[s]] = "unborn"
       /\ session[s] = "listed" => state[mine[s]] = "running"
  /\ \A s, r \in Sessions :
       session[s] # "ready" /\ session[r] # "ready" /\ mine[s] = mine[r] => s = r
  /\ \A j \in Ids : j >= NEXT_ID => state[j] = "unborn" /\ pc[j] = "none"
  /\ \A j \in Ids : pc[j] \notin {"none", "gone"} => state[j] = "running"

LEMMA IdsAreNumbers == Ids \subseteq Nat
BY JobsAssumption DEF Ids

LEMMA OwnerInit == Init => OwnerInv
BY IdsAreNumbers DEF Init, OwnerInv, Pcs

\* The steps that leave the owners alone.
LEMMA OwnerSame ==
  ASSUME OwnerInv, UNCHANGED <<NEXT_ID, session, mine, state, pc>>
  PROVE  OwnerInv'
BY DEF OwnerInv

LEMMA TakeIdKeeps ==
  ASSUME OwnerInv, NEW s \in Sessions, TakeId(s)
  PROVE  OwnerInv'
<1>1. /\ NEXT_ID \in Ids /\ NEXT_ID' = NEXT_ID + 1
      /\ session' = [session EXCEPT ![s] = "numbered"]
      /\ mine' = [mine EXCEPT ![s] = NEXT_ID]
      /\ UNCHANGED <<state, pc>>
  BY JobsAssumption DEF TakeId, SessionGoes, thread, OwnerInv, Ids
<1> QED
  BY <1>1, IdsAreNumbers DEF OwnerInv

LEMMA EnterTableKeeps ==
  ASSUME OwnerInv, NEW s \in Sessions, EnterTable(s)
  PROVE  OwnerInv' /\ state[mine[s]] = "unborn" /\ state' = [state EXCEPT ![mine[s]] = "running"]
<1>1. /\ session[s] = "numbered" /\ session' = [session EXCEPT ![s] = "listed"]
      /\ state' = [state EXCEPT ![mine[s]] = "running"]
      /\ UNCHANGED <<NEXT_ID, mine, pc>>
  BY DEF EnterTable, SessionGoes, thread
<1> QED
  BY <1>1, IdsAreNumbers DEF OwnerInv

\* A job that nobody else owns has ended: its state may be anything.
LEMMA SessionLetsGo ==
  ASSUME OwnerInv, NEW s \in Sessions, session[s] = "listed",
         session' = [session EXCEPT ![s] = "ready"],
         UNCHANGED <<NEXT_ID, mine>>,
         \/ pc' = pc /\ \/ state' = state
                        \/ state' = [state EXCEPT ![mine[s]] = "killed"]
         \/ pc' = [pc EXCEPT ![mine[s]] = "start"] /\ state' = state
  PROVE  OwnerInv'
BY IdsAreNumbers DEF OwnerInv, Pcs

LEMMA ThreadGoesOn ==
  ASSUME OwnerInv, NEW j \in Ids, pc[j] \notin {"none", "gone"}, pc' = [pc EXCEPT ![j] = pc'[j]],
         pc'[j] \in Pcs \ {"none", "gone"}, UNCHANGED <<NEXT_ID, session, mine, state>>
  PROVE  OwnerInv'
BY IdsAreNumbers DEF OwnerInv, Pcs

LEMMA ThreadEnds ==
  ASSUME OwnerInv, NEW j \in Ids, pc[j] \notin {"none", "gone"}, pc' = [pc EXCEPT ![j] = "gone"],
         NEW w \in {"killed", "done"}, state' \in {state, [state EXCEPT ![j] = w]},
         UNCHANGED <<NEXT_ID, session, mine>>
  PROVE  OwnerInv'
BY IdsAreNumbers DEF OwnerInv, Pcs

LEMMA OwnerStep ==
  ASSUME OwnerInv, [Next]_vars
  PROVE  OwnerInv'
<1>1. ASSUME NEW s \in Sessions, TakeId(s) PROVE OwnerInv'
  BY <1>1, TakeIdKeeps
<1>2. ASSUME NEW s \in Sessions, EnterTable(s) PROVE OwnerInv'
  BY <1>2, EnterTableKeeps
<1>3. ASSUME NEW s \in Sessions, LogCannotOpen(s) \/ StartThread(s) PROVE OwnerInv'
  <2>1. /\ session[s] = "listed" /\ session' = [session EXCEPT ![s] = "ready"]
        /\ UNCHANGED <<NEXT_ID, mine>>
        /\ \/ pc' = pc /\ \/ state' = state
                          \/ state' = [state EXCEPT ![mine[s]] = "killed"]
           \/ pc' = [pc EXCEPT ![mine[s]] = "start"] /\ state' = state
    BY <1>3 DEF LogCannotOpen, StartThread, SessionGoes, Finish, table, thread
  <2> QED
    BY <2>1, SessionLetsGo
<1>4. ASSUME NEW s \in Sessions, Forget(s) \/ \E j \in Ids : Kill(s, j) PROVE OwnerInv'
  BY <1>4, OwnerSame DEF Forget, Kill, StateAfterKill, table, front, thread
<1>5. CASE Push
  BY <1>5, OwnerSame DEF Push, table, front, thread
<1>6. ASSUME NEW j \in Ids, Run(j) PROVE OwnerInv'
  <2>1. CASE Skip(j)
    BY <2>1, OwnerSame DEF Skip, table, front
  <2>2. CASE EndJob(j)
    <3>1. /\ pc[j] = "finish" /\ pc' = [pc EXCEPT ![j] = "gone"]
          /\ UNCHANGED <<NEXT_ID, session, mine>>
          /\ state' \in {state, [state EXCEPT ![j] = IF killed[j] THEN "killed" ELSE "done"]}
      BY <2>2 DEF EndJob, Goes, Finish, front
    <3>2. (IF killed[j] THEN "killed" ELSE "done") \in {"killed", "done"}
      OBVIOUS
    <3> QED
      BY <3>1, <3>2, ThreadEnds
  <2>3. CASE \/ Header(j) \/ Fetch(j) \/ RecordCall(j) \/ WriteRow(j)
             \/ BatchDone(j) \/ Test(j) \/ ReadStop(j)
    <3>1. UNCHANGED <<NEXT_ID, session, mine, state>>
      BY <2>3 DEF Header, Fetch, RecordCall, WriteRow, BatchDone, Test, ReadStop, table, front
    <3>2. /\ pc[j] \notin {"none", "gone"}
          /\ \E to \in Pcs \ {"none", "gone"} : pc' = [pc EXCEPT ![j] = to]
      BY <2>3 DEF Header, Fetch, RecordCall, WriteRow, BatchDone, Test, ReadStop, Goes, Pcs
    <3>3. pc' = [pc EXCEPT ![j] = pc'[j]] /\ pc'[j] \in Pcs \ {"none", "gone"}
      BY <3>2 DEF OwnerInv
    <3> QED
      BY <3>1, <3>2, <3>3, ThreadGoesOn
  <2> QED
    BY <1>6, <2>1, <2>2, <2>3 DEF Run
<1>7. CASE UNCHANGED vars
  BY <1>7, OwnerSame DEF vars, table, front, thread
<1> QED
  BY <1>1, <1>2, <1>3, <1>4, <1>5, <1>6, <1>7 DEF Next

\* A step that changes the state of a job finds it unborn or running.
LEMMA OutcomeKept ==
  ASSUME OwnerInv, [Next]_vars, NEW j \in Ids, state[j] \in {"done", "killed"}
  PROVE  state'[j] = state[j]
<1>1. ASSUME NEW s \in Sessions, EnterTable(s) PROVE state'[j] = state[j]
  BY <1>1, EnterTableKeeps DEF OwnerInv
<1>2. ASSUME NEW s \in Sessions, LogCannotOpen(s) PROVE state'[j] = state[j]
  BY <1>2 DEF LogCannotOpen, SessionGoes, Finish, OwnerInv
<1>3. ASSUME NEW s \in Sessions,
             \/ TakeId(s) \/ StartThread(s) \/ Forget(s) \/ \E k \in Ids : Kill(s, k)
      PROVE  state'[j] = state[j]
  BY <1>3 DEF TakeId, StartThread, Forget, Kill, StateAfterKill, table
<1>4. ASSUME NEW k \in Ids, EndJob(k) PROVE state'[j] = state[j]
  BY <1>4 DEF EndJob, Goes, Finish, OwnerInv
<1>5. ASSUME NEW k \in Ids, Run(k), ~EndJob(k) PROVE state'[j] = state[j]
  BY <1>5 DEF Run, Header, Fetch, Skip, RecordCall, WriteRow, BatchDone, Test, ReadStop, table
<1>6. CASE Push \/ UNCHANGED vars
  BY <1>6 DEF Push, vars, table
<1> QED
  BY <1>1, <1>2, <1>3, <1>4, <1>5, <1>6 DEF Next

\* Only recording gives out a number; what it evicts is the oldest call of a
\* full tunnel.
LEMMA OldestEvicted ==
  ASSUME TunnelInv, [Next]_vars, next_index' > next_index,
         NEW f \in Fragments, f \notin {buf'[i] : i \in 1..Len(buf')}
  PROVE  Len(buf) = capacity /\ \A g \in Fragments : f.index <= g.index
<1>1. next_index \in Nat
  BY TunnelAssumption DEF TunnelInv
<1>2. PICK j \in Ids : RecordCall(j)
  <2>1. ASSUME ~\E j \in Ids : RecordCall(j) PROVE next_index' = next_index
    BY <2>1 DEF Next, TakeId, EnterTable, LogCannotOpen, StartThread, Kill, Forget, Delete, Clear,
                Push, Run, Header, Fetch, Skip, WriteRow, BatchDone, Test, ReadStop, EndJob,
                vars, tunnelVars
  <2> QED
    BY <2>1, <1>1
<1>3. PICK e : buf' = Append(Room, e)
  BY <1>2 DEF RecordCall, Record
<1>4. PICK p \in 1..Len(buf) : f = buf[p]
  BY DEF Fragments
<1>5. Len(buf) = capacity /\ p = 1
  <2> DEFINE S == [index : Nat, call : Calls]
  <2>1. buf \in Seq(S) /\ Len(buf) \in Nat /\ buf # <<>>
    BY <1>4 DEF TunnelInv
  <2>2. ASSUME Room \in Seq(S), NEW q \in 1..Len(Room), Room[q] = f PROVE FALSE
    <3>1. Len(buf') = Len(Room) + 1 /\ buf'[q] = Room[q] /\ q \in 1..Len(buf')
      BY <1>3, <2>2
    <3> QED
      BY <3>1, <2>2
  <2>3. CASE Len(buf) # capacity
    BY <2>1, <2>2, <2>3, <1>4 DEF Room
  <2>4. CASE Len(buf) = capacity /\ p # 1
    <3>1. /\ Tail(buf) \in Seq(S) /\ Len(Tail(buf)) = Len(buf) - 1
          /\ Tail(buf)[p - 1] = buf[p] /\ p - 1 \in 1..Len(Tail(buf))
      BY <2>1, <2>4, <1>4, TailElements
    <3> QED
      BY <3>1, <2>2, <2>4, <1>4 DEF Room
  <2> QED
    BY <2>3, <2>4
<1>6. \A i \in 1..Len(buf) : buf[1].index <= buf[i].index
  <2>1. \A i \in 1..Len(buf) : buf[i].index \in Nat
    BY TunnelAssumption, <1>1 DEF TunnelInv
  <2>2. 1 \in 1..Len(buf)
    BY <1>4
  <2>3. \A i \in 1..Len(buf) : 1 < i => buf[1].index < buf[i].index
    <3>1. \A k, i \in 1..Len(buf) : k < i => buf[k].index < buf[i].index
      BY DEF TunnelInv
    <3> QED
      BY <2>2, <3>1
  <2>4. ASSUME NEW i \in 1..Len(buf) PROVE buf[1].index <= buf[i].index
    <3>1. buf[i].index \in Nat /\ buf[1].index \in Nat
      BY <2>1, <2>2
    <3>2. i = 1 \/ 1 < i
      OBVIOUS
    <3>3. CASE i = 1
      BY <3>1, <3>3
    <3>4. CASE 1 < i
      <4>1. buf[1].index < buf[i].index
        BY <2>3, <3>4
      <4> QED
        BY <3>1, <4>1
    <3> QED
      BY <3>2, <3>3, <3>4
  <2> QED
    BY <2>4
<1> QED
  BY <1>4, <1>5, <1>6 DEF Fragments

\* Whatever the sessions and the jobs do, the tunnel forgets its oldest call
\* only, for want of room only, and what `jobs` has said of the end of a job
\* it says for good (tunnel.rs, jobs.rs).
THEOREM NothingUndoneEver == Spec => NothingUndone
<1> DEFINE Evicts == next_index' > next_index =>
             \A f \in Fragments : f \notin {buf'[i] : i \in 1..Len(buf')} =>
               Len(buf) = capacity /\ \A g \in Fragments : f.index <= g.index
           Final == \A j \in Ids : state[j] \in {"done", "killed"} => state'[j] = state[j]
<1>1. TunnelInv /\ OwnerInv /\ [Next]_vars => [Evicts]_tunnelVars /\ [Final]_vars
  <2> SUFFICES ASSUME TunnelInv, OwnerInv, [Next]_vars PROVE Evicts /\ Final
    OBVIOUS
  <2>1. Evicts
    BY OldestEvicted
  <2>2. Final
    BY OutcomeKept
  <2> QED
    BY <2>1, <2>2
<1>2. Init => TunnelInv /\ CursorInv /\ OwnerInv
  BY JobsInit, OwnerInit
<1>3. TunnelInv /\ CursorInv /\ OwnerInv /\ [Next]_vars => (TunnelInv /\ CursorInv /\ OwnerInv)'
  BY TunnelStep, CursorStep, OwnerStep
<1> HIDE DEF Evicts, Final
<1>4. Spec => [][Evicts]_tunnelVars /\ [][Final]_vars
  BY <1>1, <1>2, <1>3, PTL DEF Spec
<1> QED
  BY <1>4 DEF NothingUndone, EvictsOldestWhenFull, OutcomeIsFinal, Evicts, Final

-----------------------------------------------------------------------------
(* What jobs print.                                                         *)

JobTypes ==
  /\ NEXT_ID \in 1..(MaxJobs + 1)
  /\ stop \in [Ids -> BOOLEAN] /\ killed \in [Ids -> BOOLEAN]
  /\ mine \in [Sessions -> Ids \union {0}]
  /\ pushed \in 0..MaxEvents /\ matching \subseteq 1..pushed
  /\ cursor \in [Ids -> 0..MaxEvents] /\ upto \in [Ids -> 0..MaxEvents]
  /\ printed \in [Ids -> Nat]

\* A job is entered in the table once, by the session that numbered it.
TableInv ==
  /\ TABLE \in Seq(Ids)
  /\ IsFiniteSet(Listed) /\ Len(TABLE) = Cardinality(Listed)
  /\ \A i \in 1..Len(TABLE) : state[TABLE[i]] # "unborn"

\* A job has printed less than it may until it comes to the test.
CountInv ==
  \A j \in Ids : MaxCount > 0 =>
    /\ printed[j] <= MaxCount
    /\ pc[j] \in {"none", "start", "fetch", "rows", "write"} => printed[j] < MaxCount

\* What a job has recorded is in its log, but for the row it is about to write
\* or was killed before writing; its cursor is past all of it.
Rows(j) == {log[j][i] : i \in 1..Len(log[j])}

LogOf(j) ==
  /\ Rows(j) \subseteq RecordedBy(j)
  /\ RecordedBy(j) \subseteq Rows(j) \cup {row[j]}
  /\ pc[j] \in {"none", "start"} => RecordedBy(j) = {}
  /\ pc[j] \in {"fetch", "rows", "test"} => RecordedBy(j) \subseteq Rows(j)
  /\ pc[j] = "write" => row[j] \in RecordedBy(j)
  /\ \A i \in RecordedBy(j) : CallOf(i).event <= cursor[j]
  /\ \A i, k \in RecordedBy(j) : i < k => CallOf(i).event < CallOf(k).event

LogInv ==
  /\ row \in [Ids -> {0} \union (FIRST_INDEX..(next_index - 1))]
  /\ log \in [Ids -> Seq(FIRST_INDEX..(next_index - 1))]
  /\ \A j \in Ids : LogOf(j)

PrintInv == JobTypes /\ TableInv /\ CountInv /\ LogInv

LEMMA PrintInit == Init => PrintInv
<1> SUFFICES ASSUME Init PROVE PrintInv
  OBVIOUS
<1> USE JobsAssumption DEF Init
<1>1. JobTypes /\ CountInv
  BY IdsAreNumbers DEF JobTypes, CountInv
<1>2. TableInv
  <2>1. Listed = {}
    BY DEF Listed
  <2> QED BY <2>1, FS_EmptySet DEF TableInv
<1>3. LogInv
  <2>1. \A j \in Ids : RecordedBy(j) = {}
    BY TunnelAssumption DEF TunnelInit, RecordedBy
  <2> QED BY <2>1 DEF LogInv, LogOf, Rows, TunnelInit
<1> QED BY <1>1, <1>2, <1>3 DEF PrintInv

LEMMA JobTypesStep ==
  ASSUME JobTypes, OwnerInv, [Next]_vars
  PROVE  JobTypes'
<1> USE JobsAssumption, IdsAreNumbers DEF JobTypes
<1>1. ASSUME NEW s \in Sessions, TakeId(s) PROVE JobTypes'
  BY <1>1 DEF TakeId, ring, thread, Ids
<1>2. ASSUME NEW s \in Sessions, EnterTable(s) \/ LogCannotOpen(s) \/ StartThread(s) \/ Forget(s)
      PROVE  JobTypes'
  BY <1>2 DEF EnterTable, LogCannotOpen, StartThread, Forget, table, front, ring, thread
<1>3. ASSUME NEW s \in Sessions, NEW j \in Ids, Kill(s, j) PROVE JobTypes'
  BY <1>3 DEF Kill, front, ring, thread
<1>4. CASE Push
  BY <1>4 DEF Push, table, front, thread
<1>5. ASSUME NEW j \in Ids, Run(j) PROVE JobTypes'
  <2>1. CASE Header(j) \/ Fetch(j)
    BY <2>1 DEF Header, Fetch, table, front, ring
  <2>2. CASE Skip(j)
    BY <2>2 DEF Skip, table, front, ring
  <2>3. CASE RecordCall(j)
    BY <2>3 DEF RecordCall, CursorMoves, table, front, ring
  <2>4. CASE WriteRow(j)
    BY <2>4 DEF WriteRow, table, front, ring
  <2>5. CASE BatchDone(j) \/ Test(j) \/ ReadStop(j) \/ EndJob(j)
    BY <2>5 DEF BatchDone, Test, ReadStop, EndJob, table, front, ring
  <2> QED BY <1>5, <2>1, <2>2, <2>3, <2>4, <2>5 DEF Run
<1>6. CASE UNCHANGED vars
  BY <1>6 DEF vars, table, front, ring, thread
<1> QED BY <1>1, <1>2, <1>3, <1>4, <1>5, <1>6 DEF Next

\* A state once it has left "unborn" never comes back to it.
LEMMA BornForGood ==
  ASSUME OwnerInv, [Next]_vars, NEW j \in Ids, state[j] # "unborn"
  PROVE  state'[j] # "unborn"
<1>1. ASSUME NEW s \in Sessions, TakeId(s) \/ EnterTable(s) \/ LogCannotOpen(s) \/ StartThread(s)
      PROVE  state'[j] # "unborn"
  BY <1>1 DEF TakeId, EnterTable, LogCannotOpen, StartThread, Finish, table, OwnerInv
<1>2. ASSUME NEW s \in Sessions, Forget(s) \/ \E k \in Ids : Kill(s, k)
      PROVE  state'[j] # "unborn"
  BY <1>2 DEF Forget, Kill, StateAfterKill, table
<1>3. ASSUME NEW k \in Ids, EndJob(k) PROVE state'[j] # "unborn"
  BY <1>3 DEF EndJob, Finish, OwnerInv
<1>4. ASSUME NEW k \in Ids, Run(k), ~EndJob(k) PROVE state'[j] # "unborn"
  BY <1>4 DEF Run, Header, Fetch, Skip, RecordCall, WriteRow, BatchDone, Test, ReadStop, table
<1>5. CASE Push \/ UNCHANGED vars
  BY <1>5 DEF Push, vars, table
<1> QED BY <1>1, <1>2, <1>3, <1>4, <1>5 DEF Next

LEMMA TableStep ==
  ASSUME TableInv, OwnerInv, [Next]_vars
  PROVE  TableInv'
<1>1. ASSUME NEW s \in Sessions, EnterTable(s) PROVE TableInv'
  <2> DEFINE j == mine[s]
  <2>1. j \in Ids /\ state[j] = "unborn" /\ TABLE' = Append(TABLE, j)
    BY <1>1 DEF EnterTable, SessionGoes, OwnerInv
  <2>2. state' = [state EXCEPT ![j] = "running"]
    BY <1>1 DEF EnterTable
  <2> HIDE DEF j
  <2>3. /\ TABLE' \in Seq(Ids) /\ Len(TABLE') = Len(TABLE) + 1
        /\ \A i \in 1..Len(TABLE) : TABLE'[i] = TABLE[i]
        /\ TABLE'[Len(TABLE) + 1] = j
    BY <2>1 DEF TableInv
  <2>4. Listed' = Listed \cup {j}
    <3>1. \A i \in 1..Len(TABLE') : i \in 1..Len(TABLE) \/ i = Len(TABLE) + 1
      BY <2>3 DEF TableInv
    <3>2. Listed' \subseteq Listed \cup {j}
      BY <2>3, <3>1 DEF Listed
    <3>3. Listed \cup {j} \subseteq Listed'
      <4>1. \A i \in 1..Len(TABLE') : TABLE'[i] \in Listed'
        BY DEF Listed
      <4>2. Len(TABLE) \in Nat
        BY DEF TableInv
      <4>3. \A i \in 1..Len(TABLE) : TABLE[i] \in Listed'
        BY <2>3, <4>1, <4>2
      <4>4. j \in Listed'
        BY <2>3, <4>1, <4>2
      <4> QED BY <4>3, <4>4 DEF Listed
    <3> QED BY <3>2, <3>3
  <2>5. j \notin Listed
    BY <2>1 DEF Listed, TableInv
  <2>6. IsFiniteSet(Listed') /\ Cardinality(Listed') = Cardinality(Listed) + 1
    BY <2>4, <2>5, FS_AddElement DEF TableInv
  <2>7. ASSUME NEW i \in 1..Len(TABLE') PROVE state'[TABLE'[i]] # "unborn"
    <3>1. CASE i \in 1..Len(TABLE)
      <4>1. TABLE[i] \in Ids /\ state[TABLE[i]] # "unborn"
        BY <3>1 DEF TableInv
      <4> QED BY <2>2, <2>3, <3>1, <4>1 DEF OwnerInv
    <3>2. CASE i = Len(TABLE) + 1
      BY <2>1, <2>2, <2>3, <3>2 DEF OwnerInv
    <3> QED BY <2>3, <3>1, <3>2 DEF TableInv
  <2> QED BY <2>3, <2>6, <2>7 DEF TableInv
<1>2. CASE ~\E s \in Sessions : EnterTable(s)
  <2>1. TABLE' = TABLE
    BY <1>2 DEF Next, TakeId, LogCannotOpen, StartThread, Kill, Forget, Push, Run, Header, Fetch, Skip,
                RecordCall, WriteRow, BatchDone, Test, ReadStop, EndJob, vars, table
  <2>2. Listed' = Listed
    BY <2>1 DEF Listed
  <2>3. \A i \in 1..Len(TABLE) : state'[TABLE[i]] # "unborn"
    <3>1. \A i \in 1..Len(TABLE) : TABLE[i] \in Ids
      BY DEF TableInv
    <3> QED BY <3>1, BornForGood DEF TableInv
  <2> QED BY <2>1, <2>2, <2>3 DEF TableInv
<1> QED BY <1>1, <1>2

LEMMA CountStep ==
  ASSUME CountInv, JobTypes, OwnerInv, [Next]_vars
  PROVE  CountInv'
<1> USE JobsAssumption DEF CountInv, JobTypes, OwnerInv
<1>1. CASE UNCHANGED <<printed, pc>>
  BY <1>1
<1>2. ASSUME NEW s \in Sessions, StartThread(s) PROVE CountInv'
  BY <1>2 DEF StartThread, SessionGoes
<1>3. ASSUME NEW j \in Ids, WriteRow(j) PROVE CountInv'
  BY <1>3 DEF WriteRow, Goes, Enough
<1>4. ASSUME NEW j \in Ids, Header(j) \/ Fetch(j) \/ RecordCall(j) \/ BatchDone(j) \/ Test(j)
                            \/ ReadStop(j) \/ EndJob(j)
      PROVE  CountInv'
  BY <1>4 DEF Header, Fetch, RecordCall, BatchDone, Test, ReadStop, EndJob, Goes, Enough
<1>5. UNCHANGED <<printed, pc>>
      \/ (\E s \in Sessions : StartThread(s))
      \/ \E j \in Ids : Run(j) /\ ~Skip(j)
  BY DEF Next, TakeId, EnterTable, LogCannotOpen, Kill, Forget, Push, Run, Skip, vars, thread
<1> QED BY <1>1, <1>2, <1>3, <1>4, <1>5 DEF Run

\* The calls recorded so far are those of before while nothing is recorded.
LEMMA RecordedSame ==
  ASSUME UNCHANGED <<next_index, made>>
  PROVE  /\ \A j \in Ids : RecordedBy(j)' = RecordedBy(j)
         /\ \A i : CallOf(i)' = CallOf(i)
BY DEF RecordedBy, CallOf

\* Recording adds the number it gives out to what that job has recorded.
LEMMA RecordedGrows ==
  ASSUME TunnelInv, NEW call \in Calls, Record(call), NEW n, n = next_index
  PROVE  /\ n \in FIRST_INDEX..(next_index' - 1) /\ next_index' = next_index + 1
         /\ CallOf(n)' = call
         /\ \A i \in FIRST_INDEX..(next_index - 1) : CallOf(i)' = CallOf(i)
         /\ \A j : RecordedBy(j)' = IF j = call.job THEN RecordedBy(j) \cup {n} ELSE RecordedBy(j)
<1> USE TunnelAssumption
<1>1. /\ made \in Seq(Calls) /\ made' = Append(made, call)
      /\ n = FIRST_INDEX + Len(made) /\ next_index' = n + 1
      /\ Len(made) \in Nat /\ n \in Nat /\ FIRST_INDEX \in Nat
  BY DEF TunnelInv, Record
<1>2. /\ \A k \in 1..Len(made) : made'[k] = made[k]
      /\ made'[Len(made) + 1] = call
  BY <1>1
<1>3. CallOf(n)' = call
  <2>1. n - FIRST_INDEX + 1 = Len(made) + 1
    BY <1>1
  <2> QED BY <1>2, <2>1 DEF CallOf
<1>4. ASSUME NEW i \in FIRST_INDEX..(n - 1) PROVE CallOf(i)' = CallOf(i)
  <2>1. i - FIRST_INDEX + 1 \in 1..Len(made)
    BY <1>1
  <2> QED BY <1>2, <2>1 DEF CallOf
<1>5. n \in FIRST_INDEX..(next_index' - 1)
      /\ FIRST_INDEX..(next_index' - 1) = FIRST_INDEX..(n - 1) \cup {n}
  BY <1>1
<1>6. ASSUME NEW j PROVE RecordedBy(j)' = IF j = call.job THEN RecordedBy(j) \cup {n}
                                          ELSE RecordedBy(j)
  BY <1>3, <1>4, <1>5 DEF RecordedBy
<1> QED BY <1>1, <1>3, <1>4, <1>5, <1>6

\* What a job other than the one that moves has printed stays as it is.
LEMMA LogUntouched ==
  ASSUME NEW j \in Ids, LogOf(j), RecordedBy(j)' = RecordedBy(j),
         \A i \in RecordedBy(j) : CallOf(i)' = CallOf(i),
         pc'[j] = pc[j], log'[j] = log[j], row'[j] = row[j], cursor'[j] = cursor[j]
  PROVE  LogOf(j)'
BY DEF LogOf, Rows

LEMMA RecordedAreCalls ==
  ASSUME TunnelInv, NEW j, NEW i \in RecordedBy(j)
  PROVE  i \in FIRST_INDEX..(next_index - 1) /\ CallOf(i).event \in Nat
<1>1. i - FIRST_INDEX + 1 \in 1..Len(made)
  BY TunnelAssumption DEF TunnelInv, RecordedBy
<1>2. CallOf(i) \in Calls
  BY <1>1 DEF CallOf, TunnelInv
<1> QED BY <1>2 DEF Calls, RecordedBy

\* A job's thread that neither records nor writes.
LEMMA LogKept ==
  ASSUME LogInv, TunnelInv, JobTypes, NEW j \in Ids,
         UNCHANGED <<next_index, made, row, log>>,
         \/ pc'[j] = pc[j]
         \/ pc[j] = "none" /\ pc'[j] = "start"
         \/ pc[j] = "start" /\ pc'[j] \in {"fetch", "ending"}
         \/ pc[j] \in {"fetch", "rows", "test"} /\ pc'[j] \in {"fetch", "rows", "test", "ending"}
         \/ pc[j] \in {"ending", "finish"} /\ pc'[j] \in {"finish", "gone"},
         cursor'[j] \in Nat,
         cursor'[j] >= cursor[j] \/ pc[j] = "start"
  PROVE  LogOf(j)'
<1>1. /\ RecordedBy(j)' = RecordedBy(j) /\ Rows(j)' = Rows(j)
      /\ \A i : CallOf(i)' = CallOf(i)
  BY RecordedSame DEF Rows
<1>2. LogOf(j)
  BY DEF LogInv
<1>3. ASSUME NEW i \in RecordedBy(j) PROVE CallOf(i).event <= cursor'[j]
  <2>1. /\ CallOf(i).event \in Nat /\ CallOf(i).event <= cursor[j] /\ cursor[j] \in Nat
        /\ pc[j] # "start"
    BY <1>2, RecordedAreCalls, JobsAssumption DEF LogOf, JobTypes
  <2> QED BY <2>1
<1> QED BY <1>1, <1>2, <1>3 DEF LogOf

LEMMA RecordCallLog ==
  ASSUME LogInv, TunnelInv, JobTypes, OwnerInv, NEW j \in Ids, RecordCall(j)
  PROVE  LogInv'
<1> DEFINE call == [job |-> j, event |-> cursor[j] + 1]
           n == next_index
<1>1. /\ pc[j] = "rows" /\ pc' = [pc EXCEPT ![j] = "write"]
      /\ row' = [row EXCEPT ![j] = n] /\ cursor' = [cursor EXCEPT ![j] = cursor[j] + 1]
      /\ Record(call) /\ UNCHANGED log
  BY DEF RecordCall, Goes, Index, CursorMoves
<1>2. call \in Calls /\ call.job = j /\ call.event = cursor[j] + 1 /\ cursor[j] \in Nat
  BY IdsAreNumbers, JobsAssumption DEF JobTypes, Calls
<1>3. next_index \in Nat /\ FIRST_INDEX \in Nat /\ FIRST_INDEX <= next_index
  BY TunnelAssumption DEF TunnelInv
<1> HIDE DEF call
<1>4. PICK m : m = next_index
  OBVIOUS
<1>5. /\ m \in FIRST_INDEX..(next_index' - 1) /\ next_index' = next_index + 1
      /\ CallOf(m)' = call
      /\ \A i \in FIRST_INDEX..(next_index - 1) : CallOf(i)' = CallOf(i)
      /\ RecordedBy(j)' = RecordedBy(j) \cup {m}
      /\ \A k : k # j => RecordedBy(k)' = RecordedBy(k)
  BY <1>1, <1>2, <1>4, RecordedGrows
<1>6. FIRST_INDEX..(next_index - 1) \subseteq FIRST_INDEX..(next_index' - 1)
  BY <1>3, <1>5
<1>7. row' \in [Ids -> {0} \union (FIRST_INDEX..(next_index' - 1))]
  BY <1>1, <1>4, <1>5, <1>6 DEF LogInv
<1>8. log' \in [Ids -> Seq(FIRST_INDEX..(next_index' - 1))]
  <2>1. \A k \in Ids : log[k] \in Seq(FIRST_INDEX..(next_index' - 1))
    <3> DEFINE S == FIRST_INDEX..(next_index - 1)
               T == FIRST_INDEX..(next_index' - 1)
    <3>1. log \in [Ids -> Seq(S)] /\ S \subseteq T
      BY <1>6 DEF LogInv
    <3> HIDE DEF S, T
    <3>2. \A k \in Ids : log[k] \in Seq(T)
      BY <3>1
    <3> QED BY <3>2 DEF T
  <2> QED BY <1>1, <2>1 DEF LogInv
<1>9. ASSUME NEW k \in Ids, k # j PROVE LogOf(k)'
  <2>1. /\ pc'[k] = pc[k] /\ log'[k] = log[k] /\ row'[k] = row[k] /\ cursor'[k] = cursor[k]
        /\ RecordedBy(k)' = RecordedBy(k) /\ LogOf(k)
    BY <1>1, <1>5, <1>9 DEF LogInv, OwnerInv, JobTypes
  <2>2. \A i \in RecordedBy(k) : CallOf(i)' = CallOf(i)
    BY <1>5 DEF RecordedBy
  <2> QED BY <2>1, <2>2, LogUntouched
<1>10. LogOf(j)'
  <2>1. LogOf(j)
    BY DEF LogInv
  <2>2. /\ pc'[j] = "write" /\ row'[j] = m /\ cursor'[j] = cursor[j] + 1 /\ Rows(j)' = Rows(j)
    BY <1>1, <1>4 DEF OwnerInv, LogInv, JobTypes, Rows
  <2>3. RecordedBy(j) \subseteq Rows(j)
    BY <1>1, <2>1 DEF LogOf
  <2>4. ASSUME NEW i \in RecordedBy(j)
        PROVE  /\ CallOf(i)' = CallOf(i) /\ i < m
               /\ CallOf(i).event \in Nat /\ CallOf(i).event <= cursor[j]
    BY <1>3, <1>4, <1>5, <2>1, RecordedAreCalls DEF LogOf
  <2>5. CallOf(m)'.event = cursor[j] + 1
    BY <1>2, <1>5
  <2>6. \A i \in RecordedBy(j)' : CallOf(i)'.event <= cursor'[j]
    BY <1>2, <1>5, <2>2, <2>4, <2>5
  <2>7. m \in Nat
    BY <1>3, <1>4
  <2>8. ASSUME NEW i \in RecordedBy(j)', NEW k \in RecordedBy(j)', i < k
        PROVE  CallOf(i)'.event < CallOf(k)'.event
    <3>1. i \in RecordedBy(j)
      <4>1. CASE i = m
        <5>1. k \in RecordedBy(j) => k < i
          BY <2>4, <4>1
        <5>2. k \in Nat
          BY <1>3, <1>4, <1>5, <2>7 DEF RecordedBy
        <5> QED BY <1>5, <2>7, <2>8, <4>1, <5>1, <5>2
      <4> QED BY <1>5, <4>1
    <3>2. CASE k = m
      BY <1>2, <2>4, <2>5, <3>1, <3>2
    <3>3. CASE k \in RecordedBy(j)
      BY <2>1, <2>4, <2>8, <3>1, <3>3 DEF LogOf
    <3> QED BY <1>5, <3>2, <3>3
  <2> QED BY <1>5, <2>1, <2>2, <2>3, <2>6, <2>8 DEF LogOf
<1> QED BY <1>7, <1>8, <1>9, <1>10 DEF LogInv

LEMMA WriteRowLog ==
  ASSUME LogInv, TunnelInv, JobTypes, OwnerInv, NEW j \in Ids, WriteRow(j)
  PROVE  LogInv'
<1> DEFINE S == FIRST_INDEX..(next_index - 1)
<1>1. /\ pc[j] = "write" /\ pc' = [pc EXCEPT ![j] = pc'[j]]
      /\ UNCHANGED <<next_index, made, row, cursor>>
      /\ \/ pc'[j] = "ending" /\ log' = log
         \/ pc'[j] \in {"test", "rows"} /\ log' = [log EXCEPT ![j] = Append(log[j], row[j])]
  BY DEF WriteRow, Goes, tunnelVars, OwnerInv
<1>2. /\ \A k \in Ids : RecordedBy(k)' = RecordedBy(k)
      /\ \A i : CallOf(i)' = CallOf(i)
  BY <1>1, RecordedSame
<1>3. LogOf(j) /\ row[j] \in RecordedBy(j) /\ row[j] \in S
  BY <1>1 DEF LogInv, LogOf, RecordedBy
<1>4. /\ log[j] \in Seq(S) /\ Append(log[j], row[j]) \in Seq(S)
      /\ Len(Append(log[j], row[j])) = Len(log[j]) + 1 /\ Len(log[j]) \in Nat
      /\ \A i \in 1..Len(log[j]) : Append(log[j], row[j])[i] = log[j][i]
      /\ Append(log[j], row[j])[Len(log[j]) + 1] = row[j]
  <2>1. log[j] \in Seq(S)
    BY DEF LogInv
  <2> HIDE DEF S
  <2> QED BY <1>3, <2>1
<1>5. row' \in [Ids -> {0} \union S'] /\ log' \in [Ids -> Seq(S')] /\ S' = S
  <2>1. S' = S /\ log \in [Ids -> Seq(S)] /\ row \in [Ids -> {0} \union S]
    BY <1>1 DEF LogInv
  <2> HIDE DEF S
  <2> QED BY <1>1, <1>4, <2>1
<1>6. ASSUME NEW k \in Ids, k # j PROVE LogOf(k)'
  <2>1. /\ pc'[k] = pc[k] /\ log'[k] = log[k] /\ row'[k] = row[k] /\ cursor'[k] = cursor[k]
        /\ LogOf(k)
    BY <1>1, <1>6 DEF LogInv, OwnerInv
  <2> QED BY <1>2, <2>1, LogUntouched
<1>7. LogOf(j)'
  <2>1. CASE pc'[j] = "ending" /\ log' = log
    BY <1>1, <1>2, <1>3, <2>1 DEF LogOf, Rows
  <2>2. CASE pc'[j] \in {"test", "rows"} /\ log' = [log EXCEPT ![j] = Append(log[j], row[j])]
    <3>1. log'[j] = Append(log[j], row[j])
      BY <2>2 DEF LogInv
    <3>2. Rows(j)' = Rows(j) \cup {row[j]}
      <4>1. Len(log'[j]) = Len(log[j]) + 1 /\ log'[j][Len(log[j]) + 1] = row[j]
            /\ \A i \in 1..Len(log[j]) : log'[j][i] = log[j][i]
        BY <1>4, <3>1
      <4>2. \A i \in 1..Len(log'[j]) : log'[j][i] \in Rows(j) \cup {row[j]}
        BY <1>4, <4>1 DEF Rows
      <4>3. \A i \in 1..Len(log[j]) : log[j][i] \in Rows(j)'
        BY <1>4, <4>1 DEF Rows
      <4>4. row[j] \in Rows(j)'
        BY <1>4, <4>1 DEF Rows
      <4> QED BY <4>2, <4>3, <4>4 DEF Rows
    <3> QED BY <1>1, <1>2, <1>3, <2>2, <3>2 DEF LogOf
  <2> QED BY <1>1, <2>1, <2>2
<1> QED BY <1>5, <1>6, <1>7 DEF LogInv

LEMMA LogStep ==
  ASSUME LogInv, TunnelInv, JobTypes, OwnerInv, [Next]_vars
  PROVE  LogInv'
<1>1. ASSUME NEW j \in Ids, RecordCall(j) PROVE LogInv'
  BY <1>1, RecordCallLog
<1>2. ASSUME NEW j \in Ids, WriteRow(j) PROVE LogInv'
  BY <1>2, WriteRowLog
<1>3. CASE ~\E j \in Ids : RecordCall(j) \/ WriteRow(j)
  <2>1. UNCHANGED <<next_index, made, row, log>>
    BY <1>3 DEF Next, TakeId, EnterTable, LogCannotOpen, StartThread, Kill, Forget, Delete, Clear, Push,
                Run, Header, Fetch, Skip, BatchDone, Test, ReadStop, EndJob, vars, tunnelVars, thread
  <2>2. ASSUME NEW j \in Ids PROVE LogOf(j)'
    <3> USE JobsAssumption DEF JobTypes, OwnerInv
    <3>1. CASE UNCHANGED <<pc, cursor>>
      BY <2>1, <3>1, LogKept
    <3>2. ASSUME NEW s \in Sessions, StartThread(s) PROVE LogOf(j)'
      <4>1. cursor' = cursor /\ (pc'[j] = pc[j] \/ (pc[j] = "none" /\ pc'[j] = "start"))
        BY <3>2 DEF StartThread, SessionGoes
      <4> QED BY <2>1, <4>1, LogKept
    <3>3. ASSUME NEW k \in Ids, Header(k) PROVE LogOf(j)'
      <4>1. /\ cursor'[j] \in Nat
            /\ \/ pc'[j] = pc[j] /\ cursor'[j] = cursor[j]
               \/ pc[j] = "start" /\ pc'[j] \in {"fetch", "ending"}
        BY <3>3 DEF Header, Goes
      <4>2. cursor[j] \in Nat
        OBVIOUS
      <4> QED BY <2>1, <4>1, <4>2, LogKept
    <3>4. ASSUME NEW k \in Ids, Skip(k) PROVE LogOf(j)'
      <4>1. cursor'[j] \in Nat /\ cursor'[j] >= cursor[j] /\ pc'[j] = pc[j]
        BY <3>4 DEF Skip
      <4> QED BY <2>1, <4>1, LogKept
    <3>5. ASSUME NEW k \in Ids, Fetch(k) \/ BatchDone(k) \/ Test(k) \/ ReadStop(k) \/ EndJob(k)
          PROVE  LogOf(j)'
      <4>1. /\ cursor' = cursor
            /\ \/ pc'[j] = pc[j]
               \/ pc[j] \in {"fetch", "rows", "test"} /\ pc'[j] \in {"fetch", "rows", "test", "ending"}
               \/ pc[j] \in {"ending", "finish"} /\ pc'[j] \in {"finish", "gone"}
        BY <3>5 DEF Fetch, BatchDone, Test, ReadStop, EndJob, Goes
      <4> QED BY <2>1, <4>1, LogKept
    <3>6. \/ UNCHANGED <<pc, cursor>>
          \/ \E s \in Sessions : StartThread(s)
          \/ \E k \in Ids : \/ Header(k) \/ Skip(k) \/ Fetch(k) \/ BatchDone(k)
                            \/ Test(k) \/ ReadStop(k) \/ EndJob(k)
      BY <1>3 DEF Next, TakeId, EnterTable, LogCannotOpen, Kill, Forget, Push, Run, vars, thread
    <3> QED BY <3>1, <3>2, <3>3, <3>4, <3>5, <3>6
  <2>3. row' \in [Ids -> {0} \union (FIRST_INDEX..(next_index' - 1))]
        /\ log' \in [Ids -> Seq(FIRST_INDEX..(next_index' - 1))]
    BY <2>1 DEF LogInv
  <2> QED BY <2>2, <2>3 DEF LogInv
<1> QED BY <1>1, <1>2, <1>3

\* A set with at most one element.
LEMMA AtMostOne ==
  ASSUME NEW S, NEW x, S \subseteq {x}
  PROVE  Cardinality(S) <= 1
<1>1. CASE S = {}
  BY <1>1, FS_EmptySet
<1>2. CASE S = {x}
  BY <1>2, FS_Singleton
<1> QED BY <1>1, <1>2

LEMMA LogsFromInv == TunnelInv /\ OwnerInv /\ PrintInv => LogsHold
<1> SUFFICES ASSUME TunnelInv, OwnerInv, PrintInv PROVE LogsHold
  OBVIOUS
<1>1. TunnelTypeOK
  BY DEF TunnelInv, TunnelTypeOK, Fragments
<1>2. Listed \subseteq Ids
  <2>1. \A i \in 1..Len(TABLE) : TABLE[i] \in Ids
    BY DEF PrintInv, TableInv
  <2> QED BY <2>1 DEF Listed
<1>3. TypeOK
  BY <1>1, <1>2 DEF PrintInv, JobTypes, TableInv, LogInv, OwnerInv, Pcs, TypeOK
<1>4. CountRespected
  BY DEF PrintInv, CountInv, CountRespected
<1>5. LogMatchesTunnel
  <2>1. ASSUME NEW j \in Ids
        PROVE  /\ Rows(j) \subseteq RecordedBy(j)
               /\ Cardinality(RecordedBy(j) \ Rows(j)) <= 1
               /\ \A i, k \in RecordedBy(j) : i < k => CallOf(i).event < CallOf(k).event
    <3>1. LogOf(j)
      BY DEF PrintInv, LogInv
    <3>2. RecordedBy(j) \ Rows(j) \subseteq {row[j]}
      BY <3>1 DEF LogOf
    <3> QED BY <3>1, <3>2, AtMostOne DEF LogOf
  <2> QED BY <2>1 DEF LogMatchesTunnel, Rows
<1> QED BY <1>3, <1>4, <1>5 DEF LogsHold

\* Whatever the sessions and the jobs do, each row of a job's log is the number
\* of a call that very job recorded, at most one call it recorded is missing
\* there, it records calls in the order of the events and each once, and no job
\* prints more rows than its --count (cmd_tt_record, StopWrite, jobs.rs).
THEOREM JobLogsHold == Spec => []LogsHold
<1>1. Init => TunnelInv /\ CursorInv /\ OwnerInv /\ PrintInv
  BY JobsInit, OwnerInit, PrintInit
<1>2. TunnelInv /\ CursorInv /\ OwnerInv /\ PrintInv /\ [Next]_vars
        => (TunnelInv /\ CursorInv /\ OwnerInv /\ PrintInv)'
  BY TunnelStep, CursorStep, OwnerStep, JobTypesStep, TableStep, CountStep, LogStep DEF PrintInv
<1> QED BY <1>1, <1>2, LogsFromInv, PTL DEF Spec
=============================================================================
